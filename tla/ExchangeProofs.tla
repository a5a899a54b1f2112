--------------------------- MODULE ExchangeProofs ---------------------------
(***************************************************************************)
(* Proofs about Exchange.tla, for any clients, users, requests and         *)
(* connections, however the bytes come in pieces and wherever calls fail.  *)
(***************************************************************************)
EXTENDS Exchange, FiniteSetTheorems, NaturalsInduction, WellFoundedInduction,
        SequenceTheorems, TLAPS

IdType == 0..2047
UserType == [id : IdType, pseudo : Byte]
NoRequest == [type |-> 0]
RequestType ==
  [type : {REGISTRATION}, id : IdType, pseudo : Byte]
  \cup [type : (0..31) \ {REGISTRATION}, id : IdType, feed : Uint16, count : Uint16,
        len : Byte, data : Seq(Byte)]
HeadType == [type : 0..31, id : IdType, feed : Uint16, count : Uint16, addr : Byte]
PostType == [feed : Uint16, creator : Byte, pseudo : Byte, len : Byte,
             data : Seq(Byte)]
AnswerType == {Nobody} \cup [head : HeadType, posts : Seq(PostType)]
ConnType == [who : Clients, asked : RequestType, in : Seq(Byte), out : Seq(Byte),
             open : SUBSET {"client", "server"}, answer : AnswerType,
             dropped : BOOLEAN]
LoopType == [pc : {"poll", "accept", "recv", "send"}, ready : SUBSET (0..Len(fds)),
             slot : 0..Len(fds), rq : RequestType \cup {NoRequest},
             out : Seq(Seq(Byte))]
ClientType == [pc : {"menu", "send", "recv", "show", "add", "fail", "ended"},
               user : IdType, conn : {0} \cup DOMAIN conns, got : AnswerType]
AddingType == [user : UserType, place : 0..(IdMax + 1), half : BOOLEAN]

-----------------------------------------------------------------------------
(* The inductive invariant behind TypeOK *)

ConnsTyped == /\ conns \in Seq(ConnType \cup {Closed}) /\ Len(conns) <= MaxConns
              /\ backlog \in Seq(DOMAIN conns)
              /\ at \in [Fds -> {0} \cup DOMAIN conns]
ServerTyped == /\ server \in {"serving", "stopped", "dead"} /\ calm \in BOOLEAN
               /\ fds \in Seq({-1} \cup Fds) /\ infos \in [Fds -> Seq(Byte)]
               /\ loop \in LoopType
               /\ loop.pc # "poll" => server = "serving"
ClientsTyped == /\ client \in [Clients -> ClientType]
                /\ rest \in [Clients -> Seq(Byte)] /\ murky \subseteq Clients
AccountsTyped == /\ accounts \in [1..IdMax -> UserType]
                 /\ adding \in [Clients -> AddingType]

(* A descriptor is in one slot, as long as it stands for a connection; the *)
(* slots that are still to be served in this round are not given up.  The  *)
(* loop may have ended when it closed a descriptor that is in a slot.      *)
SlotsOpen ==
  /\ server # "stopped" => \A i \in DOMAIN fds : fds[i] # -1 => at[fds[i]] # 0
  /\ server = "stopped" => \E fd \in Fds \cup {-1} : \A i \in DOMAIN fds :
       fds[i] # -1 => (at[fds[i]] = 0 <=> fds[i] = fd)
  /\ \A fd \in Fds : at[fd] # 0 => \E i \in DOMAIN fds : fds[i] = fd
  /\ \A i, j \in DOMAIN fds : fds[i] = fds[j] /\ fds[i] # -1 => i = j
  /\ \A i \in loop.ready : i # 0 => fds[i] # -1
  /\ loop.pc \in {"recv", "send"} =>
       loop.slot \in DOMAIN fds /\ Fd # -1 /\ loop.slot \notin loop.ready

(* A connection waits to be accepted or has one descriptor.                *)
OneEach ==
  /\ \A fd, gd \in Fds : at[fd] = at[gd] /\ at[fd] # 0 => fd = gd
  /\ \A i, j \in DOMAIN backlog : backlog[i] = backlog[j] => i = j
  /\ \A i \in DOMAIN backlog : \A fd \in Fds : at[fd] # backlog[i]

ServerHolds ==
  server # "dead" =>
    /\ \A i \in DOMAIN backlog : "server" \in conns[backlog[i]].open
    /\ \A fd \in Fds : at[fd] # 0 => "server" \in conns[at[fd]].open
ClientHolds ==
  \A c \in Clients :
    /\ client[c].conn # 0 => Conn(c).who = c /\ "client" \in Conn(c).open
    /\ client[c].pc \in {"send", "recv", "show", "add", "fail"} =>
         client[c].conn # 0

TypeInv == /\ ConnsTyped /\ ServerTyped /\ ClientsTyped /\ AccountsTyped
           /\ SlotsOpen /\ OneEach /\ ServerHolds /\ ClientHolds

-----------------------------------------------------------------------------
(* Bytes *)

LEMMA LeastNumber ==
  ASSUME NEW T, T \subseteq Nat, T # {}
  PROVE  Min(T) \in T /\ \A n \in T : Min(T) <= n
<1> DEFINE Before == {ss \in Nat \X Nat : ss[1] < ss[2]}
<1>1. IsWellFoundedOn(Before, Nat)
  BY NatLessThanWellFounded DEF OpToRel
<1>2. PICK m \in T : \A n \in T : ~ (<<n, m>> \in Before)
  BY <1>1, WFMin
<1>3. \A n \in T : m <= n
  <2> SUFFICES ASSUME NEW n \in T PROVE m <= n
    OBVIOUS
  <2>1. n \in Nat /\ m \in Nat /\ ~ (n < m)
    BY <1>2
  <2> QED
    BY <2>1
<1> QED
  BY <1>2, <1>3 DEF Min

LEMMA NatUint16 ==
  \A n \in Uint16 : n \in Nat /\ n < 65536
<1> DEFINE m == 65535
<1>1. Uint16 = 0..m /\ m \in Int
  BY DEF Uint16
<1>2. m < 65536
  OBVIOUS
<1> HIDE DEF m
<1>3. \A n \in 0..m : n \in Nat /\ n <= m
  BY <1>1
<1>4. \A n \in Nat : n <= m => n < 65536
  BY <1>1, <1>2
<1> QED
  BY <1>1, <1>3, <1>4

LEMMA Divided ==
  ASSUME NEW n \in Nat
  PROVE  /\ n \div 256 \in Nat /\ n % 256 \in 0..255
         /\ n = 256 * (n \div 256) + (n % 256)
         /\ n \div 32 \in Nat /\ n % 32 \in 0..31
         /\ n = 32 * (n \div 32) + (n % 32)
<1>1. n \div 256 \in Nat /\ n \div 32 \in Nat
  OBVIOUS
<1>2. n % 256 \in 0..255
  OBVIOUS
<1>3. n % 32 \in 0..31
  OBVIOUS
<1>4. n = 256 * (n \div 256) + (n % 256)
  OBVIOUS
<1>5. n = 32 * (n \div 32) + (n % 32)
  OBVIOUS
<1> QED
  BY <1>1, <1>2, <1>3, <1>4, <1>5

LEMMA HighByte ==
  ASSUME NEW n \in Uint16
  PROVE  n \div 256 \in Byte /\ n \div 32 \in IdType
<1>1. n \in Nat /\ n < 65536
  BY NatUint16
<1> DEFINE q == n \div 256
           r == n % 256
           p == n \div 32
           s == n % 32
<1>2. q \in Nat /\ r \in 0..255 /\ n = 256 * q + r
  BY <1>1, Divided
<1>3. p \in Nat /\ s \in 0..31 /\ n = 32 * p + s
  BY <1>1, Divided
<1> HIDE DEF q, r, p, s
<1>4. q \in Byte
  BY <1>1, <1>2 DEF Byte
<1>5. p \in IdType
  BY <1>1, <1>3 DEF IdType
<1> QED
  BY <1>4, <1>5 DEF q, p

LEMMA LowByte ==
  ASSUME NEW n \in Uint16
  PROVE  /\ n % 256 \in Byte /\ 256 * (n \div 256) + (n % 256) = n
         /\ n % 32 \in 0..31
<1>1. n \in Nat
  BY NatUint16
<1> DEFINE q == n \div 256
           r == n % 256
<1>2. q \in Nat /\ r \in 0..255 /\ n = 256 * q + r /\ n % 32 \in 0..31
  BY <1>1, Divided
<1> HIDE DEF q, r
<1>3. r \in Byte /\ 256 * q + r = n
  BY <1>2 DEF Byte
<1> QED
  BY <1>2, <1>3 DEF q, r

LEMMA WordBytes ==
  ASSUME NEW n \in Uint16
  PROVE  /\ Word(n) \in Seq(Byte) /\ Len(Word(n)) = 2
         /\ Word(n)[1] \in Byte /\ Word(n)[2] \in Byte
         /\ 256 * Word(n)[1] + Word(n)[2] = n
BY HighByte, LowByte DEF Word

LEMMA ByteAtByte ==
  ASSUME NEW b \in Seq(Byte), NEW i
  PROVE  ByteAt(b, i) \in Byte
<1>1. CASE i \in DOMAIN b
  BY <1>1, ElementOfSeq, LenProperties DEF ByteAt
<1>2. CASE i \notin DOMAIN b
  BY <1>2 DEF ByteAt, Byte
<1> QED
  BY <1>1, <1>2

LEMMA InUint16 ==
  \A n \in Int : 0 <= n /\ n <= 65535 => n \in Uint16
<1> DEFINE m == 65535
<1>1. m \in Int
  OBVIOUS
<1>2. \A n \in Int : 0 <= n /\ n <= 65535 => n <= m
  OBVIOUS
<1>3. Uint16 = 0..m
  BY DEF Uint16
<1> HIDE DEF m
<1>4. \A n \in Int : 0 <= n /\ n <= m => n \in Uint16
  BY <1>1, <1>3
<1> QED
  BY <1>2, <1>4

LEMMA BelowUint16 ==
  ASSUME NEW m \in Uint16, NEW n \in 0..m
  PROVE  n \in Uint16
<1>1. m \in Nat /\ m < 65536
  BY NatUint16
<1>2. n \in Int /\ 0 <= n /\ n <= 65535
  BY <1>1
<1> QED
  BY <1>2, InUint16

LEMMA BytesWord ==
  ASSUME NEW i \in Byte, NEW j \in Byte
  PROVE  256 * i + j \in Uint16
<1>1. i \in Int /\ j \in Int /\ 0 <= i /\ i <= 255 /\ 0 <= j /\ j <= 255
  BY DEF Byte
<1>2. 256 * i + j \in Int /\ 0 <= 256 * i + j /\ 256 * i + j <= 65535
  BY <1>1
<1> DEFINE w == 256 * i + j
<1>3. w \in Int /\ 0 <= w /\ w <= 65535
  BY <1>2
<1> HIDE DEF w
<1>4. w \in Uint16
  BY <1>3, InUint16
<1> QED
  BY <1>4 DEF w

LEMMA WordAtWord ==
  ASSUME NEW b \in Seq(Byte), NEW i \in Nat
  PROVE  WordAt(b, i) \in Uint16
BY ByteAtByte, BytesWord DEF WordAt

LEMMA HeaderWord ==
  ASSUME NEW type \in 0..31, NEW id \in IdType
  PROVE  /\ Header(type, id) \in Uint16
         /\ TypeIn(Header(type, id)) = type /\ IdIn(Header(type, id)) = id
<1>1. type \in Int /\ id \in Int /\ 0 <= type /\ type <= 31 /\ 0 <= id /\ id <= 2047
  BY DEF IdType
<1>2. Header(type, id) \in Int /\ 0 <= Header(type, id) /\ Header(type, id) <= 65535
  BY <1>1 DEF Header
<1>3. (type + 32 * id) % 32 = type
  BY <1>1
<1>4. (type + 32 * id) \div 32 = id
  BY <1>1
<1>5. TypeIn(Header(type, id)) = type
  BY <1>3 DEF Header, TypeIn
<1>6. IdIn(Header(type, id)) = id
  BY <1>4 DEF Header, IdIn
<1> DEFINE h == Header(type, id)
<1> HIDE DEF h
<1>7. h \in Uint16
  BY <1>2, InUint16 DEF h
<1> QED
  BY <1>5, <1>6, <1>7 DEF h

LEMMA HeaderIn ==
  ASSUME NEW h \in Uint16
  PROVE  TypeIn(h) \in 0..31 /\ IdIn(h) \in IdType
BY HighByte, LowByte DEF TypeIn, IdIn

LEMMA TextBytes ==
  ASSUME NEW len \in Byte, NEW d, d \in Byte \X Byte
  PROVE  Text(len, d) \in Seq(Byte)
<1>1. d \in Seq(Byte)
  <2>1. PICK i \in Byte, j \in Byte : d = <<i, j>>
    OBVIOUS
  <2> QED
    BY <2>1
<1> QED
  BY <1>1 DEF Text
LEMMA TextAtBytes ==
  ASSUME NEW b \in Seq(Byte), NEW i \in Nat, NEW len
  PROVE  TextAt(b, i, len) \in Seq(Byte)
<1>1. ByteAt(b, i) \in Byte /\ ByteAt(b, i + 1) \in Byte
  BY ByteAtByte
<1> QED
  BY <1>1 DEF TextAt, Text

LEMMA RequestInTyped ==
  ASSUME NEW b \in Seq(Byte)
  PROVE  RequestIn(b) \in RequestType
<1> DEFINE header == WordAt(b, 1)
<1>1. TypeIn(header) \in 0..31 /\ IdIn(header) \in IdType
  BY WordAtWord, HeaderIn
<1>2. /\ ByteAt(b, 3) \in Byte /\ WordAt(b, 3) \in Uint16
      /\ WordAt(b, 5) \in Uint16 /\ ByteAt(b, 7) \in Byte
      /\ TextAt(b, 8, ByteAt(b, 7)) \in Seq(Byte)
  BY ByteAtByte, WordAtWord, TextAtBytes
<1> HIDE DEF header
<1>3. CASE TypeIn(header) = REGISTRATION
  BY <1>1, <1>2, <1>3 DEF RequestIn, RequestType, header
<1>4. CASE TypeIn(header) # REGISTRATION
  BY <1>1, <1>2, <1>4 DEF RequestIn, RequestType, header
<1> QED
  BY <1>3, <1>4

LEMMA RequestBytesTyped ==
  ASSUME NEW r \in RequestType
  PROVE  RequestBytes(r) \in Seq(Byte)
<1>1. CASE r \in [type : {REGISTRATION}, id : IdType, pseudo : Byte]
  <2>1. r.type = REGISTRATION /\ r.type \in 0..31 /\ r.id \in IdType /\ r.pseudo \in Byte
    BY <1>1 DEF REGISTRATION
  <2>2. Word(Header(r.type, r.id)) \in Seq(Byte)
    BY <2>1, HeaderWord, WordBytes
  <2>3. <<r.pseudo>> \in Seq(Byte)
    BY <2>1
  <2> QED
    BY <2>1, <2>2, <2>3 DEF RequestBytes
<1>2. CASE r \in RequestType \ [type : {REGISTRATION}, id : IdType, pseudo : Byte]
  <2>1. /\ r.type # REGISTRATION /\ r.type \in 0..31 /\ r.id \in IdType
        /\ r.feed \in Uint16 /\ r.count \in Uint16 /\ r.len \in Byte
        /\ r.data \in Seq(Byte)
    BY <1>2 DEF RequestType
  <2>2. /\ Word(Header(r.type, r.id)) \in Seq(Byte) /\ Word(r.feed) \in Seq(Byte)
        /\ Word(r.count) \in Seq(Byte)
    BY <2>1, HeaderWord, WordBytes
  <2>3. <<r.len>> \in Seq(Byte) /\ Text(r.len, r.data) \in Seq(Byte)
    BY <2>1 DEF Text
  <2> QED
    BY <2>1, <2>2, <2>3 DEF RequestBytes
<1> QED
  BY <1>1, <1>2

LEMMA HeadInTyped ==
  ASSUME NEW b \in Seq(Byte)
  PROVE  HeadIn(b) \in HeadType
<1>1. TypeIn(WordAt(b, 1)) \in 0..31 /\ IdIn(WordAt(b, 1)) \in IdType
  BY WordAtWord, HeaderIn
<1>2. /\ WordAt(b, 3) \in Uint16 /\ WordAt(b, 5) \in Uint16
      /\ ByteAt(b, 7) \in Byte /\ 0 \in Byte
  BY ByteAtByte, WordAtWord DEF Byte
<1> QED
  BY <1>1, <1>2 DEF HeadIn, HeadType

LEMMA HeadBytesTyped ==
  ASSUME NEW h \in HeadType
  PROVE  HeadBytes(h) \in Seq(Byte)
<1>1. /\ h.type \in 0..31 /\ h.id \in IdType /\ h.feed \in Uint16
      /\ h.count \in Uint16 /\ h.addr \in Byte
  BY DEF HeadType
<1>2. /\ Word(Header(h.type, h.id)) \in Seq(Byte) /\ Word(h.feed) \in Seq(Byte)
      /\ Word(h.count) \in Seq(Byte)
  BY <1>1, HeaderWord, WordBytes
<1>3. (IF h.type = SUBSCRIBE THEN <<h.addr>> ELSE <<>>) \in Seq(Byte)
  BY <1>1
<1> QED
  BY <1>2, <1>3 DEF HeadBytes

LEMMA PostInTyped ==
  ASSUME NEW b \in Seq(Byte)
  PROVE  PostIn(b) \in PostType
BY ByteAtByte, WordAtWord, TextAtBytes DEF PostIn, PostType

LEMMA PostBytesTyped ==
  ASSUME NEW p \in PostType
  PROVE  PostBytes(p) \in Seq(Byte)
<1>1. Word(p.feed) \in Seq(Byte)
  BY WordBytes DEF PostType
<1>2. <<p.creator, p.pseudo, p.len>> \in Seq(Byte) /\ Text(p.len, p.data) \in Seq(Byte)
  BY DEF PostType, Text
<1> QED
  BY <1>1, <1>2 DEF PostBytes

LEMMA HeadNotNobody ==
  ASSUME NEW a, a.head \in HeadType
  PROVE  a # Nobody
<1>1. Nobody.head \notin HeadType
  BY DEF Nobody, HeadType
<1> QED
  BY <1>1

LEMMA FramesTyped ==
  ASSUME NEW a \in AnswerType, a # Nobody
  PROVE  Frames(a) \in Seq(Seq(Byte))
<1>1. a.head \in HeadType /\ a.posts \in Seq(PostType)
  BY DEF AnswerType
<1>2. <<HeadBytes(a.head)>> \in Seq(Seq(Byte))
  BY <1>1, HeadBytesTyped
<1>3. \A i \in DOMAIN a.posts : PostBytes(a.posts[i]) \in Seq(Byte)
  BY <1>1, PostBytesTyped, ElementOfSeq, LenProperties
<1>4. [i \in DOMAIN a.posts |-> PostBytes(a.posts[i])] \in Seq(Seq(Byte))
  <2>1. Len(a.posts) \in Nat /\ DOMAIN a.posts = 1..Len(a.posts)
    BY <1>1, LenProperties
  <2>2. [i \in DOMAIN a.posts |-> PostBytes(a.posts[i])] \in [1..Len(a.posts) -> Seq(Byte)]
    BY <1>3, <2>1
  <2> QED
    BY <2>1, <2>2, SeqDef
<1> QED
  BY <1>2, <1>4 DEF Frames

LEMMA CutTyped ==
  ASSUME NEW b \in Seq(Byte)
  PROVE  Cut(b) \in Seq(Byte)
<1>1. \A i \in DOMAIN b : b[i] \in Byte
  BY ElementOfSeq, LenProperties
<1>2. 0 \in Byte
  BY DEF Byte
<1> QED
  BY <1>1, <1>2, LenProperties, SeqDef DEF Cut

LEMMA FirstCRIs ==
  ASSUME NEW b \in Seq(Byte), HasCR(b)
  PROVE  /\ FirstCR(b) \in 1..Len(b) /\ b[FirstCR(b)] = CR
         /\ \A i \in 1..Len(b) : b[i] = CR => FirstCR(b) <= i
<1> DEFINE T == {i \in DOMAIN b : b[i] = CR}
<1>1. T \subseteq Nat /\ T # {} /\ DOMAIN b = 1..Len(b)
  BY LenProperties, RangeEquality DEF HasCR
<1>2. Min(T) \in T /\ \A n \in T : Min(T) <= n
  BY <1>1, LeastNumber
<1> QED
  BY <1>1, <1>2 DEF FirstCR

LEMMA RestTyped ==
  ASSUME NEW b \in Seq(Byte), HasCR(b)
  PROVE  Rest(b) \in Seq(Byte)
<1> DEFINE m == NextStart(b)
<1>1. m \in Nat /\ m >= 1 /\ Len(b) \in Nat
  BY FirstCRIs, LenProperties DEF NextStart
<1> HIDE DEF m
<1>2. \A i \in m..Len(b) : b[i] \in Byte
  BY <1>1, ElementOfSeq
<1>3. SubSeq(b, m, Len(b)) \in Seq(Byte)
  BY <1>1, <1>2, SubSeqProperties
<1> QED
  BY <1>3 DEF Rest, m

LEMMA PiecesTyped ==
  ASSUME NEW b \in Seq(Byte), NEW n \in Pieces(b)
  PROVE  /\ n \in 1..Len(b)
         /\ SubSeq(b, 1, n) \in Seq(Byte) /\ SubSeq(b, n + 1, Len(b)) \in Seq(Byte)
<1>1. n \in 1..Len(b) /\ n \in Nat /\ Len(b) \in Nat
  BY LenProperties DEF Pieces
<1>2. \A i \in 1..Len(b) : b[i] \in Byte
  BY ElementOfSeq
<1>3. SubSeq(b, 1, n) \in Seq(Byte)
  BY <1>1, <1>2, SubSeqProperties
<1>4. SubSeq(b, n + 1, Len(b)) \in Seq(Byte)
  BY <1>1, <1>2, SubSeqProperties
<1> QED
  BY <1>1, <1>3, <1>4

-----------------------------------------------------------------------------
(* What the steps have in common *)

(* A step leaves who has which end of every connection.                    *)
SameEnds ==
  /\ conns' \in Seq(ConnType \cup {Closed})
  /\ Len(conns') = Len(conns) /\ DOMAIN conns' = DOMAIN conns
  /\ \A k \in DOMAIN conns : /\ conns'[k].open = conns[k].open
                             /\ conns'[k].who = conns[k].who

LEMMA SameConns ==
  ASSUME TypeInv, UNCHANGED conns
  PROVE  SameEnds
BY DEF TypeInv, ConnsTyped, SameEnds

LEMMA ConnSet ==
  ASSUME TypeInv, NEW k \in DOMAIN conns, NEW x \in ConnType \cup {Closed},
         conns' = [conns EXCEPT ![k] = x]
  PROVE  /\ conns' \in Seq(ConnType \cup {Closed})
         /\ Len(conns') = Len(conns) /\ DOMAIN conns' = DOMAIN conns
         /\ conns'[k] = x /\ \A j \in DOMAIN conns \ {k} : conns'[j] = conns[j]
<1>1. conns \in Seq(ConnType \cup {Closed})
  BY DEF TypeInv, ConnsTyped
<1>2. k \in 1..Len(conns)
  BY <1>1, LenProperties
<1> QED
  BY <1>1, <1>2, ExceptSeq, LenProperties

LEMMA FieldSet ==
  ASSUME TypeInv, NEW k \in DOMAIN conns, NEW x \in ConnType,
         x.open = conns[k].open, x.who = conns[k].who,
         conns' = [conns EXCEPT ![k] = x]
  PROVE  SameEnds
<1>1. x \in ConnType \cup {Closed}
  OBVIOUS
<1> QED
  BY <1>1, ConnSet DEF SameEnds

LEMMA OwnConn ==
  ASSUME TypeInv, NEW c \in Clients, client[c].conn # 0
  PROVE  /\ client[c].conn \in DOMAIN conns /\ Conn(c) \in ConnType
         /\ Conn(c).who = c /\ "client" \in Conn(c).open
<1>1. client[c].conn \in DOMAIN conns
  BY DEF TypeInv, ClientsTyped, ClientType
<1>2. Conn(c).who = c /\ "client" \in Conn(c).open
  BY DEF TypeInv, ClientHolds
<1>3. Conn(c) \in ConnType \cup {Closed}
  BY <1>1, ElementOfSeq, LenProperties DEF TypeInv, ConnsTyped, Conn
<1>4. Conn(c) # Closed
  BY <1>2 DEF Closed
<1> QED
  BY <1>1, <1>2, <1>3, <1>4

LEMMA ServedConn ==
  ASSUME TypeInv, loop.pc \in {"recv", "send"}
  PROVE  /\ loop.slot \in DOMAIN fds /\ Fd \in Fds /\ at[Fd] # 0
         /\ Serving \in DOMAIN conns /\ conns[Serving] \in ConnType
         /\ "server" \in conns[Serving].open
<1>1. server = "serving" /\ loop.slot \in DOMAIN fds /\ Fd # -1
  BY DEF TypeInv, ServerTyped, SlotsOpen
<1>2. fds \in Seq({-1} \cup Fds)
  BY DEF TypeInv, ServerTyped
<1>3. Fd \in {-1} \cup Fds
  BY <1>1, <1>2, ElementOfSeq, LenProperties DEF Fd
<1>4. Fd \in Fds
  BY <1>1, <1>3
<1>5. at[Fd] # 0
  BY <1>1 DEF TypeInv, SlotsOpen, Fd
<1>6. Serving \in DOMAIN conns
  BY <1>4, <1>5 DEF TypeInv, ConnsTyped, Serving
<1>7. conns[Serving] \in ConnType \cup {Closed}
  BY <1>6, ElementOfSeq, LenProperties DEF TypeInv, ConnsTyped
<1>8. "server" \in conns[Serving].open
  BY <1>1, <1>4, <1>5 DEF TypeInv, ServerHolds, Serving
<1>9. conns[Serving] # Closed
  BY <1>8 DEF Closed
<1> QED
  BY <1>1, <1>4, <1>5, <1>6, <1>7, <1>8, <1>9

LEMMA ServerStill ==
  ASSUME TypeInv, UNCHANGED <<calm, server, fds, infos, at, loop>>
  PROVE  ServerTyped' /\ SlotsOpen'
<1>1. ServerTyped'
  BY DEF TypeInv, ServerTyped, LoopType
<1>2. SlotsOpen'
  BY DEF TypeInv, SlotsOpen, Fd
<1> QED
  BY <1>1, <1>2

LEMMA DescriptorsStill ==
  ASSUME TypeInv, SameEnds, UNCHANGED <<server, backlog, at>>
  PROVE  ConnsTyped' /\ OneEach' /\ ServerHolds'
<1>1. ConnsTyped'
  BY DEF TypeInv, SameEnds, ConnsTyped
<1>2. OneEach'
  BY DEF TypeInv, OneEach
<1>3. ServerHolds'
  <2>1. SUFFICES ASSUME server # "dead"
                 PROVE  /\ \A i \in DOMAIN backlog : "server" \in conns'[backlog[i]].open
                        /\ \A fd \in Fds : at[fd] # 0 => "server" \in conns'[at[fd]].open
    BY DEF ServerHolds
  <2>2. \A i \in DOMAIN backlog : backlog[i] \in DOMAIN conns
    BY ElementOfSeq, LenProperties DEF TypeInv, ConnsTyped
  <2>3. \A fd \in Fds : at[fd] # 0 => at[fd] \in DOMAIN conns
    BY DEF TypeInv, ConnsTyped
  <2> QED
    BY <2>1, <2>2, <2>3 DEF TypeInv, ServerHolds, SameEnds
<1> QED
  BY <1>1, <1>2, <1>3

LEMMA ClientsStill ==
  ASSUME TypeInv, SameEnds, UNCHANGED client, UNCHANGED rest,
         murky' \subseteq Clients
  PROVE  ClientsTyped' /\ ClientHolds'
<1>1. ClientsTyped'
  BY DEF TypeInv, SameEnds, ClientsTyped, ClientType
<1>2. \A c \in Clients : client[c].conn # 0 => client[c].conn \in DOMAIN conns
  BY OwnConn
<1>3. ClientHolds'
  BY <1>2 DEF TypeInv, ClientHolds, Conn, SameEnds
<1> QED
  BY <1>1, <1>3

(* A client's record changes, but not the connection it is for.            *)
LEMMA ClientGoesOn ==
  ASSUME TypeInv, SameEnds, NEW c \in Clients, NEW x \in ClientType,
         client' = [client EXCEPT ![c] = x], x.conn = client[c].conn,
         client[c].conn # 0 \/ x.pc \in {"menu", "ended"},
         rest' \in [Clients -> Seq(Byte)], murky' \subseteq Clients
  PROVE  ClientsTyped' /\ ClientHolds'
<1>1. client' \in [Clients -> ClientType]
  BY DEF TypeInv, ClientsTyped
<1>2. ClientsTyped'
  BY <1>1 DEF ClientsTyped, ClientType, SameEnds
<1>3. \A d \in Clients : client'[d].conn = client[d].conn
  BY DEF TypeInv, ClientsTyped
<1>4. \A d \in Clients : client[d].conn # 0 => client[d].conn \in DOMAIN conns
  BY OwnConn
<1>5. \A d \in Clients : client'[d].conn # 0 =>
         conns'[client'[d].conn].who = d /\ "client" \in conns'[client'[d].conn].open
  <2> SUFFICES ASSUME NEW d \in Clients, client'[d].conn # 0
               PROVE  /\ conns'[client'[d].conn].who = d
                      /\ "client" \in conns'[client'[d].conn].open
    OBVIOUS
  <2> DEFINE k == client[d].conn
  <2>1. client'[d].conn = k /\ k # 0 /\ k \in DOMAIN conns
    BY <1>3, <1>4
  <2>2. conns[k].who = d /\ "client" \in conns[k].open
    BY <2>1 DEF TypeInv, ClientHolds, Conn
  <2>3. conns'[k].who = conns[k].who /\ conns'[k].open = conns[k].open
    BY <2>1 DEF SameEnds
  <2> HIDE DEF k
  <2> QED
    BY <2>1, <2>2, <2>3
<1>6. \A d \in Clients :
         client'[d].pc \in {"send", "recv", "show", "add", "fail"} => client'[d].conn # 0
  BY <1>3 DEF TypeInv, ClientsTyped, ClientHolds
<1> QED
  BY <1>2, <1>5, <1>6 DEF ClientHolds, Conn

-----------------------------------------------------------------------------
(* Maxima and the accounts *)

LEMMA GreatestNumber ==
  ASSUME NEW m \in Nat, NEW T, T \subseteq 0..m, T # {}
  PROVE  Max(T) \in T /\ \A n \in T : n <= Max(T)
<1> DEFINE U == {m - n : n \in T}
<1>1. U \subseteq Nat /\ U # {}
  <2>1. \A n \in T : m - n \in Nat
    OBVIOUS
  <2> QED
    BY <2>1
<1>2. Min(U) \in U /\ \A n \in U : Min(U) <= n
  BY <1>1, LeastNumber
<1>3. PICK x \in T : Min(U) = m - x
  BY <1>2
<1>4. \A n \in T : n <= x
  <2> SUFFICES ASSUME NEW n \in T PROVE n <= x
    OBVIOUS
  <2>1. m - x <= m - n
    BY <1>2, <1>3
  <2> QED
    BY <2>1
<1> QED
  BY <1>3, <1>4 DEF Max

LEMMA NbAccountsBound ==
  NbAccounts \in 0..IdMax
<1> DEFINE T == {i \in 0..IdMax : \A j \in 1..i : accounts[j].id # 0}
<1>1. IdMax \in Nat
  BY AccountsAssumption
<1>2. 0 \in T
  BY <1>1
<1>3. T \subseteq 0..IdMax /\ T # {}
  BY <1>2
<1>4. Max(T) \in T
  BY <1>1, <1>3, GreatestNumber
<1> QED
  BY <1>4 DEF NbAccounts

LEMMA FindPlaceTyped ==
  ASSUME TypeInv, NEW c \in Clients, NEW id \in IdType, NEW pseudo \in Byte,
         FindPlace(c, id, pseudo)
  PROVE  AccountsTyped'
<1>1. IdMax \in Nat /\ NbAccounts \in 0..IdMax
  BY AccountsAssumption, NbAccountsBound
<1>2. NbAccounts + 1 \in 0..(IdMax + 1)
  BY <1>1
<1>3. [user |-> [id |-> id, pseudo |-> pseudo], place |-> NbAccounts + 1,
       half |-> FALSE] \in AddingType
  BY <1>2 DEF AddingType, UserType
<1> QED
  BY <1>3 DEF FindPlace, TypeInv, AccountsTyped

LEMMA NotAddingTyped == NotAdding \in AddingType
<1>1. 0 \in 0..(IdMax + 1) /\ 0 \in IdType /\ 0 \in Byte
  BY AccountsAssumption DEF IdType, Byte
<1> QED
  BY <1>1 DEF NotAdding, NoUser, AddingType, UserType

LEMMA WriteTyped ==
  ASSUME TypeInv, NEW c \in Clients,
         WriteId(c) \/ WritePseudo(c) \/ FileFull(c)
  PROVE  AccountsTyped'
<1>1. /\ accounts \in [1..IdMax -> UserType] /\ adding \in [Clients -> AddingType]
      /\ adding[c] \in AddingType
  BY DEF TypeInv, AccountsTyped
<1>2. adding[c].user.id \in IdType /\ adding[c].user.pseudo \in Byte
  BY <1>1 DEF AddingType, UserType
<1>3. CASE WriteId(c)
  <2>1. [adding[c] EXCEPT !.half = TRUE] \in AddingType
    BY <1>1 DEF AddingType
  <2>2. adding' \in [Clients -> AddingType]
    BY <1>1, <1>3, <2>1 DEF WriteId
  <2>3. \A u \in UserType : [u EXCEPT !.id = adding[c].user.id] \in UserType
    BY <1>2 DEF UserType
  <2>4. accounts' \in [1..IdMax -> UserType]
    BY <1>1, <1>3, <2>3 DEF WriteId, HasPlace
  <2> QED
    BY <2>2, <2>4 DEF AccountsTyped
<1>4. CASE WritePseudo(c)
  <2>1. adding' \in [Clients -> AddingType]
    BY <1>1, <1>4, NotAddingTyped DEF WritePseudo
  <2>2. \A u \in UserType : [u EXCEPT !.pseudo = adding[c].user.pseudo] \in UserType
    BY <1>2 DEF UserType
  <2>3. accounts' \in [1..IdMax -> UserType]
    BY <1>1, <1>4, <2>2 DEF WritePseudo, HasPlace
  <2> QED
    BY <2>1, <2>3 DEF AccountsTyped
<1>5. CASE FileFull(c)
  BY <1>1, <1>5, NotAddingTyped DEF FileFull, AccountsTyped
<1> QED
  BY <1>3, <1>4, <1>5

LEMMA AccountsStill ==
  ASSUME TypeInv, UNCHANGED accountVars
  PROVE  AccountsTyped'
BY DEF TypeInv, AccountsTyped, accountVars

-----------------------------------------------------------------------------
(* TypeInv: the clients' steps *)

LEMMA ClientTypeOf ==
  ASSUME TypeInv, NEW c \in Clients
  PROVE  /\ client[c] \in ClientType /\ client[c].user \in IdType
         /\ client[c].got \in AnswerType /\ rest[c] \in Seq(Byte)
BY DEF TypeInv, ClientsTyped, ClientType

LEMMA NobodyTyped == Nobody \in AnswerType
BY DEF AnswerType

(* What create_request makes of anything the prompts let through.          *)
LEMMA CreatedTyped ==
  ASSUME TypeInv, NEW c \in Clients, NEW r \in Inputs[c]
  PROVE  Created(c, r) \in RequestType
<1>1. Typable(r) /\ client[c].user \in IdType
  BY ExchangeAssumption, ClientTypeOf
<1>2. CASE r.type = REGISTRATION
  <2>1. r.pseudo \in Byte /\ 0 \in IdType
    BY <1>1, <1>2 DEF Typable, IdType
  <2> QED
    BY <1>2, <2>1 DEF Created, Registration, RequestType
<1>3. CASE r.type # REGISTRATION
  <2>1. /\ r.type \in Types /\ r.feed \in Uint16 /\ r.count \in Uint16
        /\ r.len \in CASE r.type = NEWPOST -> 1..511
                       [] r.type \in {UPLOAD, DOWNLOAD} -> 1..229
                       [] OTHER -> {0}
        /\ r.len # 0 => r.data \in Byte \X Byte
    BY <1>1, <1>3 DEF Typable
  <2>2. r.len \in 0..511
    BY <2>1
  <2>3. r.type \in (0..31) \ {REGISTRATION}
    BY <1>3, <2>1 DEF Types, REGISTRATION, DOWNLOAD
  <2>4. r.len % 256 \in Byte /\ (r.len % 256 # 0 => r.len # 0)
    BY <2>2 DEF Byte
  <2>5. Text(r.len % 256, r.data) \in Seq(Byte)
    <3>1. CASE r.len % 256 = 0
      BY <3>1 DEF Text
    <3>2. CASE r.len % 256 # 0
      BY <2>1, <2>4, <3>2, TextBytes
    <3> QED
      BY <3>1, <3>2
  <2> QED
    BY <1>1, <1>3, <2>1, <2>3, <2>4, <2>5 DEF Created, RequestType
<1> QED
  BY <1>2, <1>3

LEMMA AskTyped ==
  ASSUME TypeInv, NEW c \in Clients, NEW r \in Inputs[c], Ask(c, r)
  PROVE  TypeInv'
<1>1. ServerTyped' /\ SlotsOpen'
  BY ServerStill DEF Ask
<1>2. AccountsTyped'
  BY AccountsStill DEF Ask
<1>3. CASE server = "dead"
  <2>1. SameEnds
    BY <1>3, SameConns DEF Ask
  <2>2. ConnsTyped' /\ OneEach' /\ ServerHolds'
    BY <1>3, <2>1, DescriptorsStill DEF Ask
  <2> DEFINE x == [client[c] EXCEPT !.pc = "ended"]
  <2>3. x \in ClientType /\ x.conn = client[c].conn /\ x.pc = "ended"
    BY ClientTypeOf DEF ClientType
  <2>4. /\ client' = [client EXCEPT ![c] = x]
        /\ rest' \in [Clients -> Seq(Byte)] /\ murky' \subseteq Clients
    BY <1>3 DEF Ask, TypeInv, ClientsTyped
  <2> HIDE DEF x
  <2>5. ClientsTyped' /\ ClientHolds'
    BY <2>1, <2>3, <2>4, ClientGoesOn
  <2> QED
    BY <1>1, <1>2, <2>2, <2>5 DEF TypeInv
<1>4. CASE server # "dead"
  <2> DEFINE new == [who |-> c, asked |-> Created(c, r), in |-> <<>>, out |-> <<>>,
                     open |-> {"client", "server"}, answer |-> Nobody,
                     dropped |-> FALSE]
  <2>1. /\ conns' = Append(conns, new) /\ backlog' = Append(backlog, NextConn)
        /\ client' = [client EXCEPT ![c].pc = "send", ![c].conn = NextConn]
        /\ Len(conns) < MaxConns
        /\ UNCHANGED <<server, at, rest, murky>>
    BY <1>4 DEF Ask
  <2>2. new \in ConnType \cup {Closed}
    BY CreatedTyped, NobodyTyped DEF ConnType
  <2>3. new.who = c /\ new.open = {"client", "server"}
    OBVIOUS
  <2> HIDE DEF new
  <2>4. /\ conns \in Seq(ConnType \cup {Closed}) /\ Len(conns) \in Nat
        /\ DOMAIN conns = 1..Len(conns)
        /\ backlog \in Seq(DOMAIN conns) /\ at \in [Fds -> {0} \cup DOMAIN conns]
    BY LenProperties DEF TypeInv, ConnsTyped
  <2>5. /\ conns' \in Seq(ConnType \cup {Closed}) /\ Len(conns') = NextConn
        /\ \A k \in DOMAIN conns : conns'[k] = conns[k]
        /\ conns'[NextConn] = new
    BY <2>1, <2>2, <2>4, AppendProperties DEF NextConn
  <2>6. /\ NextConn = Len(conns) + 1 /\ NextConn \notin DOMAIN conns
        /\ DOMAIN conns' = DOMAIN conns \cup {NextConn} /\ NextConn # 0
    BY <2>4, <2>5, LenProperties DEF NextConn
  <2>7. /\ backlog' \in Seq(DOMAIN conns') /\ Len(backlog) \in Nat
        /\ Len(backlog') = Len(backlog) + 1
        /\ \A i \in 1..Len(backlog) : backlog'[i] = backlog[i] /\ backlog[i] \in DOMAIN conns
        /\ backlog'[Len(backlog) + 1] = NextConn
        /\ DOMAIN backlog = 1..Len(backlog) /\ DOMAIN backlog' = 1..(Len(backlog) + 1)
    <3>1. backlog \in Seq(DOMAIN conns') /\ NextConn \in DOMAIN conns'
      BY <2>4, <2>6, SeqMonotonic
    <3>2. \A i \in 1..Len(backlog) : backlog[i] \in DOMAIN conns
      BY <2>4, ElementOfSeq
    <3> QED
      BY <2>1, <3>1, <3>2, AppendProperties, LenProperties
  <2>8. Len(conns') <= MaxConns
    BY <2>1, <2>4, <2>5, ExchangeAssumption DEF NextConn
  <2>9. ConnsTyped'
    BY <2>1, <2>4, <2>5, <2>6, <2>7, <2>8 DEF ConnsTyped
  <2>10. \A i \in DOMAIN backlog' : i \in DOMAIN backlog \/ i = Len(backlog) + 1
    BY <2>7
  <2>11. \A fd \in Fds : at[fd] # NextConn
    BY <2>4, <2>6
  <2>12. \A i \in DOMAIN backlog : backlog[i] # NextConn
    BY <2>6, <2>7
  <2>13. OneEach'
    <3>1. \A i, j \in DOMAIN backlog' : backlog'[i] = backlog'[j] => i = j
      BY <2>7, <2>10, <2>12 DEF TypeInv, OneEach
    <3>2. \A i \in DOMAIN backlog' : \A fd \in Fds : at[fd] # backlog'[i]
      BY <2>7, <2>10, <2>11 DEF TypeInv, OneEach
    <3> QED
      BY <2>1, <3>1, <3>2 DEF TypeInv, OneEach
  <2>14. ServerHolds'
    <3>1. \A i \in DOMAIN backlog' : "server" \in conns'[backlog'[i]].open
      BY <1>4, <2>3, <2>5, <2>7, <2>10 DEF TypeInv, ServerHolds
    <3>2. \A fd \in Fds : at[fd] # 0 => "server" \in conns'[at[fd]].open
      BY <1>4, <2>4, <2>5 DEF TypeInv, ServerHolds
    <3> QED
      BY <2>1, <3>1, <3>2 DEF ServerHolds
  <2> DEFINE x == [client[c] EXCEPT !.pc = "send", !.conn = NextConn]
  <2>15. client' = [client EXCEPT ![c] = x]
    BY <2>1
  <2>16. /\ client[c] \in ClientType /\ x.pc = "send" /\ x.conn = NextConn
         /\ x.user = client[c].user /\ x.got = client[c].got
    BY ClientTypeOf DEF ClientType
  <2>17. \A d \in Clients : client[d] \in ClientType
    BY DEF TypeInv, ClientsTyped
  <2>18. client' \in [Clients -> [pc : {"menu", "send", "recv", "show", "add", "fail", "ended"},
               user : IdType, conn : {0} \cup DOMAIN conns', got : AnswerType]]
    <3>1. x \in [pc : {"menu", "send", "recv", "show", "add", "fail", "ended"},
               user : IdType, conn : {0} \cup DOMAIN conns', got : AnswerType]
      BY <2>6, <2>16 DEF ClientType
    <3> HIDE DEF x
    <3>2. \A d \in Clients : client[d] \in [pc : {"menu", "send", "recv", "show", "add", "fail", "ended"},
               user : IdType, conn : {0} \cup DOMAIN conns', got : AnswerType]
      BY <2>6, <2>17 DEF ClientType
    <3>3. client \in [Clients -> ClientType]
      BY DEF TypeInv, ClientsTyped
    <3> QED
      BY <2>15, <3>1, <3>2, <3>3
  <2>19. ClientsTyped'
    BY <2>1, <2>18 DEF TypeInv, ClientsTyped, ClientType
  <2> HIDE DEF x
  <2>20. \A d \in Clients \ {c} : client'[d] = client[d]
    BY <2>15 DEF TypeInv, ClientsTyped
  <2>21. client'[c] = x
    BY <2>15 DEF TypeInv, ClientsTyped
  <2>22. \A d \in Clients \ {c} : client[d].conn # 0 => client[d].conn \in DOMAIN conns
    BY OwnConn
  <2>23. \A d \in Clients \ {c} :
           /\ client'[d].conn # 0 => /\ conns'[client'[d].conn].who = d
                                     /\ "client" \in conns'[client'[d].conn].open
           /\ client'[d].pc \in {"send", "recv", "show", "add", "fail"} =>
                client'[d].conn # 0
    BY <2>5, <2>20, <2>22 DEF TypeInv, ClientHolds, Conn
  <2>24. /\ conns'[client'[c].conn].who = c /\ "client" \in conns'[client'[c].conn].open
         /\ client'[c].conn # 0
    BY <2>3, <2>5, <2>6, <2>16, <2>21
  <2>25. ClientHolds'
    BY <2>23, <2>24 DEF ClientHolds, Conn
  <2> QED
    BY <1>1, <1>2, <2>9, <2>13, <2>14, <2>19, <2>25 DEF TypeInv
<1> QED
  BY <1>3, <1>4

LEMMA ClientTurns ==
  ASSUME TypeInv, SameEnds, NEW c \in Clients, NEW x \in ClientType,
         client' = [client EXCEPT ![c] = x], x.conn = client[c].conn,
         client[c].conn # 0 \/ x.pc \in {"menu", "ended"},
         rest' \in [Clients -> Seq(Byte)], murky' \subseteq Clients,
         UNCHANGED calm, UNCHANGED serverVars, AccountsTyped'
  PROVE  TypeInv'
<1>1. ServerTyped' /\ SlotsOpen'
  BY ServerStill DEF serverVars
<1>2. ConnsTyped' /\ OneEach' /\ ServerHolds'
  BY DescriptorsStill DEF serverVars
<1>3. ClientsTyped' /\ ClientHolds'
  BY ClientGoesOn
<1> QED
  BY <1>1, <1>2, <1>3 DEF TypeInv

LEMMA LogTyped ==
  ASSUME TypeInv, NEW c \in Clients,
         LogOut(c) \/ \E id \in AccountIds : LogIn(c, id)
  PROVE  TypeInv'
<1>1. PICK id \in IdType : client' = [client EXCEPT ![c].user = id]
  <2>1. CASE LogOut(c)
    <3>1. 0 \in IdType
      BY DEF IdType
    <3> QED
      BY <2>1, <3>1 DEF LogOut
  <2>2. CASE \E id \in AccountIds : LogIn(c, id)
    <3>1. PICK id \in AccountIds : LogIn(c, id)
      BY <2>2
    <3>2. IdMax \in Nat /\ NbAccounts \in 0..IdMax
      BY NbAccountsBound, AccountsAssumption
    <3>3. \A i \in 1..NbAccounts : accounts[i] \in UserType
      BY <3>2 DEF TypeInv, AccountsTyped
    <3>4. id \in IdType
      BY <3>3 DEF AccountIds, UserType
    <3> QED
      BY <3>1, <3>4 DEF LogIn
  <2> QED
    BY <2>1, <2>2
<1> DEFINE x == [client[c] EXCEPT !.user = id]
<1>2. /\ client[c].pc = "menu"
      /\ UNCHANGED calm /\ UNCHANGED serverVars /\ UNCHANGED conns /\ UNCHANGED rest
      /\ UNCHANGED murky /\ UNCHANGED accountVars
  BY DEF LogIn, LogOut
<1>3. x \in ClientType /\ x.conn = client[c].conn /\ x.pc \in {"menu", "ended"}
  BY <1>2, ClientTypeOf DEF ClientType
<1>4. client' = [client EXCEPT ![c] = x]
  BY <1>1
<1> HIDE DEF x
<1>5. SameEnds /\ AccountsTyped'
  BY <1>2, SameConns, AccountsStill
<1>6. rest' \in [Clients -> Seq(Byte)] /\ murky' \subseteq Clients
  BY <1>2 DEF TypeInv, ClientsTyped
<1> QED
  BY <1>2, <1>3, <1>4, <1>5, <1>6, ClientTurns

LEMMA CRLFTyped == CRLF \in Seq(Byte)
<1>1. CR \in Byte /\ LF \in Byte
  BY DEF CR, LF, Byte
<1> QED
  BY <1>1 DEF CRLF

LEMMA SendTyped ==
  ASSUME TypeInv, NEW c \in Clients, Send(c)
  PROVE  TypeInv'
<1> DEFINE k == client[c].conn
           bytes == RequestBytes(Conn(c).asked)
           f == [conns[k] EXCEPT !.in = bytes \o CRLF]
           x == [client[c] EXCEPT !.pc = "recv", !.got = Nobody]
<1>1. client[c].pc = "send" /\ k # 0
  BY DEF Send, TypeInv, ClientHolds
<1>2. k \in DOMAIN conns /\ conns[k] \in ConnType
  BY <1>1, OwnConn DEF Conn
<1>3. bytes \in Seq(Byte)
  BY <1>2, RequestBytesTyped DEF ConnType, Conn
<1>4. bytes \o CRLF \in Seq(Byte)
  BY <1>3, CRLFTyped
<1> HIDE DEF bytes
<1>5. f \in ConnType /\ f.open = conns[k].open /\ f.who = conns[k].who
  BY <1>2, <1>4 DEF ConnType
<1>6. conns' = [conns EXCEPT ![k] = f]
  BY DEF Send, bytes
<1> HIDE DEF f
<1>7. SameEnds
  BY <1>2, <1>5, <1>6, FieldSet
<1>8. x \in ClientType /\ x.conn = client[c].conn
  BY ClientTypeOf, NobodyTyped DEF ClientType
<1>9. client' = [client EXCEPT ![c] = x]
  BY DEF Send
<1> HIDE DEF x
<1>10. /\ rest' \in [Clients -> Seq(Byte)] /\ murky' \subseteq Clients
       /\ UNCHANGED calm /\ UNCHANGED serverVars /\ UNCHANGED accountVars
  BY DEF Send, TypeInv, ClientsTyped
<1>11. AccountsTyped'
  BY <1>10, AccountsStill
<1> QED
  BY <1>1, <1>7, <1>8, <1>9, <1>10, <1>11, ClientTurns

LEMMA ReadTyped ==
  ASSUME TypeInv, NEW c \in Clients, Read(c)
  PROVE  TypeInv'
<1> DEFINE k == client[c].conn
           b == Conn(c).out
<1>1. PICK n \in Pieces(b) :
        /\ rest' = [rest EXCEPT ![c] = @ \o SubSeq(b, 1, n)]
        /\ conns' = [conns EXCEPT ![k].out = SubSeq(@, n + 1, Len(@))]
  BY DEF Read, Received
<1>2. client[c].pc = "recv" /\ k # 0
  BY DEF Read, TypeInv, ClientHolds
<1>3. k \in DOMAIN conns /\ conns[k] \in ConnType /\ b = conns[k].out
  BY <1>2, OwnConn DEF Conn
<1>4. b \in Seq(Byte)
  BY <1>3 DEF ConnType
<1>5. SubSeq(b, 1, n) \in Seq(Byte) /\ SubSeq(b, n + 1, Len(b)) \in Seq(Byte)
  BY <1>4, PiecesTyped
<1> DEFINE f == [conns[k] EXCEPT !.out = SubSeq(b, n + 1, Len(b))]
<1>6. f \in ConnType /\ f.open = conns[k].open /\ f.who = conns[k].who
  BY <1>3, <1>5 DEF ConnType
<1>7. conns' = [conns EXCEPT ![k] = f]
  BY <1>1, <1>3
<1> HIDE DEF f
<1>8. SameEnds
  BY <1>3, <1>6, <1>7, FieldSet
<1>9. rest' \in [Clients -> Seq(Byte)]
  <2>1. rest[c] \o SubSeq(b, 1, n) \in Seq(Byte)
    BY <1>5, ClientTypeOf
  <2> QED
    BY <1>1, <2>1 DEF TypeInv, ClientsTyped
<1>10. /\ client' = [client EXCEPT ![c] = client[c]] /\ murky' \subseteq Clients
       /\ UNCHANGED calm /\ UNCHANGED serverVars /\ UNCHANGED accountVars
  BY DEF Read, TypeInv, ClientsTyped
<1>11. AccountsTyped' /\ client[c] \in ClientType
  BY <1>10, AccountsStill, ClientTypeOf
<1> QED
  BY <1>2, <1>8, <1>9, <1>10, <1>11, ClientTurns

LEMMA GotTyped ==
  ASSUME TypeInv, NEW c \in Clients, NEW b \in Seq(Byte)
  PROVE  Got(c, b) \in AnswerType /\ Got(c, b) # Nobody /\ Got(c, b).head \in HeadType
<1>1. CASE client[c].got = Nobody
  <2>1. Got(c, b) = [head |-> HeadIn(b), posts |-> <<>>] /\ HeadIn(b) \in HeadType
    BY <1>1, HeadInTyped DEF Got
  <2>2. Got(c, b) \in [head : HeadType, posts : Seq(PostType)]
    BY <2>1
  <2> QED
    BY <2>2, HeadNotNobody DEF AnswerType
<1>2. CASE client[c].got # Nobody
  <2>1. client[c].got \in [head : HeadType, posts : Seq(PostType)]
    BY <1>2, ClientTypeOf DEF AnswerType
  <2>2. Append(client[c].got.posts, PostIn(b)) \in Seq(PostType)
    BY <2>1, PostInTyped
  <2>3. Got(c, b) \in [head : HeadType, posts : Seq(PostType)]
    BY <1>2, <2>1, <2>2 DEF Got
  <2> QED
    BY <2>3, HeadNotNobody DEF AnswerType
<1> QED
  BY <1>1, <1>2

LEMMA TakeFrameTyped ==
  ASSUME TypeInv, NEW c \in Clients, TakeFrame(c)
  PROVE  TypeInv'
<1> DEFINE b == Cut(rest[c])
           x == [client[c] EXCEPT !.got = Got(c, b), !.pc = AfterFrame(Got(c, b))]
<1>1. rest[c] \in Seq(Byte) /\ HasCR(rest[c])
  BY ClientTypeOf DEF TakeFrame
<1>2. b \in Seq(Byte) /\ Rest(rest[c]) \in Seq(Byte)
  BY <1>1, CutTyped, RestTyped
<1>3. Keep(c, b, Rest(rest[c]))
  BY DEF TakeFrame, Kept
<1> HIDE DEF b
<1>4. Got(c, b) \in AnswerType /\ AfterFrame(Got(c, b)) \in {"fail", "recv", "show"}
  BY <1>2, GotTyped DEF AfterFrame
<1>5. x \in ClientType /\ x.conn = client[c].conn
  BY <1>4, ClientTypeOf DEF ClientType
<1>6. client' = [client EXCEPT ![c] = x]
  BY <1>3 DEF Keep
<1> HIDE DEF x
<1>7. /\ rest' \in [Clients -> Seq(Byte)] /\ murky' \subseteq Clients
      /\ UNCHANGED calm /\ UNCHANGED serverVars /\ UNCHANGED accountVars /\ UNCHANGED conns
  BY <1>2, <1>3 DEF Keep, TakeFrame, TypeInv, ClientsTyped
<1>8. client[c].conn # 0
  BY DEF TakeFrame, TypeInv, ClientHolds
<1>9. SameEnds /\ AccountsTyped'
  BY <1>7, SameConns, AccountsStill
<1> QED
  BY <1>5, <1>6, <1>7, <1>8, <1>9, ClientTurns

LEMMA FilledTyped ==
  ASSUME NEW a \in AnswerType, a.head \in HeadType, a # Nobody
  PROVE  /\ Filled(a) \in AnswerType /\ Filled(a) # Nobody
         /\ Filled(a).head = a.head
<1>1. a \in [head : HeadType, posts : Seq(PostType)]
  BY DEF AnswerType
<1>2. CASE ~ Wanting(a)
  BY <1>2 DEF Filled
<1>3. CASE Wanting(a)
  <2> DEFINE m == a.head.count
             f == [i \in 1..m |-> IF i <= Len(a.posts) THEN a.posts[i] ELSE NoPost]
  <2>1. m \in Nat
    BY <1>1, NatUint16 DEF HeadType
  <2>2. NoPost \in PostType
    <3>1. <<>> \in Seq(Byte)
      OBVIOUS
    <3> QED
      BY <3>1, PostInTyped DEF NoPost
  <2>3. \A i \in 1..m : i <= Len(a.posts) => a.posts[i] \in PostType
    <3>1. a.posts \in Seq(PostType)
      BY <1>1
    <3>2. \A i \in 1..Len(a.posts) : a.posts[i] \in PostType
      BY <3>1, ElementOfSeq
    <3>3. Len(a.posts) \in Nat
      BY <3>1, LenProperties
    <3> HIDE DEF m
    <3> QED
      BY <2>1, <3>2, <3>3
  <2>4. f \in [1..m -> PostType]
    BY <2>2, <2>3
  <2> HIDE DEF m
  <2>5. f \in Seq(PostType)
    BY <2>1, <2>4, SeqDef
  <2>6. Filled(a) = [a EXCEPT !.posts = f]
    BY <1>3 DEF Filled, m
  <2> HIDE DEF f
  <2>7. /\ Filled(a) \in [head : HeadType, posts : Seq(PostType)]
        /\ Filled(a).head = a.head
    BY <1>1, <2>5, <2>6
  <2> QED
    BY <2>7, HeadNotNobody DEF AnswerType
<1> QED
  BY <1>2, <1>3

LEMMA TakeEndTyped ==
  ASSUME TypeInv, NEW c \in Clients, TakeEnd(c)
  PROVE  TypeInv'
<1> DEFINE a == Filled(Got(c, rest[c]))
           x == [client[c] EXCEPT !.got = a,
                                  !.pc = IF Known(a.head.type) THEN "show" ELSE "fail"]
<1>1. a \in AnswerType
  BY ClientTypeOf, GotTyped, FilledTyped
<1>2. client' = [client EXCEPT ![c] = x]
  BY DEF TakeEnd
<1> HIDE DEF a
<1>3. x \in ClientType /\ x.conn = client[c].conn
  BY <1>1, ClientTypeOf DEF ClientType
<1> HIDE DEF x
<1>4. <<>> \in Seq(Byte)
  OBVIOUS
<1>5. /\ rest' \in [Clients -> Seq(Byte)] /\ murky' \subseteq Clients
      /\ UNCHANGED calm /\ UNCHANGED serverVars /\ UNCHANGED accountVars /\ UNCHANGED conns
  BY <1>4 DEF TakeEnd, TypeInv, ClientsTyped
<1>6. client[c].conn # 0
  BY DEF TakeEnd, TypeInv, ClientHolds
<1>7. SameEnds /\ AccountsTyped'
  BY <1>5, SameConns, AccountsStill
<1> QED
  BY <1>2, <1>3, <1>5, <1>6, <1>7, ClientTurns

LEMMA PseudoOfTyped ==
  ASSUME NEW r \in RequestType
  PROVE  PseudoOf(r) \in Byte
<1>1. CASE r.type = REGISTRATION
  BY <1>1 DEF RequestType, PseudoOf
<1>2. CASE r.type # REGISTRATION
  <2>1. r.feed \in Uint16
    BY <1>2 DEF RequestType
  <2> QED
    BY <1>2, <2>1, LowByte DEF PseudoOf
<1> QED
  BY <1>1, <1>2

LEMMA StartAddTyped ==
  ASSUME TypeInv, NEW c \in Clients, StartAdd(c)
  PROVE  TypeInv'
<1> DEFINE id == client[c].got.head.id
           x == [client[c] EXCEPT !.user = id, !.pc = "add"]
<1>1. client[c].conn # 0 /\ client[c].got.head.type = REGISTRATION
  BY DEF StartAdd, TypeInv, ClientHolds
<1>2. client[c].got \in AnswerType /\ client[c].got # Nobody
  BY <1>1, ClientTypeOf DEF Nobody, REGISTRATION
<1>3. id \in IdType
  BY <1>2 DEF AnswerType, HeadType
<1>4. PseudoOf(Conn(c).asked) \in Byte
  BY <1>1, OwnConn, PseudoOfTyped DEF ConnType
<1>5. FindPlace(c, id, PseudoOf(Conn(c).asked)) /\ client' = [client EXCEPT ![c] = x]
  BY DEF StartAdd
<1> HIDE DEF id
<1>6. AccountsTyped'
  BY <1>3, <1>4, <1>5, FindPlaceTyped
<1>7. x \in ClientType /\ x.conn = client[c].conn
  BY <1>3, ClientTypeOf DEF ClientType
<1> HIDE DEF x
<1>8. /\ rest' \in [Clients -> Seq(Byte)] /\ murky' \subseteq Clients
      /\ UNCHANGED calm /\ UNCHANGED serverVars /\ UNCHANGED conns
  BY DEF StartAdd, TypeInv, ClientsTyped
<1>9. SameEnds
  BY <1>8, SameConns
<1> QED
  BY <1>1, <1>5, <1>6, <1>7, <1>8, <1>9, ClientTurns

LEMMA HungUpTyped ==
  ASSUME NEW k \in DOMAIN conns, conns[k] \in ConnType, NEW end
  PROVE  /\ HungUp(k, end) \in ConnType \cup {Closed}
         /\ HungUp(k, end).open = conns[k].open \ {end}
         /\ HungUp(k, end).open # {} => HungUp(k, end).who = conns[k].who
<1>1. CASE conns[k].open \ {end} = {}
  BY <1>1 DEF HungUp, Closed
<1>2. CASE conns[k].open \ {end} # {}
  BY <1>2 DEF HungUp, ConnType
<1> QED
  BY <1>1, <1>2

LEMMA LeavesTyped ==
  ASSUME TypeInv, NEW c \in Clients, client[c].conn # 0,
         NEW pc \in {"menu", "ended"}, Leaves(c, pc),
         UNCHANGED calm, UNCHANGED serverVars, UNCHANGED <<rest, murky>>,
         AccountsTyped'
  PROVE  TypeInv'
<1> DEFINE k == client[c].conn
           x == [client[c] EXCEPT !.pc = pc, !.conn = 0, !.got = Nobody]
           f == HungUp(k, "client")
<1>1. /\ k \in DOMAIN conns /\ conns[k] \in ConnType
      /\ conns[k].who = c /\ "client" \in conns[k].open
  BY OwnConn DEF Conn
<1>2. /\ f \in ConnType \cup {Closed} /\ f.open = conns[k].open \ {"client"}
  BY <1>1, HungUpTyped
<1>3. conns' = [conns EXCEPT ![k] = f] /\ client' = [client EXCEPT ![c] = x]
  BY DEF Leaves
<1>4. x \in ClientType /\ x.conn = 0 /\ x.pc \in {"menu", "ended"}
  BY ClientTypeOf, NobodyTyped DEF ClientType
<1> HIDE DEF x, f, k
<1>5. /\ conns' \in Seq(ConnType \cup {Closed})
      /\ Len(conns') = Len(conns) /\ DOMAIN conns' = DOMAIN conns
      /\ conns'[k] = f /\ \A j \in DOMAIN conns \ {k} : conns'[j] = conns[j]
  BY <1>1, <1>2, <1>3, ConnSet
<1>6. ServerTyped' /\ SlotsOpen'
  BY ServerStill DEF serverVars
<1>7. UNCHANGED <<server, backlog, at>>
  BY DEF serverVars
<1>8. ConnsTyped' /\ OneEach'
  BY <1>5, <1>7 DEF TypeInv, ConnsTyped, OneEach
<1>9. ServerHolds'
  <2>1. SUFFICES ASSUME server # "dead"
                 PROVE  /\ \A i \in DOMAIN backlog : "server" \in conns'[backlog[i]].open
                        /\ \A fd \in Fds : at[fd] # 0 => "server" \in conns'[at[fd]].open
    BY <1>7 DEF ServerHolds
  <2>2. \A i \in DOMAIN backlog : backlog[i] \in DOMAIN conns
    BY ElementOfSeq, LenProperties DEF TypeInv, ConnsTyped
  <2>3. \A fd \in Fds : at[fd] # 0 => at[fd] \in DOMAIN conns
    BY DEF TypeInv, ConnsTyped
  <2>4. \A j \in DOMAIN conns : "server" \in conns[j].open => "server" \in conns'[j].open
    BY <1>2, <1>5
  <2> QED
    BY <2>1, <2>2, <2>3, <2>4 DEF TypeInv, ServerHolds
<1>10. client' \in [Clients -> ClientType]
  BY <1>3, <1>4 DEF TypeInv, ClientsTyped
<1>11. ClientsTyped'
  BY <1>5, <1>10 DEF TypeInv, ClientsTyped, ClientType
<1>12. \A d \in Clients \ {c} : client'[d] = client[d]
  BY <1>3 DEF TypeInv, ClientsTyped
<1>13. client'[c] = x
  BY <1>3 DEF TypeInv, ClientsTyped
<1>14. \A d \in Clients \ {c} : client[d].conn # 0 =>
          /\ conns'[client[d].conn] = conns[client[d].conn]
          /\ conns[client[d].conn].who = d /\ "client" \in conns[client[d].conn].open
  BY <1>1, <1>5, OwnConn DEF Conn
<1>15. \A d \in Clients \ {c} :
           /\ client'[d].conn # 0 => /\ conns'[client'[d].conn].who = d
                                     /\ "client" \in conns'[client'[d].conn].open
           /\ client'[d].pc \in {"send", "recv", "show", "add", "fail"} =>
                client'[d].conn # 0
  BY <1>12, <1>14 DEF TypeInv, ClientHolds
<1>16. client'[c].conn = 0 /\ client'[c].pc \notin {"send", "recv", "show", "add", "fail"}
  BY <1>4, <1>13
<1>17. ClientHolds'
  BY <1>15, <1>16 DEF ClientHolds, Conn
<1> QED
  BY <1>6, <1>8, <1>9, <1>11, <1>17 DEF TypeInv

LEMMA ClientLeavesTyped ==
  ASSUME TypeInv, NEW c \in Clients, AddAccount(c) \/ Done(c) \/ Leave(c)
  PROVE  TypeInv'
<1>1. CASE AddAccount(c) /\ WriteId(c) /\ UNCHANGED <<client, conns>>
  <2>1. /\ UNCHANGED client /\ UNCHANGED calm /\ UNCHANGED serverVars
        /\ UNCHANGED rest /\ UNCHANGED murky /\ UNCHANGED conns
    BY <1>1 DEF AddAccount
  <2>2. client[c].pc = "add" /\ WriteId(c)
    BY <1>1 DEF AddAccount
  <2>3. client[c].conn # 0
    BY <2>2 DEF TypeInv, ClientHolds
  <2>4. AccountsTyped' /\ SameEnds
    BY <2>1, <2>2, WriteTyped, SameConns
  <2>5. /\ client' = [client EXCEPT ![c] = client[c]] /\ client[c] \in ClientType
        /\ rest' \in [Clients -> Seq(Byte)] /\ murky' \subseteq Clients
    BY <2>1, ClientTypeOf DEF TypeInv, ClientsTyped
  <2> QED
    BY <2>1, <2>3, <2>4, <2>5, ClientTurns
<1>2. CASE AddAccount(c) /\ WritePseudo(c) /\ Leaves(c, "menu")
  <2>1. client[c].conn # 0
    BY <1>2 DEF AddAccount, TypeInv, ClientHolds
  <2>2. UNCHANGED calm /\ UNCHANGED serverVars /\ UNCHANGED <<rest, murky>>
    BY <1>2 DEF AddAccount
  <2>3. AccountsTyped'
    BY <1>2, WriteTyped
  <2> QED
    BY <1>2, <2>1, <2>2, <2>3, LeavesTyped
<1>3. CASE AddAccount(c) /\ FileFull(c) /\ Leaves(c, "ended")
  <2>1. client[c].conn # 0
    BY <1>3 DEF AddAccount, TypeInv, ClientHolds
  <2>2. UNCHANGED calm /\ UNCHANGED serverVars /\ UNCHANGED <<rest, murky>>
    BY <1>3 DEF AddAccount
  <2>3. AccountsTyped'
    BY <1>3, WriteTyped
  <2> QED
    BY <1>3, <2>1, <2>2, <2>3, LeavesTyped
<1>4. CASE Done(c) \/ Leave(c)
  <2>1. PICK pc \in {"menu", "ended"} : Leaves(c, pc)
    BY <1>4 DEF Done, Leave
  <2>2. client[c].conn # 0
    BY <1>4 DEF Done, Leave, TypeInv, ClientHolds
  <2>3. /\ UNCHANGED calm /\ UNCHANGED serverVars /\ UNCHANGED <<rest, murky>>
        /\ UNCHANGED accountVars
    BY <1>4 DEF Done, Leave
  <2>4. AccountsTyped'
    BY <2>3, AccountsStill
  <2> QED
    BY <2>1, <2>2, <2>3, <2>4, LeavesTyped
<1> QED
  BY <1>1, <1>2, <1>3, <1>4 DEF AddAccount

-----------------------------------------------------------------------------
(* TypeInv: the server's steps *)

LEMMA ClientSideStill ==
  ASSUME TypeInv, SameEnds, UNCHANGED clientVars, UNCHANGED accountVars
  PROVE  ClientsTyped' /\ ClientHolds' /\ AccountsTyped'
<1>1. murky' \subseteq Clients /\ UNCHANGED client /\ UNCHANGED rest
  BY DEF clientVars, TypeInv, ClientsTyped
<1> QED
  BY <1>1, ClientsStill, AccountsStill

LEMMA TurnTyped ==
  ASSUME TypeInv, NEW ready, ready \subseteq 0..Len(fds),
         \A i \in ready : i # 0 => fds[i] # -1
  PROVE  /\ Turn(ready) \in LoopType
         /\ \A i \in Turn(ready).ready : i \in ready
         /\ Turn(ready).pc \in {"poll", "accept", "recv"}
         /\ Turn(ready).pc = "recv" => /\ Turn(ready).slot \in ready \ {0}
                                       /\ Turn(ready).slot \notin Turn(ready).ready
<1>0. fds \in Seq({-1} \cup Fds) /\ Len(fds) \in Nat
  BY LenProperties DEF TypeInv, ServerTyped
<1>1. CASE ready = {}
  <2>1. Turn(ready) = Resting
    BY <1>1 DEF Turn
  <2>2. Resting \in LoopType
    BY <1>0 DEF Resting, LoopType, NoRequest
  <2> QED
    BY <2>1, <2>2 DEF Resting
<1>2. CASE ready # {}
  <2> DEFINE i == Min(ready)
             t == [Resting EXCEPT !.pc = IF i = 0 THEN "accept" ELSE "recv",
                                  !.ready = ready \ {i}, !.slot = i]
  <2>1. ready \subseteq Nat
    BY <1>0
  <2>2. i \in ready
    BY <1>2, <2>1, LeastNumber
  <2>3. Turn(ready) = t
    BY <1>2 DEF Turn
  <2> HIDE DEF i
  <2>4. /\ Resting \in LoopType /\ i \in 0..Len(fds)
        /\ ready \ {i} \in SUBSET (0..Len(fds))
    BY <1>0, <2>2 DEF Resting, LoopType, NoRequest
  <2>5. t \in LoopType
    BY <2>4 DEF LoopType
  <2> HIDE DEF t
  <2>6. /\ t.ready = ready \ {i} /\ t.slot = i
        /\ t.pc = (IF i = 0 THEN "accept" ELSE "recv")
    BY DEF t, Resting
  <2> QED
    BY <2>2, <2>3, <2>5, <2>6
<1> QED
  BY <1>1, <1>2

LEMMA NextTurnTyped ==
  ASSUME TypeInv, NEW ready, ready \subseteq 0..Len(fds),
         \A i \in ready : i # 0 => fds[i] # -1,
         loop' = Turn(ready), server = "serving",
         UNCHANGED <<calm, server, backlog, fds, infos, at, conns>>,
         UNCHANGED clientVars, UNCHANGED accountVars
  PROVE  TypeInv'
<1>1. /\ loop' \in LoopType /\ \A i \in loop'.ready : i \in ready
      /\ loop'.pc \in {"poll", "accept", "recv"}
      /\ loop'.pc = "recv" => loop'.slot \in ready \ {0} /\ loop'.slot \notin loop'.ready
  BY TurnTyped
<1>2. SameEnds
  BY SameConns
<1>3. ConnsTyped' /\ OneEach' /\ ServerHolds'
  BY <1>2, DescriptorsStill
<1>4. ClientsTyped' /\ ClientHolds' /\ AccountsTyped'
  BY <1>2, ClientSideStill
<1>5. ServerTyped'
  BY <1>1 DEF TypeInv, ServerTyped, LoopType
<1>6. fds \in Seq({-1} \cup Fds) /\ Len(fds) \in Nat /\ DOMAIN fds = 1..Len(fds)
  BY LenProperties DEF TypeInv, ServerTyped
<1>7. loop'.pc \in {"recv", "send"} =>
        loop'.slot \in DOMAIN fds /\ fds[loop'.slot] # -1 /\ loop'.slot \notin loop'.ready
  <2>1. \A i \in ready \ {0} : i \in DOMAIN fds /\ fds[i] # -1
    BY <1>6
  <2>2. loop'.pc # "send"
    BY <1>1
  <2> QED
    BY <1>1, <2>1, <2>2
<1>8. \A i \in loop'.ready : i # 0 => fds[i] # -1
  BY <1>1
<1>9. SlotsOpen'
  BY <1>7, <1>8 DEF TypeInv, SlotsOpen, Fd
<1> QED
  BY <1>3, <1>4, <1>5, <1>9 DEF TypeInv

LEMMA PollTyped ==
  ASSUME TypeInv, Poll \/ NoMoreToAccept
  PROVE  TypeInv'
<1>1. /\ server = "serving" /\ UNCHANGED clientVars /\ UNCHANGED accountVars
      /\ UNCHANGED <<calm, server, backlog, fds, infos, at, conns>>
  BY DEF Poll, NoMoreToAccept
<1>2. fds \in Seq({-1} \cup Fds) /\ Len(fds) \in Nat /\ DOMAIN fds = 1..Len(fds)
  BY LenProperties DEF TypeInv, ServerTyped
<1>3. CASE Poll
  <2>1. ReadySlots \subseteq 0..Len(fds) /\ \A i \in ReadySlots : i # 0 => fds[i] # -1
    BY <1>2 DEF ReadySlots
  <2>2. loop' = Turn(ReadySlots)
    BY <1>3 DEF Poll
  <2> QED
    BY <1>1, <2>1, <2>2, NextTurnTyped
<1>4. CASE NoMoreToAccept
  <2>1. loop.ready \subseteq 0..Len(fds) /\ \A i \in loop.ready : i # 0 => fds[i] # -1
    BY DEF TypeInv, ServerTyped, LoopType, SlotsOpen
  <2>2. loop' = Turn(loop.ready)
    BY <1>4 DEF NoMoreToAccept
  <2> QED
    BY <1>1, <2>1, <2>2, NextTurnTyped
<1> QED
  BY <1>3, <1>4

(* There are as many descriptors as connections may be made, and a         *)
(* connection has one at most.                                             *)
LEMMA FreeFdIs ==
  ASSUME TypeInv, backlog # <<>>
  PROVE  FreeFd \in Fds /\ at[FreeFd] = 0
<1> DEFINE k == Head(backlog)
           T == {fd \in Fds : at[fd] = 0}
<1>1. /\ backlog \in Seq(DOMAIN conns) /\ at \in [Fds -> {0} \cup DOMAIN conns]
      /\ Len(conns) \in Nat /\ DOMAIN conns = 1..Len(conns) /\ Len(conns) <= MaxConns
      /\ MaxConns \in Nat
  BY LenProperties, ExchangeAssumption DEF TypeInv, ConnsTyped
<1>2. k \in DOMAIN conns /\ k = backlog[1] /\ 1 \in DOMAIN backlog
  BY <1>1, HeadTailProperties, LenProperties, EmptySeq
<1>3. \A fd \in Fds : at[fd] # k
  BY <1>2 DEF TypeInv, OneEach
<1> HIDE DEF k
<1>4. T # {}
  <2> SUFFICES ASSUME \A fd \in Fds : at[fd] # 0 PROVE FALSE
    OBVIOUS
  <2>1. at \in [Fds -> DOMAIN conns \ {k}]
    BY <1>1, <1>3
  <2>2. IsFiniteSet(Fds) /\ Cardinality(Fds) = MaxConns
    BY <1>1, FS_Interval DEF Fds
  <2>3. IsFiniteSet(DOMAIN conns) /\ Cardinality(DOMAIN conns) = Len(conns)
    <3>1. 1 \in Int /\ Len(conns) \in Int
      BY <1>1
    <3>2. /\ IsFiniteSet(1..Len(conns))
          /\ Cardinality(1..Len(conns)) = IF 1 > Len(conns) THEN 0 ELSE Len(conns) - 1 + 1
      BY <3>1, FS_Interval
    <3> QED
      BY <1>1, <3>2
  <2>4. /\ IsFiniteSet(DOMAIN conns \ {k})
        /\ Cardinality(DOMAIN conns \ {k}) = Len(conns) - 1
    BY <1>2, <2>3, FS_RemoveElement
  <2>5. Cardinality(DOMAIN conns \ {k}) < Cardinality(Fds)
    BY <1>1, <2>2, <2>4
  <2>6. \E fd, gd \in Fds : fd # gd /\ at[fd] = at[gd]
    BY <2>1, <2>2, <2>4, <2>5, FS_PigeonHole
  <2> QED
    BY <2>6 DEF TypeInv, OneEach
<1>5. T \subseteq Nat
  BY DEF Fds
<1>6. Min(T) \in T
  BY <1>4, <1>5, LeastNumber
<1> QED
  BY <1>6 DEF FreeFd

(* new is the slots with slot s taken by fd. *)
SlotTaken(s, fd, new) ==
  /\ s \in DOMAIN new
  /\ new \in Seq({-1} \cup Fds) /\ Len(fds) <= Len(new)
  /\ DOMAIN new = DOMAIN fds \cup {s}
  /\ s \in DOMAIN fds => fds[s] = -1
  /\ new[s] = fd
  /\ \A i \in DOMAIN fds \ {s} : new[i] = fds[i]

LEMMA WithSlotIs ==
  ASSUME TypeInv, NEW fd \in Fds, NEW new, new = WithSlot(fd)
  PROVE  \E s : SlotTaken(s, fd, new)
<1> DEFINE free == {i \in DOMAIN fds : fds[i] = -1}
<1>1. fds \in Seq({-1} \cup Fds) /\ Len(fds) \in Nat /\ DOMAIN fds = 1..Len(fds)
  BY LenProperties DEF TypeInv, ServerTyped
<1>2. fd \in {-1} \cup Fds
  OBVIOUS
<1>3. CASE free = {}
  <2>1. new = Append(fds, fd)
    BY <1>3 DEF WithSlot
  <2>2. /\ new \in Seq({-1} \cup Fds)
        /\ Len(new) = Len(fds) + 1
        /\ \A i \in 1..Len(fds) : new[i] = fds[i]
        /\ new[Len(fds) + 1] = fd
    BY <1>1, <1>2, <2>1, AppendProperties
  <2>3. DOMAIN new = 1..(Len(fds) + 1)
    BY <2>2, LenProperties
  <2>4. Len(fds) + 1 \notin DOMAIN fds /\ Len(fds) <= Len(fds) + 1
        /\ 1..(Len(fds) + 1) = DOMAIN fds \cup {Len(fds) + 1}
    BY <1>1
  <2>5. SlotTaken(Len(fds) + 1, fd, new)
    BY <1>1, <2>2, <2>3, <2>4 DEF SlotTaken
  <2> QED
    BY <2>5
<1>4. CASE free # {}
  <2> DEFINE s == Min(free)
  <2>0. free \subseteq Nat
    BY <1>1
  <2>1. s \in free
    BY <2>0, <1>4, LeastNumber
  <2>2. new = [fds EXCEPT ![s] = fd]
    BY <1>4 DEF WithSlot
  <2>3. s \in 1..Len(fds) /\ fds[s] = -1
    BY <1>1, <2>1
  <2> HIDE DEF s
  <2>4. /\ new \in Seq({-1} \cup Fds)
        /\ Len(new) = Len(fds)
        /\ new[s] = fd
        /\ \A i \in 1..Len(fds) \ {s} : new[i] = fds[i]
    BY <1>1, <1>2, <2>2, <2>3, ExceptSeq
  <2>5. DOMAIN new = 1..Len(fds)
    BY <2>4, LenProperties
  <2>6. s \in DOMAIN new /\ 1..Len(fds) = DOMAIN fds \cup {s}
        /\ Len(fds) <= Len(fds)
    BY <1>1, <2>3, <2>5
  <2>7. SlotTaken(s, fd, new)
    BY <1>1, <2>3, <2>4, <2>5, <2>6 DEF SlotTaken
  <2> QED
    BY <2>7
<1> QED
  BY <1>3, <1>4

LEMMA AcceptTyped ==
  ASSUME TypeInv, Accept
  PROVE  TypeInv'
<1> DEFINE k == Head(backlog)
           fd == FreeFd
<1>1. /\ at' = [at EXCEPT ![fd] = k] /\ fds' = WithSlot(fd) /\ backlog' = Tail(backlog)
      /\ backlog # <<>> /\ loop.pc = "accept" /\ server = "serving"
      /\ infos' = [infos EXCEPT ![fd] = <<>>]
      /\ UNCHANGED calm /\ UNCHANGED server /\ UNCHANGED loop
      /\ UNCHANGED conns /\ UNCHANGED clientVars /\ UNCHANGED accountVars
  BY DEF Accept
<1>2. fd \in Fds /\ at[fd] = 0
  BY <1>1, FreeFdIs
<1>3. /\ backlog \in Seq(DOMAIN conns) /\ at \in [Fds -> {0} \cup DOMAIN conns]
      /\ conns \in Seq(ConnType \cup {Closed}) /\ DOMAIN conns = 1..Len(conns)
      /\ DOMAIN backlog = 1..Len(backlog) /\ Len(backlog) \in Nat
  BY LenProperties DEF TypeInv, ConnsTyped
<1>4. k \in DOMAIN conns /\ k = backlog[1] /\ 1 \in DOMAIN backlog /\ k # 0
  BY <1>1, <1>3, HeadTailProperties, EmptySeq
<1>5. /\ backlog' \in Seq(DOMAIN conns) /\ Len(backlog') = Len(backlog) - 1
      /\ \A i \in 1..Len(backlog') : backlog'[i] = backlog[i + 1]
  BY <1>1, <1>3, HeadTailProperties
<1>6. /\ DOMAIN backlog' = 1..Len(backlog')
      /\ \A i \in DOMAIN backlog' : i + 1 \in DOMAIN backlog /\ i + 1 # 1
                                    /\ backlog'[i] = backlog[i + 1]
  <2>1. DOMAIN backlog' = 1..Len(backlog')
    BY <1>5, LenProperties
  <2> QED
    BY <1>3, <1>5, <2>1, SMTT(30)
<1> HIDE DEF k, fd
<1>a. PICK s : SlotTaken(s, fd, fds')
  BY <1>1, <1>2, WithSlotIs
<1>7. /\ s \in DOMAIN fds'
      /\ fds' \in Seq({-1} \cup Fds) /\ Len(fds) <= Len(fds')
      /\ DOMAIN fds' = DOMAIN fds \cup {s}
      /\ s \in DOMAIN fds => fds[s] = -1
      /\ fds'[s] = fd
      /\ \A i \in DOMAIN fds \ {s} : fds'[i] = fds[i]
  BY <1>a DEF SlotTaken
<1>8. /\ at' \in [Fds -> {0} \cup DOMAIN conns] /\ at'[fd] = k
      /\ \A gd \in Fds \ {fd} : at'[gd] = at[gd]
  BY <1>1, <1>2, <1>3, <1>4
<1>9. ConnsTyped'
  BY <1>1, <1>5, <1>8 DEF TypeInv, ConnsTyped
<1>10. fds \in Seq({-1} \cup Fds) /\ Len(fds) \in Nat /\ DOMAIN fds = 1..Len(fds)
       /\ loop \in LoopType /\ Len(fds') \in Nat
  BY <1>7, LenProperties DEF TypeInv, ServerTyped
<1>11. 0..Len(fds) \subseteq 0..Len(fds')
  BY <1>7, <1>10
<1>12. ServerTyped'
  <2>a. <<>> \in Seq(Byte)
    OBVIOUS
  <2>1. infos' \in [Fds -> Seq(Byte)]
    BY <1>1, <2>a DEF TypeInv, ServerTyped
  <2> QED
    BY <1>1, <1>7, <1>10, <1>11, <2>1 DEF TypeInv, ServerTyped, LoopType
<1>13. \A i \in DOMAIN fds' : i # s => i \in DOMAIN fds /\ fds'[i] = fds[i]
  BY <1>7
<1>14. \A i \in DOMAIN fds : fds[i] \in {-1} \cup Fds
  BY <1>10, ElementOfSeq
<1>15. \A i \in DOMAIN fds : fds[i] # fd
  BY <1>1, <1>2, <1>14 DEF TypeInv, SlotsOpen, Fds
<1>16. \A i \in DOMAIN fds' : fds'[i] # -1 => at'[fds'[i]] # 0
  BY <1>1, <1>4, <1>7, <1>8, <1>13, <1>14, <1>15 DEF TypeInv, SlotsOpen
<1>17. \A gd \in Fds : at'[gd] # 0 => \E i \in DOMAIN fds' : fds'[i] = gd
  <2> SUFFICES ASSUME NEW gd \in Fds, at'[gd] # 0, gd # fd
               PROVE  \E i \in DOMAIN fds' : fds'[i] = gd
    BY <1>7
  <2>1. PICK i \in DOMAIN fds : fds[i] = gd
    BY <1>8 DEF TypeInv, SlotsOpen
  <2>2. gd # -1
    BY DEF Fds
  <2>3. i # s
    BY <1>7, <2>1, <2>2
  <2> QED
    BY <1>7, <2>1, <2>3
<1>18. \A i, j \in DOMAIN fds' : fds'[i] = fds'[j] /\ fds'[i] # -1 => i = j
  BY <1>7, <1>13, <1>15 DEF TypeInv, SlotsOpen
<1>19. \A i \in loop.ready : i # 0 => fds'[i] # -1
  <2> SUFFICES ASSUME NEW i \in loop.ready, i # 0 PROVE fds'[i] # -1
    OBVIOUS
  <2>1. i \in DOMAIN fds /\ fds[i] # -1
    BY <1>10 DEF LoopType, TypeInv, SlotsOpen
  <2> QED
    BY <1>7, <2>1
<1>20. SlotsOpen'
  BY <1>1, <1>16, <1>17, <1>18, <1>19 DEF SlotsOpen
<1>21. \A gd \in Fds : at[gd] # k
  BY <1>4 DEF TypeInv, OneEach
<1>22. \A gd, hd \in Fds : at'[gd] = at'[hd] /\ at'[gd] # 0 => gd = hd
  BY <1>8, <1>21 DEF TypeInv, OneEach
<1>23. \A i, j \in DOMAIN backlog' : backlog'[i] = backlog'[j] => i = j
  <2> SUFFICES ASSUME NEW i \in DOMAIN backlog', NEW j \in DOMAIN backlog',
                      backlog'[i] = backlog'[j]
               PROVE  i = j
    OBVIOUS
  <2>1. i \in Nat /\ j \in Nat
    BY <1>6
  <2>2. i + 1 = j + 1
    BY <1>6 DEF TypeInv, OneEach
  <2> QED
    BY <2>1, <2>2
<1>24. \A i \in DOMAIN backlog' : backlog'[i] # k
  BY <1>4, <1>6 DEF TypeInv, OneEach
<1>25. \A i \in DOMAIN backlog' : \A gd \in Fds : at'[gd] # backlog'[i]
  BY <1>6, <1>8, <1>24 DEF TypeInv, OneEach
<1>26. OneEach'
  BY <1>22, <1>23, <1>25 DEF OneEach
<1>27. ServerHolds'
  <2>1. SUFFICES ASSUME server # "dead"
                 PROVE  /\ \A i \in DOMAIN backlog' : "server" \in conns[backlog'[i]].open
                        /\ \A gd \in Fds : at'[gd] # 0 => "server" \in conns[at'[gd]].open
    BY <1>1 DEF ServerHolds
  <2>2. \A i \in DOMAIN backlog : "server" \in conns[backlog[i]].open
    BY <2>1 DEF TypeInv, ServerHolds
  <2>3. \A gd \in Fds : at[gd] # 0 => "server" \in conns[at[gd]].open
    BY <2>1 DEF TypeInv, ServerHolds
  <2>4. \A gd \in Fds : at'[gd] # 0 => "server" \in conns[at'[gd]].open
    BY <1>4, <1>8, <2>2, <2>3
  <2> QED
    BY <1>6, <2>2, <2>4
<1>28. ClientsTyped' /\ ClientHolds' /\ AccountsTyped'
  BY <1>1, SameConns, ClientSideStill
<1> QED
  BY <1>9, <1>12, <1>20, <1>26, <1>27, <1>28 DEF TypeInv

LEMMA StopTyped ==
  ASSUME TypeInv, server = "serving", NEW how \in {"stopped", "dead"}, Stop(how),
         UNCHANGED <<fds, infos, at>>
  PROVE  ServerTyped' /\ SlotsOpen' /\ OneEach' /\ AccountsTyped'
<1>1. /\ server' = how /\ loop' = Resting
      /\ UNCHANGED calm /\ UNCHANGED backlog /\ UNCHANGED fds /\ UNCHANGED infos
      /\ UNCHANGED at /\ UNCHANGED accountVars
  BY DEF Stop
<1>2. Len(fds) \in Nat
  BY LenProperties DEF TypeInv, ServerTyped
<1>3. loop' \in LoopType /\ loop'.pc = "poll" /\ loop'.ready = {}
  BY <1>1, <1>2 DEF Resting, LoopType, NoRequest
<1>4. ServerTyped'
  BY <1>1, <1>3 DEF TypeInv, ServerTyped, LoopType
<1>5. SlotsOpen'
  <2>1. \A i \in DOMAIN fds : fds[i] # -1 => at[fds[i]] # 0
    BY DEF TypeInv, SlotsOpen
  <2>2. \E fd \in Fds \cup {-1} : \A i \in DOMAIN fds :
          fds[i] # -1 => (at[fds[i]] = 0 <=> fds[i] = fd)
    BY <2>1
  <2> QED
    BY <1>1, <1>3, <2>1, <2>2 DEF TypeInv, SlotsOpen
<1>6. OneEach'
  BY <1>1 DEF TypeInv, OneEach
<1> QED
  BY <1>1, <1>4, <1>5, <1>6, AccountsStill

LEMMA GiveUpTyped ==
  ASSUME TypeInv, GiveUp
  PROVE  TypeInv'
<1>1. /\ Stop("stopped") /\ server = "serving" /\ UNCHANGED conns
      /\ UNCHANGED clientVars /\ UNCHANGED accountVars
      /\ server' = "stopped" /\ UNCHANGED backlog /\ UNCHANGED at
      /\ UNCHANGED fds /\ UNCHANGED infos
  BY DEF GiveUp, Stop
<1>2. ServerTyped' /\ SlotsOpen' /\ OneEach' /\ AccountsTyped'
  BY <1>1, StopTyped
<1>3. ClientsTyped' /\ ClientHolds'
  BY <1>1, SameConns, ClientSideStill
<1>4. ConnsTyped'
  BY <1>1 DEF TypeInv, ConnsTyped
<1>5. ServerHolds'
  BY <1>1 DEF TypeInv, ServerHolds
<1> QED
  BY <1>2, <1>3, <1>4, <1>5 DEF TypeInv

LEMMA DroppedTyped ==
  ASSUME NEW k \in DOMAIN conns, conns[k] \in ConnType, NEW f,
         f = IF HungUp(k, "server") = Closed THEN Closed
             ELSE [HungUp(k, "server") EXCEPT !.dropped = TRUE]
  PROVE  /\ f \in ConnType \cup {Closed} /\ f.open = conns[k].open \ {"server"}
         /\ f.open # {} => f.who = conns[k].who
<1> DEFINE h == HungUp(k, "server")
<1>1. /\ h \in ConnType \cup {Closed} /\ h.open = conns[k].open \ {"server"}
      /\ h.open # {} => h.who = conns[k].who
  BY HungUpTyped
<1> HIDE DEF h
<1>2. CASE h = Closed
  BY <1>1, <1>2 DEF h
<1>3. CASE h # Closed
  <2>1. h \in ConnType /\ f = [h EXCEPT !.dropped = TRUE]
    BY <1>1, <1>3 DEF h
  <2>2. f \in ConnType /\ f.open = h.open /\ f.who = h.who
    BY <2>1 DEF ConnType
  <2> QED
    BY <1>1, <2>2
<1> QED
  BY <1>2, <1>3

LEMMA DropTyped ==
  ASSUME TypeInv, Drop
  PROVE  TypeInv'
<1> DEFINE k == Serving
           f == IF HungUp(k, "server") = Closed THEN Closed
                ELSE [HungUp(k, "server") EXCEPT !.dropped = TRUE]
<1>1. /\ loop.pc \in {"recv", "send"} /\ server = "serving"
      /\ server' = "stopped" /\ loop' = Resting
      /\ conns' = [conns EXCEPT ![k] = f] /\ at' = [at EXCEPT ![Fd] = 0]
      /\ UNCHANGED calm /\ UNCHANGED backlog /\ UNCHANGED fds /\ UNCHANGED infos
      /\ UNCHANGED clientVars /\ UNCHANGED accountVars
  BY DEF Drop, Stop
<1>2. /\ Fd \in Fds /\ at[Fd] = k /\ k # 0
      /\ k \in DOMAIN conns /\ conns[k] \in ConnType
  BY <1>1, ServedConn DEF Serving
<1>3. /\ f \in ConnType \cup {Closed} /\ f.open = conns[k].open \ {"server"}
      /\ f.open # {} => f.who = conns[k].who
  BY <1>2, DroppedTyped
<1> HIDE DEF k, f
<1>4. /\ conns' \in Seq(ConnType \cup {Closed})
      /\ Len(conns') = Len(conns) /\ DOMAIN conns' = DOMAIN conns
      /\ conns'[k] = f /\ \A j \in DOMAIN conns \ {k} : conns'[j] = conns[j]
  BY <1>1, <1>2, <1>3, ConnSet
<1>5. /\ at \in [Fds -> {0} \cup DOMAIN conns] /\ backlog \in Seq(DOMAIN conns)
      /\ at' \in [Fds -> {0} \cup DOMAIN conns] /\ at'[Fd] = 0
      /\ \A gd \in Fds \ {Fd} : at'[gd] = at[gd]
  BY <1>1, <1>2 DEF TypeInv, ConnsTyped
<1>6. ConnsTyped'
  BY <1>1, <1>4, <1>5 DEF TypeInv, ConnsTyped
<1>7. Len(fds) \in Nat /\ \A i \in DOMAIN fds : fds[i] \in {-1} \cup Fds
  BY LenProperties, ElementOfSeq DEF TypeInv, ServerTyped
<1>8. loop' \in LoopType /\ loop'.pc = "poll" /\ loop'.ready = {}
  BY <1>1, <1>7 DEF Resting, LoopType, NoRequest
<1>9. ServerTyped'
  BY <1>1, <1>8 DEF TypeInv, ServerTyped, LoopType
<1>10. SlotsOpen'
  <2>1. \A i \in DOMAIN fds : fds[i] # -1 => (at'[fds[i]] = 0 <=> fds[i] = Fd)
    BY <1>1, <1>5, <1>7 DEF TypeInv, SlotsOpen
  <2>2. \A gd \in Fds : at'[gd] # 0 => \E i \in DOMAIN fds : fds[i] = gd
    BY <1>5 DEF TypeInv, SlotsOpen
  <2>3. \A i, j \in DOMAIN fds : fds[i] = fds[j] /\ fds[i] # -1 => i = j
    BY DEF TypeInv, SlotsOpen
  <2>4. \E fd \in Fds \cup {-1} : \A i \in DOMAIN fds :
          fds[i] # -1 => (at'[fds[i]] = 0 <=> fds[i] = fd)
    BY <1>2, <2>1
  <2> QED
    BY <1>1, <1>8, <2>2, <2>3, <2>4 DEF SlotsOpen
<1>11. OneEach'
  <2>1. \A gd, hd \in Fds : at'[gd] = at'[hd] /\ at'[gd] # 0 => gd = hd
    BY <1>5 DEF TypeInv, OneEach
  <2>2. \A i \in DOMAIN backlog : backlog[i] \in DOMAIN conns
    BY <1>5, ElementOfSeq, LenProperties
  <2>3. DOMAIN conns \subseteq Nat \ {0}
    BY LenProperties DEF TypeInv, ConnsTyped
  <2>4. \A i \in DOMAIN backlog : \A gd \in Fds : at'[gd] # backlog[i]
    BY <1>5, <2>2, <2>3 DEF TypeInv, OneEach
  <2> QED
    BY <1>1, <2>1, <2>4 DEF TypeInv, OneEach
<1>12. ServerHolds'
  <2>1. \A i \in DOMAIN backlog : backlog[i] \in DOMAIN conns \ {k}
    BY <1>2, <1>5, ElementOfSeq, LenProperties DEF TypeInv, OneEach
  <2>2. \A gd \in Fds \ {Fd} : at[gd] # 0 => at[gd] \in DOMAIN conns \ {k}
    BY <1>2, <1>5 DEF TypeInv, OneEach
  <2>3. \A i \in DOMAIN backlog : "server" \in conns'[backlog[i]].open
    BY <1>1, <1>4, <2>1 DEF TypeInv, ServerHolds
  <2>4. \A gd \in Fds : at'[gd] # 0 => "server" \in conns'[at'[gd]].open
    BY <1>1, <1>4, <1>5, <2>2 DEF TypeInv, ServerHolds
  <2> QED
    BY <1>1, <2>3, <2>4 DEF ServerHolds
<1>13. UNCHANGED client /\ UNCHANGED rest /\ UNCHANGED murky
  BY <1>1 DEF clientVars
<1>14. ClientsTyped'
  BY <1>4, <1>13 DEF TypeInv, ClientsTyped, ClientType
<1>15. \A j \in DOMAIN conns : "client" \in conns[j].open =>
         conns'[j].who = conns[j].who /\ "client" \in conns'[j].open
  BY <1>3, <1>4
<1>16. ClientHolds'
  BY <1>13, <1>15, OwnConn DEF TypeInv, ClientHolds, Conn
<1>17. AccountsTyped'
  BY <1>1, AccountsStill
<1> QED
  BY <1>6, <1>9, <1>10, <1>11, <1>12, <1>14, <1>16, <1>17 DEF TypeInv

LEMMA IntervalEnd ==
  ASSUME NEW m \in Nat, NEW n \in Nat, 1..m = 1..n
  PROVE  m = n
<1>1. \A p, q \in Nat : p < q => q \in 1..q /\ q \notin 1..p
  OBVIOUS
<1>2. m = n \/ m < n \/ n < m
  OBVIOUS
<1> QED
  BY <1>1, <1>2

LEMMA DieTyped ==
  ASSUME TypeInv, server = "serving", Die
  PROVE  TypeInv'
<1>1. /\ Stop("dead") /\ server' = "dead" /\ UNCHANGED backlog /\ UNCHANGED at
      /\ UNCHANGED client /\ UNCHANGED rest /\ UNCHANGED murky
      /\ UNCHANGED fds /\ UNCHANGED infos
  BY DEF Die, Stop, clientVars
<1>2. ServerTyped' /\ SlotsOpen' /\ OneEach' /\ AccountsTyped'
  BY <1>1, StopTyped
<1>3. conns' = [k \in DOMAIN conns |-> IF conns[k] = Closed THEN Closed
                                       ELSE HungUp(k, "server")]
  BY DEF Die
<1>4. /\ conns \in Seq(ConnType \cup {Closed}) /\ Len(conns) \in Nat
      /\ DOMAIN conns = 1..Len(conns)
      /\ \A k \in DOMAIN conns : conns[k] \in ConnType \cup {Closed}
  BY LenProperties, ElementOfSeq DEF TypeInv, ConnsTyped
<1>5. \A k \in DOMAIN conns : conns'[k] \in ConnType \cup {Closed}
  BY <1>3, <1>4, HungUpTyped
<1>6. conns' \in Seq(ConnType \cup {Closed}) /\ DOMAIN conns' = DOMAIN conns
      /\ Len(conns') = Len(conns)
  <2>1. conns' \in [1..Len(conns) -> ConnType \cup {Closed}]
    BY <1>3, <1>4, <1>5
  <2>2. conns' \in Seq(ConnType \cup {Closed})
    BY <1>4, <2>1, SeqDef
  <2>3. DOMAIN conns' = 1..Len(conns')  /\ Len(conns') \in Nat
    BY <2>2, LenProperties
  <2>4. 1..Len(conns') = 1..Len(conns)
    <3>1. DOMAIN conns' = 1..Len(conns)
      BY <2>1
    <3> QED
      BY <2>3, <3>1, Zenon
  <2>5. Len(conns') = Len(conns)
    BY <1>4, <2>3, <2>4, IntervalEnd, Zenon
  <2> QED
    BY <1>4, <2>2, <2>3, <2>5
<1>7. ConnsTyped'
  BY <1>1, <1>6 DEF TypeInv, ConnsTyped
<1>8. ServerHolds'
  BY <1>1 DEF ServerHolds
<1>9. ClientsTyped'
  BY <1>1, <1>6 DEF TypeInv, ClientsTyped, ClientType
<1>10. \A k \in DOMAIN conns : "client" \in conns[k].open =>
         conns'[k].who = conns[k].who /\ "client" \in conns'[k].open
  <2> SUFFICES ASSUME NEW k \in DOMAIN conns, "client" \in conns[k].open
               PROVE  conns'[k].who = conns[k].who /\ "client" \in conns'[k].open
    OBVIOUS
  <2>1. conns[k] # Closed
    BY DEF Closed
  <2>2. conns[k] \in ConnType /\ conns'[k] = HungUp(k, "server")
    BY <1>3, <1>4, <2>1
  <2> QED
    BY <2>2, HungUpTyped
<1>11. ClientHolds'
  BY <1>1, <1>10, OwnConn DEF TypeInv, ClientHolds, Conn
<1> QED
  BY <1>2, <1>7, <1>8, <1>9, <1>11 DEF TypeInv

(* The connection being served goes on being served.                       *)
LEMMA ServingGoesOn ==
  ASSUME TypeInv, SameEnds, loop.pc \in {"recv", "send"},
         NEW l \in LoopType, loop' = l, l.pc \in {"recv", "send"},
         l.ready = loop.ready, l.slot = loop.slot,
         infos' \in [Fds -> Seq(Byte)],
         UNCHANGED <<calm, server, backlog, fds, at>>,
         UNCHANGED client, UNCHANGED rest, murky' \subseteq Clients,
         UNCHANGED accountVars
  PROVE  TypeInv'
<1>1. ConnsTyped' /\ OneEach' /\ ServerHolds'
  BY DescriptorsStill
<1>2. ClientsTyped' /\ ClientHolds'
  BY ClientsStill
<1>3. AccountsTyped'
  BY AccountsStill
<1>4. server = "serving"
  BY DEF TypeInv, ServerTyped
<1>5. ServerTyped'
  BY <1>4 DEF TypeInv, ServerTyped, LoopType
<1>6. SlotsOpen'
  BY DEF TypeInv, SlotsOpen, Fd
<1> QED
  BY <1>1, <1>2, <1>3, <1>5, <1>6 DEF TypeInv

LEMMA ServerTypeOf ==
  ASSUME TypeInv, NEW fd \in Fds
  PROVE  infos[fd] \in Seq(Byte) /\ loop \in LoopType
BY DEF TypeInv, ServerTyped

LEMMA InfosSet ==
  ASSUME TypeInv, NEW b \in Seq(Byte), infos' = [infos EXCEPT ![Fd] = b]
  PROVE  infos' \in [Fds -> Seq(Byte)]
BY DEF TypeInv, ServerTyped

LEMMA ReceiveTyped ==
  ASSUME TypeInv, Receive
  PROVE  TypeInv'
<1> DEFINE k == Serving
           b == conns[k].in
<1>0. loop.pc = "recv"
  BY DEF Receive
<1>1. PICK n \in Pieces(b) :
        /\ infos' = [infos EXCEPT ![Fd] = @ \o SubSeq(b, 1, n)]
        /\ conns' = [conns EXCEPT ![k].in = SubSeq(@, n + 1, Len(@))]
  BY DEF Receive, Received
<1>2. Fd \in Fds /\ k \in DOMAIN conns /\ conns[k] \in ConnType
  BY <1>0, ServedConn
<1>3. b \in Seq(Byte)
  BY <1>2 DEF ConnType
<1>4. SubSeq(b, 1, n) \in Seq(Byte) /\ SubSeq(b, n + 1, Len(b)) \in Seq(Byte)
  BY <1>3, PiecesTyped
<1>5. infos[Fd] \o SubSeq(b, 1, n) \in Seq(Byte)
  BY <1>2, <1>4, ServerTypeOf
<1>6. infos' = [infos EXCEPT ![Fd] = infos[Fd] \o SubSeq(b, 1, n)]
  BY <1>1
<1>7. infos' \in [Fds -> Seq(Byte)]
  BY <1>5, <1>6, InfosSet
<1> DEFINE f == [conns[k] EXCEPT !.in = SubSeq(b, n + 1, Len(b))]
<1>8. f \in ConnType /\ f.open = conns[k].open /\ f.who = conns[k].who
  BY <1>2, <1>4 DEF ConnType
<1>9. conns' = [conns EXCEPT ![k] = f]
  BY <1>1
<1> HIDE DEF f, k
<1>10. SameEnds
  BY <1>2, <1>8, <1>9, FieldSet
<1>11. /\ UNCHANGED <<calm, server, backlog, fds, at>>
       /\ UNCHANGED loop /\ UNCHANGED client /\ UNCHANGED rest
       /\ murky' \subseteq Clients /\ UNCHANGED accountVars
  BY DEF Receive, clientVars, TypeInv, ClientsTyped
<1>12. loop \in LoopType
  BY DEF TypeInv, ServerTyped
<1> QED
  BY <1>0, <1>7, <1>10, <1>11, <1>12, ServingGoesOn

LEMMA GrantedTyped ==
  ASSUME NEW type \in 0..31, NEW id \in IdType, NEW feed \in Uint16,
         NEW count \in Uint16, NEW addr \in Byte
  PROVE  [type |-> type, id |-> id, feed |-> feed, count |-> count, addr |-> addr]
           \in HeadType
BY DEF HeadType

LEMMA ErrorTyped ==
  ASSUME NEW e \in Errors
  PROVE  Error(e) \in HeadType
<1>1. e \in 0..31 /\ 0 \in IdType /\ 0 \in Uint16 /\ 0 \in Byte
  BY DEF Errors, ERR_NOID, ERR_IDMAX, IdType, Uint16, Byte
<1> QED
  BY <1>1 DEF Error, HeadType

LEMMA HeadsTyped ==
  ASSUME NEW rq \in RequestType, rq.type \in Types, NEW h \in Heads(rq)
  PROVE  h \in HeadType
<1>0. /\ rq.type \in 0..31 /\ rq.id \in IdType
      /\ 0 \in Uint16 /\ 0 \in Byte /\ 255 \in Byte
      /\ FirstPort \in Uint16 /\ UdpPort \in Uint16
  BY InUint16 DEF RequestType, Byte, FirstPort, UdpPort, REGISTRATION
<1>1. CASE rq.type = REGISTRATION
  <2>0. Heads(rq) = {[type |-> rq.type, id |-> id, feed |-> 0, count |-> 0,
                      addr |-> 0] : id \in FreeIds}
    BY <1>1 DEF Heads, NEWPOST, LASTPOSTS, SUBSCRIBE, UPLOAD, DOWNLOAD, REGISTRATION
  <2>1. PICK id \in FreeIds : h = [type |-> rq.type, id |-> id, feed |-> 0, count |-> 0,
                                   addr |-> 0]
    BY <2>0
  <2>2. id \in IdType
    BY ExchangeAssumption DEF FreeIds, IdType
  <2> QED
    BY <1>0, <2>1, <2>2, GrantedTyped
<1>2. CASE rq.type # REGISTRATION
  <2>1. rq.feed \in Uint16 /\ rq.count \in Uint16
    BY <1>2 DEF RequestType
  <2> DEFINE feeds == IF rq.feed = 0 THEN NewFeeds ELSE {rq.feed}
  <2>2. feeds \subseteq Uint16
    BY <2>1, ExchangeAssumption
  <2>3. CASE rq.type = NEWPOST
    <3>0. Heads(rq) = {[type |-> rq.type, id |-> rq.id, feed |-> feed,
                        count |-> rq.count, addr |-> 0] : feed \in feeds}
      BY <2>3 DEF Heads, NEWPOST, LASTPOSTS, SUBSCRIBE, UPLOAD, DOWNLOAD, REGISTRATION
    <3>1. PICK feed \in feeds : h = [type |-> rq.type, id |-> rq.id, feed |-> feed,
                                     count |-> rq.count, addr |-> 0]
      BY <3>0
    <3> QED
      BY <1>0, <2>1, <2>2, <3>1, GrantedTyped
  <2>4. CASE rq.type = LASTPOSTS
    <3>0. Heads(rq) = {[type |-> rq.type, id |-> rq.id, feed |-> feed, count |-> n,
                        addr |-> 0] : n \in 0..MaxPosts, feed \in feeds}
      BY <2>4 DEF Heads, NEWPOST, LASTPOSTS, SUBSCRIBE, UPLOAD, DOWNLOAD, REGISTRATION
    <3>1. PICK n \in 0..MaxPosts, feed \in feeds :
            h = [type |-> rq.type, id |-> rq.id, feed |-> feed, count |-> n, addr |-> 0]
      BY <3>0
    <3>2. n \in Uint16
      BY ExchangeAssumption, BelowUint16
    <3> QED
      BY <1>0, <2>2, <3>1, <3>2, GrantedTyped
  <2>5. CASE rq.type = SUBSCRIBE
    <3>0. rq.feed # 0 => Heads(rq) =
            {[[type |-> rq.type, id |-> rq.id, feed |-> rq.feed, count |-> FirstPort,
               addr |-> 0] EXCEPT !.addr = 255]}
      BY <2>5 DEF Heads, NEWPOST, LASTPOSTS, SUBSCRIBE, UPLOAD, DOWNLOAD, REGISTRATION
    <3>a. rq.feed = 0 => Heads(rq) = {}
      BY <2>5 DEF Heads, NEWPOST, LASTPOSTS, SUBSCRIBE, UPLOAD, DOWNLOAD, REGISTRATION
    <3>1. h = [type |-> rq.type, id |-> rq.id, feed |-> rq.feed, count |-> FirstPort,
               addr |-> 255]
      BY <3>0, <3>a
    <3> QED
      BY <1>0, <2>1, <3>1, GrantedTyped
  <2>6. CASE rq.type = UPLOAD
    <3>0. Heads(rq) = {[type |-> rq.type, id |-> rq.id, feed |-> rq.feed,
                        count |-> UdpPort, addr |-> 0]}
      BY <2>6 DEF Heads, NEWPOST, LASTPOSTS, SUBSCRIBE, UPLOAD, DOWNLOAD, REGISTRATION
    <3>1. h = [type |-> rq.type, id |-> rq.id, feed |-> rq.feed, count |-> UdpPort,
               addr |-> 0]
      BY <3>0
    <3> QED
      BY <1>0, <2>1, <3>1, GrantedTyped
  <2>7. CASE rq.type = DOWNLOAD
    <3>0. Heads(rq) = {[type |-> rq.type, id |-> rq.id, feed |-> rq.feed,
                        count |-> rq.count, addr |-> 0]}
      BY <2>7 DEF Heads, NEWPOST, LASTPOSTS, SUBSCRIBE, UPLOAD, DOWNLOAD, REGISTRATION
    <3>1. h = [type |-> rq.type, id |-> rq.id, feed |-> rq.feed, count |-> rq.count,
               addr |-> 0]
      BY <3>0
    <3> QED
      BY <1>0, <2>1, <3>1, GrantedTyped
  <2>8. rq.type \in {REGISTRATION, NEWPOST, LASTPOSTS, SUBSCRIBE, UPLOAD, DOWNLOAD}
    BY DEF Types, NEWPOST, LASTPOSTS, SUBSCRIBE, UPLOAD, DOWNLOAD, REGISTRATION
  <2> QED
    BY <1>2, <2>3, <2>4, <2>5, <2>6, <2>7, <2>8
<1> QED
  BY <1>1, <1>2

LEMMA AnswersTyped ==
  ASSUME NEW rq \in RequestType, NEW a \in Answers(rq)
  PROVE  a \in AnswerType /\ a # Nobody /\ rq.type \in Types
<1>1. rq.type \in Types
  BY DEF Answers
<1>2. PICK h \in HeadsOrErrors(rq) :
        a = [head |-> h, posts |-> IF h.type # LASTPOSTS THEN <<>>
                                   ELSE [i \in 1..h.count |-> Post]]
  BY <1>1 DEF Answers
<1>3. \A r \in Refusals(rq) : r \in HeadType
  <2>1. ERR_FEEDNB \in Errors /\ ERR_NOFILE \in Errors /\ ERR_FEEDMAX \in Errors
    BY DEF Errors, ERR_FEEDNB, ERR_NOFILE, ERR_FEEDMAX, ERR_NOID, ERR_IDMAX
  <2> QED
    BY <2>1, ErrorTyped DEF Refusals
<1>4. Error(ERR_IDMAX) \in HeadType /\ Error(ERR_NOID) \in HeadType
  <2>1. ERR_IDMAX \in Errors /\ ERR_NOID \in Errors
    BY DEF Errors, ERR_NOID, ERR_IDMAX
  <2> QED
    BY <2>1, ErrorTyped
<1>5. HeadsOrErrors(rq) \subseteq HeadType
  <2>1. \A x \in Heads(rq) : x \in HeadType
    BY <1>1, HeadsTyped
  <2>2. HeadsOrErrors(rq) \subseteq Heads(rq) \cup Refusals(rq)
                                    \cup {Error(ERR_IDMAX), Error(ERR_NOID)}
    BY DEF HeadsOrErrors
  <2> QED
    BY <1>3, <1>4, <2>1, <2>2
<1>6. h \in HeadType
  BY <1>5
<1>7. h.count \in Nat
  <2>1. h.count \in Uint16
    BY <1>6 DEF HeadType
  <2> QED
    BY <2>1, NatUint16
<1>8. Post \in PostType
  BY ExchangeAssumption DEF PostType
<1>9. [i \in 1..h.count |-> Post] \in Seq(PostType)
  BY <1>7, <1>8, SeqDef
<1>10. a \in [head : HeadType, posts : Seq(PostType)] /\ a.head = h
  BY <1>2, <1>6, <1>9
<1> QED
  BY <1>1, <1>6, <1>10, HeadNotNobody DEF AnswerType

LEMMA HandleTyped ==
  ASSUME TypeInv, NEW b \in Seq(Byte), NEW kept \in Seq(Byte),
         loop.pc = "recv", Handle(b, kept)
  PROVE  TypeInv'
<1> DEFINE k == Serving
           rq == RequestIn(b)
<1>1. PICK a \in Answers(rq) :
        /\ loop' = [loop EXCEPT !.pc = "send", !.rq = rq, !.out = Frames(a)]
        /\ conns' = [conns EXCEPT ![k].answer = a]
  BY Zenon DEF Handle
<1>2. rq \in RequestType
  BY RequestInTyped
<1> HIDE DEF rq
<1>3. a \in AnswerType /\ Frames(a) \in Seq(Seq(Byte))
  BY <1>2, AnswersTyped, FramesTyped
<1>4. Fd \in Fds /\ k \in DOMAIN conns /\ conns[k] \in ConnType
  BY ServedConn
<1> DEFINE f == [conns[k] EXCEPT !.answer = a]
           l == [loop EXCEPT !.pc = "send", !.rq = rq, !.out = Frames(a)]
<1>5. f \in ConnType /\ f.open = conns[k].open /\ f.who = conns[k].who
  BY <1>3, <1>4 DEF ConnType
<1>6. conns' = [conns EXCEPT ![k] = f]
  BY <1>1
<1>7. loop \in LoopType
  BY DEF TypeInv, ServerTyped
<1>8. /\ l \in LoopType /\ l.pc = "send" /\ l.ready = loop.ready /\ l.slot = loop.slot
      /\ loop' = l
  BY <1>1, <1>2, <1>3, <1>7 DEF LoopType
<1> HIDE DEF f, k, l
<1>9. SameEnds
  BY <1>4, <1>5, <1>6, FieldSet
<1>10. infos' = [infos EXCEPT ![Fd] = kept]
  BY DEF Handle
<1>11. infos' \in [Fds -> Seq(Byte)]
  BY <1>10, InfosSet
<1>12. /\ UNCHANGED <<calm, server, backlog, fds, at>>
       /\ UNCHANGED client /\ UNCHANGED rest
       /\ murky' \subseteq Clients /\ UNCHANGED accountVars
  BY DEF Handle, clientVars, TypeInv, ClientsTyped
<1> QED
  BY <1>8, <1>9, <1>11, <1>12, ServingGoesOn

LEMMA TakeTyped ==
  ASSUME TypeInv, TakeRequest \/ TakeNothing \/ SendToNobody
  PROVE  TypeInv'
<1>1. CASE TakeRequest
  <2> DEFINE b == Cut(infos[Fd])
             kept == Rest(infos[Fd])
  <2>1. loop.pc = "recv" /\ HasCR(infos[Fd]) /\ server = "serving"
    BY <1>1 DEF TakeRequest
  <2>2. infos[Fd] \in Seq(Byte)
    BY <2>1, ServedConn, ServerTypeOf
  <2>3. b \in Seq(Byte) /\ kept \in Seq(Byte)
    BY <2>1, <2>2, CutTyped, RestTyped
  <2>4. Handle(b, kept) \/ HandleNoType(b)
    BY <1>1 DEF TakeRequest
  <2> HIDE DEF b, kept
  <2> QED
    BY <2>1, <2>3, <2>4, HandleTyped, DieTyped DEF HandleNoType
<1>2. CASE TakeNothing
  BY <1>2, DieTyped DEF TakeNothing, HandleNoType
<1>3. CASE SendToNobody
  BY <1>3, DieTyped DEF SendToNobody
<1> QED
  BY <1>1, <1>2, <1>3

LEMMA SendFrameTyped ==
  ASSUME TypeInv, SendFrame
  PROVE  TypeInv'
<1> DEFINE k == Serving
           f == [conns[k] EXCEPT !.out = @ \o Head(loop.out) \o CRLF]
           l == [loop EXCEPT !.out = Tail(@)]
<1>1. /\ loop.pc = "send" /\ loop.out # <<>>
      /\ conns' = [conns EXCEPT ![k] = f] /\ loop' = l
  BY DEF SendFrame
<1>2. /\ k \in DOMAIN conns /\ conns[k] \in ConnType
  BY <1>1, ServedConn
<1>3. loop \in LoopType
  BY DEF TypeInv, ServerTyped
<1>4. loop.out \in Seq(Seq(Byte)) /\ conns[k].out \in Seq(Byte)
  BY <1>2, <1>3 DEF LoopType, ConnType
<1>5. Head(loop.out) \in Seq(Byte) /\ Tail(loop.out) \in Seq(Seq(Byte))
  BY <1>1, <1>4, HeadTailProperties
<1>6. conns[k].out \o Head(loop.out) \o CRLF \in Seq(Byte)
  BY <1>4, <1>5, CRLFTyped
<1>7. f \in ConnType /\ f.open = conns[k].open /\ f.who = conns[k].who
  BY <1>2, <1>6 DEF ConnType
<1>8. l \in LoopType /\ l.pc = "send" /\ l.ready = loop.ready /\ l.slot = loop.slot
  BY <1>1, <1>3, <1>5 DEF LoopType
<1> HIDE DEF f, l, k
<1>9. SameEnds
  BY <1>1, <1>2, <1>7, FieldSet
<1>10. /\ UNCHANGED <<calm, server, backlog, fds, at>>
       /\ UNCHANGED client /\ UNCHANGED rest /\ UNCHANGED infos
       /\ UNCHANGED accountVars
  BY DEF SendFrame
<1>11. murky' \subseteq Clients
  <2>1. conns[k].who \in Clients /\ murky \subseteq Clients
    BY <1>2 DEF ConnType, TypeInv, ClientsTyped
  <2> QED
    BY <2>1 DEF SendFrame, k
<1>12. infos' \in [Fds -> Seq(Byte)]
  BY <1>10 DEF TypeInv, ServerTyped
<1> QED
  BY <1>1, <1>8, <1>9, <1>10, <1>11, <1>12, ServingGoesOn

LEMMA FinishTyped ==
  ASSUME TypeInv, Finish
  PROVE  TypeInv'
<1> DEFINE k == Serving
           f == HungUp(k, "server")
           s == loop.slot
<1>1. /\ loop.pc = "send" /\ server = "serving"
      /\ conns' = [conns EXCEPT ![k] = f] /\ infos' = [infos EXCEPT ![Fd] = <<>>]
      /\ at' = [at EXCEPT ![Fd] = 0] /\ fds' = [fds EXCEPT ![s] = -1]
      /\ loop' = Turn(loop.ready)
      /\ UNCHANGED calm /\ UNCHANGED server /\ UNCHANGED backlog
      /\ UNCHANGED clientVars /\ UNCHANGED accountVars
  BY DEF Finish
<1>2. /\ s \in DOMAIN fds /\ fds[s] = Fd /\ Fd \in Fds /\ at[Fd] = k /\ k # 0
      /\ k \in DOMAIN conns /\ conns[k] \in ConnType /\ s \notin loop.ready
  BY <1>1, ServedConn DEF Fd, Serving, TypeInv, SlotsOpen
<1>3. /\ f \in ConnType \cup {Closed} /\ f.open = conns[k].open \ {"server"}
      /\ f.open # {} => f.who = conns[k].who
  BY <1>2, HungUpTyped
<1> DEFINE fd == Fd
<1> HIDE DEF k, f, fd
<1>4. /\ conns' \in Seq(ConnType \cup {Closed})
      /\ Len(conns') = Len(conns) /\ DOMAIN conns' = DOMAIN conns
      /\ conns'[k] = f /\ \A j \in DOMAIN conns \ {k} : conns'[j] = conns[j]
  BY <1>1, <1>2, <1>3, ConnSet
<1>5. /\ at \in [Fds -> {0} \cup DOMAIN conns] /\ backlog \in Seq(DOMAIN conns)
      /\ at' \in [Fds -> {0} \cup DOMAIN conns] /\ at'[Fd] = 0
      /\ \A gd \in Fds \ {Fd} : at'[gd] = at[gd]
  BY <1>1, <1>2 DEF TypeInv, ConnsTyped
<1>6. ConnsTyped'
  BY <1>1, <1>4, <1>5 DEF TypeInv, ConnsTyped
<1>7. /\ fds \in Seq({-1} \cup Fds) /\ Len(fds) \in Nat /\ DOMAIN fds = 1..Len(fds)
      /\ \A i \in DOMAIN fds : fds[i] \in {-1} \cup Fds
  BY LenProperties, ElementOfSeq DEF TypeInv, ServerTyped
<1>8. /\ fds' \in Seq({-1} \cup Fds) /\ Len(fds') = Len(fds)
      /\ fds'[s] = -1 /\ \A i \in DOMAIN fds \ {s} : fds'[i] = fds[i]
  <2>1. -1 \in {-1} \cup Fds /\ s \in 1..Len(fds)
    BY <1>2, <1>7
  <2> QED
    BY <1>1, <1>7, <2>1, ExceptSeq
<1>9. DOMAIN fds' = DOMAIN fds
  BY <1>7, <1>8, LenProperties
<1>10. /\ loop.ready \subseteq 0..Len(fds)
       /\ \A i \in loop.ready : i # 0 => fds[i] # -1
  BY DEF TypeInv, ServerTyped, LoopType, SlotsOpen
<1>11. /\ Turn(loop.ready) \in LoopType /\ \A i \in loop'.ready : i \in loop.ready
       /\ loop'.pc \in {"poll", "accept", "recv"}
       /\ loop'.pc = "recv" => loop'.slot \in loop.ready \ {0}
                               /\ loop'.slot \notin loop'.ready
  BY <1>1, <1>10, TurnTyped
<1>12. ServerTyped'
  <2>a. <<>> \in Seq(Byte)
    OBVIOUS
  <2>1. infos' \in [Fds -> Seq(Byte)]
    BY <1>1, <2>a, InfosSet
  <2> QED
    BY <1>1, <1>8, <1>11, <2>1 DEF TypeInv, ServerTyped, LoopType
<1>13. \A i \in loop.ready : i # 0 => i \in DOMAIN fds /\ i # s /\ fds'[i] # -1
  <2> SUFFICES ASSUME NEW i \in loop.ready, i # 0
               PROVE  i \in DOMAIN fds /\ i # s /\ fds'[i] # -1
    OBVIOUS
  <2>1. i \in DOMAIN fds
    BY <1>7, <1>10
  <2> QED
    BY <1>2, <1>8, <1>10, <2>1
<1>14. \A i \in DOMAIN fds \ {s} : fds[i] # Fd
  BY <1>2 DEF TypeInv, SlotsOpen, Fds
<1>15. \A i \in DOMAIN fds' : fds'[i] # -1 => at'[fds'[i]] # 0
  BY <1>1, <1>5, <1>7, <1>8, <1>9, <1>14 DEF TypeInv, SlotsOpen
<1>16. \A gd \in Fds : at'[gd] # 0 => \E i \in DOMAIN fds' : fds'[i] = gd
  <2> SUFFICES ASSUME NEW gd \in Fds, at'[gd] # 0
               PROVE  \E i \in DOMAIN fds' : fds'[i] = gd
    OBVIOUS
  <2>1. gd # Fd /\ at[gd] # 0
    BY <1>5
  <2>2. PICK i \in DOMAIN fds : fds[i] = gd
    BY <2>1 DEF TypeInv, SlotsOpen
  <2>3. i # s
    BY <1>2, <2>1, <2>2
  <2> QED
    BY <1>8, <1>9, <2>2, <2>3
<1>17. \A i, j \in DOMAIN fds' : fds'[i] = fds'[j] /\ fds'[i] # -1 => i = j
  BY <1>8, <1>9 DEF TypeInv, SlotsOpen
<1>18. loop'.pc \in {"recv", "send"} =>
         loop'.slot \in DOMAIN fds' /\ fds'[loop'.slot] # -1 /\ loop'.slot \notin loop'.ready
  BY <1>9, <1>11, <1>13
<1>19. SlotsOpen'
  BY <1>1, <1>11, <1>13, <1>15, <1>16, <1>17, <1>18 DEF SlotsOpen, Fd
<1>20. OneEach'
  <2>1. \A gd, hd \in Fds : at'[gd] = at'[hd] /\ at'[gd] # 0 => gd = hd
    BY <1>5 DEF TypeInv, OneEach
  <2>2. \A i \in DOMAIN backlog : backlog[i] \in DOMAIN conns
    BY <1>5, ElementOfSeq, LenProperties
  <2>3. DOMAIN conns \subseteq Nat \ {0}
    BY LenProperties DEF TypeInv, ConnsTyped
  <2>4. \A i \in DOMAIN backlog : \A gd \in Fds : at'[gd] # backlog[i]
    BY <1>5, <2>2, <2>3 DEF TypeInv, OneEach
  <2> QED
    BY <1>1, <2>1, <2>4 DEF TypeInv, OneEach
<1>21. ServerHolds'
  <2>1. \A i \in DOMAIN backlog : backlog[i] \in DOMAIN conns \ {k}
    BY <1>2, <1>5, ElementOfSeq, LenProperties DEF TypeInv, OneEach
  <2>2. \A gd \in Fds \ {Fd} : at[gd] # 0 => at[gd] \in DOMAIN conns \ {k}
    BY <1>2, <1>5 DEF TypeInv, OneEach
  <2>3. \A i \in DOMAIN backlog : "server" \in conns'[backlog[i]].open
    BY <1>1, <1>4, <2>1 DEF TypeInv, ServerHolds
  <2>4. \A gd \in Fds : at'[gd] # 0 => "server" \in conns'[at'[gd]].open
    BY <1>1, <1>4, <1>5, <2>2 DEF TypeInv, ServerHolds
  <2> QED
    BY <1>1, <2>3, <2>4 DEF ServerHolds
<1>22. UNCHANGED client /\ UNCHANGED rest /\ UNCHANGED murky
  BY <1>1 DEF clientVars
<1>23. ClientsTyped'
  BY <1>4, <1>22 DEF TypeInv, ClientsTyped, ClientType
<1>24. \A j \in DOMAIN conns : "client" \in conns[j].open =>
         conns'[j].who = conns[j].who /\ "client" \in conns'[j].open
  BY <1>3, <1>4
<1>25. ClientHolds'
  BY <1>22, <1>24, OwnConn DEF TypeInv, ClientHolds, Conn
<1>26. AccountsTyped'
  BY <1>1, AccountsStill
<1> QED
  BY <1>6, <1>12, <1>19, <1>20, <1>21, <1>23, <1>25, <1>26 DEF TypeInv

-----------------------------------------------------------------------------
LEMMA TypeInvInit ==
  Init => TypeInv
<1> SUFFICES ASSUME Init PROVE TypeInv
  OBVIOUS
<1>1. /\ server = "serving" /\ backlog = <<>> /\ fds = <<>> /\ conns = <<>>
      /\ infos = [fd \in Fds |-> <<>>] /\ at = [fd \in Fds |-> 0]
      /\ loop = Resting /\ calm \in BOOLEAN
      /\ client = [c \in Clients |-> [pc |-> "menu", user |-> 0, conn |-> 0,
                                      got |-> Nobody]]
      /\ rest = [c \in Clients |-> <<>>] /\ murky = {}
      /\ accounts = [i \in 1..IdMax |-> IF i \in DOMAIN Earlier THEN Earlier[i]
                                        ELSE NoUser]
      /\ adding = [c \in Clients |-> NotAdding]
  BY DEF Init, AccountsInit
<1>2. ConnsTyped
  <2>1. Len(conns) <= MaxConns
    BY <1>1, ExchangeAssumption
  <2> QED
    BY <1>1, <2>1 DEF ConnsTyped
<1>3. ServerTyped
  <2>1. loop \in LoopType /\ loop.pc = "poll"
    BY <1>1 DEF Resting, LoopType, NoRequest
  <2>2. fds \in Seq({-1} \cup Fds) /\ infos \in [Fds -> Seq(Byte)]
    BY <1>1
  <2> QED
    BY <1>1, <2>1, <2>2 DEF ServerTyped
<1>4. ClientsTyped
  <2>1. 0 \in IdType
    BY DEF IdType
  <2>2. [pc |-> "menu", user |-> 0, conn |-> 0, got |-> Nobody] \in ClientType
    BY <2>1, NobodyTyped DEF ClientType
  <2> QED
    BY <1>1, <2>2 DEF ClientsTyped
<1>5. AccountsTyped
  <2> DEFINE S == [id : 1..2047, pseudo : 0..255]
  <2>1. Earlier \in Seq(S)
    BY AccountsAssumption
  <2>2. S \subseteq UserType
    BY DEF UserType, IdType, Byte
  <2> HIDE DEF S
  <2>3. \A i \in DOMAIN Earlier : Earlier[i] \in S
    BY <2>1, ElementOfSeq, LenProperties
  <2>4. \A i \in DOMAIN Earlier : Earlier[i] \in UserType
    BY <2>2, <2>3
  <2>5. NoUser \in UserType
    BY DEF NoUser, UserType, IdType, Byte
  <2>6. accounts \in [1..IdMax -> UserType]
    BY <1>1, <2>4, <2>5
  <2> QED
    BY <1>1, <2>6, NotAddingTyped DEF AccountsTyped
<1>6. SlotsOpen
  BY <1>1 DEF SlotsOpen, Resting
<1>7. OneEach
  BY <1>1 DEF OneEach
<1>8. ServerHolds
  BY <1>1 DEF ServerHolds
<1>9. ClientHolds
  BY <1>1 DEF ClientHolds
<1> QED
  BY <1>2, <1>3, <1>4, <1>5, <1>6, <1>7, <1>8, <1>9 DEF TypeInv

LEMMA TypeInvStutter ==
  ASSUME TypeInv, UNCHANGED vars
  PROVE  TypeInv'
<1>1. /\ UNCHANGED <<calm, server, fds, infos, at, loop>> /\ UNCHANGED conns
      /\ UNCHANGED <<server, backlog, at>>
      /\ UNCHANGED clientVars /\ UNCHANGED accountVars
  BY DEF vars, serverVars
<1>2. SameEnds
  BY <1>1, SameConns
<1>3. ServerTyped' /\ SlotsOpen'
  BY <1>1, ServerStill
<1>4. ConnsTyped' /\ OneEach' /\ ServerHolds'
  BY <1>1, <1>2, DescriptorsStill
<1>5. ClientsTyped' /\ ClientHolds' /\ AccountsTyped'
  BY <1>1, <1>2, ClientSideStill
<1> QED
  BY <1>3, <1>4, <1>5 DEF TypeInv

LEMMA TypeInvNext ==
  TypeInv /\ [Next]_vars => TypeInv'
<1> SUFFICES ASSUME TypeInv, [Next]_vars PROVE TypeInv'
  OBVIOUS
<1>1. CASE \E c \in Clients : UserStep(c) \/ ClientStep(c) \/ Leave(c)
  <2> SUFFICES ASSUME NEW c \in Clients, UserStep(c) \/ ClientStep(c) \/ Leave(c)
               PROVE  TypeInv'
    BY <1>1
  <2>1. CASE UserStep(c)
    BY <2>1, AskTyped, LogTyped DEF UserStep
  <2>2. CASE ClientStep(c)
    BY <2>2, SendTyped, ReadTyped, TakeFrameTyped, TakeEndTyped, StartAddTyped,
       ClientLeavesTyped DEF ClientStep
  <2>3. CASE Leave(c)
    BY <2>3, ClientLeavesTyped
  <2> QED
    BY <2>1, <2>2, <2>3
<1>2. CASE ServerStep
  BY <1>2, PollTyped, AcceptTyped, ReceiveTyped, TakeTyped, SendFrameTyped,
     FinishTyped DEF ServerStep
<1>3. CASE GiveUp
  BY <1>3, GiveUpTyped
<1>4. CASE Drop
  BY <1>4, DropTyped
<1>5. CASE SendToNobody
  BY <1>5, TakeTyped
<1>6. CASE UNCHANGED vars
  BY <1>6, TypeInvStutter
<1> QED
  BY <1>1, <1>2, <1>3, <1>4, <1>5, <1>6 DEF Next

LEMMA TypeInvImplies ==
  TypeInv => TypeOK
<1> SUFFICES ASSUME TypeInv PROVE TypeOK
  OBVIOUS
<1>1. /\ server \in {"serving", "stopped", "dead"} /\ calm \in BOOLEAN
      /\ infos \in [Fds -> Seq(Byte)] /\ rest \in [Clients -> Seq(Byte)]
      /\ murky \subseteq Clients /\ backlog \in Seq(DOMAIN conns)
      /\ loop.pc \in {"poll", "accept", "recv", "send"} /\ loop.ready \subseteq 0..Len(fds)
  BY DEF TypeInv, ServerTyped, ClientsTyped, ConnsTyped, LoopType
<1>2. \E fd \in IF server = "stopped" THEN Fds \cup {-1} ELSE {-1} :
        {fds[i] : i \in DOMAIN fds} \ {fd, -1} = {d \in Fds : at[d] # 0}
  <2>1. \A i \in DOMAIN fds : fds[i] \in {-1} \cup Fds
    BY ElementOfSeq, LenProperties DEF TypeInv, ServerTyped
  <2>2. -1 \notin Fds
    BY DEF Fds
  <2>3. PICK fd \in IF server = "stopped" THEN Fds \cup {-1} ELSE {-1} :
          \A i \in DOMAIN fds : fds[i] # -1 => (at[fds[i]] = 0 <=> fds[i] = fd)
    BY DEF TypeInv, SlotsOpen
  <2>4. \A d \in Fds : at[d] # 0 => d # fd /\ \E i \in DOMAIN fds : fds[i] = d
    BY <2>2, <2>3 DEF TypeInv, SlotsOpen
  <2>5. {fds[i] : i \in DOMAIN fds} \ {fd, -1} = {d \in Fds : at[d] # 0}
    BY <2>1, <2>2, <2>3, <2>4
  <2> QED
    BY <2>5
<1>3. \A i, j \in DOMAIN fds : fds[i] = fds[j] /\ i # j => fds[i] = -1
  BY DEF TypeInv, SlotsOpen
<1>4. \A fd \in Fds : at[fd] # 0 /\ server # "dead" => "server" \in conns[at[fd]].open
  BY DEF TypeInv, ServerHolds
<1>5. loop.pc \in {"recv", "send"} => Fd # -1
  BY DEF TypeInv, SlotsOpen
<1>6. \A c \in Clients :
       /\ client[c].pc \in {"menu", "send", "recv", "show", "add", "fail", "ended"}
       /\ client[c].conn # 0 => Conn(c).who = c /\ "client" \in Conn(c).open
       /\ client[c].pc \in {"send", "recv", "show", "add"} => client[c].conn # 0
  BY ClientTypeOf DEF TypeInv, ClientHolds, ClientType
<1>7. adding \in [Clients -> [user : [id : Uint16, pseudo : Byte],
                              place : 0..(IdMax + 1), half : BOOLEAN]]
  <2>1. IdType \subseteq Uint16
    BY InUint16 DEF IdType
  <2>2. UserType \subseteq [id : Uint16, pseudo : Byte]
    BY <2>1 DEF UserType
  <2>3. AddingType \subseteq [user : [id : Uint16, pseudo : Byte],
                              place : 0..(IdMax + 1), half : BOOLEAN]
    BY <2>2 DEF AddingType
  <2> QED
    BY <2>3 DEF TypeInv, AccountsTyped
<1> QED
  BY <1>1, <1>2, <1>3, <1>4, <1>5, <1>6, <1>7 DEF TypeOK

LEMMA TypeInvHolds ==
  Spec => []TypeInv
<1> QED
  BY TypeInvInit, TypeInvNext, PTL DEF Spec

(* The threads are where their locals say, the slots and the descriptors of *)
(* the process agree, but for the one closed when the loop ended, an        *)
(* accepted connection is open and a client waits on one of its own         *)
(* (tcp_server.c:99-155, 180-216).                                          *)
THEOREM TypeSafety ==
  Spec => []TypeOK
<1> QED
  BY TypeInvHolds, TypeInvImplies, PTL

-----------------------------------------------------------------------------
(* A request that was cut where it ends is the request that was sent.      *)

(* A request as create_request makes it: a text is two bytes or none.      *)
Askable(r) ==
  r.type # REGISTRATION =>
    IF r.len = 0 THEN r.data = <<>> ELSE r.data \in Byte \X Byte

LEMMA CreatedAskable ==
  ASSUME NEW c \in Clients, NEW r \in Inputs[c]
  PROVE  Askable(Created(c, r))
<1>1. Typable(r)
  BY ExchangeAssumption
<1>2. CASE r.type = REGISTRATION
  BY <1>2 DEF Created, Registration, Askable
<1>3. CASE r.type # REGISTRATION
  <2> DEFINE len == r.len % 256
             q == [type |-> r.type, id |-> client[c].user, feed |-> r.feed,
                   count |-> r.count, len |-> len, data |-> Text(len, r.data)]
  <2>1. Created(c, r) = q
    BY <1>3 DEF Created
  <2>2. r.len \in 0..511 /\ (r.len # 0 => r.data \in Byte \X Byte)
    BY <1>1, <1>3 DEF Typable
  <2>3. len # 0 => r.len # 0
    BY <2>2
  <2> HIDE DEF len
  <2>4. q.len = len /\ q.data = Text(len, r.data)
    OBVIOUS
  <2>5. Text(len, r.data) = IF len = 0 THEN <<>> ELSE r.data
    BY DEF Text
  <2> HIDE DEF q
  <2>6. IF q.len = 0 THEN q.data = <<>> ELSE q.data \in Byte \X Byte
    BY <2>2, <2>3, <2>4, <2>5
  <2> QED
    BY <2>1, <2>6 DEF Askable
<1> QED
  BY <1>2, <1>3

(* u is the m bytes of s and then the n bytes of t. *)
Joined(u, m, s, n, t) ==
  /\ u \in Seq(Byte) /\ Len(u) = m + n
  /\ \A i \in 1..m : u[i] = s[i]
  /\ \A i \in 1..n : u[m + i] = t[i]

LEMMA ConcatAt ==
  ASSUME NEW s \in Seq(Byte), NEW t \in Seq(Byte), NEW m \in Nat, NEW n \in Nat,
         Len(s) = m, Len(t) = n, NEW u, u = s \o t
  PROVE  Joined(u, m, s, n, t)
<1>2. /\ s \o t \in Seq(Byte) /\ Len(s \o t) = Len(s) + Len(t)
      /\ \A i \in 1..(Len(s) + Len(t)) :
           (s \o t)[i] = IF i <= Len(s) THEN s[i] ELSE t[i - Len(s)]
  BY ConcatProperties
<1>3. \A i \in 1..m : u[i] = s[i]
  BY <1>2
<1>4. \A i \in 1..n : u[m + i] = t[i]
  <2> SUFFICES ASSUME NEW i \in 1..n PROVE u[m + i] = t[i]
    OBVIOUS
  <2>1. m + i \in 1..(m + n) /\ ~ (m + i <= m) /\ (m + i) - m = i
    OBVIOUS
  <2> QED
    BY <1>2, <2>1
<1> QED
  BY <1>2, <1>3, <1>4 DEF Joined

(* Where the fields of a request that is no registration lie.              *)
Laid(s, h, f, n, l, t) ==
  /\ s \in Seq(Byte) /\ Len(s) = 7 + Len(t)
  /\ s[1] = h[1] /\ s[2] = h[2] /\ s[3] = f[1] /\ s[4] = f[2]
  /\ s[5] = n[1] /\ s[6] = n[2] /\ s[7] = l
  /\ \A i \in 1..Len(t) : s[7 + i] = t[i]

LEMMA Layout ==
  ASSUME NEW h \in Seq(Byte), Len(h) = 2, NEW f \in Seq(Byte), Len(f) = 2,
         NEW n \in Seq(Byte), Len(n) = 2, NEW l \in Byte, NEW t \in Seq(Byte),
         NEW s, s = h \o (f \o n \o <<l>> \o t)
  PROVE  Laid(s, h, f, n, l, t)
<1> DEFINE a == f \o n
           b == a \o <<l>>
           d == b \o t
<1>1. <<l>> \in Seq(Byte) /\ Len(<<l>>) = 1 /\ <<l>>[1] = l /\ Len(t) \in Nat
  BY LenProperties
<1>2. a \in Seq(Byte) /\ Len(a) = 4 /\ a[1] = f[1] /\ a[2] = f[2] /\ a[3] = n[1] /\ a[4] = n[2]
  <2>1. Joined(a, 2, f, 2, n)
    BY ConcatAt
  <2> QED
    BY <2>1 DEF Joined
<1> HIDE DEF a
<1>3. /\ b \in Seq(Byte) /\ Len(b) = 5
      /\ b[1] = f[1] /\ b[2] = f[2] /\ b[3] = n[1] /\ b[4] = n[2] /\ b[5] = l
  <2>1. Joined(b, 4, a, 1, <<l>>)
    BY <1>1, <1>2, ConcatAt
  <2> QED
    BY <1>1, <1>2, <2>1 DEF Joined
<1> HIDE DEF b
<1>4. /\ d \in Seq(Byte) /\ Len(d) = 5 + Len(t)
      /\ d[1] = f[1] /\ d[2] = f[2] /\ d[3] = n[1] /\ d[4] = n[2] /\ d[5] = l
      /\ \A i \in 1..Len(t) : d[5 + i] = t[i]
  <2>1. Joined(d, 5, b, Len(t), t)
    BY <1>1, <1>3, ConcatAt
  <2> QED
    BY <1>3, <2>1 DEF Joined
<1>5. s = h \o d
  BY DEF a, b
<1> HIDE DEF d
<1>a. Len(d) \in Nat
  BY <1>1, <1>4
<1>b. Joined(s, 2, h, Len(d), d)
  BY <1>4, <1>5, <1>a, ConcatAt
<1>6. /\ s \in Seq(Byte) /\ Len(s) = 2 + Len(d)
      /\ \A i \in 1..2 : s[i] = h[i]
      /\ \A i \in 1..Len(d) : s[2 + i] = d[i]
  BY <1>b DEF Joined
<1>7. \A i \in 1..5 : i \in 1..Len(d)
  BY <1>1, <1>4
<1>8. s[1] = h[1] /\ s[2] = h[2]
  <2>1. 1 \in 1..2 /\ 2 \in 1..2
    OBVIOUS
  <2> QED
    BY <1>6, <2>1
<1>9. s[3] = d[1] /\ s[4] = d[2] /\ s[5] = d[3] /\ s[6] = d[4] /\ s[7] = d[5]
  <2>1. \A j \in 3..7 : s[j] = d[j - 2]
    <3> SUFFICES ASSUME NEW j \in 3..7 PROVE s[j] = d[j - 2]
      OBVIOUS
    <3>1. j - 2 \in 1..5 /\ 2 + (j - 2) = j
      OBVIOUS
    <3>2. s[2 + (j - 2)] = d[j - 2]
      BY <1>6, <1>7, <3>1
    <3> QED
      BY <3>1, <3>2
  <2>2. s[3] = d[3 - 2] /\ s[4] = d[4 - 2] /\ s[5] = d[5 - 2] /\ s[6] = d[6 - 2]
        /\ s[7] = d[7 - 2]
    <3>1. 3 \in 3..7 /\ 4 \in 3..7 /\ 5 \in 3..7 /\ 6 \in 3..7 /\ 7 \in 3..7
      OBVIOUS
    <3> QED
      BY <2>1, <3>1, Zenon
  <2>3. 3 - 2 = 1 /\ 4 - 2 = 2 /\ 5 - 2 = 3 /\ 6 - 2 = 4 /\ 7 - 2 = 5
    OBVIOUS
  <2> QED
    BY <2>2, <2>3, Zenon
<1>10. \A i \in 1..Len(t) : s[7 + i] = t[i]
  <2> SUFFICES ASSUME NEW i \in 1..Len(t) PROVE s[7 + i] = t[i]
    OBVIOUS
  <2>1. 5 + i \in 1..Len(d) /\ 2 + (5 + i) = 7 + i
    BY <1>1, <1>4
  <2>2. s[2 + (5 + i)] = d[5 + i]
    BY <1>6, <2>1
  <2> QED
    BY <1>4, <2>1, <2>2
<1>11. Len(s) = 7 + Len(t)
  BY <1>1, <1>4, <1>6
<1> QED
  BY <1>4, <1>6, <1>8, <1>9, <1>10, <1>11 DEF Laid

(* b begins with s. *)
Begins(s, b) == \A i \in 1..Len(s) : ByteAt(b, i) = s[i]

LEMMA RequestRead ==
  ASSUME NEW r \in RequestType, Askable(r), NEW b \in Seq(Byte),
         Begins(RequestBytes(r), b)
  PROVE  RequestIn(b) = r
<1> DEFINE s == RequestBytes(r)
           h == Word(Header(r.type, r.id))
<1>1. r.type \in 0..31 /\ r.id \in IdType
  BY DEF RequestType, REGISTRATION
<1>2. /\ h \in Seq(Byte) /\ Len(h) = 2
      /\ 256 * h[1] + h[2] = Header(r.type, r.id)
  BY <1>1, HeaderWord, WordBytes
<1>3. TypeIn(Header(r.type, r.id)) = r.type /\ IdIn(Header(r.type, r.id)) = r.id
  BY <1>1, HeaderWord
<1>4. CASE r.type = REGISTRATION
  <2>1. r \in [type : {REGISTRATION}, id : IdType, pseudo : Byte]
    BY <1>4 DEF RequestType
  <2>2. s = h \o <<r.pseudo>>
    BY <1>4 DEF RequestBytes
  <2>3. <<r.pseudo>> \in Seq(Byte) /\ Len(<<r.pseudo>>) = 1
    BY <2>1
  <2> HIDE DEF h
  <2>4. Joined(s, 2, h, 1, <<r.pseudo>>)
    BY <1>2, <2>2, <2>3, ConcatAt
  <2>5. Len(s) = 3 /\ s[1] = h[1] /\ s[2] = h[2] /\ s[3] = r.pseudo
    BY <2>4 DEF Joined
  <2>6. ByteAt(b, 1) = h[1] /\ ByteAt(b, 2) = h[2] /\ ByteAt(b, 3) = r.pseudo
    BY <2>5 DEF Begins
  <2>7. WordAt(b, 1) = Header(r.type, r.id)
    BY <1>2, <2>6 DEF WordAt
  <2>8. RequestIn(b) = [type |-> REGISTRATION, id |-> r.id, pseudo |-> r.pseudo]
    BY <1>3, <1>4, <2>6, <2>7 DEF RequestIn
  <2> QED
    BY <2>1, <2>8
<1>5. CASE r.type # REGISTRATION
  <2>1. r \in [type : (0..31) \ {REGISTRATION}, id : IdType, feed : Uint16,
               count : Uint16, len : Byte, data : Seq(Byte)]
    BY <1>5 DEF RequestType
  <2> DEFINE f == Word(r.feed)
             n == Word(r.count)
             t == Text(r.len, r.data)
  <2>2. /\ f \in Seq(Byte) /\ Len(f) = 2 /\ 256 * f[1] + f[2] = r.feed
        /\ n \in Seq(Byte) /\ Len(n) = 2 /\ 256 * n[1] + n[2] = r.count
    BY <2>1, WordBytes
  <2>3. t \in Seq(Byte) /\ r.len \in Byte
    BY <2>1 DEF Text
  <2>4. s = h \o (f \o n \o <<r.len>> \o t)
    BY <1>5 DEF RequestBytes
  <2> HIDE DEF h, f, n, t, s
  <2>a. Laid(s, h, f, n, r.len, t)
    BY <1>2, <2>2, <2>3, <2>4, Layout
  <2>5. /\ s \in Seq(Byte) /\ Len(s) = 7 + Len(t)
        /\ s[1] = h[1] /\ s[2] = h[2] /\ s[3] = f[1] /\ s[4] = f[2]
        /\ s[5] = n[1] /\ s[6] = n[2] /\ s[7] = r.len
        /\ \A i \in 1..Len(t) : s[7 + i] = t[i]
    BY <2>a DEF Laid
  <2>6. Len(t) \in Nat
    BY <2>3, LenProperties
  <2>7. \A i \in 1..(7 + Len(t)) : ByteAt(b, i) = s[i]
    BY <2>5 DEF Begins, s
  <2>8. \A i \in 1..7 : i \in 1..(7 + Len(t))
    BY <2>6
  <2>9. /\ ByteAt(b, 1) = h[1] /\ ByteAt(b, 2) = h[2] /\ ByteAt(b, 3) = f[1]
        /\ ByteAt(b, 4) = f[2] /\ ByteAt(b, 5) = n[1] /\ ByteAt(b, 6) = n[2]
        /\ ByteAt(b, 7) = r.len
    BY <2>5, <2>7, <2>8
  <2>10. WordAt(b, 1) = Header(r.type, r.id)
    BY <1>2, <2>9 DEF WordAt
  <2>11. WordAt(b, 3) = r.feed /\ WordAt(b, 5) = r.count
    BY <2>2, <2>9 DEF WordAt
  <2>12. TextAt(b, 8, r.len) = r.data
    <3>1. CASE r.len = 0
      BY <1>5, <3>1 DEF Askable, TextAt, Text
    <3>2. CASE r.len # 0
      <4>1. r.data \in Byte \X Byte /\ t = r.data
        BY <1>5, <3>2 DEF Askable, Text, t
      <4>2. PICK i \in Byte, j \in Byte : r.data = <<i, j>>
        BY <4>1
      <4>3. Len(t) = 2 /\ t[1] = i /\ t[2] = j
        BY <4>1, <4>2
      <4>4. ByteAt(b, 8) = s[8] /\ ByteAt(b, 9) = s[9]
        BY <2>7, <4>3
      <4>5. s[7 + 1] = t[1] /\ s[7 + 2] = t[2]
        BY <2>5, <4>3
      <4>6. ByteAt(b, 8) = i /\ ByteAt(b, 9) = j
        BY <4>3, <4>4, <4>5
      <4> QED
        BY <3>2, <4>2, <4>6 DEF TextAt, Text
    <3> QED
      BY <3>1, <3>2
  <2>13. RequestIn(b) = [type |-> r.type, id |-> r.id, feed |-> r.feed,
                         count |-> r.count, len |-> r.len, data |-> r.data]
    BY <1>3, <1>5, <2>9, <2>10, <2>11, <2>12 DEF RequestIn
  <2> QED
    BY <2>1, <2>13
<1> QED
  BY <1>4, <1>5

(* What recv_request hands on when the request ends where CR LF is, or when *)
(* LF has not come yet.                                                     *)
LEMMA CutWhole ==
  ASSUME NEW s \in Seq(Byte), ~ HasCR(s), NEW b \in Seq(Byte), NEW i \in Seq(Byte),
         b \o i = s \o CRLF, HasCR(b)
  PROVE  Cut(b) = b /\ Begins(s, b) /\ Rest(b) = <<>>
<1> DEFINE p == FirstCR(b)
           n == Len(s)
<1>1. n \in Nat /\ Len(b) \in Nat /\ Len(i) \in Nat /\ Len(CRLF) = 2
      /\ CRLF[1] = CR /\ CRLF[2] = LF /\ CRLF \in Seq(Byte)
      /\ DOMAIN b = 1..Len(b) /\ DOMAIN s = 1..n
  BY LenProperties, CRLFTyped DEF CRLF
<1>2. p \in 1..Len(b) /\ b[p] = CR
  BY FirstCRIs
<1>3. /\ Len(s \o CRLF) = n + 2
      /\ \A j \in 1..n : (s \o CRLF)[j] = s[j]
      /\ (s \o CRLF)[n + 1] = CR /\ (s \o CRLF)[n + 2] = LF
  <2>1. Joined(s \o CRLF, n, s, 2, CRLF)
    BY <1>1, ConcatAt
  <2> QED
    BY <1>1, <2>1 DEF Joined
<1>4. /\ Len(b) + Len(i) = n + 2
      /\ \A j \in 1..Len(b) : b[j] = (s \o CRLF)[j]
  <2>1. Joined(s \o CRLF, Len(b), b, Len(i), i)
    BY <1>1, ConcatAt
  <2> QED
    BY <1>3, <2>1 DEF Joined
<1> HIDE DEF p
<1>5. ~ (p <= n)
  <2> SUFFICES ASSUME p <= n PROVE FALSE
    OBVIOUS
  <2>1. p \in 1..n
    BY <1>1, <1>2
  <2>2. s[p] = CR
    BY <1>2, <1>3, <1>4, <2>1
  <2>3. CR \in Range(s)
    BY <1>1, <2>1, <2>2, RangeEquality
  <2> QED
    BY <2>3 DEF HasCR
<1>6. p # n + 2
  BY <1>2, <1>3, <1>4 DEF CR, LF
<1> HIDE DEF n
<1>7. p = n + 1 /\ Len(b) \in {n + 1, n + 2}
  <2>1. \A m, q \in Nat : q <= m /\ m <= n + 2 /\ ~ (q <= n) /\ q # n + 2 =>
                              q = n + 1 /\ m \in {n + 1, n + 2}
    BY <1>1
  <2>2. Len(b) <= n + 2 /\ p \in Nat /\ p <= Len(b) /\ Len(b) \in Nat
    BY <1>1, <1>2, <1>4
  <2> QED
    BY <1>5, <1>6, <2>1, <2>2
<1>8. Begins(s, b)
  <2>a. n <= Len(b) /\ n \in Nat /\ Len(b) \in Nat
    <3>1. \A m \in Nat : m <= m + 1 /\ m <= m + 2
      OBVIOUS
    <3>2. Len(b) = n + 1 \/ Len(b) = n + 2
      BY <1>7
    <3>3. n \in Nat /\ Len(b) \in Nat
      BY <1>1
    <3> QED
      BY <3>1, <3>2, <3>3
  <2>1. \A j \in 1..n : j \in 1..Len(b)
    BY <2>a
  <2>2. \A j \in 1..n : ByteAt(b, j) = b[j]
    BY <1>1, <2>1 DEF ByteAt
  <2> QED
    BY <1>3, <1>4, <2>1, <2>2 DEF Begins, n
<1>9. NextStart(b) = Len(b) + 1
  <2>1. CASE Len(b) = n + 1
    <3>1. p + 1 \notin DOMAIN b
      BY <1>1, <1>7, <2>1
    <3>2. ByteAt(b, p + 1) # LF
      BY <3>1 DEF ByteAt, LF
    <3> QED
      BY <1>1, <1>7, <2>1, <3>2 DEF NextStart, EndsInCRLF, p
  <2>2. CASE Len(b) = n + 2
    <3>1. p + 1 \in DOMAIN b /\ p + 1 = n + 2
      BY <1>1, <1>7, <2>2
    <3>2. ByteAt(b, p + 1) = LF
      BY <1>1, <1>3, <1>4, <3>1 DEF ByteAt
    <3> QED
      BY <1>1, <1>7, <2>2, <3>2 DEF NextStart, EndsInCRLF, p
  <2> QED
    BY <1>7, <2>1, <2>2
<1>10. Cut(b) = b
  <2>1. \A j \in DOMAIN b : ~ (j \in (NextStart(b) - 1)..(Len(b) - 1))
    BY <1>1, <1>9
  <2>2. Cut(b) = [j \in DOMAIN b |-> b[j]]
    BY <2>1 DEF Cut
  <2> QED
    BY <2>2, LenProperties
<1>11. Rest(b) = <<>>
  BY <1>1, <1>9, SubSeqEmpty DEF Rest
<1> QED
  BY <1>8, <1>10, <1>11

-----------------------------------------------------------------------------
(* The inductive invariant behind RequestAsSent *)

(* Of the request of connection k the server has read b, and either        *)
(* nothing was sent, or b and what is under way are the request, or a      *)
(* message of this client had CR in it.                                    *)
Whole(cn, k, b) ==
  LET bytes == RequestBytes(cn[k].asked) IN
  ~ HasCR(bytes) /\ b \o cn[k].in = bytes \o CRLF
Coming(cn, cl, mk, k, b) ==
  LET c == cn[k].who
      nothing == b = <<>> /\ cn[k].in = <<>>
  IN /\ cl[c].pc = "send" /\ cl[c].conn = k => nothing
     /\ c \in mk \/ nothing \/ Whole(cn, k, b)

AllAskable ==
  \A k \in DOMAIN conns : conns[k] # Closed => Askable(conns[k].asked)
Accepted ==
  \A fd \in Fds : at[fd] # 0 /\ (loop.pc = "send" => Fd # fd) =>
                    Coming(conns, client, murky, at[fd], infos[fd])
Waiting ==
  \A i \in DOMAIN backlog : Coming(conns, client, murky, backlog[i], <<>>)

RequestInv == /\ AllAskable
              /\ server = "serving" => Accepted /\ Waiting
              /\ RequestAsSent

(* What most steps leave alone of the requests.                            *)
SameRequests ==
  /\ DOMAIN conns' = DOMAIN conns
  /\ \A k \in DOMAIN conns : conns'[k] # Closed =>
       /\ conns[k] # Closed
       /\ conns'[k].who = conns[k].who /\ conns'[k].asked = conns[k].asked
       /\ conns'[k].in = conns[k].in
  /\ murky \subseteq murky'
  /\ \A c \in Clients : client'[c].pc = "send" =>
       client[c].pc = "send" /\ client'[c].conn = client[c].conn

LEMMA ConnTypeOf ==
  ASSUME TypeInv, NEW k \in DOMAIN conns, conns[k] # Closed
  PROVE  /\ conns[k] \in ConnType /\ conns[k].who \in Clients
         /\ conns[k].asked \in RequestType /\ conns[k].in \in Seq(Byte)
<1>1. conns[k] \in ConnType \cup {Closed}
  BY ElementOfSeq, LenProperties DEF TypeInv, ConnsTyped
<1> QED
  BY <1>1 DEF ConnType

LEMMA ServerKeeps ==
  ASSUME TypeInv, server # "dead"
  PROVE  /\ \A i \in DOMAIN backlog : /\ backlog[i] \in DOMAIN conns
                                      /\ conns[backlog[i]] # Closed
         /\ \A fd \in Fds : at[fd] # 0 => /\ at[fd] \in DOMAIN conns
                                          /\ conns[at[fd]] # Closed
<1>1. \A i \in DOMAIN backlog : backlog[i] \in DOMAIN conns
  BY ElementOfSeq, LenProperties DEF TypeInv, ConnsTyped
<1>2. \A fd \in Fds : at[fd] # 0 => at[fd] \in DOMAIN conns
  BY DEF TypeInv, ConnsTyped
<1>3. \A k \in DOMAIN conns : "server" \in conns[k].open => conns[k] # Closed
  BY DEF Closed
<1> QED
  BY <1>1, <1>2, <1>3 DEF TypeInv, ServerHolds

LEMMA ServerKeepsNext ==
  ASSUME TypeInv', server' # "dead"
  PROVE  /\ \A i \in DOMAIN backlog' : /\ backlog'[i] \in DOMAIN conns'
                                       /\ conns'[backlog'[i]] # Closed
         /\ \A fd \in Fds : at'[fd] # 0 => /\ at'[fd] \in DOMAIN conns'
                                           /\ conns'[at'[fd]] # Closed
<1>1. \A i \in DOMAIN backlog' : backlog'[i] \in DOMAIN conns'
  BY ElementOfSeq, LenProperties DEF TypeInv, ConnsTyped
<1>2. \A fd \in Fds : at'[fd] # 0 => at'[fd] \in DOMAIN conns'
  BY DEF TypeInv, ConnsTyped
<1>3. \A k \in DOMAIN conns' : "server" \in conns'[k].open => conns'[k] # Closed
  BY DEF Closed
<1> QED
  BY <1>1, <1>2, <1>3 DEF TypeInv, ServerHolds

LEMMA ComingStill ==
  ASSUME TypeInv, SameRequests, NEW k \in DOMAIN conns, conns'[k] # Closed,
         NEW b, Coming(conns, client, murky, k, b)
  PROVE  Coming(conns', client', murky', k, b)
<1> DEFINE c == conns[k].who
<1>1. /\ conns[k] # Closed
      /\ conns'[k].who = c /\ conns'[k].asked = conns[k].asked
      /\ conns'[k].in = conns[k].in
  BY DEF SameRequests
<1>2. c \in Clients
  BY <1>1, ConnTypeOf
<1>3. /\ client'[c].pc = "send" => client[c].pc = "send" /\ client'[c].conn = client[c].conn
      /\ c \in murky => c \in murky'
  BY <1>2 DEF SameRequests
<1>4. Whole(conns, k, b) => Whole(conns', k, b)
  BY <1>1 DEF Whole
<1> QED
  BY <1>1, <1>3, <1>4 DEF Coming

LEMMA AskableStill ==
  ASSUME SameRequests, AllAskable
  PROVE  AllAskable'
BY DEF SameRequests, AllAskable

(* The request being handled stays what it is.                             *)
LEMMA HandledStill ==
  ASSUME TypeInv, TypeInv', SameRequests, RequestAsSent,
         loop.pc = "send", loop'.rq = loop.rq, Serving' = Serving,
         Serving \in DOMAIN conns, conns'[Serving] # Closed
  PROVE  RequestAsSent'
<1>1. /\ conns'[Serving].who = conns[Serving].who
      /\ conns'[Serving].asked = conns[Serving].asked
      /\ murky \subseteq murky'
  BY DEF SameRequests
<1> QED
  BY <1>1 DEF RequestAsSent

LEMMA ClientSideRequests ==
  ASSUME TypeInv, TypeInv', RequestInv, SameRequests, UNCHANGED serverVars
  PROVE  RequestInv'
<1>1. /\ UNCHANGED server /\ UNCHANGED backlog /\ UNCHANGED fds
      /\ UNCHANGED infos /\ UNCHANGED at /\ UNCHANGED loop
  BY DEF serverVars
<1>2. AllAskable'
  BY AskableStill DEF RequestInv
<1>3. ASSUME server' = "serving" PROVE Accepted' /\ Waiting'
  <2>1. Accepted /\ Waiting /\ server' # "dead"
    BY <1>1, <1>3 DEF RequestInv
  <2>3. \A k \in DOMAIN conns : \A b :
          conns'[k] # Closed /\ Coming(conns, client, murky, k, b)
            => Coming(conns', client', murky', k, b)
    BY ComingStill
  <2>4. DOMAIN conns' = DOMAIN conns
    BY DEF SameRequests
  <2>5. Accepted'
    BY <1>1, <2>1, <2>3, <2>4, ServerKeepsNext DEF Accepted, Fd
  <2>6. Waiting'
    BY <1>1, <2>1, <2>3, <2>4, ServerKeepsNext DEF Waiting
  <2> QED
    BY <2>5, <2>6
<1>4. RequestAsSent'
  <2>1. CASE loop.pc # "send"
    BY <1>1, <2>1 DEF RequestAsSent
  <2>2. CASE loop.pc = "send"
    <3>1. /\ Fd \in Fds /\ at[Fd] # 0 /\ Serving \in DOMAIN conns /\ Serving = at[Fd]
          /\ server = "serving"
      BY <2>2, ServedConn DEF Serving, TypeInv, ServerTyped
    <3>2. Serving' = Serving
      BY <1>1 DEF Serving, Fd
    <3>3. conns'[Serving] # Closed
      BY <1>1, <3>1, ServerKeepsNext
    <3> QED
      BY <1>1, <2>2, <3>1, <3>2, <3>3, HandledStill DEF RequestInv
  <2> QED
    BY <2>1, <2>2
<1> QED
  BY <1>2, <1>3, <1>4 DEF RequestInv

LEMMA SamePlaces ==
  ASSUME TypeInv, UNCHANGED <<conns, client, murky>>
  PROVE  SameRequests
BY DEF SameRequests

(* A field of a connection other than those of its request changes.        *)
LEMMA OtherField ==
  ASSUME TypeInv, NEW k \in DOMAIN conns, conns[k] # Closed, NEW x,
         conns' = [conns EXCEPT ![k] = x],
         x.who = conns[k].who, x.asked = conns[k].asked, x.in = conns[k].in,
         murky \subseteq murky',
         \A c \in Clients : client'[c].pc = "send" =>
           client[c].pc = "send" /\ client'[c].conn = client[c].conn
  PROVE  SameRequests
<1>1. conns \in Seq(ConnType \cup {Closed})
  BY DEF TypeInv, ConnsTyped
<1>2. \A j \in DOMAIN conns : conns'[j] = IF j = k THEN x ELSE conns[j]
  BY <1>1
<1>3. DOMAIN conns' = DOMAIN conns
  BY <1>1
<1> QED
  BY <1>2, <1>3 DEF SameRequests

LEMMA HungUpSame ==
  ASSUME NEW k \in DOMAIN conns, conns[k] \in ConnType, NEW end,
         HungUp(k, end) # Closed
  PROVE  /\ HungUp(k, end).who = conns[k].who
         /\ HungUp(k, end).asked = conns[k].asked
         /\ HungUp(k, end).in = conns[k].in
BY DEF HungUp, ConnType

LEMMA HangsUp ==
  ASSUME TypeInv, NEW k \in DOMAIN conns, conns[k] # Closed, NEW end,
         conns' = [conns EXCEPT ![k] = HungUp(k, end)],
         murky \subseteq murky',
         \A c \in Clients : client'[c].pc = "send" =>
           client[c].pc = "send" /\ client'[c].conn = client[c].conn
  PROVE  SameRequests
<1> DEFINE x == HungUp(k, end)
<1>1. conns \in Seq(ConnType \cup {Closed}) /\ conns[k] \in ConnType
  BY ConnTypeOf DEF TypeInv, ConnsTyped
<1>2. x # Closed => /\ x.who = conns[k].who
                    /\ x.asked = conns[k].asked /\ x.in = conns[k].in
  BY <1>1, HungUpSame
<1> HIDE DEF x
<1>3. \A j \in DOMAIN conns : conns'[j] = IF j = k THEN x ELSE conns[j]
  BY <1>1 DEF x
<1>4. DOMAIN conns' = DOMAIN conns
  BY <1>1
<1> QED
  BY <1>2, <1>3, <1>4 DEF SameRequests

LEMMA LeavesSame ==
  ASSUME TypeInv, NEW c \in Clients, client[c].conn # 0,
         NEW pc \in {"menu", "ended"}, Leaves(c, pc), UNCHANGED murky
  PROVE  SameRequests
<1> DEFINE k == client[c].conn
<1>1. k \in DOMAIN conns /\ conns[k] # Closed
  BY OwnConn DEF Conn, ConnType, Closed
<1>2. conns' = [conns EXCEPT ![k] = HungUp(k, "client")] /\ murky \subseteq murky'
  BY DEF Leaves
<1>3. \A d \in Clients : client'[d].pc = "send" =>
           client[d].pc = "send" /\ client'[d].conn = client[d].conn
  <2>1. client \in [Clients -> ClientType]
    BY DEF TypeInv, ClientsTyped
  <2>2. client'[c].pc = pc /\ \A d \in Clients \ {c} : client'[d] = client[d]
    BY <2>1 DEF Leaves, ClientType
  <2> QED
    BY <2>2
<1> HIDE DEF k
<1> QED
  BY <1>1, <1>2, <1>3, HangsUp

LEMMA ClientStepSame ==
  ASSUME TypeInv, NEW c \in Clients,
         \/ LogOut(c) \/ \E id \in AccountIds : LogIn(c, id)
         \/ Read(c) \/ TakeFrame(c) \/ TakeEnd(c) \/ StartAdd(c)
         \/ AddAccount(c) \/ Done(c) \/ Leave(c)
  PROVE  SameRequests
<1>0. client \in [Clients -> ClientType] /\ client[c] \in ClientType
  BY DEF TypeInv, ClientsTyped
<1>1. CASE LogOut(c) \/ \E id \in AccountIds : LogIn(c, id)
  <2>1. PICK id : client' = [client EXCEPT ![c].user = id]
    BY <1>1 DEF LogIn, LogOut
  <2>2. UNCHANGED conns /\ UNCHANGED murky
    BY <1>1 DEF LogIn, LogOut
  <2>3. \A d \in Clients : client'[d].pc = client[d].pc /\ client'[d].conn = client[d].conn
    BY <1>0, <2>1 DEF ClientType
  <2> QED
    BY <2>2, <2>3 DEF SameRequests
<1>2. CASE Read(c)
  <2> DEFINE k == client[c].conn
  <2>1. PICK n : conns' = [conns EXCEPT ![k].out = SubSeq(@, n + 1, Len(@))]
    BY <1>2 DEF Read
  <2>2. client[c].conn # 0
    BY <1>2 DEF Read, TypeInv, ClientHolds
  <2>3. k \in DOMAIN conns /\ conns[k] \in ConnType /\ conns[k] # Closed
    BY <2>2, OwnConn DEF Conn, ConnType, Closed
  <2> DEFINE x == [conns[k] EXCEPT !.out = SubSeq(@, n + 1, Len(@))]
  <2>4. /\ conns' = [conns EXCEPT ![k] = x] /\ x.who = conns[k].who
        /\ x.asked = conns[k].asked /\ x.in = conns[k].in
    BY <2>1, <2>3, SMTT(30) DEF ConnType
  <2>5. UNCHANGED client /\ UNCHANGED murky
    BY <1>2 DEF Read
  <2> HIDE DEF x, k
  <2>6. /\ murky \subseteq murky'
        /\ \A d \in Clients : client'[d].pc = "send" =>
             client[d].pc = "send" /\ client'[d].conn = client[d].conn
    BY <2>5
  <2> QED
    BY <2>3, <2>4, <2>6, OtherField
<1>3. CASE TakeFrame(c) \/ TakeEnd(c) \/ StartAdd(c)
  <2>1. UNCHANGED conns /\ murky \subseteq murky'
    BY <1>3 DEF TakeFrame, TakeEnd, StartAdd, Keep
  <2>2. /\ \A d \in Clients \ {c} : client'[d] = client[d]
        /\ client'[c].pc # "send"
    <3>1. CASE TakeFrame(c)
      <4>1. PICK a : client' = [client EXCEPT ![c].got = a, ![c].pc = AfterFrame(a)]
        BY <3>1 DEF TakeFrame, Keep
      <4>2. AfterFrame(a) # "send"
        BY DEF AfterFrame
      <4> QED
        BY <1>0, <4>1, <4>2 DEF ClientType
    <3>2. CASE TakeEnd(c)
      <4> DEFINE a == Filled(Got(c, rest[c]))
      <4>1. client' = [client EXCEPT ![c].got = a,
                         ![c].pc = IF Known(a.head.type) THEN "show" ELSE "fail"]
        BY <3>2 DEF TakeEnd
      <4> HIDE DEF a
      <4> QED
        BY <1>0, <4>1 DEF ClientType
    <3>3. CASE StartAdd(c)
      <4> DEFINE id == client[c].got.head.id
      <4>1. client' = [client EXCEPT ![c].user = id, ![c].pc = "add"]
        BY <3>3 DEF StartAdd
      <4> HIDE DEF id
      <4> QED
        BY <1>0, <4>1 DEF ClientType
    <3> QED
      BY <1>3, <3>1, <3>2, <3>3
  <2> QED
    BY <2>1, <2>2 DEF SameRequests
<1>4. CASE AddAccount(c) /\ WriteId(c) /\ UNCHANGED <<client, conns>>
  BY <1>4, SamePlaces DEF AddAccount
<1>5. CASE AddAccount(c) /\ Leaves(c, "menu")
  BY <1>5, LeavesSame DEF AddAccount, TypeInv, ClientHolds
<1>6. CASE AddAccount(c) /\ Leaves(c, "ended")
  BY <1>6, LeavesSame DEF AddAccount, TypeInv, ClientHolds
<1>7. CASE Done(c)
  BY <1>7, LeavesSame DEF Done, TypeInv, ClientHolds
<1>8. CASE Leave(c)
  BY <1>8, LeavesSame DEF Leave, TypeInv, ClientHolds
<1> QED
  BY <1>1, <1>2, <1>3, <1>4, <1>5, <1>6, <1>7, <1>8 DEF AddAccount

LEMMA ClientRequests ==
  ASSUME TypeInv, TypeInv', RequestInv, NEW c \in Clients,
         \/ LogOut(c) \/ \E id \in AccountIds : LogIn(c, id)
         \/ Read(c) \/ TakeFrame(c) \/ TakeEnd(c) \/ StartAdd(c)
         \/ AddAccount(c) \/ Done(c) \/ Leave(c)
  PROVE  RequestInv'
<1>1. SameRequests
  BY ClientStepSame
<1>2. UNCHANGED serverVars
  BY DEF LogOut, LogIn, Read, TakeFrame, Keep, TakeEnd, StartAdd, AddAccount, Done, Leave
<1> QED
  BY <1>1, <1>2, ClientSideRequests

LEMMA PollRequests ==
  ASSUME TypeInv, TypeInv', RequestInv, Poll \/ NoMoreToAccept
  PROVE  RequestInv'
<1>1. /\ loop.pc # "send" /\ server = "serving" /\ UNCHANGED conns
      /\ UNCHANGED <<server, backlog, fds, infos, at>>
      /\ UNCHANGED client /\ UNCHANGED murky
  BY DEF Poll, NoMoreToAccept, clientVars
<1>2. PICK ready : loop' = Turn(ready)
  BY DEF Poll, NoMoreToAccept
<1>3. loop'.pc # "send"
  BY <1>2 DEF Turn, Resting
<1> QED
  BY <1>1, <1>3 DEF RequestInv, AllAskable, Accepted, Waiting, RequestAsSent

LEMMA StopRequests ==
  ASSUME TypeInv, RequestInv, GiveUp \/ Drop \/ Die
  PROVE  RequestInv'
<1>1. server' # "serving" /\ loop'.pc = "poll"
  BY DEF GiveUp, Drop, Die, Stop, Resting
<1>2. AllAskable'
  <2>1. CASE GiveUp
    BY <2>1 DEF GiveUp, RequestInv, AllAskable
  <2>2. CASE Die
    <3>1. conns' = [k \in DOMAIN conns |-> IF conns[k] = Closed THEN Closed
                                           ELSE HungUp(k, "server")]
      BY <2>2 DEF Die
    <3> SUFFICES ASSUME NEW k \in DOMAIN conns, conns'[k] # Closed
                 PROVE  Askable(conns'[k].asked)
      BY <3>1 DEF AllAskable
    <3>2. conns[k] # Closed /\ conns'[k] = HungUp(k, "server")
      BY <3>1
    <3>3. conns'[k].asked = conns[k].asked
      BY <3>2, ConnTypeOf, HungUpSame
    <3> QED
      BY <3>2, <3>3 DEF RequestInv, AllAskable
  <2>3. CASE Drop
    <3> DEFINE k == Serving
               f == IF HungUp(k, "server") = Closed THEN Closed
                    ELSE [HungUp(k, "server") EXCEPT !.dropped = TRUE]
    <3>1. loop.pc \in {"recv", "send"} /\ conns' = [conns EXCEPT ![k] = f]
      BY <2>3 DEF Drop
    <3>2. k \in DOMAIN conns /\ conns[k] \in ConnType /\ conns[k] # Closed
      BY <3>1, ServedConn DEF ConnType, Closed
    <3>3. f # Closed => f.asked = conns[k].asked
      <4> DEFINE h == HungUp(k, "server")
      <4>1. h # Closed => h.asked = conns[k].asked
        BY <3>2, HungUpSame
      <4>2. h \in ConnType \cup {Closed}
        BY <3>2, HungUpTyped
      <4>3. h # Closed => f = [h EXCEPT !.dropped = TRUE]
        OBVIOUS
      <4>4. h = Closed => f = Closed
        OBVIOUS
      <4> HIDE DEF h, f
      <4>5. ASSUME h # Closed PROVE f.asked = h.asked
        BY <4>2, <4>3, <4>5 DEF ConnType
      <4> QED
        BY <4>1, <4>4, <4>5
    <3> HIDE DEF k, f
    <3>4. /\ DOMAIN conns' = DOMAIN conns /\ conns'[k] = f
          /\ \A j \in DOMAIN conns \ {k} : conns'[j] = conns[j]
      BY <3>1, <3>2 DEF TypeInv, ConnsTyped
    <3> QED
      BY <3>2, <3>3, <3>4 DEF RequestInv, AllAskable
  <2> QED
    BY <2>1, <2>2, <2>3
<1> QED
  BY <1>1, <1>2 DEF RequestInv, RequestAsSent

LEMMA AskRequests ==
  ASSUME TypeInv, TypeInv', RequestInv, NEW c \in Clients, NEW r \in Inputs[c],
         Ask(c, r)
  PROVE  RequestInv'
<1>0. client \in [Clients -> ClientType]
  BY DEF TypeInv, ClientsTyped
<1>1. CASE server = "dead"
  <2>1. /\ client' = [client EXCEPT ![c].pc = "ended"]
        /\ UNCHANGED conns /\ UNCHANGED murky /\ UNCHANGED serverVars
    BY <1>1 DEF Ask, serverVars
  <2>2. client'[c].pc = "ended" /\ \A d \in Clients \ {c} : client'[d] = client[d]
    BY <1>0, <2>1 DEF ClientType
  <2>3. SameRequests
    BY <2>1, <2>2 DEF SameRequests
  <2> QED
    BY <2>1, <2>3, ClientSideRequests
<1>2. CASE server # "dead"
  <2> DEFINE new == [who |-> c, asked |-> Created(c, r), in |-> <<>>, out |-> <<>>,
                     open |-> {"client", "server"}, answer |-> Nobody,
                     dropped |-> FALSE]
  <2>1. /\ conns' = Append(conns, new) /\ backlog' = Append(backlog, NextConn)
        /\ client' = [client EXCEPT ![c].pc = "send", ![c].conn = NextConn]
        /\ UNCHANGED server /\ UNCHANGED at /\ UNCHANGED fds /\ UNCHANGED infos
        /\ UNCHANGED loop /\ UNCHANGED murky
    BY <1>2 DEF Ask
  <2>2. /\ new.who = c /\ new.in = <<>> /\ new.asked = Created(c, r)
        /\ new \in ConnType \cup {Closed}
    BY CreatedTyped, NobodyTyped DEF ConnType
  <2> HIDE DEF new
  <2>3. Askable(new.asked)
    BY <2>2, CreatedAskable
  <2>4. /\ conns \in Seq(ConnType \cup {Closed}) /\ Len(conns) \in Nat
        /\ DOMAIN conns = 1..Len(conns) /\ backlog \in Seq(DOMAIN conns)
        /\ DOMAIN backlog = 1..Len(backlog) /\ Len(backlog) \in Nat
    BY LenProperties DEF TypeInv, ConnsTyped
  <2>5. /\ conns' \in Seq(ConnType \cup {Closed}) /\ Len(conns') = Len(conns) + 1
        /\ \A k \in DOMAIN conns : conns'[k] = conns[k]
        /\ conns'[NextConn] = new
    BY <2>1, <2>2, <2>4, AppendProperties DEF NextConn
  <2>6. /\ NextConn \notin DOMAIN conns
        /\ DOMAIN conns' = DOMAIN conns \cup {NextConn}
    BY <2>4, <2>5, LenProperties DEF NextConn
  <2>7. /\ \A d \in Clients \ {c} : client'[d] = client[d]
        /\ client'[c].conn = NextConn
    BY <1>0, <2>1 DEF ClientType
  <2>8. AllAskable'
    BY <2>3, <2>5, <2>6 DEF RequestInv, AllAskable
  <2>9. \A k \in DOMAIN conns : \A b : conns[k] # Closed /\
          Coming(conns, client, murky, k, b) => Coming(conns', client', murky', k, b)
    <3> SUFFICES ASSUME NEW k \in DOMAIN conns, NEW b, conns[k] # Closed,
                        Coming(conns, client, murky, k, b)
                 PROVE  Coming(conns', client', murky', k, b)
      OBVIOUS
    <3>1. conns'[k] = conns[k] /\ murky' = murky
      BY <2>1, <2>5
    <3>2. client'[conns[k].who].conn = k => client'[conns[k].who] = client[conns[k].who]
      <4>1. CASE conns[k].who = c
        BY <2>6, <2>7, <4>1
      <4>2. CASE conns[k].who \in Clients \ {c}
        BY <2>7, <4>2
      <4> QED
        BY <4>1, <4>2, ConnTypeOf
    <3>3. Whole(conns, k, b) => Whole(conns', k, b)
      BY <3>1 DEF Whole
    <3> QED
      BY <3>1, <3>2, <3>3 DEF Coming
  <2>10. ASSUME server' = "serving" PROVE Accepted' /\ Waiting'
    <3>1. Accepted /\ Waiting /\ server # "dead"
      BY <2>1, <2>10 DEF RequestInv
    <3>3. Accepted'
      BY <2>1, <2>9, <3>1, ServerKeeps DEF Accepted, Fd
    <3>4. Coming(conns', client', murky', NextConn, <<>>)
      BY <2>2, <2>5 DEF Coming
    <3>5. \A i \in DOMAIN backlog' :
            \/ i \in DOMAIN backlog /\ backlog'[i] = backlog[i]
            \/ backlog'[i] = NextConn
      <4>1. NextConn \in DOMAIN conns' /\ backlog \in Seq(DOMAIN conns')
        BY <2>4, <2>6, SeqMonotonic
      <4>2. /\ Len(backlog') = Len(backlog) + 1
            /\ \A i \in 1..Len(backlog) : backlog'[i] = backlog[i]
            /\ backlog'[Len(backlog) + 1] = NextConn
            /\ backlog' \in Seq(DOMAIN conns')
        BY <2>1, <4>1, AppendProperties
      <4>3. DOMAIN backlog' = 1..(Len(backlog) + 1)
        BY <4>2, LenProperties
      <4>4. \A i \in 1..(Len(backlog) + 1) : i \in 1..Len(backlog) \/ i = Len(backlog) + 1
        BY <2>4
      <4> QED
        BY <2>4, <4>2, <4>3, <4>4
    <3>6. Waiting'
      BY <2>9, <3>1, <3>4, <3>5, ServerKeeps DEF Waiting
    <3> QED
      BY <3>3, <3>6
  <2>11. RequestAsSent'
    <3>1. CASE loop.pc # "send"
      BY <2>1, <3>1 DEF RequestAsSent
    <3>2. CASE loop.pc = "send"
      <4>1. Serving \in DOMAIN conns
        BY <3>2, ServedConn
      <4>2. conns'[Serving] = conns[Serving] /\ Serving' = Serving
        BY <2>1, <2>5, <4>1 DEF Serving, Fd
      <4> QED
        BY <2>1, <4>2 DEF RequestInv, RequestAsSent
    <3> QED
      BY <3>1, <3>2
  <2> QED
    BY <2>8, <2>10, <2>11 DEF RequestInv
<1> QED
  BY <1>1, <1>2

LEMMA SendRequests ==
  ASSUME TypeInv, TypeInv', RequestInv, NEW c \in Clients, Send(c)
  PROVE  RequestInv'
<1> DEFINE k == client[c].conn
           bytes == RequestBytes(Conn(c).asked)
           x == [conns[k] EXCEPT !.in = bytes \o CRLF]
<1>1. client[c].pc = "send" /\ k # 0
  BY DEF Send, TypeInv, ClientHolds
<1>2. /\ k \in DOMAIN conns /\ conns[k] \in ConnType /\ conns[k].who = c
      /\ conns[k] # Closed
  BY <1>1, OwnConn DEF Conn, Closed, ConnType
<1>3. bytes \in Seq(Byte) /\ bytes = RequestBytes(conns[k].asked)
  BY <1>2, RequestBytesTyped DEF ConnType, Conn
<1>4. /\ conns' = [conns EXCEPT ![k] = x]
      /\ client' = [client EXCEPT ![c].pc = "recv", ![c].got = Nobody]
      /\ murky' = IF HasCR(bytes) THEN murky \cup {c} ELSE murky
      /\ UNCHANGED server /\ UNCHANGED backlog /\ UNCHANGED at /\ UNCHANGED fds
      /\ UNCHANGED infos /\ UNCHANGED loop
  BY DEF Send, serverVars
<1> HIDE DEF bytes
<1>5. /\ x.in = bytes \o CRLF /\ x.who = c /\ x.asked = conns[k].asked
      /\ x # Closed
  BY <1>2 DEF ConnType, Closed
<1> HIDE DEF x, k
<1>6. /\ DOMAIN conns' = DOMAIN conns /\ conns'[k] = x
      /\ \A j \in DOMAIN conns \ {k} : conns'[j] = conns[j]
  BY <1>2, <1>4 DEF TypeInv, ConnsTyped
<1>7. /\ client'[c].pc = "recv" /\ client'[c].conn = k
      /\ \A d \in Clients \ {c} : client'[d] = client[d]
  BY <1>4 DEF TypeInv, ClientsTyped, ClientType, k
<1>8. AllAskable'
  BY <1>2, <1>5, <1>6 DEF RequestInv, AllAskable
<1>9. murky \subseteq murky'
  BY <1>4
<1>10. \A j \in DOMAIN conns \ {k} : \A b : conns[j] # Closed /\
         Coming(conns, client, murky, j, b) => Coming(conns', client', murky', j, b)
  <2> SUFFICES ASSUME NEW j \in DOMAIN conns \ {k}, NEW b, conns[j] # Closed,
                      Coming(conns, client, murky, j, b)
               PROVE  Coming(conns', client', murky', j, b)
    OBVIOUS
  <2>1. conns'[j] = conns[j]
    BY <1>6
  <2>2. conns[j].who \in Clients
    BY ConnTypeOf
  <2>3. client'[conns[j].who].pc = "send" => client'[conns[j].who] = client[conns[j].who]
    BY <1>7, <2>2
  <2>4. Whole(conns, j, b) => Whole(conns', j, b)
    BY <2>1 DEF Whole
  <2> QED
    BY <1>9, <2>1, <2>3, <2>4 DEF Coming
<1>11. \A b : Coming(conns, client, murky, k, b) => Coming(conns', client', murky', k, b)
  <2> SUFFICES ASSUME NEW b, Coming(conns, client, murky, k, b)
               PROVE  Coming(conns', client', murky', k, b)
    OBVIOUS
  <2>1. b = <<>>
    BY <1>1, <1>2 DEF Coming, k
  <2>2. CASE HasCR(bytes)
    <3>1. conns'[k].who = c /\ client'[c].pc # "send" /\ c \in murky'
      BY <1>4, <1>5, <1>6, <1>7, <2>2
    <3> QED
      BY <3>1 DEF Coming
  <2>3. CASE ~ HasCR(bytes)
    <3>1. bytes \o CRLF \in Seq(Byte)
      BY <1>3, CRLFTyped
    <3>2. b \o (bytes \o CRLF) = bytes \o CRLF
      BY <2>1, <3>1, ConcatEmptySeq
    <3>3. Whole(conns', k, b)
      BY <1>3, <1>5, <1>6, <2>3, <3>2 DEF Whole
    <3>4. conns'[k].who = c /\ client'[c].pc # "send"
      BY <1>5, <1>6, <1>7
    <3> QED
      BY <3>3, <3>4 DEF Coming
  <2> QED
    BY <2>2, <2>3
<1>12. \A j \in DOMAIN conns : \A b : conns[j] # Closed /\
         Coming(conns, client, murky, j, b) => Coming(conns', client', murky', j, b)
  BY <1>10, <1>11
<1>13. ASSUME server' = "serving" PROVE Accepted' /\ Waiting'
  <2>1. Accepted /\ Waiting /\ server # "dead"
    BY <1>4, <1>13 DEF RequestInv
  <2>3. Accepted'
    BY <1>4, <1>12, <2>1, ServerKeeps DEF Accepted, Fd
  <2>4. Waiting'
    BY <1>4, <1>12, <2>1, ServerKeeps DEF Waiting
  <2> QED
    BY <2>3, <2>4
<1>14. RequestAsSent'
  <2>1. CASE loop.pc # "send"
    BY <1>4, <2>1 DEF RequestAsSent
  <2>2. CASE loop.pc = "send"
    <3>1. Serving \in DOMAIN conns
      BY <2>2, ServedConn
    <3>2. /\ conns'[Serving].who = conns[Serving].who
          /\ conns'[Serving].asked = conns[Serving].asked /\ Serving' = Serving
      BY <1>2, <1>4, <1>5, <1>6, <3>1 DEF Serving, Fd
    <3> QED
      BY <1>4, <1>9, <3>2 DEF RequestInv, RequestAsSent
  <2> QED
    BY <2>1, <2>2
<1> QED
  BY <1>8, <1>13, <1>14 DEF RequestInv

LEMMA AcceptRequests ==
  ASSUME TypeInv, TypeInv', RequestInv, Accept
  PROVE  RequestInv'
<1> DEFINE k == Head(backlog)
           fd == FreeFd
<1>1. /\ at' = [at EXCEPT ![fd] = k] /\ backlog' = Tail(backlog)
      /\ backlog # <<>> /\ loop.pc = "accept" /\ server = "serving"
      /\ infos' = [infos EXCEPT ![fd] = <<>>]
      /\ UNCHANGED server /\ UNCHANGED loop
      /\ UNCHANGED conns /\ UNCHANGED client /\ UNCHANGED murky
  BY DEF Accept, clientVars
<1>2. fd \in Fds /\ at[fd] = 0
  BY <1>1, FreeFdIs
<1>3. /\ backlog \in Seq(DOMAIN conns) /\ at \in [Fds -> {0} \cup DOMAIN conns]
      /\ conns \in Seq(ConnType \cup {Closed}) /\ DOMAIN conns = 1..Len(conns)
      /\ DOMAIN backlog = 1..Len(backlog) /\ Len(backlog) \in Nat
  BY LenProperties DEF TypeInv, ConnsTyped
<1>4. k \in DOMAIN conns /\ k = backlog[1] /\ 1 \in DOMAIN backlog /\ k # 0
  BY <1>1, <1>3, HeadTailProperties, EmptySeq
<1>5. \A i \in DOMAIN backlog' : i + 1 \in DOMAIN backlog /\ backlog'[i] = backlog[i + 1]
  <2>1. /\ backlog' \in Seq(DOMAIN conns) /\ Len(backlog') = Len(backlog) - 1
        /\ \A i \in 1..Len(backlog') : backlog'[i] = backlog[i + 1]
    BY <1>1, <1>3, HeadTailProperties
  <2>2. DOMAIN backlog' = 1..Len(backlog')
    BY <2>1, LenProperties
  <2> QED
    BY <1>3, <2>1, <2>2, SMTT(30)
<1> HIDE DEF k, fd
<1>6. /\ at'[fd] = k /\ infos'[fd] = <<>>
      /\ \A gd \in Fds \ {fd} : at'[gd] = at[gd] /\ infos'[gd] = infos[gd]
  BY <1>1, <1>2, <1>3 DEF TypeInv, ServerTyped
<1>7. Accepted /\ Waiting /\ loop.pc # "send"
  BY <1>1 DEF RequestInv
<1>9. Waiting'
  BY <1>1, <1>5, <1>7 DEF Waiting
<1>10. Coming(conns, client, murky, k, <<>>)
  BY <1>4, <1>7 DEF Waiting
<1>11. \A gd \in Fds : at'[gd] # 0 => Coming(conns, client, murky, at'[gd], infos'[gd])
  <2>1. \A gd \in Fds \ {fd} : at'[gd] # 0 =>
          Coming(conns, client, murky, at'[gd], infos'[gd])
    BY <1>6, <1>7 DEF Accepted
  <2>2. Coming(conns, client, murky, at'[fd], infos'[fd])
    BY <1>6, <1>10
  <2> QED
    BY <2>1, <2>2
<1>12. Accepted'
  BY <1>1, <1>11 DEF Accepted
<1>13. AllAskable' /\ RequestAsSent'
  BY <1>1 DEF RequestInv, AllAskable, RequestAsSent
<1> QED
  BY <1>9, <1>12, <1>13 DEF RequestInv

(* The connection served is no other's, and does not wait.                 *)
LEMMA ServedAlone ==
  ASSUME TypeInv, loop.pc \in {"recv", "send"}
  PROVE  /\ \A fd \in Fds \ {Fd} : at[fd] # Serving
         /\ \A i \in DOMAIN backlog : backlog[i] # Serving
BY ServedConn DEF TypeInv, OneEach, Serving

LEMMA ReceiveRequests ==
  ASSUME TypeInv, TypeInv', RequestInv, Receive
  PROVE  RequestInv'
<1> DEFINE k == Serving
           a == conns[k].in
           b == infos[Fd]
<1>0. /\ loop.pc = "recv" /\ server = "serving"
      /\ UNCHANGED server /\ UNCHANGED backlog /\ UNCHANGED fds /\ UNCHANGED at
      /\ UNCHANGED loop /\ UNCHANGED client /\ UNCHANGED murky
  BY DEF Receive, clientVars
<1>1. PICK n \in Pieces(a) :
        /\ infos' = [infos EXCEPT ![Fd] = @ \o SubSeq(a, 1, n)]
        /\ conns' = [conns EXCEPT ![k].in = SubSeq(@, n + 1, Len(@))]
  BY DEF Receive, Received
<1>2. /\ Fd \in Fds /\ k \in DOMAIN conns /\ conns[k] \in ConnType /\ at[Fd] = k
      /\ k # 0 /\ conns[k] # Closed
  BY <1>0, ServedConn DEF Serving, ConnType, Closed
<1>3. a \in Seq(Byte) /\ b \in Seq(Byte)
  BY <1>2, ServerTypeOf DEF ConnType
<1> DEFINE got == SubSeq(a, 1, n)
           left == SubSeq(a, n + 1, Len(a))
<1>4. n \in 1..Len(a) /\ got \in Seq(Byte) /\ left \in Seq(Byte)
  BY <1>3, PiecesTyped
<1>5. got \o left = a
  <2>1. Len(a) \in Nat
    BY <1>3, LenProperties
  <2>2. 1 \in 1..Len(a) + 1 /\ n \in (1 - 1)..Len(a) /\ Len(a) \in n..Len(a)
    BY <1>4, <2>1
  <2>3. SubSeq(a, 1, n) \o SubSeq(a, n + 1, Len(a)) = SubSeq(a, 1, Len(a))
    BY <1>3, <2>2, ConcatAdjacentSubSeq
  <2> QED
    BY <1>3, <2>3, SubSeqFull
<1>6. a # <<>>
  BY <1>4, EmptySeq
<1> DEFINE x == [conns[k] EXCEPT !.in = left]
<1>7. /\ conns' = [conns EXCEPT ![k] = x] /\ infos' = [infos EXCEPT ![Fd] = b \o got]
      /\ x.in = left /\ x.who = conns[k].who /\ x.asked = conns[k].asked
      /\ x # Closed
  BY <1>1, <1>2 DEF ConnType, Closed
<1> HIDE DEF x, k, got, left, a, b
<1>8. /\ DOMAIN conns' = DOMAIN conns /\ conns'[k] = x
      /\ \A j \in DOMAIN conns \ {k} : conns'[j] = conns[j]
      /\ infos'[Fd] = b \o got /\ \A fd \in Fds \ {Fd} : infos'[fd] = infos[fd]
  BY <1>2, <1>7 DEF TypeInv, ConnsTyped, ServerTyped
<1>9. Accepted /\ Waiting /\ loop.pc # "send"
  BY <1>0 DEF RequestInv
<1>10. \A j \in DOMAIN conns \ {k} : \A u :
         Coming(conns, client, murky, j, u) => Coming(conns', client, murky, j, u)
  BY <1>8 DEF Coming, Whole
<1>11. Coming(conns', client, murky, k, b \o got)
  <2>1. Coming(conns, client, murky, k, b)
    BY <1>2, <1>9 DEF Accepted, b
  <2>2. conns[k].in = a
    BY DEF a
  <2>3. ~ (client[conns[k].who].pc = "send" /\ client[conns[k].who].conn = k)
    BY <1>6, <2>1, <2>2 DEF Coming
  <2>4. conns[k].who \in murky \/ Whole(conns, k, b)
    BY <1>6, <2>1, <2>2 DEF Coming
  <2>5. (b \o got) \o left = b \o a
    <3>1. b \in Seq(Byte) /\ got \in Seq(Byte) /\ left \in Seq(Byte)
      BY <1>3, <1>4
    <3>2. (b \o got) \o left = b \o (got \o left)
      BY <3>1, ConcatAssociative, SMTT(30)
    <3> QED
      BY <3>2, <1>5
  <2>6. Whole(conns, k, b) => Whole(conns', k, b \o got)
    BY <1>7, <1>8, <2>2, <2>5 DEF Whole
  <2> QED
    BY <1>7, <1>8, <2>3, <2>4, <2>6 DEF Coming
<1>13. \A fd \in Fds : at[fd] # 0 => Coming(conns', client, murky, at[fd], infos'[fd])
  <2>1. \A fd \in Fds \ {Fd} : at[fd] # 0 => at[fd] \in DOMAIN conns \ {k}
    BY <1>0, ServedAlone, ServerKeeps DEF k
  <2>2. \A fd \in Fds \ {Fd} : at[fd] # 0 =>
          Coming(conns', client, murky, at[fd], infos'[fd])
    BY <1>8, <1>9, <1>10, <2>1 DEF Accepted
  <2> QED
    BY <1>2, <1>8, <1>11, <2>2
<1>14. Accepted'
  BY <1>0, <1>13 DEF Accepted
<1>15. Waiting'
  <2>1. \A i \in DOMAIN backlog : backlog[i] \in DOMAIN conns \ {k}
    BY <1>0, ServedAlone, ServerKeeps DEF k
  <2> QED
    BY <1>0, <1>9, <1>10, <2>1 DEF Waiting
<1>16. AllAskable'
  BY <1>2, <1>7, <1>8 DEF RequestInv, AllAskable
<1>17. RequestAsSent'
  BY <1>0 DEF RequestAsSent
<1> QED
  BY <1>14, <1>15, <1>16, <1>17 DEF RequestInv

LEMMA HandleRequests ==
  ASSUME TypeInv, TypeInv', RequestInv, loop.pc = "recv", server = "serving",
         HasCR(infos[Fd]), Handle(Cut(infos[Fd]), Rest(infos[Fd]))
  PROVE  RequestInv'
<1> DEFINE k == Serving
           b == infos[Fd]
           r == conns[k].asked
           rq == RequestIn(Cut(b))
<1>1. PICK a :
        /\ loop' = [loop EXCEPT !.pc = "send", !.rq = rq, !.out = Frames(a)]
        /\ conns' = [conns EXCEPT ![k].answer = a]
  BY Zenon DEF Handle
<1>2. /\ Fd \in Fds /\ k \in DOMAIN conns /\ conns[k] \in ConnType /\ at[Fd] = k
      /\ k # 0 /\ conns[k] # Closed
  BY ServedConn DEF Serving, ConnType, Closed
<1>3. /\ infos' = [infos EXCEPT ![Fd] = Rest(b)]
      /\ UNCHANGED server /\ UNCHANGED backlog /\ UNCHANGED fds /\ UNCHANGED at
      /\ UNCHANGED client /\ UNCHANGED murky
  BY DEF Handle, clientVars
<1> HIDE DEF rq
<1>4. loop'.pc = "send" /\ loop'.slot = loop.slot /\ loop'.rq = rq
  BY <1>1 DEF TypeInv, ServerTyped, LoopType
<1>5. Fd' = Fd /\ Serving' = Serving
  BY <1>3, <1>4 DEF Fd, Serving
<1> DEFINE x == [conns[k] EXCEPT !.answer = a]
<1>6. /\ conns' = [conns EXCEPT ![k] = x] /\ x.who = conns[k].who
      /\ x.asked = conns[k].asked /\ x.in = conns[k].in
  BY <1>1, <1>2 DEF ConnType
<1> HIDE DEF x, k, b
<1>7. SameRequests
  BY <1>2, <1>3, <1>6, OtherField
<1>8. Accepted /\ Waiting /\ loop.pc # "send"
  BY DEF RequestInv
<1>9. Coming(conns, client, murky, k, b)
  BY <1>2, <1>8 DEF Accepted, b
<1>10. b \in Seq(Byte) /\ conns[k].in \in Seq(Byte) /\ r \in RequestType
  BY <1>2, ServerTypeOf DEF ConnType, b
<1>11. HasCR(b) /\ b # <<>>
  <2>1. HasCR(b)
    BY DEF b
  <2>2. 1..Len(b) # {}
    BY <1>10, <2>1, FirstCRIs
  <2> QED
    BY <2>1, <2>2, EmptySeq
<1>12. conns[k].who \in murky \/ Whole(conns, k, b)
  BY <1>9, <1>11 DEF Coming
<1>13. Whole(conns, k, b) => rq = r
  <2> SUFFICES ASSUME Whole(conns, k, b) PROVE rq = r
    OBVIOUS
  <2>1. Askable(r)
    BY <1>2 DEF RequestInv, AllAskable
  <2> DEFINE s == RequestBytes(r)
  <2>2. s \in Seq(Byte) /\ ~ HasCR(s) /\ b \o conns[k].in = s \o CRLF
    BY <1>10, RequestBytesTyped DEF Whole
  <2>3. Cut(b) = b /\ Begins(s, b)
    BY <1>10, <1>11, <2>2, CutWhole
  <2>4. RequestIn(b) = r
    BY <1>10, <2>1, <2>3, RequestRead
  <2> QED
    BY <2>3, <2>4 DEF rq
<1>14. RequestAsSent'
  <2>1. conns'[k].who = conns[k].who /\ conns'[k].asked = r
    BY <1>2, <1>6 DEF TypeInv, ConnsTyped
  <2>2. Serving' = k
    BY <1>5 DEF k
  <2>3. loop'.rq = conns'[Serving'].asked \/ conns'[Serving'].who \in murky'
    BY <1>3, <1>4, <1>12, <1>13, <2>1, <2>2
  <2> QED
    BY <2>3 DEF RequestAsSent
<1>15. AllAskable'
  BY <1>7, AskableStill DEF RequestInv
<1>16. \A fd \in Fds \ {Fd} : infos'[fd] = infos[fd]
  BY <1>3 DEF TypeInv, ServerTyped
<1>18. \A j \in DOMAIN conns : \A u :
         conns'[j] # Closed /\ Coming(conns, client, murky, j, u)
           => Coming(conns', client', murky', j, u)
  BY <1>7, ComingStill
<1>19. DOMAIN conns' = DOMAIN conns /\ server' # "dead"
  BY <1>3, <1>7 DEF SameRequests
<1>20. Accepted'
  BY <1>3, <1>4, <1>5, <1>8, <1>16, <1>18, <1>19, ServerKeepsNext DEF Accepted
<1>21. Waiting'
  BY <1>3, <1>8, <1>18, <1>19, ServerKeepsNext DEF Waiting
<1> QED
  BY <1>14, <1>15, <1>20, <1>21 DEF RequestInv

LEMMA SendFrameRequests ==
  ASSUME TypeInv, TypeInv', RequestInv, SendFrame
  PROVE  RequestInv'
<1> DEFINE k == Serving
           x == [conns[k] EXCEPT !.out = @ \o Head(loop.out) \o CRLF]
<1>1. /\ loop.pc = "send" /\ server = "serving" /\ conns' = [conns EXCEPT ![k] = x]
      /\ loop' = [loop EXCEPT !.out = Tail(@)]
      /\ UNCHANGED server /\ UNCHANGED backlog /\ UNCHANGED fds /\ UNCHANGED at
      /\ UNCHANGED infos /\ UNCHANGED client /\ murky \subseteq murky'
  BY DEF SendFrame
<1>2. k \in DOMAIN conns /\ conns[k] \in ConnType /\ conns[k] # Closed
  BY <1>1, ServedConn DEF ConnType, Closed
<1>3. /\ x.who = conns[k].who /\ x.asked = conns[k].asked /\ x.in = conns[k].in
      /\ x # Closed
  BY <1>2 DEF ConnType, Closed
<1>4. loop'.pc = "send" /\ loop'.slot = loop.slot /\ loop'.rq = loop.rq
  BY <1>1, SMTT(30) DEF TypeInv, ServerTyped, LoopType
<1>5. Fd' = Fd /\ Serving' = Serving
  BY <1>1, <1>4 DEF Fd, Serving
<1> HIDE DEF x
<1>6. conns'[k] # Closed
  BY <1>1, <1>2, <1>3 DEF TypeInv, ConnsTyped
<1>7. \A c \in Clients : client'[c].pc = "send" =>
           client[c].pc = "send" /\ client'[c].conn = client[c].conn
  BY <1>1
<1>8. SameRequests
  BY <1>1, <1>2, <1>3, <1>7, OtherField
<1>9. RequestAsSent'
  BY <1>1, <1>2, <1>4, <1>5, <1>6, <1>8, HandledStill DEF RequestInv
<1>10. AllAskable'
  BY <1>8, AskableStill DEF RequestInv
<1>11. \A j \in DOMAIN conns : \A u :
         conns'[j] # Closed /\ Coming(conns, client, murky, j, u)
           => Coming(conns', client', murky', j, u)
  BY <1>8, ComingStill
<1>12. DOMAIN conns' = DOMAIN conns /\ server' # "dead"
  BY <1>1, <1>8 DEF SameRequests
<1>13. Accepted /\ Waiting
  BY <1>1 DEF RequestInv
<1>15. Accepted'
  BY <1>1, <1>4, <1>5, <1>11, <1>12, <1>13, ServerKeepsNext DEF Accepted
<1>16. Waiting'
  BY <1>1, <1>11, <1>12, <1>13, ServerKeepsNext DEF Waiting
<1> QED
  BY <1>9, <1>10, <1>15, <1>16 DEF RequestInv

LEMMA FinishRequests ==
  ASSUME TypeInv, TypeInv', RequestInv, Finish
  PROVE  RequestInv'
<1> DEFINE k == Serving
<1>1. /\ loop.pc = "send" /\ server = "serving"
      /\ conns' = [conns EXCEPT ![k] = HungUp(k, "server")]
      /\ infos' = [infos EXCEPT ![Fd] = <<>>]
      /\ at' = [at EXCEPT ![Fd] = 0] /\ loop' = Turn(loop.ready)
      /\ UNCHANGED server /\ UNCHANGED backlog
      /\ UNCHANGED client /\ UNCHANGED murky
  BY DEF Finish, clientVars
<1>2. Fd \in Fds /\ k \in DOMAIN conns /\ conns[k] # Closed
  BY <1>1, ServedConn DEF ConnType, Closed
<1>3. SameRequests
  <2>1. murky \subseteq murky' /\ \A c \in Clients : client'[c].pc = "send" =>
           client[c].pc = "send" /\ client'[c].conn = client[c].conn
    BY <1>1
  <2> QED
    BY <1>1, <1>2, <2>1, HangsUp
<1>4. loop'.pc # "send"
  BY <1>1 DEF Turn, Resting
<1> DEFINE fd == Fd
<1>5. /\ at'[fd] = 0 /\ infos'[fd] = <<>>
      /\ \A gd \in Fds \ {fd} : at'[gd] = at[gd] /\ infos'[gd] = infos[gd]
  BY <1>1, <1>2 DEF TypeInv, ConnsTyped, ServerTyped
<1>6. AllAskable'
  BY <1>3, AskableStill DEF RequestInv
<1>7. \A j \in DOMAIN conns : \A u :
         conns'[j] # Closed /\ Coming(conns, client, murky, j, u)
           => Coming(conns', client', murky', j, u)
  BY <1>3, ComingStill
<1>8. DOMAIN conns' = DOMAIN conns /\ server' # "dead"
  BY <1>1, <1>3 DEF SameRequests
<1>9. Accepted /\ Waiting
  BY <1>1 DEF RequestInv
<1>11. \A gd \in Fds : at'[gd] # 0 => Coming(conns', client', murky', at'[gd], infos'[gd])
  <2> SUFFICES ASSUME NEW gd \in Fds, at'[gd] # 0
               PROVE  Coming(conns', client', murky', at'[gd], infos'[gd])
    OBVIOUS
  <2>1. gd # fd /\ at'[gd] = at[gd] /\ infos'[gd] = infos[gd]
    BY <1>5
  <2>2. Coming(conns, client, murky, at[gd], infos[gd])
    BY <1>9, <2>1 DEF Accepted
  <2>3. at[gd] \in DOMAIN conns /\ conns'[at[gd]] # Closed
    BY <1>8, <2>1, ServerKeepsNext
  <2> QED
    BY <1>7, <2>1, <2>2, <2>3
<1>12. Accepted'
  BY <1>11 DEF Accepted
<1>13. Waiting'
  BY <1>1, <1>7, <1>8, <1>9, ServerKeepsNext DEF Waiting
<1>14. RequestAsSent'
  BY <1>4 DEF RequestAsSent
<1> QED
  BY <1>6, <1>12, <1>13, <1>14 DEF RequestInv

LEMMA RequestInvInit ==
  Init => RequestInv
<1> SUFFICES ASSUME Init PROVE RequestInv
  OBVIOUS
<1>1. /\ backlog = <<>> /\ conns = <<>> /\ loop.pc = "poll"
      /\ \A fd \in Fds : infos[fd] = <<>> /\ at[fd] = 0
  BY DEF Init, Resting
<1>2. DOMAIN conns = {} /\ DOMAIN backlog = {}
  BY <1>1
<1> QED
  BY <1>1, <1>2
     DEF RequestInv, AllAskable, Accepted, Waiting, RequestAsSent

LEMMA RequestInvStutter ==
  ASSUME TypeInv, TypeInv', RequestInv, UNCHANGED vars
  PROVE  RequestInv'
<1>1. UNCHANGED <<conns, client, murky>> /\ UNCHANGED serverVars
  BY DEF vars, clientVars
<1> QED
  BY <1>1, SamePlaces, ClientSideRequests

(* A request taken is handled, or the server dies of its type.             *)
LEMMA TakeRequests ==
  ASSUME TypeInv, TypeInv', RequestInv, TakeRequest \/ TakeNothing \/ SendToNobody
  PROVE  RequestInv'
<1>1. CASE TakeRequest
  <2>1. /\ loop.pc = "recv" /\ server = "serving" /\ HasCR(infos[Fd])
        /\ \/ Handle(Cut(infos[Fd]), Rest(infos[Fd]))
           \/ HandleNoType(Cut(infos[Fd]))
    BY <1>1 DEF TakeRequest
  <2>2. CASE Handle(Cut(infos[Fd]), Rest(infos[Fd]))
    BY <2>1, <2>2, HandleRequests
  <2>3. CASE HandleNoType(Cut(infos[Fd]))
    <3>1. Die
      BY <2>3 DEF HandleNoType
    <3> QED
      BY <3>1, StopRequests
  <2> QED
    BY <2>1, <2>2, <2>3
<1>2. CASE TakeNothing
  <2>1. Die
    BY <1>2 DEF TakeNothing, HandleNoType
  <2> QED
    BY <2>1, StopRequests
<1>3. CASE SendToNobody
  <2>1. Die
    BY <1>3 DEF SendToNobody
  <2> QED
    BY <2>1, StopRequests
<1> QED
  BY <1>1, <1>2, <1>3

LEMMA RequestInvNext ==
  TypeInv /\ TypeInv' /\ RequestInv /\ [Next]_vars => RequestInv'
<1> SUFFICES ASSUME TypeInv, TypeInv', RequestInv, [Next]_vars PROVE RequestInv'
  OBVIOUS
<1>1. CASE \E c \in Clients : UserStep(c) \/ ClientStep(c) \/ Leave(c)
  <2> SUFFICES ASSUME NEW c \in Clients, UserStep(c) \/ ClientStep(c) \/ Leave(c)
               PROVE  RequestInv'
    BY <1>1
  <2>1. CASE \E r \in Inputs[c] : Ask(c, r)
    BY <2>1, AskRequests
  <2>2. CASE LogOut(c) \/ \E id \in AccountIds : LogIn(c, id)
    BY <2>2, ClientRequests
  <2>3. CASE Send(c)
    BY <2>3, SendRequests
  <2>4. CASE \/ Read(c) \/ TakeFrame(c) \/ TakeEnd(c) \/ StartAdd(c)
             \/ AddAccount(c) \/ Done(c) \/ Leave(c)
    BY <2>4, ClientRequests
  <2> QED
    BY <2>1, <2>2, <2>3, <2>4 DEF UserStep, ClientStep
<1>2. CASE Poll \/ NoMoreToAccept
  BY <1>2, PollRequests
<1>3. CASE Accept
  BY <1>3, AcceptRequests
<1>4. CASE Receive
  BY <1>4, ReceiveRequests
<1>5. CASE TakeRequest \/ TakeNothing \/ SendToNobody
  BY <1>5, TakeRequests
<1>6. CASE SendFrame
  BY <1>6, SendFrameRequests
<1>7. CASE Finish
  BY <1>7, FinishRequests
<1>8. CASE GiveUp \/ Drop
  BY <1>8, StopRequests
<1>9. CASE UNCHANGED vars
  BY <1>9, RequestInvStutter
<1> QED
  BY <1>1, <1>2, <1>3, <1>4, <1>5, <1>6, <1>7, <1>8, <1>9 DEF Next, ServerStep

(* The request handled is the one its client sent, whatever came on the     *)
(* descriptor before and in however many pieces, unless a byte of one of    *)
(* this client's messages is CR (tcp_server.c:90-104, 200-204,              *)
(* request.c:151-193).                                                      *)
THEOREM RequestsAsSent ==
  Spec => []RequestAsSent
<1>1. RequestInv => RequestAsSent
  BY DEF RequestInv
<1> QED
  BY TypeInvHolds, RequestInvInit, RequestInvNext, <1>1, PTL DEF Spec

-----------------------------------------------------------------------------
(* An answer that was cut where its frames end is the answer that was sent. *)

LEMMA HeadRead ==
  ASSUME NEW h \in HeadType, h.type # SUBSCRIBE => h.addr = 0,
         NEW b \in Seq(Byte), Begins(HeadBytes(h), b)
  PROVE  HeadIn(b) = h
<1> DEFINE w == Word(Header(h.type, h.id))
           f == Word(h.feed)
           n == Word(h.count)
           t == IF h.type = SUBSCRIBE THEN <<h.addr>> ELSE <<>>
           u == w \o f
           v == u \o n
           s == HeadBytes(h)
<1>1. /\ h.type \in 0..31 /\ h.id \in IdType /\ h.feed \in Uint16
      /\ h.count \in Uint16 /\ h.addr \in Byte
  BY DEF HeadType
<1>2. /\ w \in Seq(Byte) /\ Len(w) = 2 /\ 256 * w[1] + w[2] = Header(h.type, h.id)
      /\ f \in Seq(Byte) /\ Len(f) = 2 /\ 256 * f[1] + f[2] = h.feed
      /\ n \in Seq(Byte) /\ Len(n) = 2 /\ 256 * n[1] + n[2] = h.count
  <2>1. w \in Seq(Byte) /\ Len(w) = 2 /\ 256 * w[1] + w[2] = Header(h.type, h.id)
    <3>1. Header(h.type, h.id) \in Uint16
      BY <1>1, HeaderWord
    <3> QED
      BY <3>1, WordBytes
  <2>2. /\ f \in Seq(Byte) /\ Len(f) = 2 /\ 256 * f[1] + f[2] = h.feed
        /\ n \in Seq(Byte) /\ Len(n) = 2 /\ 256 * n[1] + n[2] = h.count
    BY <1>1, WordBytes
  <2> QED
    BY <2>1, <2>2
<1>3. /\ TypeIn(Header(h.type, h.id)) = h.type /\ IdIn(Header(h.type, h.id)) = h.id
  BY <1>1, HeaderWord
<1>4. /\ t \in Seq(Byte) /\ Len(t) \in Nat
      /\ h.type = SUBSCRIBE => Len(t) = 1 /\ t[1] = h.addr
  BY <1>1
<1>5. s = v \o t
  BY DEF HeadBytes
<1> HIDE DEF w, f, n, t
<1>6. Joined(u, 2, w, 2, f)
  BY <1>2, ConcatAt
<1>7. /\ u \in Seq(Byte) /\ Len(u) = 4 /\ u[1] = w[1] /\ u[2] = w[2]
      /\ u[3] = f[1] /\ u[4] = f[2]
  BY <1>6 DEF Joined
<1> HIDE DEF u
<1>8. Joined(v, 4, u, 2, n)
  BY <1>2, <1>7, ConcatAt
<1>9. /\ v \in Seq(Byte) /\ Len(v) = 6 /\ v[1] = w[1] /\ v[2] = w[2]
      /\ v[3] = f[1] /\ v[4] = f[2] /\ v[5] = n[1] /\ v[6] = n[2]
  BY <1>7, <1>8 DEF Joined
<1> HIDE DEF v, s
<1>10. Joined(s, 6, v, Len(t), t)
  BY <1>4, <1>5, <1>9, ConcatAt
<1>11. /\ Len(s) = 6 + Len(t) /\ \A i \in 1..6 : s[i] = v[i]
       /\ \A i \in 1..Len(t) : s[6 + i] = t[i]
  BY <1>10 DEF Joined
<1>12. \A i \in 1..(6 + Len(t)) : ByteAt(b, i) = s[i]
  BY <1>11 DEF Begins, s
<1>13. \A i \in 1..6 : ByteAt(b, i) = v[i]
  BY <1>4, <1>11, <1>12
<1>14. /\ ByteAt(b, 1) = w[1] /\ ByteAt(b, 2) = w[2] /\ ByteAt(b, 3) = f[1]
       /\ ByteAt(b, 4) = f[2] /\ ByteAt(b, 5) = n[1] /\ ByteAt(b, 6) = n[2]
  BY <1>9, <1>13
<1>15. /\ WordAt(b, 1) = Header(h.type, h.id) /\ WordAt(b, 3) = h.feed
       /\ WordAt(b, 5) = h.count
  BY <1>2, <1>14 DEF WordAt
<1>16. h.type = SUBSCRIBE => ByteAt(b, 7) = h.addr
  <2> SUFFICES ASSUME h.type = SUBSCRIBE PROVE ByteAt(b, 7) = h.addr
    OBVIOUS
  <2>1. Len(t) = 1 /\ t[1] = h.addr
    BY <1>4
  <2>2. s[6 + 1] = t[1] /\ ByteAt(b, 7) = s[7]
    BY <1>11, <1>12, <2>1
  <2> QED
    BY <2>1, <2>2
<1>17. HeadIn(b) = [type |-> h.type, id |-> h.id, feed |-> h.feed, count |-> h.count,
                    addr |-> h.addr]
  BY <1>3, <1>15, <1>16 DEF HeadIn
<1> QED
  BY <1>17 DEF HeadType

LEMMA PostRead ==
  ASSUME NEW p \in PostType, p.data \in IF p.len = 0 THEN {<<>>} ELSE Byte \X Byte,
         NEW b \in Seq(Byte), Begins(PostBytes(p), b)
  PROVE  PostIn(b) = p
<1> DEFINE f == Word(p.feed)
           m == <<p.creator, p.pseudo, p.len>>
           t == Text(p.len, p.data)
           u == f \o m
           s == PostBytes(p)
<1>1. /\ p.feed \in Uint16 /\ p.creator \in Byte /\ p.pseudo \in Byte /\ p.len \in Byte
      /\ p.data \in Seq(Byte)
  BY DEF PostType
<1>2. f \in Seq(Byte) /\ Len(f) = 2 /\ 256 * f[1] + f[2] = p.feed
  BY <1>1, WordBytes
<1>3. /\ m \in Seq(Byte) /\ Len(m) = 3 /\ m[1] = p.creator /\ m[2] = p.pseudo
      /\ m[3] = p.len
  BY <1>1
<1>4. t \in Seq(Byte) /\ Len(t) \in Nat
  BY <1>1, LenProperties DEF Text
<1>5. s = u \o t
  BY DEF PostBytes
<1>6. p.len # 0 => t = p.data
  BY DEF Text
<1> HIDE DEF f, m, t
<1>7. Joined(u, 2, f, 3, m)
  BY <1>2, <1>3, ConcatAt
<1>8. /\ u \in Seq(Byte) /\ Len(u) = 5 /\ u[1] = f[1] /\ u[2] = f[2]
      /\ u[3] = p.creator /\ u[4] = p.pseudo /\ u[5] = p.len
  BY <1>3, <1>7 DEF Joined
<1> HIDE DEF u, s
<1>9. Joined(s, 5, u, Len(t), t)
  BY <1>4, <1>5, <1>8, ConcatAt
<1>10. /\ Len(s) = 5 + Len(t) /\ \A i \in 1..5 : s[i] = u[i]
       /\ \A i \in 1..Len(t) : s[5 + i] = t[i]
  BY <1>9 DEF Joined
<1>11. \A i \in 1..(5 + Len(t)) : ByteAt(b, i) = s[i]
  BY <1>10 DEF Begins, s
<1>12. \A i \in 1..5 : ByteAt(b, i) = u[i]
  BY <1>4, <1>10, <1>11
<1>13. /\ ByteAt(b, 1) = f[1] /\ ByteAt(b, 2) = f[2] /\ ByteAt(b, 3) = p.creator
       /\ ByteAt(b, 4) = p.pseudo /\ ByteAt(b, 5) = p.len
  BY <1>8, <1>12
<1>14. WordAt(b, 1) = p.feed
  BY <1>2, <1>13 DEF WordAt
<1>15. TextAt(b, 6, p.len) = p.data
  <2>1. CASE p.len = 0
    BY <2>1 DEF TextAt, Text
  <2>2. CASE p.len # 0
    <3>1. PICK i \in Byte, j \in Byte : p.data = <<i, j>>
      BY <2>2
    <3>2. Len(t) = 2 /\ t[1] = i /\ t[2] = j
      BY <1>6, <2>2, <3>1
    <3>3. ByteAt(b, 6) = s[6] /\ ByteAt(b, 7) = s[7]
      BY <1>11, <3>2
    <3>4. s[5 + 1] = t[1] /\ s[5 + 2] = t[2]
      BY <1>10, <3>2
    <3>5. ByteAt(b, 6) = i /\ ByteAt(b, 7) = j
      BY <3>2, <3>3, <3>4
    <3> QED
      BY <2>2, <3>1, <3>5 DEF TextAt, Text
  <2> QED
    BY <2>1, <2>2
<1>16. PostIn(b) = [feed |-> p.feed, creator |-> p.creator, pseudo |-> p.pseudo,
                    len |-> p.len, data |-> p.data]
  BY <1>13, <1>14, <1>15 DEF PostIn
<1> QED
  BY <1>16 DEF PostType

(* f and CR LF lie in u after its m-th byte.                               *)
FrameAt(u, m, f) ==
  /\ \A q \in 1..Len(f) : u[m + q] = f[q]
  /\ u[m + Len(f) + 1] = CR /\ u[m + Len(f) + 2] = LF

(* v is u without its first m bytes.                                       *)
Dropped(v, u, m) ==
  /\ v \in Seq(Byte) /\ Len(v) = Len(u) - m
  /\ \A i \in 1..Len(v) : v[i] = u[m + i]

(* What recv_request hands on and keeps when what has come begins with a   *)
(* frame, with or without its LF.                                          *)
LEMMA CutFrame ==
  ASSUME NEW f \in Seq(Byte), ~ HasCR(f), NEW b \in Seq(Byte), NEW o \in Seq(Byte),
         HasCR(b), NEW u, u = b \o o, Len(f) + 2 <= Len(u), FrameAt(u, 0, f)
  PROVE  /\ Begins(f, Cut(b)) /\ FirstCR(b) = Len(f) + 1
         /\ \/ FirstCR(b) = Len(b) /\ Rest(b) = <<>>
            \/ Dropped(Rest(b) \o o, u, Len(f) + 2)
<1> DEFINE n == Len(f)
           l == Len(b)
           p == FirstCR(b)
<1>1. n \in Nat /\ l \in Nat /\ Len(o) \in Nat /\ DOMAIN b = 1..l /\ DOMAIN f = 1..n
  BY LenProperties
<1>2. p \in 1..l /\ b[p] = CR /\ \A i \in 1..l : b[i] = CR => p <= i
  BY FirstCRIs
<1>3. /\ u \in Seq(Byte) /\ Len(u) = l + Len(o)
      /\ \A i \in 1..l : b[i] = u[i]
      /\ \A i \in 1..Len(o) : u[l + i] = o[i]
  <2>1. Joined(u, l, b, Len(o), o)
    BY <1>1, ConcatAt
  <2> QED
    BY <2>1 DEF Joined
<1>4. (\A q \in 1..n : u[q] = f[q]) /\ u[n + 1] = CR /\ u[n + 2] = LF
  BY <1>1 DEF FrameAt
<1> HIDE DEF p, n, l
<1>5. \A q \in 1..n : f[q] # CR
  BY <1>1, RangeEquality DEF HasCR, n
<1>6. ~ (p <= n)
  BY <1>1, <1>2, <1>3, <1>4, <1>5
<1>7. p = n + 1
  <2>1. n + 1 \in 1..l
    BY <1>1, <1>2, <1>6
  <2>2. b[n + 1] = CR
    BY <1>3, <1>4, <2>1
  <2>3. p <= n + 1
    BY <1>2, <2>1, <2>2
  <2> QED
    BY <1>1, <1>2, <1>6, <2>3
<1>8. \A j \in 1..n : j \in 1..l /\ b[j] = f[j]
  BY <1>1, <1>2, <1>3, <1>4, <1>7
<1>9. NextStart(b) \in {n + 2, n + 3}
  BY <1>1, <1>7 DEF NextStart, p
<1>10. Begins(f, Cut(b))
  <2> SUFFICES ASSUME NEW j \in 1..n PROVE ByteAt(Cut(b), j) = f[j]
    BY DEF Begins, n
  <2>1. j \in DOMAIN b /\ b[j] = f[j]
    BY <1>1, <1>8
  <2>2. ~ (j \in (NextStart(b) - 1)..(l - 1))
    BY <1>1, <1>9
  <2>3. Cut(b)[j] = b[j] /\ DOMAIN Cut(b) = DOMAIN b
    BY <2>1, <2>2 DEF Cut, l
  <2> QED
    BY <2>1, <2>3 DEF ByteAt
<1>11. CASE l = n + 1
  <2>1. p + 1 \notin DOMAIN b
    BY <1>1, <1>7, <1>11
  <2>a. ByteAt(b, p + 1) = 0
    BY <2>1 DEF ByteAt
  <2>b. ~ EndsInCRLF(b)
    BY <2>a DEF EndsInCRLF, LF, p
  <2>2. NextStart(b) = n + 2
    BY <1>1, <1>7, <2>b DEF NextStart, p
  <2>3. Rest(b) = <<>>
    BY <1>1, <1>11, <2>2, SubSeqEmpty DEF Rest, l
  <2> QED
    BY <1>7, <1>10, <1>11, <2>3 DEF p, n, l
<1>12. CASE l # n + 1
  <2>1. n + 2 \in 1..l
    BY <1>1, <1>2, <1>7, <1>12
  <2>2. p + 1 \in DOMAIN b /\ p + 1 = n + 2 /\ b[n + 2] = LF
    BY <1>1, <1>3, <1>4, <1>7, <2>1
  <2>3. NextStart(b) = n + 3
    BY <1>1, <1>7, <2>2 DEF NextStart, EndsInCRLF, ByteAt, p
  <2> DEFINE r == Rest(b)
  <2>4. r = SubSeq(b, n + 3, l) /\ r \in Seq(Byte)
    BY <2>3, RestTyped DEF Rest, l
  <2>5. Len(r) = l - (n + 2) /\ \A i \in 1..(l - (n + 2)) : r[i] = b[n + 2 + i]
    <3>1. \A i \in (n + 3)..l : b[i] \in Byte
      BY <1>1, ElementOfSeq DEF l
    <3>2. /\ Len(r) = IF n + 3 <= l THEN l - (n + 3) + 1 ELSE 0
          /\ \A i \in 1..(l - (n + 3) + 1) : r[i] = b[n + 3 + i - 1]
      BY <1>1, <2>4, <3>1, SubSeqProperties
    <3>3. IF n + 3 <= l THEN l - (n + 3) + 1 = l - (n + 2) ELSE l - (n + 2) = 0
      BY <1>1, <2>1
    <3>4. l - (n + 3) + 1 = l - (n + 2)
      BY <1>1
    <3>5. \A i \in 1..(l - (n + 2)) : n + 3 + i - 1 = n + 2 + i
      BY <1>1
    <3> QED
      BY <3>2, <3>3, <3>4, <3>5
  <2> HIDE DEF r
  <2> DEFINE v == r \o o
             m == Len(r)
  <2>6. Joined(v, m, r, Len(o), o) /\ m \in Nat
    BY <1>1, <2>4, <2>5, LenProperties, ConcatAt
  <2>7. /\ v \in Seq(Byte) /\ Len(v) = m + Len(o)
        /\ \A i \in 1..m : v[i] = r[i]
        /\ \A i \in 1..Len(o) : v[m + i] = o[i]
    BY <2>6 DEF Joined
  <2>8. m = l - (n + 2) /\ Len(v) = Len(u) - (n + 2)
    BY <1>1, <1>3, <2>5, <2>6, <2>7
  <2> HIDE DEF m, v
  <2>9. \A i \in 1..m : v[i] = u[n + 2 + i]
    <3> SUFFICES ASSUME NEW i \in 1..m PROVE v[i] = u[n + 2 + i]
      OBVIOUS
    <3>1. n + 2 + i \in 1..l
      BY <1>1, <2>1, <2>6, <2>8
    <3>2. v[i] = r[i] /\ r[i] = b[n + 2 + i] /\ b[n + 2 + i] = u[n + 2 + i]
      BY <1>3, <2>5, <2>7, <2>8, <3>1
    <3> QED
      BY <3>2
  <2>10. \A i \in 1..Len(o) : v[m + i] = u[n + 2 + (m + i)]
    <3> SUFFICES ASSUME NEW i \in 1..Len(o) PROVE v[m + i] = u[n + 2 + (m + i)]
      OBVIOUS
    <3>1. n + 2 + (m + i) = l + i
      BY <1>1, <2>6, <2>8
    <3> QED
      BY <1>3, <2>7, <3>1
  <2>11. \A i \in 1..Len(v) : v[i] = u[n + 2 + i]
    <3> SUFFICES ASSUME NEW i \in 1..Len(v) PROVE v[i] = u[n + 2 + i]
      OBVIOUS
    <3>1. CASE i <= m
      <4>1. i \in 1..m
        BY <1>1, <2>6, <2>7, <3>1
      <4> QED
        BY <2>9, <4>1
    <3>2. CASE ~ (i <= m)
      <4>1. i - m \in 1..Len(o) /\ m + (i - m) = i
        BY <1>1, <2>6, <2>7, <3>2
      <4>2. v[m + (i - m)] = u[n + 2 + (m + (i - m))]
        BY <2>10, <4>1
      <4> QED
        BY <4>1, <4>2
    <3> QED
      BY <3>1, <3>2
  <2>12. Dropped(v, u, n + 2)
    BY <2>7, <2>8, <2>11 DEF Dropped
  <2> QED
    BY <1>7, <1>10, <2>12 DEF p, n, v, r
<1> QED
  BY <1>11, <1>12

-----------------------------------------------------------------------------
(* The frames of an answer on the wire *)

(* An answer as the handlers make it: a type the client knows, as many     *)
(* posts as the head counts, and no address but that of a group.           *)
Answerable(a) ==
  /\ Known(a.head.type)
  /\ a.head.type # SUBSCRIBE => a.head.addr = 0
  /\ Len(a.posts) = IF a.head.type = LASTPOSTS THEN a.head.count ELSE 0
  /\ \A i \in 1..Len(a.posts) : a.posts[i] = Post

(* The frames of an answer, and how many there are.                        *)
Frame(a, i) == IF i = 1 THEN HeadBytes(a.head) ELSE PostBytes(a.posts[i - 1])
NbFrames(a) == IF a = Nobody THEN 0 ELSE Len(a.posts) + 1

(* u is the frames of a after the i-th, up to the n-th, each with CR LF.   *)
Framed(u, a, i, n) ==
  \E p \in [i..n -> 0..Len(u)] :
    /\ p[i] = 0 /\ p[n] = Len(u)
    /\ \A j, k \in i..n : j <= k => p[j] <= p[k]
    /\ \A j \in (i + 1)..n : /\ p[j] = p[j - 1] + Len(Frame(a, j)) + 2
                             /\ FrameAt(u, p[j - 1], Frame(a, j))

LEMMA NbFramesNat ==
  ASSUME NEW a \in AnswerType
  PROVE  NbFrames(a) \in Nat /\ (NbFrames(a) = 0 <=> a = Nobody)
<1>1. CASE a = Nobody
  BY <1>1 DEF NbFrames
<1>2. CASE a # Nobody
  <2>1. Len(a.posts) \in Nat
    BY <1>2, LenProperties DEF AnswerType
  <2> QED
    BY <1>2, <2>1 DEF NbFrames
<1> QED
  BY <1>1, <1>2

LEMMA FrameTyped ==
  ASSUME NEW a \in AnswerType, NEW i \in 1..NbFrames(a)
  PROVE  Frame(a, i) \in Seq(Byte) /\ a # Nobody
<1>1. a # Nobody
  BY NbFramesNat
<1>2. a.head \in HeadType /\ a.posts \in Seq(PostType) /\ Len(a.posts) \in Nat
  BY <1>1, LenProperties DEF AnswerType
<1>3. CASE i = 1
  BY <1>1, <1>2, <1>3, HeadBytesTyped DEF Frame
<1>4. CASE i # 1
  <2>1. i - 1 \in 1..Len(a.posts)
    BY <1>1, <1>2, <1>4 DEF NbFrames
  <2>2. a.posts[i - 1] \in PostType
    BY <1>2, <2>1, ElementOfSeq
  <2>3. PostBytes(a.posts[i - 1]) \in Seq(Byte)
    BY <2>2, PostBytesTyped
  <2> QED
    BY <1>1, <1>4, <2>3 DEF Frame
<1> QED
  BY <1>3, <1>4

(* out is what is left of the frames of a after the n-th.                  *)
LeftAfter(out, a, n) ==
  /\ Len(out) = NbFrames(a) - n
  /\ \A i \in 1..Len(out) : out[i] = Frame(a, n + i)

LEMMA AllLeft ==
  ASSUME NEW a \in AnswerType, a # Nobody
  PROVE  LeftAfter(Frames(a), a, 0)
<1> DEFINE h == <<HeadBytes(a.head)>>
           t == [i \in DOMAIN a.posts |-> PostBytes(a.posts[i])]
           n == Len(a.posts)
           S == Seq(Byte)
<1>1. a.head \in HeadType /\ a.posts \in Seq(PostType) /\ n \in Nat /\ DOMAIN a.posts = 1..n
  BY LenProperties DEF AnswerType
<1>2. h \in Seq(S) /\ Len(h) = 1 /\ h[1] = HeadBytes(a.head)
  BY <1>1, HeadBytesTyped
<1>3. t \in Seq(S) /\ Len(t) = n /\ \A i \in 1..n : t[i] = PostBytes(a.posts[i])
  <2>1. \A i \in 1..n : PostBytes(a.posts[i]) \in S
    BY <1>1, PostBytesTyped, ElementOfSeq
  <2>2. t \in [1..n -> S]
    BY <1>1, <2>1
  <2>3. t \in Seq(S)
    BY <1>1, <2>2, SeqDef
  <2>4. Len(t) \in Nat /\ DOMAIN t = 1..Len(t)
    BY <2>3, LenProperties
  <2>5. 1..Len(t) = 1..n
    BY <2>2, <2>4, Zenon
  <2> QED
    BY <1>1, <2>3, <2>4, <2>5, IntervalEnd
<1>4. Frames(a) = h \o t
  BY DEF Frames
<1> DEFINE fs == Frames(a)
<1> HIDE DEF h, t, n, fs, S
<1>5. /\ Len(fs) = 1 + n
      /\ \A i \in 1..(1 + n) : fs[i] = IF i <= 1 THEN h[i] ELSE t[i - 1]
  <2>1. /\ Len(h \o t) = Len(h) + Len(t)
        /\ \A i \in 1..(Len(h) + Len(t)) :
             (h \o t)[i] = IF i <= Len(h) THEN h[i] ELSE t[i - Len(h)]
    BY <1>2, <1>3, ConcatProperties
  <2> QED
    BY <1>2, <1>3, <1>4, <2>1 DEF fs
<1>6. NbFrames(a) = n + 1
  BY DEF NbFrames, n
<1>7. \A i \in 1..(1 + n) : fs[i] = Frame(a, i)
  <2> SUFFICES ASSUME NEW i \in 1..(1 + n) PROVE fs[i] = Frame(a, i)
    OBVIOUS
  <2>1. CASE i = 1
    <3>1. fs[i] = h[1]
      BY <1>5, <2>1
    <3> QED
      BY <1>2, <2>1, <3>1 DEF Frame
  <2>2. CASE i # 1
    <3>1. i - 1 \in 1..n /\ ~ (i <= 1)
      BY <1>1, <2>2
    <3>2. fs[i] = t[i - 1]
      BY <1>5, <3>1
    <3> QED
      BY <1>3, <2>2, <3>1, <3>2 DEF Frame
  <2> QED
    BY <2>1, <2>2
<1>8. Len(fs) = NbFrames(a) - 0
  BY <1>1, <1>5, <1>6
<1>9. \A i \in 1..Len(fs) : fs[i] = Frame(a, 0 + i)
  BY <1>1, <1>5, <1>7
<1> QED
  BY <1>8, <1>9 DEF LeftAfter, fs

LEMMA LeftLess ==
  ASSUME NEW a \in AnswerType, NEW n \in 0..NbFrames(a), NEW out \in Seq(Seq(Byte)),
         LeftAfter(out, a, n), out # <<>>
  PROVE  /\ n + 1 \in 1..NbFrames(a) /\ Head(out) = Frame(a, n + 1)
         /\ LeftAfter(Tail(out), a, n + 1)
<1>1. NbFrames(a) \in Nat /\ Len(out) \in Nat /\ Len(out) # 0
  BY NbFramesNat, LenProperties, EmptySeq
<1>2. Len(out) = NbFrames(a) - n /\ \A i \in 1..Len(out) : out[i] = Frame(a, n + i)
  BY DEF LeftAfter
<1>3. n + 1 \in 1..NbFrames(a)
  BY <1>1, <1>2
<1>4. Head(out) = out[1] /\ 1 \in 1..Len(out)
  BY <1>1
<1>5. /\ Len(Tail(out)) = Len(out) - 1
      /\ \A i \in 1..(Len(out) - 1) : Tail(out)[i] = out[i + 1]
  BY HeadTailProperties
<1>6. Len(Tail(out)) = NbFrames(a) - (n + 1)
  BY <1>1, <1>2, <1>5
<1>7. \A i \in 1..Len(Tail(out)) : Tail(out)[i] = Frame(a, (n + 1) + i)
  <2> SUFFICES ASSUME NEW i \in 1..Len(Tail(out))
               PROVE  Tail(out)[i] = Frame(a, (n + 1) + i)
    OBVIOUS
  <2>1. i \in 1..(Len(out) - 1) /\ i + 1 \in 1..Len(out) /\ n + (i + 1) = (n + 1) + i
    BY <1>1, <1>5
  <2> QED
    BY <1>2, <1>5, <2>1
<1> QED
  BY <1>2, <1>3, <1>4, <1>6, <1>7 DEF LeftAfter

LEMMA FramedNone ==
  ASSUME NEW a, NEW i \in Nat
  PROVE  Framed(<<>>, a, i, i)
<1> DEFINE p == [j \in i..i |-> 0]
<1>1. p \in [i..i -> 0..Len(<<>>)] /\ p[i] = 0 /\ Len(<<>>) = 0
  OBVIOUS
<1>2. \A j, k \in i..i : p[j] <= p[k]
  OBVIOUS
<1>3. \A j : ~ (j \in (i + 1)..i)
  OBVIOUS
<1> HIDE DEF p
<1>4. /\ \A j, k \in i..i : j <= k => p[j] <= p[k]
      /\ \A j \in (i + 1)..i : /\ p[j] = p[j - 1] + Len(Frame(a, j)) + 2
                               /\ FrameAt(<<>>, p[j - 1], Frame(a, j))
  BY <1>2, <1>3
<1> QED
  BY <1>1, <1>4 DEF Framed

LEMMA FramedEmpty ==
  ASSUME NEW u \in Seq(Byte), NEW a, NEW i \in Nat, Framed(u, a, i, i)
  PROVE  u = <<>>
<1>1. Len(u) = 0
  BY DEF Framed
<1> QED
  BY <1>1, EmptySeq

(* The first frame can be taken off.                                       *)
LEMMA FramedFirst ==
  ASSUME NEW u \in Seq(Byte), NEW a \in AnswerType, NEW n \in 0..NbFrames(a),
         NEW i \in Nat, i < n, Framed(u, a, i, n), NEW f, f = Frame(a, i + 1)
  PROVE  /\ f \in Seq(Byte) /\ Len(f) + 2 <= Len(u) /\ FrameAt(u, 0, f)
         /\ \A v : Dropped(v, u, Len(f) + 2) => Framed(v, a, i + 1, n)
<1> DEFINE m == Len(f) + 2
<1>1. NbFrames(a) \in Nat /\ n \in Nat /\ i + 1 \in 1..NbFrames(a) /\ Len(u) \in Nat
  BY NbFramesNat, LenProperties
<1>2. f \in Seq(Byte) /\ Len(f) \in Nat
  BY <1>1, FrameTyped, LenProperties
<1>3. PICK p \in [i..n -> 0..Len(u)] :
        /\ p[i] = 0 /\ p[n] = Len(u)
        /\ \A j, k \in i..n : j <= k => p[j] <= p[k]
        /\ \A j \in (i + 1)..n : /\ p[j] = p[j - 1] + Len(Frame(a, j)) + 2
                                 /\ FrameAt(u, p[j - 1], Frame(a, j))
  BY DEF Framed
<1>4. i + 1 \in (i + 1)..n /\ i + 1 \in i..n /\ (i + 1) - 1 = i
  BY <1>1
<1>5. p[i + 1] = m /\ FrameAt(u, 0, f) /\ m \in 0..Len(u)
  <2>1. p[i + 1] = p[i] + Len(f) + 2 /\ FrameAt(u, p[i], f)
    BY <1>3, <1>4
  <2>2. p[i + 1] \in 0..Len(u)
    BY <1>3, <1>4
  <2> QED
    BY <1>2, <1>3, <2>1, <2>2
<1> HIDE DEF m
<1>6. ASSUME NEW v, Dropped(v, u, m) PROVE Framed(v, a, i + 1, n)
  <2>1. Len(v) = Len(u) - m /\ \A q \in 1..Len(v) : v[q] = u[m + q]
    BY <1>6 DEF Dropped
  <2> DEFINE r == [j \in (i + 1)..n |-> p[j] - m]
  <2>2. \A j \in (i + 1)..n : j \in i..n /\ p[j] \in m..Len(u)
    <3> SUFFICES ASSUME NEW j \in (i + 1)..n PROVE j \in i..n /\ p[j] \in m..Len(u)
      OBVIOUS
    <3>1. j \in i..n /\ i + 1 <= j
      BY <1>1
    <3>2. p[j] \in 0..Len(u) /\ p[i + 1] <= p[j]
      BY <1>3, <1>4, <3>1
    <3> QED
      BY <1>5, <3>1, <3>2
  <2>3. r \in [(i + 1)..n -> 0..Len(v)]
    BY <1>1, <1>5, <2>1, <2>2
  <2>4. n \in (i + 1)..n
    BY <1>1
  <2>5. r[i + 1] = 0 /\ r[n] = Len(v)
    <3>1. r[i + 1] = p[i + 1] - m /\ r[n] = p[n] - m
      BY <1>4, <2>4
    <3>2. m \in Nat
      BY <1>1, <1>5
    <3> HIDE DEF r
    <3> QED
      BY <1>3, <1>5, <2>1, <3>1, <3>2
  <2>6. \A j, k \in (i + 1)..n : j <= k => r[j] <= r[k]
    <3> SUFFICES ASSUME NEW j \in (i + 1)..n, NEW k \in (i + 1)..n, j <= k
                 PROVE  r[j] <= r[k]
      OBVIOUS
    <3> DEFINE x == p[j]
               y == p[k]
    <3>1. r[j] = x - m /\ r[k] = y - m
      OBVIOUS
    <3>2. x <= y /\ x \in m..Len(u) /\ y \in m..Len(u)
      BY <1>3, <2>2
    <3>3. m \in Int /\ Len(u) \in Int
      BY <1>1, <1>5
    <3> HIDE DEF r, x, y
    <3> QED
      BY <3>1, <3>2, <3>3
  <2>7. ASSUME NEW j \in (i + 2)..n
        PROVE  r[j] = r[j - 1] + Len(Frame(a, j)) + 2 /\ FrameAt(v, r[j - 1], Frame(a, j))
    <3> DEFINE g == Frame(a, j)
    <3>1. j \in (i + 1)..n /\ j - 1 \in (i + 1)..n /\ j \in 1..NbFrames(a)
      BY <1>1
    <3>2. g \in Seq(Byte) /\ Len(g) \in Nat
      BY <3>1, FrameTyped, LenProperties
    <3>3. p[j] = p[j - 1] + Len(g) + 2 /\ FrameAt(u, p[j - 1], g)
      BY <1>3, <3>1
    <3> HIDE DEF g
    <3>4. /\ p[j] \in m..Len(u) /\ p[j - 1] \in m..Len(u)
          /\ r[j] = p[j] - m /\ r[j - 1] = p[j - 1] - m
      BY <2>2, <3>1
    <3>5. r[j] = r[j - 1] + Len(g) + 2
      <4>1. \A x, y, d, e \in Int : x = y + d + 2 => x - e = (y - e) + d + 2
        OBVIOUS
      <4>2. p[j] \in Int /\ p[j - 1] \in Int /\ Len(g) \in Int /\ m \in Int
        BY <1>1, <1>5, <3>2, <3>4
      <4> HIDE DEF r
      <4> QED
        BY <3>3, <3>4, <4>1, <4>2
    <3> DEFINE s == r[j - 1]
               t == p[j - 1]
    <3>6. /\ \A q \in 1..Len(g) : u[t + q] = g[q]
          /\ u[t + Len(g) + 1] = CR /\ u[t + Len(g) + 2] = LF
      BY <3>3 DEF FrameAt
    <3>7. s = t - m /\ t \in m..Len(u) /\ t + Len(g) + 2 <= Len(u) /\ m \in Nat
      BY <1>1, <1>5, <3>2, <3>3, <3>4
    <3> HIDE DEF s, t, r
    <3>8. \A q \in 1..(Len(g) + 2) : v[s + q] = u[t + q]
      <4> SUFFICES ASSUME NEW q \in 1..(Len(g) + 2) PROVE v[s + q] = u[t + q]
        OBVIOUS
      <4>1. s + q \in 1..Len(v) /\ m + (s + q) = t + q
        BY <1>1, <2>1, <3>2, <3>7
      <4> QED
        BY <2>1, <4>1
    <3>9. \A q \in 1..Len(g) : v[s + q] = g[q]
      BY <3>2, <3>6, <3>8
    <3>10. v[s + (Len(g) + 1)] = CR /\ v[s + (Len(g) + 2)] = LF
      <4>1. /\ t + Len(g) + 1 = t + (Len(g) + 1) /\ t + Len(g) + 2 = t + (Len(g) + 2)
            /\ Len(g) + 1 \in 1..(Len(g) + 2) /\ Len(g) + 2 \in 1..(Len(g) + 2)
        BY <3>2, <3>7
      <4> QED
        BY <3>6, <3>8, <4>1
    <3>11. s + Len(g) + 1 = s + (Len(g) + 1) /\ s + Len(g) + 2 = s + (Len(g) + 2)
      BY <3>2, <3>7
    <3>12. FrameAt(v, s, g)
      BY <3>9, <3>10, <3>11 DEF FrameAt
    <3> QED
      BY <3>5, <3>12 DEF g, s
  <2>8. (i + 1) + 1 = i + 2
    OBVIOUS
  <2> HIDE DEF r
  <2> QED
    BY <2>3, <2>5, <2>6, <2>7, <2>8 DEF Framed
<1> QED
  BY <1>2, <1>5, <1>6 DEF m

(* Another frame can be sent.                                              *)
LEMMA FramedLonger ==
  ASSUME NEW u \in Seq(Byte), NEW a \in AnswerType, NEW i \in Nat, NEW n \in Nat,
         i <= n, n + 1 <= NbFrames(a), Framed(u, a, i, n),
         NEW f, f = Frame(a, n + 1), NEW w, w = u \o (f \o CRLF)
  PROVE  Framed(w, a, i, n + 1)
<1> DEFINE l == Len(u)
           m == Len(f)
           g == f \o CRLF
<1>1. NbFrames(a) \in Nat /\ n + 1 \in 1..NbFrames(a) /\ l \in Nat
  BY NbFramesNat, LenProperties
<1>2. f \in Seq(Byte) /\ m \in Nat
  BY <1>1, FrameTyped, LenProperties
<1>3. CRLF \in Seq(Byte) /\ Len(CRLF) = 2 /\ CRLF[1] = CR /\ CRLF[2] = LF
  BY CRLFTyped DEF CRLF
<1>4. /\ g \in Seq(Byte) /\ Len(g) = m + 2 /\ \A q \in 1..m : g[q] = f[q]
      /\ g[m + 1] = CR /\ g[m + 2] = LF
  <2>1. Joined(g, m, f, 2, CRLF)
    BY <1>2, <1>3, ConcatAt
  <2> QED
    BY <1>2, <1>3, <2>1 DEF Joined
<1> HIDE DEF m
<1>5. Len(g) \in Nat
  BY <1>2, <1>4
<1> HIDE DEF g
<1>6. /\ w \in Seq(Byte) /\ Len(w) = l + (m + 2) /\ \A q \in 1..l : w[q] = u[q]
      /\ \A q \in 1..(m + 2) : w[l + q] = g[q]
  <2>1. w = u \o g
    BY DEF g
  <2>2. Joined(w, l, u, Len(g), g)
    BY <1>1, <1>4, <1>5, <2>1, ConcatAt
  <2> QED
    BY <1>4, <2>2 DEF Joined
<1>7. PICK p \in [i..n -> 0..l] :
        /\ p[i] = 0 /\ p[n] = l
        /\ \A j, k \in i..n : j <= k => p[j] <= p[k]
        /\ \A j \in (i + 1)..n : /\ p[j] = p[j - 1] + Len(Frame(a, j)) + 2
                                 /\ FrameAt(u, p[j - 1], Frame(a, j))
  BY DEF Framed
<1> HIDE DEF l
<1> DEFINE r == [j \in i..(n + 1) |-> IF j = n + 1 THEN l + (m + 2) ELSE p[j]]
<1>8. \A j \in i..(n + 1) : j # n + 1 => j \in i..n
  BY <1>1
<1>9. \A j \in i..n : r[j] = p[j] /\ p[j] \in 0..l
  BY <1>1, <1>7
<1>10. r[n + 1] = l + (m + 2)
  OBVIOUS
<1>11. r \in [i..(n + 1) -> 0..Len(w)]
  BY <1>1, <1>2, <1>6, <1>7, <1>8
<1> HIDE DEF r
<1>12. r[i] = 0 /\ r[n + 1] = Len(w)
  BY <1>6, <1>7, <1>9, <1>10
<1>13. \A j, k \in i..(n + 1) : j <= k => r[j] <= r[k]
  <2> SUFFICES ASSUME NEW j \in i..(n + 1), NEW k \in i..(n + 1), j <= k
               PROVE  r[j] <= r[k]
    OBVIOUS
  <2>1. CASE k = n + 1
    BY <1>6, <1>10, <1>11, <2>1
  <2>2. CASE k # n + 1
    <3>1. j \in i..n /\ k \in i..n
      BY <1>1, <2>2
    <3> QED
      BY <1>7, <1>9, <3>1
  <2> QED
    BY <2>1, <2>2
<1>14. ASSUME NEW j \in (i + 1)..(n + 1)
       PROVE  r[j] = r[j - 1] + Len(Frame(a, j)) + 2 /\ FrameAt(w, r[j - 1], Frame(a, j))
  <2>1. CASE j = n + 1
    <3>1. j - 1 = n /\ r[j - 1] = l
      BY <1>7, <1>9, <2>1
    <3>2. r[j] = r[j - 1] + m + 2
      BY <1>1, <1>2, <1>10, <2>1, <3>1
    <3>3. \A q \in 1..m : w[l + q] = f[q]
      <4> SUFFICES ASSUME NEW q \in 1..m PROVE w[l + q] = f[q]
        OBVIOUS
      <4>1. q \in 1..(m + 2)
        BY <1>2
      <4> QED
        BY <1>4, <1>6, <4>1
    <3>4. w[l + (m + 1)] = CR /\ w[l + (m + 2)] = LF
      <4>1. m + 1 \in 1..(m + 2) /\ m + 2 \in 1..(m + 2)
        BY <1>2
      <4> QED
        BY <1>4, <1>6, <4>1
    <3>5. l + m + 1 = l + (m + 1) /\ l + m + 2 = l + (m + 2)
      BY <1>1, <1>2 DEF l
    <3>6. FrameAt(w, l, f)
      BY <3>3, <3>4, <3>5 DEF FrameAt, m
    <3> QED
      BY <2>1, <3>1, <3>2, <3>6 DEF m
  <2>2. CASE j # n + 1
    <3> DEFINE h == Frame(a, j)
               t == p[j - 1]
    <3>1. j \in (i + 1)..n /\ j \in i..n /\ j - 1 \in i..n /\ j \in 1..NbFrames(a)
      BY <1>1, <2>2
    <3>2. h \in Seq(Byte) /\ Len(h) \in Nat
      BY <3>1, FrameTyped, LenProperties
    <3>3. p[j] = t + Len(h) + 2 /\ FrameAt(u, t, h)
      BY <1>7, <3>1
    <3>4. r[j] = p[j] /\ r[j - 1] = t /\ p[j] \in 0..l /\ t \in 0..l
      BY <1>9, <3>1
    <3> HIDE DEF h, t
    <3>5. t + Len(h) + 2 <= l /\ t \in Nat /\ l \in Nat
      BY <1>1, <3>2, <3>3, <3>4 DEF l
    <3>6. \A q \in 1..(Len(h) + 2) : w[t + q] = u[t + q]
      <4> SUFFICES ASSUME NEW q \in 1..(Len(h) + 2) PROVE w[t + q] = u[t + q]
        OBVIOUS
      <4>1. t + q \in 1..l
        BY <3>2, <3>5
      <4> QED
        BY <1>6, <4>1
    <3>7. /\ \A q \in 1..Len(h) : u[t + q] = h[q]
          /\ u[t + Len(h) + 1] = CR /\ u[t + Len(h) + 2] = LF
      BY <3>3 DEF FrameAt
    <3>8. \A q \in 1..Len(h) : w[t + q] = h[q]
      <4> SUFFICES ASSUME NEW q \in 1..Len(h) PROVE w[t + q] = h[q]
        OBVIOUS
      <4>1. q \in 1..(Len(h) + 2)
        BY <3>2
      <4> QED
        BY <3>6, <3>7, <4>1
    <3>9. w[t + (Len(h) + 1)] = u[t + (Len(h) + 1)] /\ w[t + (Len(h) + 2)] = u[t + (Len(h) + 2)]
      <4>1. Len(h) + 1 \in 1..(Len(h) + 2) /\ Len(h) + 2 \in 1..(Len(h) + 2)
        BY <3>2
      <4> QED
        BY <3>6, <4>1
    <3>10. t + Len(h) + 1 = t + (Len(h) + 1) /\ t + Len(h) + 2 = t + (Len(h) + 2)
      BY <3>2, <3>5
    <3>11. FrameAt(w, t, h)
      BY <3>7, <3>8, <3>9, <3>10 DEF FrameAt
    <3> QED
      BY <3>3, <3>4, <3>11 DEF h
  <2> QED
    BY <2>1, <2>2
<1> QED
  BY <1>6, <1>11, <1>12, <1>13, <1>14 DEF Framed

(* The handlers answer with heads of the request's type.                   *)
LEMMA HeadOfType ==
  ASSUME NEW rq \in RequestType, rq.type \in Types, NEW h \in Heads(rq)
  PROVE  h.type = rq.type /\ (h.type # SUBSCRIBE => h.addr = 0)
<1> DEFINE Of(id, feed, n) == [type |-> rq.type, id |-> id, feed |-> feed, count |-> n,
                               addr |-> 0]
<1>1. \A id, feed, n : Of(id, feed, n).type = rq.type /\ Of(id, feed, n).addr = 0
  OBVIOUS
<1>2. CASE rq.type # SUBSCRIBE
  <2>1. \E id, feed, n : h = Of(id, feed, n)
    <3>1. CASE rq.type = REGISTRATION
      <4>1. Heads(rq) = {Of(id, 0, 0) : id \in FreeIds}
        BY <3>1 DEF Heads, NEWPOST, LASTPOSTS, SUBSCRIBE, UPLOAD, DOWNLOAD, REGISTRATION
      <4> QED
        BY <4>1
    <3>2. CASE rq.type = NEWPOST
      <4>1. Heads(rq) = {Of(rq.id, feed, rq.count) : feed \in
                           IF rq.feed = 0 THEN NewFeeds ELSE {rq.feed}}
        BY <3>2 DEF Heads, NEWPOST, LASTPOSTS, SUBSCRIBE, UPLOAD, DOWNLOAD, REGISTRATION
      <4> QED
        BY <4>1
    <3>3. CASE rq.type = LASTPOSTS
      <4>1. Heads(rq) = {Of(rq.id, feed, n) : n \in 0..MaxPosts, feed \in
                           IF rq.feed = 0 THEN NewFeeds ELSE {rq.feed}}
        BY <3>3 DEF Heads, NEWPOST, LASTPOSTS, SUBSCRIBE, UPLOAD, DOWNLOAD, REGISTRATION
      <4> QED
        BY <4>1
    <3>4. CASE rq.type = UPLOAD
      <4>1. Heads(rq) = {Of(rq.id, rq.feed, UdpPort)}
        BY <3>4 DEF Heads, NEWPOST, LASTPOSTS, SUBSCRIBE, UPLOAD, DOWNLOAD, REGISTRATION
      <4> QED
        BY <4>1
    <3>5. CASE rq.type = DOWNLOAD
      <4>1. Heads(rq) = {Of(rq.id, rq.feed, rq.count)}
        BY <3>5 DEF Heads, NEWPOST, LASTPOSTS, SUBSCRIBE, UPLOAD, DOWNLOAD, REGISTRATION
      <4> QED
        BY <4>1
    <3>6. rq.type \in {REGISTRATION, NEWPOST, LASTPOSTS, UPLOAD, DOWNLOAD}
      BY <1>2 DEF Types, NEWPOST, LASTPOSTS, SUBSCRIBE, UPLOAD, DOWNLOAD, REGISTRATION
    <3> QED
      BY <3>1, <3>2, <3>3, <3>4, <3>5, <3>6
  <2> HIDE DEF Of
  <2> QED
    BY <1>1, <2>1
<1>3. CASE rq.type = SUBSCRIBE
  <2>1. rq.feed # 0 => Heads(rq) = {[Of(rq.id, rq.feed, FirstPort) EXCEPT !.addr = 255]}
    BY <1>3 DEF Heads, NEWPOST, LASTPOSTS, SUBSCRIBE, UPLOAD, DOWNLOAD, REGISTRATION
  <2>2. rq.feed = 0 => Heads(rq) = {}
    BY <1>3 DEF Heads, NEWPOST, LASTPOSTS, SUBSCRIBE, UPLOAD, DOWNLOAD, REGISTRATION
  <2>3. h = [Of(rq.id, rq.feed, FirstPort) EXCEPT !.addr = 255]
    BY <2>1, <2>2
  <2>4. h.type = rq.type
    BY <2>3
  <2> QED
    BY <1>3, <2>4
<1> QED
  BY <1>2, <1>3

(* The handlers make answers of this kind.                                 *)
LEMMA HeadKnown ==
  ASSUME NEW rq \in RequestType, rq.type \in Types, NEW h \in HeadsOrErrors(rq)
  PROVE  Known(h.type) /\ (h.type # SUBSCRIBE => h.addr = 0)
<1>1. /\ ERR_FEEDNB \in Errors /\ ERR_NOFILE \in Errors /\ ERR_FEEDMAX \in Errors
      /\ ERR_IDMAX \in Errors /\ ERR_NOID \in Errors
  BY DEF Errors, ERR_FEEDNB, ERR_NOFILE, ERR_FEEDMAX, ERR_NOID, ERR_IDMAX
<1>2. \A e \in Errors : Known(Error(e).type) /\ Error(e).addr = 0
  BY DEF Known, Error
<1>3. ASSUME NEW x \in Heads(rq) PROVE Known(x.type) /\ (x.type # SUBSCRIBE => x.addr = 0)
  BY HeadOfType DEF Known
<1>4. HeadsOrErrors(rq) \subseteq Heads(rq) \cup Refusals(rq)
                                  \cup {Error(ERR_IDMAX), Error(ERR_NOID)}
  BY DEF HeadsOrErrors
<1>5. \A x \in Refusals(rq) : \E e \in Errors : x = Error(e)
  BY <1>1 DEF Refusals
<1>6. \A x \in {Error(ERR_IDMAX), Error(ERR_NOID)} : \E e \in Errors : x = Error(e)
  BY <1>1
<1>7. CASE h \in Heads(rq)
  BY <1>3, <1>7
<1>8. CASE h \notin Heads(rq)
  <2>1. PICK e \in Errors : h = Error(e)
    BY <1>4, <1>5, <1>6, <1>8
  <2> QED
    BY <1>2, <2>1
<1> QED
  BY <1>7, <1>8

LEMMA AnswersAnswerable ==
  ASSUME NEW rq \in RequestType, NEW a \in Answers(rq)
  PROVE  Answerable(a)
<1>1. a \in AnswerType /\ a # Nobody /\ rq.type \in Types
  BY AnswersTyped
<1>2. PICK h \in HeadsOrErrors(rq) :
        a = [head |-> h, posts |-> IF h.type # LASTPOSTS THEN <<>>
                                   ELSE [i \in 1..h.count |-> Post]]
  BY <1>1 DEF Answers
<1>3. a.head = h /\ h \in HeadType
  BY <1>1, <1>2 DEF AnswerType
<1>4. Known(h.type) /\ (h.type # SUBSCRIBE => h.addr = 0)
  BY <1>1, HeadKnown
<1>5. CASE h.type # LASTPOSTS
  <2>1. a.posts = <<>> /\ Len(a.posts) = 0
    BY <1>2, <1>5
  <2> QED
    BY <1>3, <1>4, <1>5, <2>1 DEF Answerable
<1>6. CASE h.type = LASTPOSTS
  <2> DEFINE s == [i \in 1..h.count |-> Post]
  <2>1. h.count \in Nat
    BY <1>3, NatUint16 DEF HeadType
  <2>2. Post \in PostType
    BY ExchangeAssumption DEF PostType
  <2>3. s \in [1..h.count -> PostType] /\ s \in Seq(PostType)
    BY <2>1, <2>2, SeqDef
  <2>4. Len(s) \in Nat /\ 1..Len(s) = 1..h.count
    <3>1. Len(s) \in Nat /\ DOMAIN s = 1..Len(s)
      BY <2>3, LenProperties
    <3> QED
      BY <3>1
  <2>5. Len(s) = h.count
    BY <2>1, <2>4, IntervalEnd
  <2>6. \A i \in 1..Len(s) : s[i] = Post
    BY <2>5
  <2>7. a.posts = s
    BY <1>2, <1>6
  <2> HIDE DEF s
  <2> QED
    BY <1>3, <1>4, <1>6, <2>5, <2>6, <2>7 DEF Answerable
<1> QED
  BY <1>5, <1>6

-----------------------------------------------------------------------------
(* What a client has got *)

(* What a client has taken so far is the beginning of the answer.          *)
Took(g) == NbFrames(g)
Begun(g, a) ==
  g # Nobody =>
    /\ Wanting(g) /\ g.head = a.head
    /\ Len(g.posts) <= Len(a.posts)
    /\ \A i \in 1..Len(g.posts) : g.posts[i] = a.posts[i]

(* With the next frame it has one more of them, or all.                    *)
With(g, b) == IF g = Nobody THEN [head |-> HeadIn(b), posts |-> <<>>]
              ELSE [g EXCEPT !.posts = Append(@, PostIn(b))]
Further(h, a, n) ==
  /\ h \in AnswerType /\ h # Nobody /\ Known(h.head.type) /\ Took(h) = n
  /\ IF Wanting(h) THEN Begun(h, a) ELSE h = a /\ NbFrames(a) = n

LEMMA NextTaken ==
  ASSUME NEW a \in AnswerType, a # Nobody, Answerable(a),
         NEW g \in AnswerType, Begun(g, a), Took(g) + 1 \in 1..NbFrames(a),
         NEW b \in Seq(Byte), Begins(Frame(a, Took(g) + 1), b)
  PROVE  Further(With(g, b), a, Took(g) + 1)
<1> DEFINE h == With(g, b)
<1>1. /\ a \in [head : HeadType, posts : Seq(PostType)]
      /\ a.head \in HeadType /\ a.posts \in Seq(PostType) /\ Len(a.posts) \in Nat
      /\ NbFrames(a) = Len(a.posts) + 1 /\ a.head.count \in Nat
  <2>1. a \in [head : HeadType, posts : Seq(PostType)]
    BY DEF AnswerType
  <2>2. a.head.count \in Nat
    BY <2>1, NatUint16 DEF HeadType
  <2> QED
    BY <2>1, <2>2, LenProperties DEF NbFrames
<1>2. /\ Known(a.head.type) /\ (a.head.type # SUBSCRIBE => a.head.addr = 0)
      /\ Len(a.posts) = IF a.head.type = LASTPOSTS THEN a.head.count ELSE 0
      /\ \A i \in 1..Len(a.posts) : a.posts[i] = Post
  BY DEF Answerable
<1>3. CASE g = Nobody
  <2>1. Took(g) = 0 /\ Frame(a, 1) = HeadBytes(a.head)
    BY <1>3 DEF Took, NbFrames, Frame
  <2>2. HeadIn(b) = a.head
    <3>1. Begins(HeadBytes(a.head), b)
      BY <2>1
    <3> QED
      BY <1>1, <1>2, <3>1, HeadRead
  <2>3. h = [head |-> a.head, posts |-> <<>>]
    BY <1>3, <2>2 DEF With
  <2> HIDE DEF h
  <2>4. h \in [head : HeadType, posts : Seq(PostType)] /\ Len(h.posts) = 0
        /\ h.head = a.head
    BY <1>1, <2>3
  <2>5. h \in AnswerType /\ h # Nobody
    BY <1>1, <2>4, HeadNotNobody DEF AnswerType
  <2>6. Took(h) = 1
    BY <2>4, <2>5 DEF Took, NbFrames
  <2>7. Wanting(h) => Begun(h, a)
    <3>1. \A i \in 1..Len(h.posts) : h.posts[i] = a.posts[i]
      BY <2>4
    <3> QED
      BY <1>1, <2>4, <3>1 DEF Begun
  <2>8. ~ Wanting(h) => h = a /\ NbFrames(a) = 1
    <3> SUFFICES ASSUME ~ Wanting(h) PROVE h = a /\ NbFrames(a) = 1
      OBVIOUS
    <3>1. Len(a.posts) = 0
      BY <1>1, <1>2, <2>4 DEF Wanting
    <3>2. a.posts = <<>>
      BY <1>1, <3>1, EmptySeq
    <3> QED
      BY <1>1, <2>3, <3>1, <3>2
  <2>9. Known(h.head.type) /\ Took(h) = Took(g) + 1 /\ Took(g) + 1 = 1
    BY <1>2, <2>1, <2>4, <2>6
  <2>10. IF Wanting(h) THEN Begun(h, a) ELSE h = a /\ NbFrames(a) = Took(g) + 1
    BY <2>7, <2>8, <2>9, Zenon
  <2>11. Further(h, a, Took(g) + 1)
    BY <2>5, <2>9, <2>10, Zenon DEF Further
  <2> QED
    BY <2>11 DEF h
<1>4. CASE g # Nobody
  <2> DEFINE m == Len(g.posts)
  <2>1. /\ g \in [head : HeadType, posts : Seq(PostType)] /\ g.posts \in Seq(PostType)
        /\ m \in Nat /\ Took(g) = m + 1
    BY <1>4, LenProperties DEF AnswerType, Took, NbFrames
  <2>2. /\ Wanting(g) /\ g.head = a.head /\ m <= Len(a.posts)
        /\ \A i \in 1..m : g.posts[i] = a.posts[i]
    BY <1>4 DEF Begun
  <2> HIDE DEF m
  <2>3. m + 1 \in 1..Len(a.posts)
    BY <1>1, <2>1
  <2>4. a.posts[m + 1] = Post /\ Frame(a, Took(g) + 1) = PostBytes(a.posts[m + 1])
    <3>1. Took(g) + 1 # 1 /\ (Took(g) + 1) - 1 = m + 1
      BY <2>1
    <3> QED
      BY <1>2, <2>3, <3>1 DEF Frame
  <2>5. PostIn(b) = Post
    <3>1. Post \in PostType
      BY ExchangeAssumption DEF PostType
    <3>2. Post.data \in IF Post.len = 0 THEN {<<>>} ELSE Byte \X Byte
      BY ExchangeAssumption
    <3>3. Begins(PostBytes(Post), b)
      BY <2>4
    <3> QED
      BY <3>1, <3>2, <3>3, PostRead
  <2> DEFINE s == Append(g.posts, Post)
  <2>6. h = [g EXCEPT !.posts = s]
    BY <1>4, <2>5 DEF With
  <2>7. Post \in PostType
    BY ExchangeAssumption DEF PostType
  <2>8. /\ s \in Seq(PostType) /\ Len(s) = m + 1
        /\ \A i \in 1..m : s[i] = g.posts[i]
        /\ s[m + 1] = Post
    BY <2>1, <2>7, AppendProperties DEF m
  <2> HIDE DEF h, s
  <2>9. /\ h \in [head : HeadType, posts : Seq(PostType)] /\ h.posts = s
        /\ h.head = a.head
    BY <2>1, <2>2, <2>6, <2>8
  <2>10. h \in AnswerType /\ h # Nobody
    BY <1>1, <2>9, HeadNotNobody DEF AnswerType
  <2>11. Took(h) = Took(g) + 1
    BY <2>1, <2>8, <2>9, <2>10 DEF Took, NbFrames
  <2>12. \A i \in 1..Len(h.posts) : h.posts[i] = a.posts[i]
    <3> SUFFICES ASSUME NEW i \in 1..(m + 1) PROVE s[i] = a.posts[i]
      BY <2>8, <2>9
    <3>1. CASE i = m + 1
      BY <2>4, <2>8, <3>1
    <3>2. CASE i # m + 1
      <4>1. i \in 1..m
        BY <2>1, <3>2
      <4> QED
        BY <2>2, <2>8, <4>1
    <3> QED
      BY <3>1, <3>2
  <2>13. Wanting(h) => Begun(h, a)
    BY <1>1, <2>1, <2>3, <2>8, <2>9, <2>12 DEF Begun
  <2>14. ~ Wanting(h) => h = a /\ NbFrames(a) = Took(g) + 1
    <3> SUFFICES ASSUME ~ Wanting(h) PROVE h = a /\ NbFrames(a) = Took(g) + 1
      OBVIOUS
    <3>1. a.head.type = LASTPOSTS
      BY <2>2 DEF Wanting
    <3>2. Len(a.posts) = m + 1
      BY <1>1, <1>2, <2>1, <2>3, <2>8, <2>9, <3>1 DEF Wanting
    <3>3. s = a.posts
      BY <1>1, <2>8, <2>9, <2>12, <3>2, SeqEqual
    <3>4. h = [head |-> a.head, posts |-> a.posts]
      BY <2>9, <3>3
    <3> QED
      BY <1>1, <2>1, <3>2, <3>4
  <2>15. Known(h.head.type)
    BY <1>2, <2>9
  <2>16. IF Wanting(h) THEN Begun(h, a) ELSE h = a /\ NbFrames(a) = Took(g) + 1
    BY <2>13, <2>14, Zenon
  <2>17. Further(h, a, Took(g) + 1)
    BY <2>10, <2>11, <2>15, <2>16, Zenon DEF Further
  <2> QED
    BY <2>17 DEF h
<1> QED
  BY <1>3, <1>4

-----------------------------------------------------------------------------
(* A client and its connection: x is the client, v the connection, left    *)
(* what the server has left to send on it, and b the bytes read.           *)

Unanswered(v) == v.answer = Nobody /\ v.out = <<>>

(* n frames of the answer were sent, none with CR in it: all of them when  *)
(* the server closed the connection, if it did not fail.                   *)
Sent(v, left, n) ==
  /\ n \in 0..NbFrames(v.answer)
  /\ \A i \in 1..n : ~ HasCR(Frame(v.answer, i))
  /\ "server" \notin v.open => n = NbFrames(v.answer) \/ v.dropped
  /\ \A out \in left : LeftAfter(out, v.answer, n)

Taking(v, left, g, b) ==
  \E n \in Took(g)..NbFrames(v.answer) :
    /\ Sent(v, left, n) /\ Begun(g, v.answer)
    /\ Framed(b \o v.out, v.answer, Took(g), n)

Shown(g, v) ==
  \/ g = v.answer
  \/ v.dropped /\ \E n \in DOMAIN v.answer.posts : g = CutBefore(n, v.answer)

ClientOk(x, v, left, b) ==
  /\ x.pc \in {"menu", "send", "show", "add"} => b = <<>>
  /\ x.pc = "send" => Unanswered(v)
  /\ x.pc = "recv" => Taking(v, left, x.got, b)
  /\ x.pc \in {"show", "add"} => x.got # Nobody
  /\ x.pc = "show" => Shown(x.got, v)
  /\ x.pc = "add" => x.got = v.answer

(* To the client v and w look the same, or the server dropped it.          *)
SameView(v, w) ==
  /\ w.answer = v.answer /\ w.out = v.out /\ (v.dropped => w.dropped)
  /\ "server" \in v.open => "server" \in w.open \/ w.dropped

LEMMA OkStill ==
  ASSUME NEW x, NEW v, NEW left, NEW b, ClientOk(x, v, left, b),
         NEW w, SameView(v, w), NEW more, more \subseteq left
  PROVE  ClientOk(x, w, more, b)
<1>1. Unanswered(v) => Unanswered(w)
  BY DEF Unanswered, SameView
<1>2. \A n : Sent(v, left, n) => Sent(w, more, n)
  BY DEF Sent, SameView
<1>3. Taking(v, left, x.got, b) => Taking(w, more, x.got, b)
  BY <1>2 DEF Taking, SameView
<1>4. Shown(x.got, v) => Shown(x.got, w)
  BY DEF Shown, SameView
<1> QED
  BY <1>1, <1>3, <1>4 DEF ClientOk, SameView

LEMMA TypedAnswer ==
  ASSUME NEW v \in ConnType
  PROVE  v.answer \in AnswerType /\ v.out \in Seq(Byte) /\ NbFrames(v.answer) \in Nat
BY NbFramesNat DEF ConnType

(* Only the posts of an answer are ever cut off.                           *)
LEMMA NoneCut ==
  ASSUME NEW v \in ConnType, v.answer # Nobody => Answerable(v.answer),
         NEW g, Shown(g, v), g.head.type # LASTPOSTS
  PROVE  g = v.answer
<1> DEFINE a == v.answer
<1> SUFFICES ASSUME NEW n \in DOMAIN a.posts, g = CutBefore(n, a)
             PROVE  FALSE
  BY DEF Shown
<1>1. a # Nobody
  BY DEF Nobody
<1>2. a \in [head : HeadType, posts : Seq(PostType)] /\ Answerable(a)
  BY <1>1, TypedAnswer DEF AnswerType
<1>3. g.head = a.head
  BY <1>2 DEF CutBefore
<1>4. Len(a.posts) = 0 /\ a.posts \in Seq(PostType)
  BY <1>2, <1>3 DEF Answerable
<1>5. a.posts = <<>>
  BY <1>4, EmptySeq
<1> QED
  BY <1>5

(* What a frame taken leads to.                                            *)
FrameLeads(h, v, left, b) ==
  /\ Known(h.head.type)
  /\ Wanting(h) /\ FirstCR(b) # Len(b) => Taking(v, left, h, Rest(b))
  /\ ~ Wanting(h) => h = v.answer /\ h # Nobody /\ Rest(b) = <<>>

LEMMA FrameTaken ==
  ASSUME NEW v \in ConnType, v.answer # Nobody => Answerable(v.answer),
         NEW g \in AnswerType, NEW b \in Seq(Byte), HasCR(b), NEW left,
         Taking(v, left, g, b)
  PROVE  FrameLeads(With(g, Cut(b)), v, left, b)
<1> DEFINE a == v.answer
           o == v.out
           u == b \o o
           i == Took(g)
           h == With(g, Cut(b))
<1>1. a \in AnswerType /\ o \in Seq(Byte) /\ NbFrames(a) \in Nat /\ i \in Nat
  BY TypedAnswer, NbFramesNat DEF Took
<1>2. PICK n \in i..NbFrames(a) :
        Sent(v, left, n) /\ Begun(g, a) /\ Framed(u, a, i, n)
  BY DEF Taking
<1>3. /\ u \in Seq(Byte) /\ Len(u) = Len(b) + Len(o) /\ Len(b) \in Nat
      /\ Len(o) \in Nat
  BY <1>1, ConcatProperties, LenProperties
<1>4. i < n
  <2> SUFFICES ASSUME i = n PROVE FALSE
    BY <1>1, <1>2
  <2>1. Framed(u, a, i, i)
    BY <1>2
  <2>2. Len(u) = 0
    <3>1. u = <<>>
      BY <1>1, <1>3, <2>1, FramedEmpty
    <3> QED
      BY <3>1
  <2>3. 1..Len(b) # {}
    BY FirstCRIs
  <2> QED
    BY <1>3, <2>2, <2>3
<1>5. n \in 0..NbFrames(a) /\ i + 1 \in 1..NbFrames(a) /\ i + 1 \in 1..n
  BY <1>1, <1>2, <1>4
<1> DEFINE f == Frame(a, i + 1)
<1>6. /\ f \in Seq(Byte) /\ Len(f) + 2 <= Len(u) /\ FrameAt(u, 0, f)
      /\ \A w : Dropped(w, u, Len(f) + 2) => Framed(w, a, i + 1, n)
  BY <1>1, <1>2, <1>3, <1>4, <1>5, FramedFirst
<1>7. ~ HasCR(f) /\ a # Nobody
  BY <1>1, <1>2, <1>5, NbFramesNat DEF Sent
<1> HIDE DEF f, u, h
<1>8. /\ Begins(f, Cut(b)) /\ FirstCR(b) = Len(f) + 1
      /\ \/ FirstCR(b) = Len(b) /\ Rest(b) = <<>>
         \/ Dropped(Rest(b) \o o, u, Len(f) + 2)
  BY <1>1, <1>6, <1>7, CutFrame DEF u
<1>9. Further(h, a, i + 1)
  <2>1. Cut(b) \in Seq(Byte)
    BY CutTyped
  <2> QED
    BY <1>1, <1>2, <1>5, <1>7, <1>8, <2>1, NextTaken DEF f, h
<1>10. Known(h.head.type) /\ Took(h) = i + 1 /\ h # Nobody
  BY <1>9 DEF Further
<1>11. ASSUME Wanting(h), FirstCR(b) # Len(b) PROVE Taking(v, left, h, Rest(b))
  <2>1. Framed(Rest(b) \o o, a, i + 1, n)
    BY <1>6, <1>8, <1>11
  <2>2. Begun(h, a)
    BY <1>9, <1>11 DEF Further
  <2>3. n \in Took(h)..NbFrames(a)
    BY <1>1, <1>2, <1>4, <1>10
  <2> QED
    BY <1>2, <1>10, <2>1, <2>2, <2>3 DEF Taking
<1>12. ASSUME ~ Wanting(h) PROVE h = a /\ Rest(b) = <<>>
  <2>1. h = a /\ NbFrames(a) = i + 1
    BY <1>9, <1>12, Zenon DEF Further
  <2>2. n = i + 1
    BY <1>1, <1>4, <1>5, <2>1
  <2>3. CASE Dropped(Rest(b) \o o, u, Len(f) + 2)
    <3>1. Rest(b) \in Seq(Byte) /\ Rest(b) \o o \in Seq(Byte)
      BY <1>1, RestTyped, ConcatProperties
    <3>2. Framed(Rest(b) \o o, a, i + 1, i + 1)
      BY <1>6, <2>2, <2>3
    <3>3. Rest(b) \o o = <<>>
      <4> DEFINE w == Rest(b) \o o
                 j == i + 1
      <4>1. w \in Seq(Byte) /\ j \in Nat /\ Framed(w, a, j, j)
        BY <1>1, <3>1, <3>2
      <4> HIDE DEF w, j
      <4>2. w = <<>>
        BY <4>1, FramedEmpty
      <4> QED
        BY <4>2 DEF w
    <3>4. Len(Rest(b) \o o) = Len(Rest(b)) + Len(o) /\ Len(Rest(b)) \in Nat
      BY <1>1, <3>1, ConcatProperties, LenProperties
    <3>5. Len(Rest(b)) = 0
      BY <1>3, <3>3, <3>4
    <3> QED
      BY <2>1, <3>1, <3>5, EmptySeq
  <2> QED
    BY <1>8, <2>1, <2>3
<1> QED
  BY <1>10, <1>11, <1>12, Zenon DEF FrameLeads, h, a

(* At the end of the stream nothing is left to take, but an answer that    *)
(* was not given or the posts that were not sent.                          *)
LEMMA CutOff ==
  ASSUME NEW a \in AnswerType, a # Nobody, Answerable(a),
         NEW g \in AnswerType, g # Nobody, Begun(g, a), Took(g) < NbFrames(a)
  PROVE  /\ Took(g) \in DOMAIN a.posts
         /\ Filled(With(g, <<>>)) = CutBefore(Took(g), a)
<1> DEFINE m == Took(g)
           count == a.head.count
           s == Append(g.posts, NoPost)
           f == [i \in DOMAIN a.posts |-> IF i < m THEN a.posts[i] ELSE NoPost]
           h == With(g, <<>>)
<1>1. /\ a \in [head : HeadType, posts : Seq(PostType)]
      /\ g \in [head : HeadType, posts : Seq(PostType)]
  BY DEF AnswerType
<1>2. /\ a.posts \in Seq(PostType) /\ g.posts \in Seq(PostType)
      /\ Len(a.posts) \in Nat /\ Len(g.posts) \in Nat
      /\ DOMAIN a.posts = 1..Len(a.posts)
  BY <1>1, LenProperties
<1>3. /\ m = Len(g.posts) + 1 /\ m < Len(a.posts) + 1
      /\ g.head = a.head /\ a.head.type = LASTPOSTS /\ Len(a.posts) = count
      /\ \A i \in 1..Len(g.posts) : g.posts[i] = a.posts[i]
  BY DEF Took, NbFrames, Begun, Wanting, Answerable
<1>4. NoPost \in PostType
  <2>1. <<>> \in Seq(Byte)
    OBVIOUS
  <2> QED
    BY <2>1, PostInTyped DEF NoPost
<1> HIDE DEF m, count
<1>5. /\ Len(g.posts) = m - 1 /\ m \in 1..count /\ count \in Nat /\ m \in Nat
      /\ DOMAIN a.posts = 1..count
  BY <1>2, <1>3
<1>6. /\ s \in Seq(PostType) /\ Len(s) = m /\ s[m] = NoPost
      /\ \A i \in 1..(m - 1) : s[i] = a.posts[i]
  BY <1>2, <1>3, <1>4, <1>5, AppendProperties
<1>7. h = [g EXCEPT !.posts = s]
  BY DEF With, NoPost
<1> HIDE DEF h, s
<1>8. h.head = a.head /\ h.posts = s /\ DOMAIN s = 1..m /\ h = [head |-> a.head, posts |-> s]
  BY <1>1, <1>3, <1>6, <1>7, LenProperties
<1>9. CutBefore(m, a) = [head |-> a.head, posts |-> f]
  BY <1>1 DEF CutBefore
<1>10. Filled(h) = [head |-> a.head, posts |-> f]
  <2>1. CASE m < count
    <3> DEFINE e == [i \in 1..count |-> IF i <= m THEN s[i] ELSE NoPost]
    <3>1. Wanting(h)
      BY <1>3, <1>6, <1>8, <2>1 DEF Wanting, count
    <3>2. Filled(h) = [h EXCEPT !.posts = e]
      BY <1>6, <1>8, <3>1 DEF Filled, count
    <3>3. \A i \in 1..count : e[i] = IF i < m THEN a.posts[i] ELSE NoPost
      <4> SUFFICES ASSUME NEW i \in 1..count
                   PROVE  e[i] = IF i < m THEN a.posts[i] ELSE NoPost
        OBVIOUS
      <4>1. CASE i < m
        <5>1. i \in 1..(m - 1) /\ i <= m
          BY <1>5, <4>1
        <5> QED
          BY <1>6, <4>1, <5>1
      <4>2. CASE i = m
        BY <1>5, <1>6, <4>2
      <4>3. CASE i > m
        BY <1>5, <4>3
      <4> QED
        BY <1>5, <4>1, <4>2, <4>3
    <3>4. e = f
      BY <1>5, <3>3
    <3> HIDE DEF e, f
    <3> QED
      BY <1>8, <3>2, <3>4
  <2>2. CASE m = count
    <3>1. ~ Wanting(h)
      BY <1>5, <1>6, <1>8, <2>2 DEF Wanting, count
    <3>2. s = f
      <4>1. \A i \in 1..m : s[i] = IF i < m THEN a.posts[i] ELSE NoPost
        <5> SUFFICES ASSUME NEW i \in 1..m
                     PROVE  s[i] = IF i < m THEN a.posts[i] ELSE NoPost
          OBVIOUS
        <5>1. CASE i < m
          <6>1. i \in 1..(m - 1)
            BY <1>5, <5>1
          <6> QED
            BY <1>6, <5>1, <6>1
        <5>2. CASE i = m
          BY <1>5, <1>6, <5>2
        <5> QED
          BY <1>5, <5>1, <5>2
      <4>2. s \in [1..m -> PostType]
        <5>1. s \in [1..Len(s) -> PostType]
          BY <1>6, LenProperties
        <5> QED
          BY <1>6, <5>1
      <4>3. DOMAIN a.posts = 1..m
        BY <1>5, <2>2
      <4> QED
        BY <4>1, <4>2, <4>3
    <3> HIDE DEF f
    <3> QED
      BY <1>8, <3>1, <3>2 DEF Filled
  <2> QED
    BY <1>5, <2>1, <2>2
<1> QED
  BY <1>5, <1>9, <1>10 DEF h, m

LEMMA EndTaken ==
  ASSUME NEW v \in ConnType, v.answer # Nobody => Answerable(v.answer),
         NEW g \in AnswerType, NEW b \in Seq(Byte), ~ HasCR(b), NEW left,
         v.out = <<>>, "server" \notin v.open, Taking(v, left, g, b)
  PROVE  \/ ~ Known(Filled(With(g, b)).head.type)
         \/ Shown(Filled(With(g, b)), v)
<1> DEFINE a == v.answer
           i == Took(g)
<1>1. a \in AnswerType /\ NbFrames(a) \in Nat /\ i \in Nat
  BY TypedAnswer, NbFramesNat DEF Took
<1>2. PICK n \in i..NbFrames(a) :
        Sent(v, left, n) /\ Begun(g, a) /\ Framed(b \o v.out, a, i, n)
  BY DEF Taking
<1>3. (n = NbFrames(a) \/ v.dropped) /\ Framed(b, a, i, n)
  <2>1. b \o v.out = b
    BY ConcatEmptySeq
  <2> QED
    BY <1>2, <2>1 DEF Sent
<1>4. i = n
  <2> SUFFICES ASSUME i # n PROVE FALSE
    OBVIOUS
  <2>1. i < n /\ n \in 0..NbFrames(a)
    BY <1>1, <1>2
  <2> DEFINE f == Frame(a, i + 1)
  <2>2. f \in Seq(Byte) /\ Len(f) + 2 <= Len(b) /\ FrameAt(b, 0, f)
    BY <1>1, <1>3, <2>1, FramedFirst
  <2> HIDE DEF f
  <2>3. Len(f) \in Nat /\ Len(b) \in Nat
    BY <2>2, LenProperties
  <2>4. Len(f) + 1 \in 1..Len(b) /\ b[Len(f) + 1] = CR
    BY <2>2, <2>3 DEF FrameAt
  <2>5. CR \in Range(b)
    BY <2>4, RangeEquality
  <2> QED
    BY <2>5 DEF HasCR
<1>5. b = <<>>
  <2>1. Framed(b, a, i, i)
    BY <1>3, <1>4
  <2> QED
    BY <1>1, <2>1, FramedEmpty
<1>6. CASE g = Nobody
  <2> DEFINE h == With(g, b)
  <2>1. h.head.type = TypeIn(WordAt(b, 1)) /\ h = [head |-> HeadIn(b), posts |-> <<>>]
    BY <1>6 DEF With, HeadIn
  <2>2. WordAt(b, 1) = 0
    <3>1. 1 \notin DOMAIN b /\ 2 \notin DOMAIN b
      BY <1>5
    <3>2. ByteAt(b, 1) = 0 /\ ByteAt(b, 1 + 1) = 0
      BY <3>1 DEF ByteAt
    <3> QED
      BY <3>2 DEF WordAt
  <2>3. TypeIn(0) = 0
    BY DEF TypeIn
  <2>4. ~ Known(0)
    BY DEF Known, Types, Errors, REGISTRATION, DOWNLOAD, ERR_NOID, ERR_IDMAX
  <2>5. ~ Wanting(h)
    BY <2>1, <2>2, <2>3 DEF Wanting, LASTPOSTS
  <2>6. Filled(h) = h
    BY <2>5 DEF Filled
  <2> QED
    BY <2>1, <2>2, <2>3, <2>4, <2>6
<1>7. CASE g # Nobody
  <2>1. /\ Wanting(g) /\ g.head = a.head /\ i = Len(g.posts) + 1
        /\ Len(g.posts) \in Nat
    BY <1>2, <1>7, LenProperties DEF Begun, AnswerType, Took, NbFrames
  <2>2. a # Nobody
    BY <1>1, <1>2, <1>4, <2>1 DEF NbFrames
  <2>3. NbFrames(a) = Len(a.posts) + 1 /\ Len(a.posts) \in Nat /\ Answerable(a)
    BY <1>1, <2>2, LenProperties DEF NbFrames, AnswerType
  <2>4. i # NbFrames(a)
    <3> SUFFICES ASSUME i = NbFrames(a) PROVE FALSE
      OBVIOUS
    <3>1. Len(g.posts) = Len(a.posts)
      <4> DEFINE x == Len(g.posts)
                 y == Len(a.posts)
      <4>1. x \in Nat /\ y \in Nat /\ x + 1 = y + 1
        BY <2>1, <2>3
      <4> HIDE DEF x, y
      <4>2. x = y
        BY <4>1
      <4> QED
        BY <4>2 DEF x, y
    <3>2. a.head.type = LASTPOSTS /\ Len(g.posts) < a.head.count
      BY <2>1 DEF Wanting
    <3>3. Len(a.posts) = a.head.count
      BY <2>3, <3>2 DEF Answerable
    <3> QED
      BY <2>1, <3>1, <3>2, <3>3
  <2>5. i < NbFrames(a) /\ v.dropped
    BY <1>1, <1>2, <1>3, <1>4, <2>4
  <2>6. i \in DOMAIN a.posts /\ Filled(With(g, <<>>)) = CutBefore(i, a)
    BY <1>1, <1>2, <1>7, <2>2, <2>3, <2>5, CutOff
  <2> QED
    BY <1>5, <2>5, <2>6 DEF Shown
<1> QED
  BY <1>6, <1>7

-----------------------------------------------------------------------------
(* The inductive invariant behind AnswerAsSent *)

LeftIn(lp, sv, k) == IF lp.pc = "send" /\ sv = k THEN {lp.out} ELSE {}

OwnOk(c) == ClientOk(client[c], conns[client[c].conn],
                     LeftIn(loop, Serving, client[c].conn), rest[c])

AllAnswerable ==
  \A k \in DOMAIN conns :
    conns[k] # Closed /\ conns[k].answer # Nobody => Answerable(conns[k].answer)

(* The server answers a connection it has taken and none before.           *)
NotYet ==
  /\ \A i \in DOMAIN backlog : Unanswered(conns[backlog[i]])
  /\ \A fd \in Fds : at[fd] # 0 /\ (loop.pc = "send" => Fd # fd) =>
                       Unanswered(conns[at[fd]])
  /\ loop.pc = "send" => conns[Serving].answer # Nobody

(* It has lost no connection that is open.                                 *)
NoneLost ==
  \A k \in DOMAIN conns : "server" \in conns[k].open =>
    \/ \E i \in DOMAIN backlog : backlog[i] = k
    \/ \E fd \in Fds : at[fd] = k

ClientAnswers == \A c \in Clients \ murky : OwnOk(c)

AnswerInv == /\ AllAnswerable
             /\ server = "serving" => NotYet /\ NoneLost
             /\ ClientAnswers

(* What most steps leave alone of the answers.                             *)
SameAnswers ==
  /\ DOMAIN conns' = DOMAIN conns
  /\ \A k \in DOMAIN conns :
       /\ "server" \in conns'[k].open <=> "server" \in conns[k].open
       /\ conns'[k] # Closed =>
            /\ conns[k] # Closed /\ conns'[k].answer = conns[k].answer
            /\ conns[k].out = <<>> => conns'[k].out = <<>>

LEMMA AnswerableStill ==
  ASSUME SameAnswers, AllAnswerable
  PROVE  AllAnswerable'
BY DEF SameAnswers, AllAnswerable

LEMMA UnansweredStill ==
  ASSUME SameAnswers, NEW k \in DOMAIN conns, conns'[k] # Closed, Unanswered(conns[k])
  PROVE  Unanswered(conns'[k])
BY DEF SameAnswers, Unanswered

LEMMA NoneLostStill ==
  ASSUME SameAnswers, NoneLost, UNCHANGED <<backlog, at>>
  PROVE  NoneLost'
BY DEF SameAnswers, NoneLost

LEMMA ServerSideStill ==
  ASSUME TypeInv, TypeInv', AnswerInv, SameAnswers,
         UNCHANGED <<server, backlog, at, fds, loop>>
  PROVE  AllAnswerable' /\ (server' = "serving" => NotYet' /\ NoneLost')
<1>1. /\ UNCHANGED server /\ UNCHANGED backlog /\ UNCHANGED at /\ UNCHANGED fds
      /\ UNCHANGED loop
  OBVIOUS
<1>2. AllAnswerable'
  BY AnswerableStill DEF AnswerInv
<1>3. ASSUME server' = "serving" PROVE NotYet' /\ NoneLost'
  <2>1. NotYet /\ NoneLost /\ server # "dead" /\ server' # "dead"
    BY <1>1, <1>3 DEF AnswerInv
  <2>2. NoneLost'
    BY <1>1, <2>1, NoneLostStill
  <2>3. \A i \in DOMAIN backlog : Unanswered(conns'[backlog[i]])
    <3> SUFFICES ASSUME NEW i \in DOMAIN backlog PROVE Unanswered(conns'[backlog[i]])
      OBVIOUS
    <3>1. backlog[i] \in DOMAIN conns /\ Unanswered(conns[backlog[i]])
      BY <2>1, ServerKeeps DEF NotYet
    <3>2. conns'[backlog[i]] # Closed
      BY <1>1, <2>1, ServerKeepsNext
    <3> QED
      BY <3>1, <3>2, UnansweredStill
  <2>4. ASSUME NEW fd \in Fds, at[fd] # 0, loop.pc = "send" => Fd # fd
        PROVE  Unanswered(conns'[at[fd]])
    <3>1. at[fd] \in DOMAIN conns /\ Unanswered(conns[at[fd]])
      BY <2>1, <2>4, ServerKeeps DEF NotYet
    <3>2. conns'[at[fd]] # Closed
      BY <1>1, <2>1, <2>4, ServerKeepsNext
    <3> QED
      BY <3>1, <3>2, UnansweredStill
  <2>5. ASSUME loop.pc = "send" PROVE conns'[Serving].answer # Nobody
    <3>1. /\ Fd \in Fds /\ at[Fd] # 0 /\ Serving = at[Fd] /\ Serving \in DOMAIN conns
      BY <2>5, ServedConn DEF Serving
    <3>2. conns'[Serving] # Closed
      BY <1>1, <2>1, <3>1, ServerKeepsNext
    <3>3. conns[Serving].answer # Nobody
      BY <2>1, <2>5 DEF NotYet
    <3> QED
      BY <3>1, <3>2, <3>3 DEF SameAnswers
  <2>6. Fd' = Fd /\ Serving' = Serving
    BY <1>1 DEF Fd, Serving
  <2>7. NotYet'
    BY <1>1, <2>3, <2>4, <2>5, <2>6 DEF NotYet
  <2> QED
    BY <2>2, <2>7
<1> QED
  BY <1>2, <1>3

LEMMA OwnStill ==
  ASSUME TypeInv, NEW d \in Clients, OwnOk(d),
         client'[d] = client[d], rest'[d] = rest[d],
         client[d].conn # 0 =>
           /\ SameView(conns[client[d].conn], conns'[client[d].conn])
           /\ LeftIn(loop', Serving', client[d].conn)
                \subseteq LeftIn(loop, Serving, client[d].conn)
  PROVE  OwnOk(d)'
<1> DEFINE k == client[d].conn
<1>1. ClientOk(client[d], conns[k], LeftIn(loop, Serving, k), rest[d])
  BY DEF OwnOk
<1>2. ClientOk(client[d], conns'[k], LeftIn(loop', Serving', k), rest[d])
  <2>1. CASE k # 0
    BY <1>1, <2>1, OkStill
  <2>2. CASE k = 0
    <3>1. client[d].pc \notin {"send", "recv", "show", "add"}
      BY <2>2 DEF TypeInv, ClientHolds
    <3> QED
      BY <1>1, <3>1, Zenon DEF ClientOk
  <2> QED
    BY <2>1, <2>2
<1> QED
  BY <1>2 DEF OwnOk

(* A client's step changes no connection but its own.                      *)
OneClient(c) ==
  /\ UNCHANGED serverVars /\ murky \subseteq murky'
  /\ \A d \in Clients \ {c} : client'[d] = client[d] /\ rest'[d] = rest[d]
  /\ \A k \in DOMAIN conns : k # client[c].conn => conns'[k] = conns[k]

LEMMA ClientSideAnswers ==
  ASSUME TypeInv, TypeInv', AnswerInv, NEW c \in Clients, SameAnswers, OneClient(c),
         c \in murky' \/ OwnOk(c)'
  PROVE  AnswerInv'
<1>1. UNCHANGED loop /\ UNCHANGED at /\ UNCHANGED fds
  BY DEF OneClient, serverVars
<1>2. Serving' = Serving
  BY <1>1 DEF Serving, Fd
<1>3. ASSUME NEW d \in Clients \ murky', d # c PROVE OwnOk(d)'
  <2>1. client'[d] = client[d] /\ rest'[d] = rest[d] /\ OwnOk(d)
    BY <1>3 DEF OneClient, AnswerInv, ClientAnswers
  <2>2. ASSUME client[d].conn # 0
        PROVE  SameView(conns[client[d].conn], conns'[client[d].conn])
    <3> DEFINE k == client[d].conn
    <3>1. k \in DOMAIN conns /\ conns[k].who = d
      BY <2>2, OwnConn DEF Conn
    <3>2. client[c].conn # 0 => conns[client[c].conn].who = c
      BY OwnConn DEF Conn
    <3>3. k # client[c].conn
      BY <1>3, <2>2, <3>1, <3>2
    <3>4. conns'[k] = conns[k]
      BY <3>1, <3>3 DEF OneClient
    <3> QED
      BY <3>4 DEF SameView
  <2>3. LeftIn(loop', Serving', client[d].conn) = LeftIn(loop, Serving, client[d].conn)
    BY <1>1, <1>2
  <2> QED
    BY <2>1, <2>2, <2>3, OwnStill
<1>4. ClientAnswers'
  BY <1>3 DEF ClientAnswers
<1>5. AllAnswerable' /\ (server' = "serving" => NotYet' /\ NoneLost')
  BY ServerSideStill DEF OneClient, serverVars
<1> QED
  BY <1>4, <1>5 DEF AnswerInv

LEMMA OneConnChanges ==
  ASSUME TypeInv, NEW k \in DOMAIN conns, conns[k] # Closed, NEW x,
         conns' = [conns EXCEPT ![k] = x],
         x.answer = conns[k].answer, x.open = conns[k].open,
         conns[k].out = <<>> => x.out = <<>>
  PROVE  /\ SameAnswers /\ conns'[k] = x
         /\ \A j \in DOMAIN conns : j # k => conns'[j] = conns[j]
<1>1. conns \in Seq(ConnType \cup {Closed})
  BY DEF TypeInv, ConnsTyped
<1>2. DOMAIN conns' = DOMAIN conns /\ \A j \in DOMAIN conns : conns'[j] = IF j = k THEN x ELSE conns[j]
  BY <1>1
<1> QED
  BY <1>2 DEF SameAnswers

LEMMA ConnsKept ==
  ASSUME UNCHANGED conns
  PROVE  SameAnswers /\ \A k \in DOMAIN conns : conns'[k] = conns[k]
BY DEF SameAnswers

(* The record of a client and the bytes it read.                           *)
LEMMA ClientSet ==
  ASSUME TypeInv, NEW c \in Clients, NEW x, client' = [client EXCEPT ![c] = x]
  PROVE  client'[c] = x /\ \A d \in Clients \ {c} : client'[d] = client[d]
BY DEF TypeInv, ClientsTyped

LEMMA RestSet ==
  ASSUME TypeInv, NEW c \in Clients, NEW b, rest' = [rest EXCEPT ![c] = b]
  PROVE  rest'[c] = b /\ \A d \in Clients \ {c} : rest'[d] = rest[d]
BY DEF TypeInv, ClientsTyped

LEMMA OwnOkOf ==
  ASSUME AnswerInv, NEW c \in Clients, c \notin murky
  PROVE  ClientOk(client[c], conns[client[c].conn],
                  LeftIn(loop, Serving, client[c].conn), rest[c])
BY DEF AnswerInv, ClientAnswers, OwnOk

LEMMA SameLoop ==
  ASSUME UNCHANGED serverVars
  PROVE  loop' = loop /\ Serving' = Serving
BY DEF serverVars, Serving, Fd

LEMMA LogAnswers ==
  ASSUME TypeInv, TypeInv', AnswerInv, NEW c \in Clients,
         LogOut(c) \/ \E id \in AccountIds : LogIn(c, id)
  PROVE  AnswerInv'
<1>1. PICK id : client' = [client EXCEPT ![c].user = id]
  BY DEF LogIn, LogOut
<1>2. /\ client[c].pc = "menu" /\ UNCHANGED conns /\ UNCHANGED rest /\ UNCHANGED murky
      /\ UNCHANGED serverVars
  BY DEF LogIn, LogOut
<1> DEFINE x == [client[c] EXCEPT !.user = id]
<1>3. client' = [client EXCEPT ![c] = x] /\ x.pc = "menu"
  BY <1>1, <1>2, ClientTypeOf DEF ClientType
<1> HIDE DEF x
<1>4. client'[c] = x /\ \A d \in Clients \ {c} : client'[d] = client[d]
  BY <1>3, ClientSet
<1>5. SameAnswers /\ OneClient(c)
  BY <1>2, <1>4, ConnsKept DEF OneClient
<1>6. c \in murky' \/ OwnOk(c)'
  <2> SUFFICES ASSUME c \notin murky' PROVE OwnOk(c)'
    OBVIOUS
  <2>1. rest'[c] = <<>>
    BY <1>2, OwnOkOf DEF ClientOk
  <2>2. ClientOk(x, conns'[x.conn], LeftIn(loop', Serving', x.conn), rest'[c])
    BY <1>3, <2>1 DEF ClientOk
  <2> QED
    BY <1>4, <2>2 DEF OwnOk
<1> QED
  BY <1>5, <1>6, ClientSideAnswers

LEMMA SendAnswers ==
  ASSUME TypeInv, TypeInv', AnswerInv, NEW c \in Clients, Send(c)
  PROVE  AnswerInv'
<1> DEFINE k == client[c].conn
           bytes == RequestBytes(Conn(c).asked)
           y == [conns[k] EXCEPT !.in = bytes \o CRLF]
           x == [client[c] EXCEPT !.pc = "recv", !.got = Nobody]
<1>1. /\ client[c].pc = "send" /\ UNCHANGED rest /\ UNCHANGED serverVars
      /\ murky \subseteq murky' /\ conns' = [conns EXCEPT ![k] = y]
      /\ client' = [client EXCEPT ![c] = x]
  BY DEF Send
<1>2. k # 0
  BY <1>1 DEF TypeInv, ClientHolds
<1>3. k \in DOMAIN conns /\ conns[k] \in ConnType /\ conns[k] # Closed
  BY <1>2, OwnConn DEF Conn, Closed, ConnType
<1>4. /\ y.answer = conns[k].answer /\ y.open = conns[k].open /\ y.out = conns[k].out
      /\ x.pc = "recv" /\ x.conn = k /\ x.got = Nobody
  BY <1>3, ClientTypeOf DEF ConnType, ClientType
<1> HIDE DEF x, y, k
<1>5. /\ SameAnswers /\ conns'[k] = y
      /\ \A j \in DOMAIN conns : j # k => conns'[j] = conns[j]
  BY <1>1, <1>3, <1>4, OneConnChanges
<1>6. client'[c] = x /\ \A d \in Clients \ {c} : client'[d] = client[d]
  BY <1>1, ClientSet
<1>7. OneClient(c)
  BY <1>1, <1>5, <1>6 DEF OneClient, k
<1>8. c \in murky' \/ OwnOk(c)'
  <2> SUFFICES ASSUME c \notin murky' PROVE OwnOk(c)'
    OBVIOUS
  <2>1. rest[c] = <<>> /\ Unanswered(conns[k])
    <3>1. c \notin murky
      BY <1>1
    <3> QED
      BY <1>1, <3>1, OwnOkOf DEF ClientOk, k
  <2>2. y.answer = Nobody /\ y.out = <<>> /\ NbFrames(y.answer) = 0
    BY <1>4, <2>1 DEF Unanswered, NbFrames
  <2>3. LeftIn(loop', Serving', k) = {}
    <3> SUFFICES ASSUME loop.pc = "send", Serving = k PROVE FALSE
      BY <1>1, SameLoop DEF LeftIn
    <3>1. server = "serving"
      BY DEF TypeInv, ServerTyped
    <3>2. conns[Serving].answer # Nobody
      BY <3>1 DEF AnswerInv, NotYet
    <3> QED
      BY <2>1, <3>2 DEF Unanswered
  <2>4. Sent(y, {}, 0)
    BY <2>2 DEF Sent
  <2>5. Begun(Nobody, y.answer) /\ Took(Nobody) = 0
    BY DEF Begun, Took, NbFrames
  <2>6. Framed(rest'[c] \o y.out, y.answer, 0, 0)
    <3>1. rest'[c] \o y.out = <<>>
      BY <1>1, <2>1, <2>2
    <3> QED
      BY <3>1, FramedNone
  <2>7. Taking(y, {}, Nobody, rest'[c])
    <3>1. 0 \in Took(Nobody)..NbFrames(y.answer)
      BY <2>2, <2>5
    <3> QED
      BY <2>4, <2>5, <2>6, <3>1 DEF Taking
  <2>8. ClientOk(x, y, {}, rest'[c])
    BY <1>4, <2>7 DEF ClientOk
  <2> QED
    BY <1>4, <1>5, <1>6, <2>3, <2>8 DEF OwnOk
<1> QED
  BY <1>5, <1>7, <1>8, ClientSideAnswers

(* Reading only moves bytes.                                               *)
LEMMA TakingMoved ==
  ASSUME NEW v, NEW w, NEW left, NEW g, NEW b, NEW d, Taking(v, left, g, b),
         w.answer = v.answer, w.open = v.open, w.dropped = v.dropped,
         d \o w.out = b \o v.out
  PROVE  Taking(w, left, g, d)
<1>1. \A n : Sent(v, left, n) => Sent(w, left, n)
  BY DEF Sent
<1> QED
  BY <1>1 DEF Taking

LEMMA ReadAnswers ==
  ASSUME TypeInv, TypeInv', AnswerInv, NEW c \in Clients, Read(c)
  PROVE  AnswerInv'
<1> DEFINE k == client[c].conn
           o == conns[k].out
           b == rest[c]
<1>1. /\ client[c].pc = "recv" /\ UNCHANGED serverVars /\ UNCHANGED murky
      /\ UNCHANGED client
  BY DEF Read
<1>2. PICK n \in Pieces(o) :
        /\ rest' = [rest EXCEPT ![c] = @ \o SubSeq(o, 1, n)]
        /\ conns' = [conns EXCEPT ![k].out = SubSeq(@, n + 1, Len(@))]
  BY DEF Read, Received, Conn
<1>3. k # 0
  BY <1>1 DEF TypeInv, ClientHolds
<1>4. k \in DOMAIN conns /\ conns[k] \in ConnType /\ conns[k] # Closed
  BY <1>3, OwnConn DEF Conn, Closed, ConnType
<1>5. o \in Seq(Byte) /\ b \in Seq(Byte)
  BY <1>4, ClientTypeOf DEF ConnType
<1> DEFINE s == SubSeq(o, 1, n)
           t == SubSeq(o, n + 1, Len(o))
           y == [conns[k] EXCEPT !.out = t]
<1>6. n \in 1..Len(o) /\ s \in Seq(Byte) /\ t \in Seq(Byte)
  BY <1>5, PiecesTyped
<1>7. s \o t = o
  <2>1. Len(o) \in Nat
    BY <1>5, LenProperties
  <2>2. 1 \in 1..Len(o) + 1 /\ n \in (1 - 1)..Len(o) /\ Len(o) \in n..Len(o)
    BY <1>6, <2>1
  <2>3. SubSeq(o, 1, n) \o SubSeq(o, n + 1, Len(o)) = SubSeq(o, 1, Len(o))
    BY <1>5, <2>2, ConcatAdjacentSubSeq
  <2> QED
    BY <1>5, <2>3, SubSeqFull
<1>8. o # <<>>
  BY <1>6, EmptySeq
<1>9. /\ conns' = [conns EXCEPT ![k] = y] /\ rest' = [rest EXCEPT ![c] = b \o s]
      /\ y.answer = conns[k].answer /\ y.open = conns[k].open /\ y.out = t
      /\ y.dropped = conns[k].dropped
  BY <1>2, <1>4 DEF ConnType
<1> HIDE DEF y, s, t, k, o, b
<1>10. (b \o s) \o t = b \o o
  <2>1. (b \o s) \o t = b \o (s \o t)
    BY <1>5, <1>6, ConcatAssociative, SMTT(30)
  <2> QED
    BY <1>7, <2>1
<1>11. /\ SameAnswers /\ conns'[k] = y
       /\ \A j \in DOMAIN conns : j # k => conns'[j] = conns[j]
  BY <1>4, <1>8, <1>9, OneConnChanges DEF o
<1>12. rest'[c] = b \o s /\ \A d \in Clients \ {c} : rest'[d] = rest[d]
  BY <1>9, RestSet
<1>13. OneClient(c)
  BY <1>1, <1>11, <1>12 DEF OneClient, k
<1>14. c \in murky' \/ OwnOk(c)'
  <2> SUFFICES ASSUME c \notin murky' PROVE OwnOk(c)'
    OBVIOUS
  <2> DEFINE left == LeftIn(loop, Serving, k)
  <2>1. ClientOk(client[c], conns[k], left, b)
    BY <1>1, OwnOkOf DEF k, b
  <2>2. Taking(conns[k], left, client[c].got, b)
    BY <1>1, <2>1 DEF ClientOk
  <2>3. Taking(y, left, client[c].got, b \o s)
    BY <1>9, <1>10, <2>2, TakingMoved DEF o
  <2>4. ClientOk(client[c], y, left, b \o s)
    BY <1>1, <2>3 DEF ClientOk
  <2>5. LeftIn(loop', Serving', k) = left /\ client'[c].conn = k
    BY <1>1, SameLoop DEF k
  <2> QED
    BY <1>1, <1>11, <1>12, <2>4, <2>5 DEF OwnOk
<1> QED
  BY <1>11, <1>13, <1>14, ClientSideAnswers

LEMMA TakeFrameAnswers ==
  ASSUME TypeInv, TypeInv', AnswerInv, NEW c \in Clients, TakeFrame(c)
  PROVE  AnswerInv'
<1> DEFINE k == client[c].conn
           b == rest[c]
           v == conns[k]
           g == client[c].got
           h == With(g, Cut(b))
           x == [client[c] EXCEPT !.got = h, !.pc = AfterFrame(h)]
<1>1. client[c].pc = "recv" /\ HasCR(b) /\ k # 0
  BY DEF TakeFrame, TypeInv, ClientHolds
<1>2. Got(c, Cut(b)) = h
  BY DEF Got, With
<1>3. /\ client' = [client EXCEPT ![c] = x] /\ rest' = [rest EXCEPT ![c] = Rest(b)]
      /\ UNCHANGED serverVars /\ UNCHANGED conns
      /\ murky' = IF FirstCR(b) = Len(b) /\ AfterFrame(h) = "recv"
                  THEN murky \cup {c} ELSE murky
  <2>1. Keep(c, Cut(b), Rest(b))
    BY DEF TakeFrame, Kept
  <2>2. murky' = IF FirstCR(b) = Len(b) /\ AfterFrame(h) = "recv"
                 THEN murky \cup {c} ELSE murky
    BY <1>2 DEF TakeFrame
  <2> QED
    BY <1>2, <2>1, <2>2 DEF Keep
<1>4. /\ v \in ConnType /\ v # Closed /\ k \in DOMAIN conns /\ g \in AnswerType
      /\ b \in Seq(Byte)
  BY <1>1, OwnConn, ClientTypeOf DEF Conn, Closed, ConnType, ClientType
<1>5. v.answer # Nobody => Answerable(v.answer)
  BY <1>4 DEF AnswerInv, AllAnswerable
<1>6. x.got = h /\ x.pc = AfterFrame(h) /\ x.conn = k
  BY ClientTypeOf DEF ClientType
<1> HIDE DEF x, h, v, k, g, b
<1>7. client'[c] = x /\ \A d \in Clients \ {c} : client'[d] = client[d]
  BY <1>3, ClientSet
<1>8. rest'[c] = Rest(b) /\ \A d \in Clients \ {c} : rest'[d] = rest[d]
  BY <1>3, RestSet
<1>9. SameAnswers /\ OneClient(c)
  BY <1>3, <1>7, <1>8, ConnsKept DEF OneClient
<1>10. c \in murky' \/ OwnOk(c)'
  <2> SUFFICES ASSUME c \notin murky' PROVE OwnOk(c)'
    OBVIOUS
  <2> DEFINE left == LeftIn(loop, Serving, k)
  <2>1. c \notin murky /\ ~ (FirstCR(b) = Len(b) /\ AfterFrame(h) = "recv")
    BY <1>3
  <2>2. ClientOk(client[c], v, left, b)
    BY <2>1, OwnOkOf DEF v, k, b
  <2>3. Taking(v, left, g, b)
    BY <1>1, <2>2 DEF ClientOk, g
  <2> HIDE DEF left
  <2>4. FrameLeads(h, v, left, b)
    BY <1>1, <1>4, <1>5, <2>3, FrameTaken DEF h
  <2>5. ClientOk(x, v, left, Rest(b))
    <3>1. CASE Wanting(h)
      <4>1. AfterFrame(h) = "recv"
        BY <2>4, <3>1 DEF FrameLeads, AfterFrame
      <4>2. Taking(v, left, h, Rest(b))
        BY <2>1, <2>4, <3>1, <4>1 DEF FrameLeads
      <4> QED
        BY <1>6, <4>1, <4>2 DEF ClientOk
    <3>2. CASE ~ Wanting(h)
      <4>1. AfterFrame(h) = "show"
        BY <2>4, <3>2 DEF FrameLeads, AfterFrame
      <4>2. h = v.answer /\ h # Nobody /\ Rest(b) = <<>>
        BY <2>4, <3>2 DEF FrameLeads
      <4>3. Shown(h, v)
        BY <4>2 DEF Shown
      <4> QED
        BY <1>6, <4>1, <4>2, <4>3 DEF ClientOk
    <3> QED
      BY <3>1, <3>2
  <2>6. LeftIn(loop', Serving', k) = left
    BY <1>3, SameLoop DEF left
  <2>7. conns'[k] = v
    BY <1>3 DEF v
  <2> QED
    BY <1>6, <1>7, <1>8, <2>5, <2>6, <2>7 DEF OwnOk
<1> QED
  BY <1>9, <1>10, ClientSideAnswers

LEMMA TakeEndAnswers ==
  ASSUME TypeInv, TypeInv', AnswerInv, NEW c \in Clients, TakeEnd(c)
  PROVE  AnswerInv'
<1> DEFINE k == client[c].conn
           b == rest[c]
           v == conns[k]
           g == client[c].got
           h == Filled(With(g, b))
           x == [client[c] EXCEPT !.got = h, !.pc = IF Known(h.head.type) THEN "show"
                                                    ELSE "fail"]
<1>1. client[c].pc = "recv" /\ ~ HasCR(b) /\ k # 0
  BY DEF TakeEnd, TypeInv, ClientHolds
<1>2. Filled(Got(c, b)) = h
  BY DEF Got, With
<1>3. /\ client' = [client EXCEPT ![c] = x] /\ rest' = [rest EXCEPT ![c] = <<>>]
      /\ UNCHANGED serverVars /\ UNCHANGED conns /\ UNCHANGED murky
      /\ v.out = <<>> /\ "server" \notin v.open
  BY <1>2 DEF TakeEnd, Conn
<1>4. /\ v \in ConnType /\ v # Closed /\ k \in DOMAIN conns /\ g \in AnswerType
      /\ b \in Seq(Byte)
  BY <1>1, OwnConn, ClientTypeOf DEF Conn, Closed, ConnType, ClientType
<1>5. v.answer # Nobody => Answerable(v.answer)
  BY <1>4 DEF AnswerInv, AllAnswerable
<1>6. /\ x.pc = IF Known(h.head.type) THEN "show" ELSE "fail"
      /\ x.conn = k /\ x.got = h
  BY ClientTypeOf DEF ClientType
<1>a. h # Nobody
  BY <1>2, <1>4, GotTyped, FilledTyped
<1> HIDE DEF x, h, v, k, g, b
<1>7. client'[c] = x /\ \A d \in Clients \ {c} : client'[d] = client[d]
  BY <1>3, ClientSet
<1>8. rest'[c] = <<>> /\ \A d \in Clients \ {c} : rest'[d] = rest[d]
  BY <1>3, RestSet
<1>9. SameAnswers /\ OneClient(c)
  BY <1>3, <1>7, <1>8, ConnsKept DEF OneClient
<1>10. c \in murky' \/ OwnOk(c)'
  <2> SUFFICES ASSUME c \notin murky' PROVE OwnOk(c)'
    OBVIOUS
  <2> DEFINE left == LeftIn(loop, Serving, k)
  <2>1. ClientOk(client[c], v, left, b)
    BY <1>3, OwnOkOf DEF v, k, b
  <2>2. Taking(v, left, g, b)
    BY <1>1, <2>1 DEF ClientOk, g
  <2> HIDE DEF left
  <2>3. ~ Known(h.head.type) \/ Shown(h, v)
    BY <1>1, <1>3, <1>4, <1>5, <2>2, EndTaken DEF h
  <2>4. x.pc = "fail" \/ (x.pc = "show" /\ Shown(x.got, v) /\ x.got # Nobody)
    BY <1>6, <1>a, <2>3
  <2>5. ClientOk(x, v, left, <<>>)
    BY <2>4 DEF ClientOk
  <2>6. LeftIn(loop', Serving', k) = left /\ conns'[k] = v
    BY <1>3, SameLoop DEF left, v
  <2> QED
    BY <1>6, <1>7, <1>8, <2>5, <2>6 DEF OwnOk
<1> QED
  BY <1>9, <1>10, ClientSideAnswers

LEMMA StartAddAnswers ==
  ASSUME TypeInv, TypeInv', AnswerInv, NEW c \in Clients, StartAdd(c)
  PROVE  AnswerInv'
<1> DEFINE id == client[c].got.head.id
           x == [client[c] EXCEPT !.user = id, !.pc = "add"]
<1>1. /\ client[c].pc = "show" /\ UNCHANGED rest /\ UNCHANGED serverVars
      /\ UNCHANGED conns /\ UNCHANGED murky
      /\ client' = [client EXCEPT ![c] = x]
      /\ client[c].got.head.type = REGISTRATION
  BY DEF StartAdd
<1>2. x.pc = "add" /\ x.got = client[c].got /\ x.conn = client[c].conn
  BY ClientTypeOf DEF ClientType
<1> HIDE DEF x
<1>3. client'[c] = x /\ \A d \in Clients \ {c} : client'[d] = client[d]
  BY <1>1, ClientSet
<1>4. SameAnswers /\ OneClient(c)
  BY <1>1, <1>3, ConnsKept DEF OneClient
<1>5. c \in murky' \/ OwnOk(c)'
  <2> SUFFICES ASSUME c \notin murky' PROVE OwnOk(c)'
    OBVIOUS
  <2> DEFINE v == conns[x.conn]
             left == LeftIn(loop, Serving, x.conn)
  <2>1. ClientOk(client[c], v, left, rest[c])
    BY <1>1, <1>2, OwnOkOf
  <2>2. rest[c] = <<>> /\ x.got = v.answer /\ x.got # Nobody
    <3>1. rest[c] = <<>> /\ Shown(x.got, v) /\ x.got # Nobody
      BY <1>1, <1>2, <2>1 DEF ClientOk
    <3>2. x.conn # 0
      BY <1>1, <1>2 DEF TypeInv, ClientHolds
    <3>3. v \in ConnType /\ v # Closed /\ x.conn \in DOMAIN conns
      BY <1>2, <3>2, OwnConn DEF Conn, Closed, ConnType
    <3>4. v.answer # Nobody => Answerable(v.answer)
      BY <3>3 DEF AnswerInv, AllAnswerable
    <3>5. x.got.head.type # LASTPOSTS
      BY <1>1, <1>2 DEF REGISTRATION, LASTPOSTS
    <3> QED
      BY <3>1, <3>3, <3>4, <3>5, NoneCut
  <2> HIDE DEF left
  <2>3. ClientOk(x, v, left, rest[c])
    BY <1>2, <2>2 DEF ClientOk
  <2>4. LeftIn(loop', Serving', x.conn) = left /\ conns'[x.conn] = v /\ rest'[c] = rest[c]
    BY <1>1, SameLoop DEF left
  <2> QED
    BY <1>3, <2>3, <2>4 DEF OwnOk
<1> QED
  BY <1>4, <1>5, ClientSideAnswers

LEMMA HungUpView ==
  ASSUME NEW k \in DOMAIN conns, conns[k] \in ConnType, NEW end
  PROVE  /\ HungUp(k, end).open = conns[k].open \ {end}
         /\ HungUp(k, end) # Closed => /\ HungUp(k, end).answer = conns[k].answer
                                       /\ HungUp(k, end).out = conns[k].out
                                       /\ HungUp(k, end).dropped = conns[k].dropped
BY HungUpTyped DEF HungUp, ConnType

LEMMA LeavesAnswers ==
  ASSUME TypeInv, TypeInv', AnswerInv, NEW c \in Clients, client[c].conn # 0,
         NEW pc \in {"menu", "ended"}, Leaves(c, pc),
         pc = "menu" => client[c].pc \in {"show", "add"},
         UNCHANGED <<rest, murky>>, UNCHANGED serverVars
  PROVE  AnswerInv'
<1> DEFINE k == client[c].conn
           y == HungUp(k, "client")
           x == [client[c] EXCEPT !.pc = pc, !.conn = 0, !.got = Nobody]
<1>1. client' = [client EXCEPT ![c] = x] /\ conns' = [conns EXCEPT ![k] = y]
  BY DEF Leaves
<1>2. k \in DOMAIN conns /\ conns[k] \in ConnType /\ conns[k] # Closed
  BY OwnConn DEF Conn, Closed, ConnType
<1>3. /\ y.open = conns[k].open \ {"client"}
      /\ y # Closed => y.answer = conns[k].answer /\ y.out = conns[k].out
  BY <1>2, HungUpView
<1>4. x.pc = pc
  BY ClientTypeOf DEF ClientType
<1> HIDE DEF x, y
<1>5. /\ DOMAIN conns' = DOMAIN conns
      /\ \A j \in DOMAIN conns : conns'[j] = IF j = k THEN y ELSE conns[j]
  BY <1>1 DEF TypeInv, ConnsTyped
<1> HIDE DEF k
<1>6. SameAnswers
  <2>1. "server" \in y.open <=> "server" \in conns[k].open
    BY <1>3
  <2> QED
    BY <1>2, <1>3, <1>5, <2>1 DEF SameAnswers
<1>7. client'[c] = x /\ \A d \in Clients \ {c} : client'[d] = client[d]
  BY <1>1, ClientSet
<1>8. OneClient(c)
  BY <1>5, <1>7 DEF OneClient, k
<1>9. c \in murky' \/ OwnOk(c)'
  <2> SUFFICES ASSUME c \notin murky' PROVE OwnOk(c)'
    OBVIOUS
  <2>1. pc = "menu" => rest'[c] = <<>>
    BY OwnOkOf DEF ClientOk
  <2>2. client'[c].pc = pc
    BY <1>4, <1>7
  <2> QED
    BY <2>1, <2>2 DEF OwnOk, ClientOk
<1> QED
  BY <1>6, <1>8, <1>9, ClientSideAnswers

LEMMA StutterAnswers ==
  ASSUME AnswerInv,
         UNCHANGED <<conns, client, rest, murky, loop, at, fds, server, backlog>>
  PROVE  AnswerInv'
<1>1. Serving' = Serving /\ Fd' = Fd
  BY DEF Serving, Fd
<1>2. AllAnswerable' /\ (NotYet => NotYet') /\ (NoneLost => NoneLost')
  BY <1>1 DEF AnswerInv, AllAnswerable, NotYet, NoneLost
<1>3. ClientAnswers'
  BY <1>1 DEF AnswerInv, ClientAnswers, OwnOk
<1> QED
  BY <1>2, <1>3 DEF AnswerInv

LEMMA ClientLeavesAnswers ==
  ASSUME TypeInv, TypeInv', AnswerInv, NEW c \in Clients,
         AddAccount(c) \/ Done(c) \/ Leave(c)
  PROVE  AnswerInv'
<1>0. UNCHANGED serverVars /\ UNCHANGED rest /\ UNCHANGED murky
  BY DEF AddAccount, Done, Leave
<1>1. client[c].conn # 0
  BY DEF AddAccount, Done, Leave, TypeInv, ClientHolds
<1>2. CASE AddAccount(c) /\ WriteId(c) /\ UNCHANGED <<client, conns>>
  BY <1>0, <1>2, StutterAnswers DEF serverVars
<1>3. CASE AddAccount(c) /\ Leaves(c, "menu")
  BY <1>0, <1>1, <1>3, LeavesAnswers DEF AddAccount
<1>4. CASE AddAccount(c) /\ Leaves(c, "ended")
  BY <1>0, <1>1, <1>4, LeavesAnswers
<1>5. CASE Done(c)
  BY <1>0, <1>1, <1>5, LeavesAnswers DEF Done
<1>6. CASE Leave(c)
  BY <1>0, <1>1, <1>6, LeavesAnswers DEF Leave
<1> QED
  BY <1>2, <1>3, <1>4, <1>5, <1>6 DEF AddAccount

LEMMA AskAnswers ==
  ASSUME TypeInv, TypeInv', AnswerInv, NEW c \in Clients, NEW r \in Inputs[c],
         Ask(c, r)
  PROVE  AnswerInv'
<1>0. client \in [Clients -> ClientType] /\ client[c].pc = "menu"
      /\ UNCHANGED rest /\ UNCHANGED murky
  BY DEF TypeInv, ClientsTyped, Ask
<1>1. CASE server = "dead"
  <2> DEFINE x == [client[c] EXCEPT !.pc = "ended"]
  <2>1. /\ client' = [client EXCEPT ![c] = x]
        /\ UNCHANGED conns /\ UNCHANGED serverVars
    BY <1>1 DEF Ask, serverVars
  <2>2. x.pc = "ended"
    BY <1>0 DEF ClientType
  <2> HIDE DEF x
  <2>3. client'[c] = x /\ \A d \in Clients \ {c} : client'[d] = client[d]
    BY <2>1, ClientSet
  <2>4. SameAnswers /\ OneClient(c)
    BY <1>0, <2>1, <2>3, ConnsKept DEF OneClient
  <2>5. OwnOk(c)'
    BY <2>2, <2>3 DEF OwnOk, ClientOk
  <2> QED
    BY <2>4, <2>5, ClientSideAnswers
<1>2. CASE server # "dead"
  <2> DEFINE new == [who |-> c, asked |-> Created(c, r), in |-> <<>>, out |-> <<>>,
                     open |-> {"client", "server"}, answer |-> Nobody,
                     dropped |-> FALSE]
             x == [client[c] EXCEPT !.pc = "send", !.conn = NextConn]
  <2>1. /\ conns' = Append(conns, new) /\ backlog' = Append(backlog, NextConn)
        /\ client' = [client EXCEPT ![c] = x]
        /\ UNCHANGED server /\ UNCHANGED at /\ UNCHANGED fds /\ UNCHANGED loop
    BY <1>2 DEF Ask
  <2>2. /\ Unanswered(new) /\ new.answer = Nobody /\ new.out = <<>>
        /\ new \in ConnType \cup {Closed} /\ x.pc = "send" /\ x.conn = NextConn
    BY <1>0, CreatedTyped, NobodyTyped DEF ConnType, Unanswered, ClientType
  <2> HIDE DEF new, x
  <2>3. /\ conns \in Seq(ConnType \cup {Closed}) /\ Len(conns) \in Nat
        /\ DOMAIN conns = 1..Len(conns) /\ backlog \in Seq(DOMAIN conns)
        /\ DOMAIN backlog = 1..Len(backlog) /\ Len(backlog) \in Nat
    BY LenProperties DEF TypeInv, ConnsTyped
  <2>4. /\ conns' \in Seq(ConnType \cup {Closed}) /\ Len(conns') = Len(conns) + 1
        /\ \A k \in DOMAIN conns : conns'[k] = conns[k]
        /\ conns'[NextConn] = new
    BY <2>1, <2>2, <2>3, AppendProperties DEF NextConn
  <2>5. /\ NextConn \notin DOMAIN conns
        /\ DOMAIN conns' = DOMAIN conns \cup {NextConn}
    BY <2>3, <2>4, LenProperties DEF NextConn
  <2>6. client'[c] = x /\ \A d \in Clients \ {c} : client'[d] = client[d]
    BY <2>1, ClientSet
  <2>7. Fd' = Fd /\ Serving' = Serving
    BY <2>1 DEF Fd, Serving
  <2>8. AllAnswerable'
    BY <2>2, <2>4, <2>5 DEF AnswerInv, AllAnswerable
  <2>9. /\ DOMAIN backlog' = 1..(Len(backlog) + 1)
        /\ \A i \in DOMAIN backlog : backlog'[i] = backlog[i]
        /\ backlog'[Len(backlog) + 1] = NextConn
    <3>1. NextConn \in DOMAIN conns' /\ backlog \in Seq(DOMAIN conns')
      BY <2>3, <2>5, SeqMonotonic
    <3>2. /\ Len(backlog') = Len(backlog) + 1
          /\ \A i \in 1..Len(backlog) : backlog'[i] = backlog[i]
          /\ backlog'[Len(backlog) + 1] = NextConn
          /\ backlog' \in Seq(DOMAIN conns')
      BY <2>1, <3>1, AppendProperties
    <3> QED
      BY <2>3, <3>2, LenProperties
  <2>10. \A i \in DOMAIN backlog' :
           \/ i \in DOMAIN backlog /\ backlog'[i] = backlog[i]
           \/ backlog'[i] = NextConn
    <3>1. \A i \in 1..(Len(backlog) + 1) : i \in 1..Len(backlog) \/ i = Len(backlog) + 1
      BY <2>3
    <3> QED
      BY <2>3, <2>9, <3>1
  <2>11. DOMAIN backlog \subseteq DOMAIN backlog' /\ Len(backlog) + 1 \in DOMAIN backlog'
    BY <2>3, <2>9
  <2>12. ASSUME server' = "serving" PROVE NotYet' /\ NoneLost'
    <3>1. NotYet /\ NoneLost /\ server # "dead"
      BY <2>1, <2>12 DEF AnswerInv
    <3>2. \A i \in DOMAIN backlog' : Unanswered(conns'[backlog'[i]])
      <4>1. \A i \in DOMAIN backlog : conns'[backlog[i]] = conns[backlog[i]]
        BY <2>4, <3>1, ServerKeeps
      <4> QED
        BY <2>2, <2>4, <2>10, <3>1, <4>1 DEF NotYet
    <3>3. \A fd \in Fds : at[fd] # 0 => conns'[at[fd]] = conns[at[fd]]
      BY <2>4, <3>1, ServerKeeps
    <3>4. loop.pc = "send" => conns'[Serving] = conns[Serving]
      BY <2>4, ServedConn
    <3>5. NotYet'
      BY <2>1, <2>7, <3>1, <3>2, <3>3, <3>4 DEF NotYet
    <3>6. NoneLost'
      <4> SUFFICES ASSUME NEW k \in DOMAIN conns', "server" \in conns'[k].open
                   PROVE  \/ \E i \in DOMAIN backlog' : backlog'[i] = k
                          \/ \E fd \in Fds : at[fd] = k
        BY <2>1 DEF NoneLost
      <4>1. CASE k = NextConn
        BY <2>9, <2>11, <4>1
      <4>2. CASE k \in DOMAIN conns
        <5>1. \/ \E i \in DOMAIN backlog : backlog[i] = k
              \/ \E fd \in Fds : at[fd] = k
          BY <2>4, <3>1, <4>2 DEF NoneLost
        <5> QED
          BY <2>9, <2>11, <5>1
      <4> QED
        BY <2>5, <4>1, <4>2
    <3> QED
      BY <3>5, <3>6
  <2>13. ASSUME NEW d \in Clients \ murky', d # c PROVE OwnOk(d)'
    <3>1. client'[d] = client[d] /\ rest'[d] = rest[d] /\ OwnOk(d)
      BY <1>0, <2>6, <2>13 DEF AnswerInv, ClientAnswers
    <3>2. client[d].conn # 0 => conns'[client[d].conn] = conns[client[d].conn]
      BY <2>4, OwnConn
    <3>3. client[d].conn # 0 => SameView(conns[client[d].conn], conns'[client[d].conn])
      BY <3>2 DEF SameView
    <3>4. LeftIn(loop', Serving', client[d].conn) = LeftIn(loop, Serving, client[d].conn)
      BY <2>1, <2>7
    <3> QED
      BY <3>1, <3>3, <3>4, OwnStill
  <2>14. ASSUME c \notin murky' PROVE OwnOk(c)'
    <3>1. rest'[c] = <<>>
      BY <1>0, <2>14, OwnOkOf DEF ClientOk
    <3>2. ClientOk(x, new, LeftIn(loop', Serving', NextConn), rest'[c])
      BY <2>2, <3>1 DEF ClientOk
    <3> QED
      BY <2>2, <2>4, <2>6, <3>2 DEF OwnOk
  <2>15. ClientAnswers'
    BY <2>13, <2>14 DEF ClientAnswers
  <2> QED
    BY <2>8, <2>12, <2>15 DEF AnswerInv
<1> QED
  BY <1>1, <1>2

-----------------------------------------------------------------------------
(* The server's steps *)

LEMMA ClientsUndisturbed ==
  ASSUME TypeInv, AnswerInv, UNCHANGED client, UNCHANGED rest, murky \subseteq murky',
         \A d \in Clients \ murky' : client[d].conn # 0 =>
           \/ OwnOk(d)'
           \/ /\ SameView(conns[client[d].conn], conns'[client[d].conn])
              /\ LeftIn(loop', Serving', client[d].conn)
                   \subseteq LeftIn(loop, Serving, client[d].conn)
  PROVE  ClientAnswers'
<1> SUFFICES ASSUME NEW d \in Clients \ murky' PROVE OwnOk(d)'
  BY DEF ClientAnswers
<1>1. OwnOk(d) /\ client'[d] = client[d] /\ rest'[d] = rest[d]
  BY DEF AnswerInv, ClientAnswers
<1> QED
  BY <1>1, OwnStill

LEMMA NothingLeft ==
  ASSUME loop'.pc # "send"
  PROVE  \A k : LeftIn(loop', Serving', k) \subseteq LeftIn(loop, Serving, k)
BY DEF LeftIn

LEMMA PollAnswers ==
  ASSUME TypeInv, TypeInv', AnswerInv, Poll \/ NoMoreToAccept
  PROVE  AnswerInv'
<1>1. /\ loop.pc # "send" /\ server = "serving" /\ UNCHANGED conns
      /\ UNCHANGED <<server, backlog, fds, at>>
      /\ UNCHANGED client /\ UNCHANGED murky /\ UNCHANGED rest
  BY DEF Poll, NoMoreToAccept, clientVars
<1>2. PICK ready : loop' = Turn(ready)
  BY DEF Poll, NoMoreToAccept
<1>3. loop'.pc # "send"
  BY <1>2 DEF Turn, Resting
<1>4. AllAnswerable' /\ NotYet' /\ NoneLost'
  BY <1>1, <1>3 DEF AnswerInv, AllAnswerable, NotYet, NoneLost
<1>5. ClientAnswers'
  <2>1. \A k : SameView(conns[k], conns'[k])
    BY <1>1 DEF SameView
  <2> QED
    BY <1>1, <1>3, <2>1, NothingLeft, ClientsUndisturbed
<1> QED
  BY <1>4, <1>5 DEF AnswerInv

LEMMA AcceptAnswers ==
  ASSUME TypeInv, TypeInv', AnswerInv, Accept
  PROVE  AnswerInv'
<1> DEFINE k == Head(backlog)
           fd == FreeFd
<1>1. /\ at' = [at EXCEPT ![fd] = k] /\ backlog' = Tail(backlog)
      /\ backlog # <<>> /\ loop.pc = "accept" /\ server = "serving"
      /\ UNCHANGED server /\ UNCHANGED loop
      /\ UNCHANGED conns /\ UNCHANGED client /\ UNCHANGED murky /\ UNCHANGED rest
  BY DEF Accept, clientVars
<1>2. fd \in Fds /\ at[fd] = 0
  BY <1>1, FreeFdIs
<1>3. /\ backlog \in Seq(DOMAIN conns) /\ at \in [Fds -> {0} \cup DOMAIN conns]
      /\ conns \in Seq(ConnType \cup {Closed}) /\ DOMAIN conns = 1..Len(conns)
      /\ DOMAIN backlog = 1..Len(backlog) /\ Len(backlog) \in Nat
  BY LenProperties DEF TypeInv, ConnsTyped
<1>4. k \in DOMAIN conns /\ k = backlog[1] /\ 1 \in DOMAIN backlog /\ k # 0
  BY <1>1, <1>3, HeadTailProperties, EmptySeq
<1>5. /\ DOMAIN backlog' = 1..(Len(backlog) - 1)
      /\ \A i \in 1..(Len(backlog) - 1) : backlog'[i] = backlog[i + 1]
  <2>1. /\ backlog' \in Seq(DOMAIN conns) /\ Len(backlog') = Len(backlog) - 1
        /\ \A i \in 1..Len(backlog') : backlog'[i] = backlog[i + 1]
    BY <1>1, <1>3, HeadTailProperties
  <2>2. DOMAIN backlog' = 1..Len(backlog')
    BY <2>1, LenProperties
  <2> QED
    BY <2>1, <2>2
<1>6. \A i \in DOMAIN backlog' : i + 1 \in DOMAIN backlog /\ backlog'[i] = backlog[i + 1]
  BY <1>3, <1>5
<1>7. \A i \in DOMAIN backlog : i = 1 \/ (i - 1 \in DOMAIN backlog' /\ backlog'[i - 1] = backlog[i])
  <2> SUFFICES ASSUME NEW i \in DOMAIN backlog, i # 1
               PROVE  i - 1 \in DOMAIN backlog' /\ backlog'[i - 1] = backlog[i]
    OBVIOUS
  <2>1. i - 1 \in 1..(Len(backlog) - 1) /\ (i - 1) + 1 = i
    BY <1>3
  <2> QED
    BY <1>5, <2>1
<1> HIDE DEF k, fd
<1>8. at'[fd] = k /\ \A gd \in Fds \ {fd} : at'[gd] = at[gd]
  BY <1>1, <1>2, <1>3
<1>9. NotYet /\ NoneLost /\ AllAnswerable
  BY <1>1 DEF AnswerInv
<1>10. NotYet'
  <2>1. \A i \in DOMAIN backlog' : Unanswered(conns[backlog'[i]])
    BY <1>6, <1>9 DEF NotYet
  <2>2. Unanswered(conns[k])
    BY <1>4, <1>9 DEF NotYet
  <2>3. \A gd \in Fds : at'[gd] # 0 => Unanswered(conns[at'[gd]])
    <3>1. \A gd \in Fds \ {fd} : at'[gd] # 0 => Unanswered(conns[at'[gd]])
      BY <1>1, <1>8, <1>9 DEF NotYet
    <3> QED
      BY <1>8, <2>2, <3>1
  <2> QED
    BY <1>1, <2>1, <2>3 DEF NotYet
<1>11. NoneLost'
  <2> SUFFICES ASSUME NEW j \in DOMAIN conns, "server" \in conns[j].open
               PROVE  \/ \E i \in DOMAIN backlog' : backlog'[i] = j
                      \/ \E gd \in Fds : at'[gd] = j
    BY <1>1 DEF NoneLost
  <2>1. j # 0
    BY <1>3
  <2>2. CASE \E i \in DOMAIN backlog : backlog[i] = j
    <3>1. PICK i \in DOMAIN backlog : backlog[i] = j
      BY <2>2
    <3>2. CASE i = 1
      BY <1>2, <1>4, <1>8, <3>1, <3>2
    <3>3. CASE i # 1
      BY <1>7, <3>1, <3>3
    <3> QED
      BY <3>2, <3>3
  <2>3. CASE \E gd \in Fds : at[gd] = j
    BY <1>2, <1>8, <2>1, <2>3
  <2> QED
    BY <1>9, <2>2, <2>3 DEF NoneLost
<1>12. AllAnswerable'
  BY <1>1, <1>9 DEF AllAnswerable
<1>13. ClientAnswers'
  <2>1. \A j : SameView(conns[j], conns'[j])
    BY <1>1 DEF SameView
  <2>2. loop'.pc # "send"
    BY <1>1
  <2> QED
    BY <1>1, <2>1, <2>2, NothingLeft, ClientsUndisturbed
<1> QED
  BY <1>10, <1>11, <1>12, <1>13 DEF AnswerInv

LEMMA ReceiveAnswers ==
  ASSUME TypeInv, TypeInv', AnswerInv, Receive
  PROVE  AnswerInv'
<1> DEFINE k == Serving
<1>1. /\ loop.pc = "recv" /\ server = "serving"
      /\ UNCHANGED <<server, backlog, at, fds, loop>> /\ UNCHANGED loop
      /\ UNCHANGED client /\ UNCHANGED murky /\ UNCHANGED rest
  BY DEF Receive, clientVars
<1>2. PICK n : conns' = [conns EXCEPT ![k].in = SubSeq(@, n + 1, Len(@))]
  BY DEF Receive
<1>3. k \in DOMAIN conns /\ conns[k] \in ConnType /\ conns[k] # Closed
  BY <1>1, ServedConn DEF ConnType, Closed
<1> DEFINE y == [conns[k] EXCEPT !.in = SubSeq(conns[k].in, n + 1, Len(conns[k].in))]
<1>4. /\ conns' = [conns EXCEPT ![k] = y] /\ y.answer = conns[k].answer
      /\ y.out = conns[k].out /\ y.open = conns[k].open
      /\ y.dropped = conns[k].dropped
  BY <1>2, <1>3 DEF ConnType
<1> HIDE DEF y, k
<1>5. /\ SameAnswers /\ conns'[k] = y
      /\ \A j \in DOMAIN conns : j # k => conns'[j] = conns[j]
  BY <1>3, <1>4, OneConnChanges
<1>6. \A j \in DOMAIN conns : SameView(conns[j], conns'[j])
  BY <1>4, <1>5 DEF SameView
<1>7. AllAnswerable' /\ (server' = "serving" => NotYet' /\ NoneLost')
  BY <1>1, <1>5, ServerSideStill
<1>8. ClientAnswers'
  <2>1. \A d \in Clients : client[d].conn # 0 =>
          SameView(conns[client[d].conn], conns'[client[d].conn])
    BY <1>6, OwnConn
  <2>2. loop'.pc # "send"
    BY <1>1
  <2> QED
    BY <1>1, <2>1, <2>2, NothingLeft, ClientsUndisturbed
<1> QED
  BY <1>7, <1>8 DEF AnswerInv

LEMMA GiveUpAnswers ==
  ASSUME TypeInv, TypeInv', AnswerInv, GiveUp
  PROVE  AnswerInv'
<1>1. /\ UNCHANGED conns /\ UNCHANGED client /\ UNCHANGED murky /\ UNCHANGED rest
      /\ server' = "stopped" /\ loop'.pc # "send"
  BY DEF GiveUp, Stop, Resting, clientVars
<1>2. AllAnswerable'
  BY <1>1 DEF AnswerInv, AllAnswerable
<1>3. \A j : SameView(conns[j], conns'[j])
  BY <1>1 DEF SameView
<1>4. ClientAnswers'
  BY <1>1, <1>3, NothingLeft, ClientsUndisturbed
<1> QED
  BY <1>1, <1>2, <1>4 DEF AnswerInv

(* It drops the connection it serves.                                      *)
LEMMA DropAnswers ==
  ASSUME TypeInv, TypeInv', AnswerInv, Drop
  PROVE  AnswerInv'
<1> DEFINE k == Serving
           h == HungUp(k, "server")
           f == IF h = Closed THEN Closed ELSE [h EXCEPT !.dropped = TRUE]
<1>1. /\ loop.pc \in {"recv", "send"} /\ conns' = [conns EXCEPT ![k] = f]
      /\ UNCHANGED client /\ UNCHANGED murky /\ UNCHANGED rest
      /\ server' = "stopped" /\ loop'.pc # "send"
  BY DEF Drop, Stop, Resting, clientVars
<1>2. k \in DOMAIN conns /\ conns[k] \in ConnType /\ conns[k] # Closed
  BY <1>1, ServedConn DEF Serving, ConnType, Closed
<1>3. /\ h \in ConnType \cup {Closed} /\ h.open = conns[k].open \ {"server"}
      /\ h # Closed => h.answer = conns[k].answer /\ h.out = conns[k].out
  BY <1>2, HungUpTyped, HungUpView
<1> HIDE DEF h
<1>4. f # Closed => /\ f.answer = conns[k].answer /\ f.out = conns[k].out
                    /\ f.dropped = TRUE
  <2> SUFFICES ASSUME h # Closed
               PROVE  /\ f.answer = conns[k].answer /\ f.out = conns[k].out
                      /\ f.dropped = TRUE
    OBVIOUS
  <2>1. h \in ConnType /\ f = [h EXCEPT !.dropped = TRUE]
    BY <1>3
  <2> QED
    BY <1>3, <2>1 DEF ConnType
<1>5. "client" \in conns[k].open => f # Closed
  <2> SUFFICES ASSUME "client" \in conns[k].open PROVE f # Closed
    OBVIOUS
  <2>1. h # Closed
    BY <1>3 DEF Closed
  <2>2. h \in ConnType /\ f = [h EXCEPT !.dropped = TRUE]
    BY <1>3, <2>1
  <2>3. f \in ConnType
    BY <2>2 DEF ConnType
  <2> QED
    BY <2>3 DEF ConnType, Closed
<1> HIDE DEF f, k
<1>6. /\ DOMAIN conns' = DOMAIN conns /\ conns'[k] = f
      /\ \A j \in DOMAIN conns : j # k => conns'[j] = conns[j]
  BY <1>1, <1>2 DEF TypeInv, ConnsTyped
<1>7. AllAnswerable'
  BY <1>2, <1>4, <1>6 DEF AnswerInv, AllAnswerable
<1>8. \A d \in Clients : client[d].conn # 0 =>
        SameView(conns[client[d].conn], conns'[client[d].conn])
  <2> SUFFICES ASSUME NEW d \in Clients, client[d].conn # 0
               PROVE  SameView(conns[client[d].conn], conns'[client[d].conn])
    OBVIOUS
  <2>1. client[d].conn \in DOMAIN conns /\ "client" \in conns[client[d].conn].open
    BY OwnConn DEF Conn
  <2>2. CASE client[d].conn = k
    <3>1. /\ conns'[k].answer = conns[k].answer /\ conns'[k].out = conns[k].out
          /\ conns'[k].dropped = TRUE
      BY <1>4, <1>5, <1>6, <2>1, <2>2
    <3> QED
      BY <2>2, <3>1 DEF SameView
  <2>3. CASE client[d].conn # k
    <3>1. conns'[client[d].conn] = conns[client[d].conn]
      BY <1>6, <2>1, <2>3
    <3> QED
      BY <3>1 DEF SameView
  <2> QED
    BY <2>2, <2>3
<1>9. ClientAnswers'
  BY <1>1, <1>8, NothingLeft, ClientsUndisturbed
<1> QED
  BY <1>1, <1>7, <1>9 DEF AnswerInv

(* It ends in the middle of no answer that a client waits for.             *)
LEMMA DieAnswers ==
  ASSUME TypeInv, TypeInv', AnswerInv, Die, server = "serving",
         loop.pc = "send" => "client" \notin conns[Serving].open
  PROVE  AnswerInv'
<1>1. /\ UNCHANGED client /\ UNCHANGED murky /\ UNCHANGED rest
      /\ server' = "dead" /\ loop'.pc # "send"
      /\ conns' = [k \in DOMAIN conns |-> IF conns[k] = Closed THEN Closed
                                          ELSE HungUp(k, "server")]
  BY DEF Die, Stop, Resting, clientVars
<1>2. NotYet /\ NoneLost
  BY DEF AnswerInv
<1>3. AllAnswerable'
  <2> SUFFICES ASSUME NEW k \in DOMAIN conns, conns'[k] # Closed,
                      conns'[k].answer # Nobody
               PROVE  Answerable(conns'[k].answer)
    BY <1>1 DEF AllAnswerable
  <2>1. conns[k] # Closed /\ conns'[k] = HungUp(k, "server")
    BY <1>1
  <2>2. conns'[k].answer = conns[k].answer
    BY <2>1, ConnTypeOf, HungUpView
  <2> QED
    BY <2>1, <2>2 DEF AnswerInv, AllAnswerable
<1>4. ASSUME NEW d \in Clients \ murky', client[d].conn # 0 PROVE OwnOk(d)'
  <2> DEFINE k == client[d].conn
             v == conns[k]
             w == conns'[k]
             left == LeftIn(loop, Serving, k)
  <2>1. k \in DOMAIN conns /\ v \in ConnType /\ "client" \in v.open /\ v # Closed
    BY <1>4, OwnConn DEF Conn, Closed, ConnType
  <2>2. w = HungUp(k, "server")
    BY <1>1, <2>1
  <2>3. /\ w.open = v.open \ {"server"} /\ w # Closed
        /\ w.answer = v.answer /\ w.out = v.out /\ w.dropped = v.dropped
    <3>1. /\ w.open = v.open \ {"server"}
          /\ w # Closed => /\ w.answer = v.answer /\ w.out = v.out
                           /\ w.dropped = v.dropped
      BY <2>1, <2>2, HungUpView
    <3>2. w # Closed
      BY <2>1, <3>1 DEF Closed
    <3> QED
      BY <3>1, <3>2
  <2>4. "server" \in v.open => v.answer = Nobody
    <3> SUFFICES ASSUME "server" \in v.open PROVE v.answer = Nobody
      OBVIOUS
    <3>1. CASE \E i \in DOMAIN backlog : backlog[i] = k
      BY <1>2, <3>1 DEF NotYet, Unanswered
    <3>2. CASE \E fd \in Fds : at[fd] = k
      <4>1. PICK fd \in Fds : at[fd] = k
        BY <3>2
      <4>2. loop.pc = "send" => Fd # fd
        BY <2>1, <4>1 DEF Serving
      <4> QED
        BY <1>2, <1>4, <4>1, <4>2 DEF NotYet, Unanswered
    <3> QED
      BY <1>2, <2>1, <3>1, <3>2 DEF NoneLost
  <2>5. ClientOk(client[d], v, left, rest[d])
    BY <1>1, OwnOkOf
  <2>6. LeftIn(loop', Serving', k) = {}
    BY <1>1 DEF LeftIn
  <2> HIDE DEF left, w, v
  <2>7. Unanswered(v) => Unanswered(w)
    BY <2>3 DEF Unanswered
  <2>8. Taking(v, left, client[d].got, rest[d]) => Taking(w, {}, client[d].got, rest[d])
    <3> SUFFICES ASSUME Taking(v, left, client[d].got, rest[d])
                 PROVE  Taking(w, {}, client[d].got, rest[d])
      OBVIOUS
    <3>1. PICK n \in Took(client[d].got)..NbFrames(v.answer) :
            /\ Sent(v, left, n) /\ Begun(client[d].got, v.answer)
            /\ Framed(rest[d] \o v.out, v.answer, Took(client[d].got), n)
      BY DEF Taking
    <3>2. n = NbFrames(v.answer) \/ v.dropped
      <4>1. CASE "server" \in v.open
        <5>1. NbFrames(v.answer) = 0 /\ n \in 0..NbFrames(v.answer)
          BY <2>4, <3>1, <4>1 DEF NbFrames, Sent
        <5> QED
          BY <5>1
      <4>2. CASE "server" \notin v.open
        BY <3>1, <4>2 DEF Sent
      <4> QED
        BY <4>1, <4>2
    <3>3. Sent(w, {}, n)
      BY <2>3, <3>1, <3>2 DEF Sent
    <3> QED
      BY <2>3, <3>1, <3>3 DEF Taking
  <2>9. Shown(client[d].got, v) => Shown(client[d].got, w)
    BY <2>3 DEF Shown
  <2>10. ClientOk(client[d], w, {}, rest[d])
    BY <2>3, <2>5, <2>7, <2>8, <2>9 DEF ClientOk
  <2> QED
    BY <1>1, <2>6, <2>10 DEF OwnOk, w
<1>5. ClientAnswers'
  BY <1>1, <1>4, ClientsUndisturbed
<1> QED
  BY <1>1, <1>3, <1>5 DEF AnswerInv

(* The server gives its answer to a request that came.                     *)
LEMMA Answered ==
  ASSUME NEW v \in ConnType, Unanswered(v), "server" \in v.open,
         NEW a \in AnswerType, a # Nobody,
         NEW x, x.got \in AnswerType, x.pc # "send", NEW b \in Seq(Byte),
         NEW left, ClientOk(x, v, left, b),
         NEW w, w.answer = a, w.out = v.out, w.open = v.open
  PROVE  ClientOk(x, w, {Frames(a)}, b)
<1>1. v.answer = Nobody /\ v.out = <<>> /\ NbFrames(v.answer) = 0
  BY DEF Unanswered, NbFrames
<1>2. x.pc \in {"menu", "send", "show", "add"} => b = <<>>
  BY DEF ClientOk
<1>3. x.pc \notin {"show", "add"}
  <2>1. DOMAIN v.answer.posts = {}
    BY <1>1 DEF Nobody
  <2>2. Shown(x.got, v) => x.got = Nobody
    BY <1>1, <2>1 DEF Shown
  <2> QED
    BY <1>1, <2>2 DEF ClientOk
<1>4. ASSUME x.pc = "recv" PROVE Taking(w, {Frames(a)}, x.got, b)
  <2>1. PICK n \in Took(x.got)..0 : Framed(b \o v.out, v.answer, Took(x.got), n)
    BY <1>1, <1>4 DEF ClientOk, Taking
  <2>2. Took(x.got) \in Nat /\ NbFrames(a) \in Nat
    BY NbFramesNat DEF Took
  <2>3. Took(x.got) = 0 /\ n = 0
    BY <2>1, <2>2
  <2>4. x.got = Nobody
    BY <2>3, NbFramesNat DEF Took
  <2>5. b \o v.out = b /\ w.out = <<>>
    BY <1>1, ConcatEmptySeq
  <2>6. b = <<>>
    BY <2>1, <2>3, <2>5, FramedEmpty
  <2>7. b \o w.out = <<>>
    BY <1>1, <2>5, <2>6
  <2>8. Framed(b \o w.out, w.answer, Took(x.got), 0)
    BY <2>3, <2>7, FramedNone
  <2>9. LeftAfter(Frames(a), a, 0)
    BY AllLeft
  <2>10. Sent(w, {Frames(a)}, 0)
    BY <2>2, <2>9 DEF Sent
  <2>11. Begun(x.got, w.answer)
    BY <2>4 DEF Begun
  <2>12. 0 \in Took(x.got)..NbFrames(w.answer)
    BY <2>2, <2>3
  <2> QED
    BY <2>8, <2>10, <2>11, <2>12 DEF Taking
<1> QED
  BY <1>2, <1>3, <1>4 DEF ClientOk

(* It sends the next frame.                                                *)
LEMMA FrameSent ==
  ASSUME NEW v \in ConnType, v.answer # Nobody,
         NEW out \in Seq(Seq(Byte)), out # <<>>, ~ HasCR(Head(out)),
         NEW x, x.got \in AnswerType, NEW b \in Seq(Byte), ClientOk(x, v, {out}, b),
         NEW w, w.answer = v.answer, w.open = v.open, w.dropped = v.dropped,
         w.out = (v.out \o Head(out)) \o CRLF
  PROVE  ClientOk(x, w, {Tail(out)}, b)
<1> DEFINE a == v.answer
           i == Took(x.got)
           f == Head(out)
<1>1. /\ a \in AnswerType /\ v.out \in Seq(Byte) /\ NbFrames(a) \in Nat
      /\ i \in Nat
  BY TypedAnswer, NbFramesNat DEF Took
<1>2. x.pc \in {"menu", "send", "show", "add"} => b = <<>>
  BY DEF ClientOk
<1>3. x.pc # "send"
  BY DEF ClientOk, Unanswered
<1>4. /\ x.pc \in {"show", "add"} => x.got # Nobody
      /\ x.pc = "show" => Shown(x.got, w)
      /\ x.pc = "add" => x.got = w.answer
  BY DEF ClientOk, Shown
<1>5. ASSUME x.pc = "recv" PROVE Taking(w, {Tail(out)}, x.got, b)
  <2>1. PICK n \in i..NbFrames(a) :
          Sent(v, {out}, n) /\ Begun(x.got, a) /\ Framed(b \o v.out, a, i, n)
    BY <1>5 DEF ClientOk, Taking
  <2>2. n \in 0..NbFrames(a) /\ LeftAfter(out, a, n)
    BY <2>1 DEF Sent
  <2>3. n + 1 \in 1..NbFrames(a) /\ f = Frame(a, n + 1) /\ LeftAfter(Tail(out), a, n + 1)
    BY <1>1, <2>2, LeftLess
  <2>4. f \in Seq(Byte)
    BY <1>1, <2>3, FrameTyped
  <2> DEFINE u == b \o v.out
  <2>5. b \o w.out = u \o (f \o CRLF)
    <3> DEFINE o == v.out
               c == CRLF
    <3>1. o \in Seq(Byte) /\ c \in Seq(Byte)
      BY <1>1, CRLFTyped
    <3>2. w.out = (o \o f) \o c
      OBVIOUS
    <3> HIDE DEF o, c, f
    <3>3. f \o c \in Seq(Byte)
      BY <2>4, <3>1, ConcatProperties
    <3>4. (o \o f) \o c = o \o (f \o c)
      BY <2>4, <3>1, ConcatAssociative, SMTT(30)
    <3> DEFINE g == f \o c
    <3>5. g \in Seq(Byte) /\ w.out = o \o g
      BY <3>2, <3>3, <3>4
    <3> HIDE DEF g
    <3>6. (b \o o) \o g = b \o (o \o g)
      BY <3>1, <3>5, ConcatAssociative, SMTT(30)
    <3> QED
      BY <3>5, <3>6 DEF g, o, c
  <2>6. u \in Seq(Byte)
    BY <1>1, ConcatProperties
  <2> HIDE DEF f, u, i, a
  <2>7. i <= n /\ n \in Nat /\ n + 1 <= NbFrames(a)
    BY <1>1, <2>1, <2>3
  <2>8. Framed(b \o w.out, a, i, n + 1)
    <3>1. Framed(u, a, i, n)
      BY <2>1 DEF u, a
    <3> QED
      BY <1>1, <2>3, <2>5, <2>6, <2>7, <3>1, FramedLonger
  <2>9. Sent(w, {Tail(out)}, n + 1)
    <3>1. \A j \in 1..(n + 1) : ~ HasCR(Frame(a, j))
      <4>1. \A j \in 1..n : ~ HasCR(Frame(a, j))
        BY <2>1 DEF Sent, a
      <4>2. ~ HasCR(Frame(a, n + 1))
        BY <2>3 DEF f
      <4>3. \A j \in 1..(n + 1) : j \in 1..n \/ j = n + 1
        BY <2>7
      <4> QED
        BY <4>1, <4>2, <4>3
    <3>2. "server" \notin w.open => n + 1 = NbFrames(a) \/ w.dropped
      <4>1. "server" \notin v.open => n = NbFrames(a) \/ v.dropped
        BY <2>1 DEF Sent, a
      <4> QED
        BY <1>1, <2>3, <2>7, <4>1
    <3>3. n + 1 \in 0..NbFrames(a)
      BY <1>1, <2>3
    <3>4. w.answer = a
      BY DEF a
    <3> QED
      BY <2>3, <3>1, <3>2, <3>3, <3>4 DEF Sent
  <2>10. n + 1 \in i..NbFrames(a) /\ w.answer = a
    BY <1>1, <2>7, <2>3 DEF a
  <2> QED
    BY <2>1, <2>8, <2>9, <2>10 DEF Taking, i, a
<1> QED
  BY <1>2, <1>3, <1>4, <1>5 DEF ClientOk

(* It closes the connection when all of them are sent.                     *)
LEMMA AllSent ==
  ASSUME NEW v \in ConnType, NEW x, NEW b, ClientOk(x, v, {<<>>}, b),
         NEW w, w.answer = v.answer, w.out = v.out, w.dropped = v.dropped
  PROVE  ClientOk(x, w, {}, b)
<1>1. NbFrames(v.answer) \in Nat
  BY TypedAnswer
<1>2. \A n : Sent(v, {<<>>}, n) => Sent(w, {}, n)
  <2> SUFFICES ASSUME NEW n, Sent(v, {<<>>}, n) PROVE Sent(w, {}, n)
    OBVIOUS
  <2>1. n \in 0..NbFrames(v.answer) /\ LeftAfter(<<>>, v.answer, n)
    BY DEF Sent
  <2>2. Len(<<>>) = NbFrames(v.answer) - n /\ Len(<<>>) = 0
    BY <2>1 DEF LeftAfter
  <2>3. n = NbFrames(v.answer)
    BY <1>1, <2>1, <2>2
  <2> QED
    BY <2>1, <2>3 DEF Sent
<1>3. Taking(v, {<<>>}, x.got, b) => Taking(w, {}, x.got, b)
  BY <1>2 DEF Taking
<1>4. Unanswered(v) => Unanswered(w)
  BY DEF Unanswered
<1>5. Shown(x.got, v) => Shown(x.got, w)
  BY DEF Shown
<1> QED
  BY <1>3, <1>4, <1>5 DEF ClientOk

(* Only the client of the connection that is served may notice.            *)
LEMMA OnlyServed ==
  ASSUME TypeInv, AnswerInv, UNCHANGED client, UNCHANGED rest, murky \subseteq murky',
         NEW k, loop'.pc = "send" => Serving' = k,
         \A j \in DOMAIN conns : j # k => conns'[j] = conns[j],
         \A d \in Clients \ murky' : client[d].conn = k => OwnOk(d)'
  PROVE  ClientAnswers'
<1> SUFFICES ASSUME NEW d \in Clients \ murky', client[d].conn # 0, client[d].conn # k
             PROVE  /\ SameView(conns[client[d].conn], conns'[client[d].conn])
                    /\ LeftIn(loop', Serving', client[d].conn)
                         \subseteq LeftIn(loop, Serving, client[d].conn)
  BY ClientsUndisturbed
<1>1. client[d].conn \in DOMAIN conns
  BY OwnConn
<1>2. LeftIn(loop', Serving', client[d].conn) = {}
  BY DEF LeftIn
<1> QED
  BY <1>1, <1>2 DEF SameView

LEMMA HandleAnswers ==
  ASSUME TypeInv, TypeInv', RequestInv, AnswerInv, loop.pc = "recv",
         server = "serving", HasCR(infos[Fd]),
         Handle(Cut(infos[Fd]), Rest(infos[Fd]))
  PROVE  AnswerInv'
<1> DEFINE k == Serving
           b == infos[Fd]
           rq == RequestIn(Cut(b))
<1>1. PICK a \in Answers(rq) :
        /\ loop' = [loop EXCEPT !.pc = "send", !.rq = rq, !.out = Frames(a)]
        /\ conns' = [conns EXCEPT ![k].answer = a]
  BY Zenon DEF Handle
<1>2. /\ Fd \in Fds /\ k \in DOMAIN conns /\ conns[k] \in ConnType /\ at[Fd] = k
      /\ k # 0 /\ conns[k] # Closed
  BY ServedConn DEF Serving, ConnType, Closed
<1>3. /\ UNCHANGED server /\ UNCHANGED backlog /\ UNCHANGED fds /\ UNCHANGED at
      /\ UNCHANGED client /\ UNCHANGED murky /\ UNCHANGED rest
  BY DEF Handle, clientVars
<1>4. a \in AnswerType /\ a # Nobody /\ Answerable(a)
  <2>1. b \in Seq(Byte)
    BY <1>2, ServerTypeOf
  <2>2. rq \in RequestType
    BY <2>1, CutTyped, RequestInTyped
  <2> HIDE DEF rq
  <2> QED
    BY <2>2, AnswersTyped, AnswersAnswerable
<1> HIDE DEF rq
<1>5. loop'.pc = "send" /\ loop'.slot = loop.slot /\ loop'.out = Frames(a)
  BY <1>1 DEF TypeInv, ServerTyped, LoopType
<1>6. Fd' = Fd /\ Serving' = k
  BY <1>3, <1>5 DEF Fd, Serving
<1> DEFINE x == [conns[k] EXCEPT !.answer = a]
<1>7. /\ conns' = [conns EXCEPT ![k] = x] /\ x.answer = a /\ x.out = conns[k].out
      /\ x.open = conns[k].open
  BY <1>1, <1>2 DEF ConnType
<1> HIDE DEF x, k
<1>8. /\ DOMAIN conns' = DOMAIN conns /\ conns'[k] = x
      /\ \A j \in DOMAIN conns : j # k => conns'[j] = conns[j]
  BY <1>2, <1>7 DEF TypeInv, ConnsTyped
<1>9. NotYet /\ NoneLost /\ AllAnswerable
  BY DEF AnswerInv
<1>10. Unanswered(conns[k]) /\ "server" \in conns[k].open
  BY <1>2, <1>9 DEF NotYet, TypeInv, ServerHolds
<1>11. NotYet'
  <2>1. \A i \in DOMAIN backlog : backlog[i] \in DOMAIN conns /\ backlog[i] # k
    BY ServedAlone, ServerKeeps DEF k
  <2>2. \A fd \in Fds \ {Fd} : at[fd] # 0 => at[fd] \in DOMAIN conns /\ at[fd] # k
    BY ServedAlone, ServerKeeps DEF k
  <2>3. \A i \in DOMAIN backlog : Unanswered(conns'[backlog[i]])
    BY <1>8, <1>9, <2>1 DEF NotYet
  <2>4. \A fd \in Fds \ {Fd} : at[fd] # 0 => Unanswered(conns'[at[fd]])
    BY <1>8, <1>9, <2>2 DEF NotYet
  <2> QED
    BY <1>3, <1>4, <1>5, <1>6, <1>7, <1>8, <2>3, <2>4 DEF NotYet
<1>12. NoneLost'
  BY <1>3, <1>7, <1>8, <1>9 DEF NoneLost
<1>13. AllAnswerable'
  BY <1>4, <1>7, <1>8, <1>9 DEF AllAnswerable
<1>14. ASSUME NEW d \in Clients \ murky', client[d].conn = k PROVE OwnOk(d)'
  <2>1. conns[k].who = d
    BY <1>2, <1>14, OwnConn DEF Conn
  <2>2. client[d].pc # "send"
    <3>1. Coming(conns, client, murky, k, b)
      BY <1>2 DEF RequestInv, Accepted
    <3>2. b # <<>>
      <4>1. b \in Seq(Byte)
        BY <1>2, ServerTypeOf
      <4>2. 1..Len(b) # {}
        BY <4>1, FirstCRIs
      <4> QED
        BY <4>1, <4>2, EmptySeq
    <3> HIDE DEF b
    <3> QED
      BY <1>14, <2>1, <3>1, <3>2 DEF Coming
  <2>3. ClientOk(client[d], conns[k], LeftIn(loop, Serving, k), rest[d])
    BY <1>3, <1>14, OwnOkOf
  <2>4. client[d].got \in AnswerType /\ rest[d] \in Seq(Byte)
    BY ClientTypeOf DEF ClientType, TypeInv, ClientsTyped
  <2>5. ClientOk(client[d], x, {Frames(a)}, rest[d])
    BY <1>2, <1>4, <1>7, <1>10, <2>2, <2>3, <2>4, Answered
  <2>6. LeftIn(loop', Serving', k) = {Frames(a)}
    BY <1>5, <1>6 DEF LeftIn
  <2> QED
    BY <1>3, <1>8, <1>14, <2>5, <2>6 DEF OwnOk
<1>15. ClientAnswers'
  BY <1>3, <1>6, <1>8, <1>14, OnlyServed
<1> QED
  BY <1>11, <1>12, <1>13, <1>15 DEF AnswerInv

LEMMA SendFrameAnswers ==
  ASSUME TypeInv, TypeInv', AnswerInv, SendFrame
  PROVE  AnswerInv'
<1> DEFINE k == Serving
           f == Head(loop.out)
           x == [conns[k] EXCEPT !.out = (conns[k].out \o f) \o CRLF]
<1>1. /\ loop.pc = "send" /\ server = "serving" /\ loop.out # <<>>
      /\ conns' = [conns EXCEPT ![k] = x]
      /\ loop' = [loop EXCEPT !.out = Tail(@)]
      /\ UNCHANGED server /\ UNCHANGED backlog /\ UNCHANGED fds /\ UNCHANGED at
      /\ UNCHANGED client /\ UNCHANGED rest /\ murky \subseteq murky'
      /\ HasCR(f) => conns[k].who \in murky'
  BY DEF SendFrame
<1>2. /\ k \in DOMAIN conns /\ conns[k] \in ConnType /\ conns[k] # Closed
      /\ Fd \in Fds /\ at[Fd] = k
  BY <1>1, ServedConn DEF Serving, ConnType, Closed
<1>3. x.answer = conns[k].answer /\ x.open = conns[k].open
      /\ x.out = (conns[k].out \o f) \o CRLF /\ x.dropped = conns[k].dropped
  BY <1>2 DEF ConnType
<1>4. /\ loop'.pc = "send" /\ loop'.slot = loop.slot /\ loop'.out = Tail(loop.out)
      /\ loop.out \in Seq(Seq(Byte))
  BY <1>1, SMTT(30) DEF TypeInv, ServerTyped, LoopType
<1>5. Fd' = Fd /\ Serving' = k
  BY <1>1, <1>4 DEF Fd, Serving
<1> HIDE DEF x, k, f
<1>6. /\ DOMAIN conns' = DOMAIN conns /\ conns'[k] = x
      /\ \A j \in DOMAIN conns : j # k => conns'[j] = conns[j]
  BY <1>1, <1>2 DEF TypeInv, ConnsTyped
<1>7. NotYet /\ NoneLost /\ AllAnswerable
  BY <1>1 DEF AnswerInv
<1>8. conns[k].answer # Nobody
  BY <1>1, <1>7 DEF NotYet, k
<1>9. NotYet'
  <2>1. \A i \in DOMAIN backlog : backlog[i] \in DOMAIN conns /\ backlog[i] # k
    BY <1>1, ServedAlone, ServerKeeps DEF k
  <2>2. \A fd \in Fds \ {Fd} : at[fd] # 0 => at[fd] \in DOMAIN conns /\ at[fd] # k
    BY <1>1, ServedAlone, ServerKeeps DEF k
  <2>3. \A i \in DOMAIN backlog : Unanswered(conns'[backlog[i]])
    BY <1>6, <1>7, <2>1 DEF NotYet
  <2>4. \A fd \in Fds \ {Fd} : at[fd] # 0 => Unanswered(conns'[at[fd]])
    BY <1>1, <1>6, <1>7, <2>2 DEF NotYet
  <2> QED
    BY <1>1, <1>3, <1>4, <1>5, <1>6, <1>8, <2>3, <2>4 DEF NotYet
<1>10. NoneLost'
  BY <1>1, <1>3, <1>6, <1>7 DEF NoneLost
<1>11. AllAnswerable'
  BY <1>2, <1>3, <1>6, <1>7 DEF AllAnswerable
<1>12. ASSUME NEW d \in Clients \ murky', client[d].conn = k PROVE OwnOk(d)'
  <2>1. conns[k].who = d
    <3>1. k # 0
      BY <1>1, ServedConn DEF k, Serving
    <3> QED
      BY <1>12, <3>1, OwnConn DEF Conn
  <2>2. ~ HasCR(f)
    BY <1>1, <1>12, <2>1
  <2>3. ClientOk(client[d], conns[k], LeftIn(loop, Serving, k), rest[d])
    BY <1>1, <1>12, OwnOkOf
  <2>4. client[d].got \in AnswerType /\ rest[d] \in Seq(Byte)
    BY ClientTypeOf DEF ClientType, TypeInv, ClientsTyped
  <2>5. LeftIn(loop, Serving, k) = {loop.out}
    BY <1>1 DEF LeftIn, k
  <2>6. ClientOk(client[d], x, {Tail(loop.out)}, rest[d])
    <3> DEFINE out == loop.out
    <3>1. out \in Seq(Seq(Byte)) /\ out # <<>> /\ f = Head(out)
      BY <1>1, <1>4 DEF f
    <3>2. ClientOk(client[d], conns[k], {out}, rest[d])
      BY <2>3, <2>5
    <3> HIDE DEF out
    <3>3. ClientOk(client[d], x, {Tail(out)}, rest[d])
      BY <1>2, <1>3, <1>8, <2>2, <2>4, <3>1, <3>2, FrameSent
    <3> QED
      BY <3>3 DEF out
  <2>7. LeftIn(loop', Serving', k) = {Tail(loop.out)}
    BY <1>4, <1>5 DEF LeftIn
  <2> QED
    BY <1>1, <1>6, <1>12, <2>6, <2>7 DEF OwnOk
<1>13. ClientAnswers'
  BY <1>1, <1>5, <1>6, <1>12, OnlyServed
<1> QED
  BY <1>9, <1>10, <1>11, <1>13 DEF AnswerInv

LEMMA FinishAnswers ==
  ASSUME TypeInv, TypeInv', AnswerInv, Finish
  PROVE  AnswerInv'
<1> DEFINE k == Serving
           x == HungUp(k, "server")
           fd == Fd
<1>1. /\ loop.pc = "send" /\ server = "serving" /\ loop.out = <<>>
      /\ conns' = [conns EXCEPT ![k] = x]
      /\ at' = [at EXCEPT ![fd] = 0] /\ loop' = Turn(loop.ready)
      /\ UNCHANGED server /\ UNCHANGED backlog
      /\ UNCHANGED client /\ UNCHANGED murky /\ UNCHANGED rest
  BY DEF Finish, clientVars
<1>2. /\ fd \in Fds /\ k \in DOMAIN conns /\ conns[k] \in ConnType
      /\ conns[k] # Closed /\ at[fd] = k /\ k # 0
  BY <1>1, ServedConn DEF Serving, ConnType, Closed
<1>3. /\ x.open = conns[k].open \ {"server"}
      /\ x # Closed => /\ x.answer = conns[k].answer /\ x.out = conns[k].out
                       /\ x.dropped = conns[k].dropped
  BY <1>2, HungUpView
<1>4. loop'.pc # "send"
  BY <1>1 DEF Turn, Resting
<1>5. \A gd \in Fds \ {fd} : at[gd] # k
  BY <1>1, ServedAlone
<1>6. \A i \in DOMAIN backlog : backlog[i] # k
  BY <1>1, ServedAlone
<1>7. NotYet /\ NoneLost /\ AllAnswerable
  BY <1>1 DEF AnswerInv
<1>8. \A gd \in Fds \ {fd} : at[gd] # 0 => Unanswered(conns[at[gd]])
  BY <1>7 DEF NotYet
<1> HIDE DEF x, k, fd
<1>9. /\ DOMAIN conns' = DOMAIN conns /\ conns'[k] = x
      /\ \A j \in DOMAIN conns : j # k => conns'[j] = conns[j]
      /\ at'[fd] = 0 /\ \A gd \in Fds \ {fd} : at'[gd] = at[gd]
  BY <1>1, <1>2 DEF TypeInv, ConnsTyped
<1>10. NotYet'
  <2>1. \A i \in DOMAIN backlog : Unanswered(conns'[backlog[i]])
    <3>1. \A i \in DOMAIN backlog : backlog[i] \in DOMAIN conns
      BY <1>1, ServerKeeps
    <3> QED
      BY <1>6, <1>7, <1>9, <3>1 DEF NotYet
  <2>2. \A gd \in Fds : at'[gd] # 0 => Unanswered(conns'[at'[gd]])
    <3>1. \A gd \in Fds : at[gd] # 0 => at[gd] \in DOMAIN conns
      BY <1>1, ServerKeeps
    <3> QED
      BY <1>5, <1>8, <1>9, <3>1
  <2> QED
    BY <1>1, <1>4, <2>1, <2>2 DEF NotYet
<1>11. NoneLost'
  <2> SUFFICES ASSUME NEW j \in DOMAIN conns, "server" \in conns'[j].open
               PROVE  \/ \E i \in DOMAIN backlog : backlog[i] = j
                      \/ \E gd \in Fds : at'[gd] = j
    BY <1>1, <1>9 DEF NoneLost
  <2>1. j # k
    BY <1>3, <1>9
  <2>2. "server" \in conns[j].open
    BY <1>9, <2>1
  <2> QED
    BY <1>2, <1>7, <1>9, <2>1, <2>2 DEF NoneLost
<1>12. AllAnswerable'
  BY <1>2, <1>3, <1>7, <1>9 DEF AllAnswerable
<1>13. ASSUME NEW d \in Clients \ murky', client[d].conn = k PROVE OwnOk(d)'
  <2>1. "client" \in conns[k].open
    BY <1>2, <1>13, OwnConn DEF Conn
  <2>2. x # Closed
    BY <1>3, <2>1 DEF Closed
  <2>3. ClientOk(client[d], conns[k], LeftIn(loop, Serving, k), rest[d])
    BY <1>1, <1>13, OwnOkOf
  <2>4. LeftIn(loop, Serving, k) = {<<>>} /\ LeftIn(loop', Serving', k) = {}
    BY <1>1, <1>4 DEF LeftIn, k
  <2>5. ClientOk(client[d], x, {}, rest[d])
    BY <1>2, <1>3, <2>2, <2>3, <2>4, AllSent
  <2> QED
    BY <1>1, <1>9, <1>13, <2>4, <2>5 DEF OwnOk
<1>14. ClientAnswers'
  BY <1>1, <1>4, <1>9, <1>13, OnlyServed
<1> QED
  BY <1>10, <1>11, <1>12, <1>14 DEF AnswerInv

LEMMA TakeAnswers ==
  ASSUME TypeInv, TypeInv', RequestInv, AnswerInv,
         TakeRequest \/ TakeNothing \/ SendToNobody
  PROVE  AnswerInv'
<1>1. CASE TakeRequest
  <2>1. /\ loop.pc = "recv" /\ server = "serving" /\ HasCR(infos[Fd])
        /\ \/ Handle(Cut(infos[Fd]), Rest(infos[Fd]))
           \/ HandleNoType(Cut(infos[Fd]))
    BY <1>1 DEF TakeRequest
  <2>2. CASE Handle(Cut(infos[Fd]), Rest(infos[Fd]))
    BY <2>1, <2>2, HandleAnswers
  <2>3. CASE HandleNoType(Cut(infos[Fd]))
    <3>1. Die
      BY <2>3 DEF HandleNoType
    <3> QED
      BY <2>1, <3>1, DieAnswers
  <2> QED
    BY <2>1, <2>2, <2>3
<1>2. CASE TakeNothing
  <2>1. Die /\ server = "serving" /\ loop.pc = "recv"
    BY <1>2 DEF TakeNothing, HandleNoType
  <2> QED
    BY <2>1, DieAnswers
<1>3. CASE SendToNobody
  <2>1. Die /\ server = "serving" /\ "client" \notin conns[Serving].open
    BY <1>3 DEF SendToNobody
  <2> QED
    BY <2>1, DieAnswers
<1> QED
  BY <1>1, <1>2, <1>3

LEMMA AnswerInvInit ==
  Init => AnswerInv
<1> SUFFICES ASSUME Init PROVE AnswerInv
  OBVIOUS
<1>1. /\ backlog = <<>> /\ conns = <<>> /\ loop.pc = "poll"
      /\ \A fd \in Fds : at[fd] = 0
      /\ \A c \in Clients : client[c].pc = "menu" /\ rest[c] = <<>>
  BY DEF Init, Resting
<1>2. DOMAIN conns = {} /\ DOMAIN backlog = {}
  BY <1>1
<1>3. AllAnswerable /\ NotYet /\ NoneLost
  BY <1>1, <1>2 DEF AllAnswerable, NotYet, NoneLost
<1>4. ClientAnswers
  BY <1>1 DEF ClientAnswers, OwnOk, ClientOk
<1> QED
  BY <1>3, <1>4 DEF AnswerInv

LEMMA AnswerInvNext ==
  TypeInv /\ TypeInv' /\ RequestInv /\ AnswerInv /\ [Next]_vars => AnswerInv'
<1> SUFFICES ASSUME TypeInv, TypeInv', RequestInv, AnswerInv, [Next]_vars
             PROVE  AnswerInv'
  OBVIOUS
<1>1. CASE \E c \in Clients : UserStep(c) \/ ClientStep(c) \/ Leave(c)
  <2> SUFFICES ASSUME NEW c \in Clients, UserStep(c) \/ ClientStep(c) \/ Leave(c)
               PROVE  AnswerInv'
    BY <1>1
  <2>1. CASE \E r \in Inputs[c] : Ask(c, r)
    BY <2>1, AskAnswers
  <2>2. CASE LogOut(c) \/ \E id \in AccountIds : LogIn(c, id)
    BY <2>2, LogAnswers
  <2>3. CASE Send(c)
    BY <2>3, SendAnswers
  <2>4. CASE Read(c)
    BY <2>4, ReadAnswers
  <2>5. CASE TakeFrame(c)
    BY <2>5, TakeFrameAnswers
  <2>6. CASE TakeEnd(c)
    BY <2>6, TakeEndAnswers
  <2>7. CASE StartAdd(c)
    BY <2>7, StartAddAnswers
  <2>8. CASE AddAccount(c) \/ Done(c) \/ Leave(c)
    BY <2>8, ClientLeavesAnswers
  <2> QED
    BY <2>1, <2>2, <2>3, <2>4, <2>5, <2>6, <2>7, <2>8 DEF UserStep, ClientStep
<1>2. CASE Poll \/ NoMoreToAccept
  BY <1>2, PollAnswers
<1>3. CASE Accept
  BY <1>3, AcceptAnswers
<1>4. CASE Receive
  BY <1>4, ReceiveAnswers
<1>5. CASE TakeRequest \/ TakeNothing \/ SendToNobody
  BY <1>5, TakeAnswers
<1>6. CASE SendFrame
  BY <1>6, SendFrameAnswers
<1>7. CASE Finish
  BY <1>7, FinishAnswers
<1>8. CASE GiveUp
  BY <1>8, GiveUpAnswers
<1>9. CASE Drop
  BY <1>9, DropAnswers
<1>10. CASE UNCHANGED vars
  BY <1>10, StutterAnswers DEF vars, serverVars, clientVars
<1> QED
  BY <1>1, <1>2, <1>3, <1>4, <1>5, <1>6, <1>7, <1>8, <1>9, <1>10
     DEF Next, ServerStep

(* A client shows the answer the server gave to its request, with nothing   *)
(* of an earlier answer although it keeps the bytes left over from one      *)
(* connection for the next, and in however many pieces it came, unless CR   *)
(* cut a message or came alone before another frame.  Where the server      *)
(* dropped the connection, the posts that it did not send are shown as      *)
(* empty ones (client/network.c:200-245, tcp_server.c:116-120).             *)
THEOREM AnswersAsSent ==
  Spec => []AnswerAsSent
<1>1. AnswerInv => AnswerAsSent
  BY DEF AnswerInv, ClientAnswers, OwnOk, ClientOk, Shown, AnswerAsSent, Conn
<1> QED
  BY TypeInvHolds, RequestInvInit, RequestInvNext, AnswerInvInit, AnswerInvNext,
     <1>1, PTL DEF Spec

-----------------------------------------------------------------------------
(* The inductive invariant behind AccountsKept *)

(* No user has number 0, that of a free place (data.c:181-188). *)
UsersNumbered == \A u \in users : u.id # 0

(* Who was granted a registration asked for one, and is a user.            *)
Granted(v) ==
  v # Closed /\ v.answer # Nobody /\ v.answer.head.type = REGISTRATION =>
    /\ v.asked.type = REGISTRATION
    /\ [id |-> v.answer.head.id, pseudo |-> v.asked.pseudo] \in users
GrantsRegistered == murky = {} => \A k \in DOMAIN conns : Granted(conns[k])

(* Only a client that is adding holds a place; it adds a user.             *)
AddingThere == \A c \in Clients : adding[c] # NotAdding => client[c].pc = "add"
AddsRegistered ==
  murky = {} =>
    /\ stored \subseteq users
    /\ \A c \in Clients : adding[c] # NotAdding => adding[c].user \in users

(* The accounts that are whole.                                            *)
FullPlaces == {j \in 1..IdMax : /\ accounts[j].id # 0
                            /\ \A c \in Clients : adding[c].place # j}
Added == {accounts[i] : i \in FullPlaces}

(* When one client adds at a time, its place is free until the number is   *)
(* written, and nobody takes it for an account before the pseudo is.       *)
OneAdds == \A c, d \in Clients :
             adding[c] # NotAdding /\ adding[d] # NotAdding => c = d
PlaceKept == \A c \in Clients : HasPlace(c) =>
  accounts[adding[c].place].id = IF adding[c].half THEN adding[c].user.id ELSE 0
FileKept == murky = {} /\ ~ raced => OneAdds /\ PlaceKept /\ stored = Added

AccountInv == /\ UsersNumbered /\ GrantsRegistered
              /\ AddingThere /\ AddsRegistered /\ FileKept

(* What most steps leave alone of both.                                    *)
SameGrants ==
  /\ DOMAIN conns' = DOMAIN conns
  /\ \A k \in DOMAIN conns : conns'[k] # Closed =>
       /\ conns[k] # Closed /\ conns'[k].answer = conns[k].answer
       /\ conns'[k].asked = conns[k].asked

LEMMA ConnsGrants ==
  ASSUME UNCHANGED conns
  PROVE  SameGrants
BY DEF SameGrants

LEMMA OneGrants ==
  ASSUME TypeInv, NEW k \in DOMAIN conns, conns[k] # Closed, NEW x,
         conns' = [conns EXCEPT ![k] = x],
         x # Closed => x.answer = conns[k].answer /\ x.asked = conns[k].asked
  PROVE  SameGrants
<1>1. conns \in Seq(ConnType \cup {Closed})
  BY DEF TypeInv, ConnsTyped
<1>2. DOMAIN conns' = DOMAIN conns
      /\ \A j \in DOMAIN conns : conns'[j] = IF j = k THEN x ELSE conns[j]
  BY <1>1
<1> QED
  BY <1>2 DEF SameGrants

LEMMA HungUpGrants ==
  ASSUME NEW k \in DOMAIN conns, conns[k] \in ConnType, NEW end,
         HungUp(k, end) # Closed
  PROVE  /\ HungUp(k, end).answer = conns[k].answer
         /\ HungUp(k, end).asked = conns[k].asked
BY DEF HungUp, ConnType

LEMMA HangsUpGrants ==
  ASSUME TypeInv, NEW k \in DOMAIN conns, conns[k] # Closed, NEW end,
         conns' = [conns EXCEPT ![k] = HungUp(k, end)]
  PROVE  SameGrants
<1>1. conns[k] \in ConnType
  BY ConnTypeOf
<1> QED
  BY <1>1, HungUpGrants, OneGrants

LEMMA GrantsKept ==
  ASSUME GrantsRegistered, SameGrants, murky \subseteq murky', UNCHANGED users
  PROVE  GrantsRegistered'
<1> SUFFICES ASSUME murky' = {}, NEW k \in DOMAIN conns PROVE Granted(conns[k])'
  BY DEF GrantsRegistered, SameGrants
<1>1. Granted(conns[k])
  BY DEF GrantsRegistered
<1> QED
  BY <1>1 DEF Granted, SameGrants

(* The account file is left alone.                                         *)
LEMMA AccountsUnused ==
  ASSUME AccountInv, UNCHANGED accountVars, murky \subseteq murky',
         users \subseteq users',
         \A c \in Clients : client[c].pc = "add" => client'[c].pc = "add"
  PROVE  AddingThere' /\ AddsRegistered' /\ FileKept'
<1>1. /\ UNCHANGED accounts /\ UNCHANGED adding /\ UNCHANGED stored
      /\ UNCHANGED raced
      /\ murky' = {} => murky = {}
  BY DEF accountVars
<1>2. AddingThere'
  BY <1>1 DEF AccountInv, AddingThere
<1>3. AddsRegistered'
  BY <1>1 DEF AccountInv, AddsRegistered
<1>4. FileKept'
  <2>1. FullPlaces' = FullPlaces
    BY <1>1 DEF FullPlaces
  <2>2. Added' = Added /\ PlaceKept' = PlaceKept /\ OneAdds' = OneAdds
    BY <1>1, <2>1 DEF Added, PlaceKept, OneAdds, HasPlace
  <2>3. murky = {} /\ ~ raced => OneAdds /\ PlaceKept /\ stored = Added
    BY DEF AccountInv, FileKept
  <2>4. ASSUME murky' = {}, ~ raced' PROVE OneAdds' /\ PlaceKept' /\ stored' = Added'
    <3>1. murky = {} /\ ~ raced
      BY <1>1, <2>4
    <3> QED
      BY <1>1, <2>2, <2>3, <3>1
  <2> QED
    BY <2>4 DEF FileKept
<1> QED
  BY <1>2, <1>3, <1>4

LEMMA QuietAccounts ==
  ASSUME AccountInv, SameGrants, UNCHANGED accountVars, murky \subseteq murky',
         UNCHANGED users,
         \A c \in Clients : client[c].pc = "add" => client'[c].pc = "add"
  PROVE  AccountInv'
<1>1. GrantsRegistered'
  BY GrantsKept DEF AccountInv
<1>2. AddingThere' /\ AddsRegistered' /\ FileKept'
  BY AccountsUnused
<1>3. UsersNumbered'
  BY DEF AccountInv, UsersNumbered
<1> QED
  BY <1>1, <1>2, <1>3 DEF AccountInv

-----------------------------------------------------------------------------
(* Steps that do not add *)

LEMMA ServerAccounts ==
  ASSUME TypeInv, AccountInv,
         \/ Poll \/ Accept \/ NoMoreToAccept \/ Receive \/ SendFrame \/ Finish
         \/ GiveUp \/ Drop \/ Die
  PROVE  AccountInv'
<1>1. /\ UNCHANGED client /\ UNCHANGED accountVars /\ UNCHANGED users
      /\ murky \subseteq murky'
  BY DEF Poll, Accept, NoMoreToAccept, Receive, SendFrame, Finish, GiveUp, Drop, Die,
         Stop, clientVars
<1>2. SameGrants
  <2>1. CASE Poll \/ Accept \/ NoMoreToAccept \/ GiveUp
    BY <2>1, ConnsGrants DEF Poll, Accept, NoMoreToAccept, GiveUp
  <2>2. ASSUME Receive \/ SendFrame \/ Finish \/ Drop
        PROVE  Serving \in DOMAIN conns /\ conns[Serving] \in ConnType
               /\ conns[Serving] # Closed
    <3>1. loop.pc \in {"recv", "send"} /\ server = "serving"
      BY <2>2 DEF Receive, SendFrame, Finish, Drop
    <3> QED
      BY <3>1, ServedConn DEF ConnType, Closed
  <2>3. CASE Receive
    <3> DEFINE k == Serving
    <3>1. PICK n : conns' = [conns EXCEPT ![k].in = SubSeq(@, n + 1, Len(@))]
      BY <2>3 DEF Receive
    <3> DEFINE x == [conns[k] EXCEPT !.in = SubSeq(conns[k].in, n + 1, Len(conns[k].in))]
    <3>2. /\ conns' = [conns EXCEPT ![k] = x] /\ x.answer = conns[k].answer
          /\ x.asked = conns[k].asked
      BY <2>2, <2>3, <3>1 DEF ConnType
    <3> HIDE DEF x
    <3> QED
      BY <2>2, <2>3, <3>2, OneGrants
  <2>4. CASE SendFrame
    <3> DEFINE k == Serving
               x == [conns[k] EXCEPT !.out = (conns[k].out \o Head(loop.out)) \o CRLF]
    <3>1. conns' = [conns EXCEPT ![k] = x]
      BY <2>4 DEF SendFrame
    <3>2. x.answer = conns[k].answer /\ x.asked = conns[k].asked
      BY <2>2, <2>4 DEF ConnType
    <3> HIDE DEF x
    <3> QED
      BY <2>2, <2>4, <3>1, <3>2, OneGrants
  <2>5. CASE Finish
    BY <2>2, <2>5, HangsUpGrants DEF Finish
  <2>6. CASE Die
    <3>1. conns' = [k \in DOMAIN conns |-> IF conns[k] = Closed THEN Closed
                                           ELSE HungUp(k, "server")]
      BY <2>6 DEF Die
    <3>2. \A k \in DOMAIN conns : conns'[k] # Closed =>
            conns[k] # Closed /\ conns'[k] = HungUp(k, "server")
      BY <3>1
    <3>3. \A k \in DOMAIN conns : conns[k] # Closed => conns[k] \in ConnType
      BY ConnTypeOf
    <3> QED
      BY <3>1, <3>2, <3>3, HungUpGrants DEF SameGrants
  <2>7. CASE Drop
    <3> DEFINE k == Serving
               h == HungUp(k, "server")
               x == IF h = Closed THEN Closed ELSE [h EXCEPT !.dropped = TRUE]
    <3>1. conns' = [conns EXCEPT ![k] = x]
      BY <2>7 DEF Drop
    <3>2. h # Closed => h \in ConnType /\ h.answer = conns[k].answer
                        /\ h.asked = conns[k].asked
      BY <2>2, <2>7, HungUpGrants, HungUpTyped
    <3> HIDE DEF h
    <3>3. x # Closed => x.answer = conns[k].answer /\ x.asked = conns[k].asked
      BY <3>2 DEF ConnType
    <3> HIDE DEF x
    <3> QED
      BY <2>2, <2>7, <3>1, <3>3, OneGrants
  <2> QED
    BY <2>1, <2>3, <2>4, <2>5, <2>6, <2>7
<1> QED
  BY <1>1, <1>2, QuietAccounts

LEMMA LeavesGrants ==
  ASSUME TypeInv, NEW c \in Clients, client[c].conn # 0, NEW pc, Leaves(c, pc)
  PROVE  /\ SameGrants
         /\ \A d \in Clients \ {c} : client'[d] = client[d]
<1> DEFINE k == client[c].conn
<1>1. k \in DOMAIN conns /\ conns[k] # Closed
  BY OwnConn DEF Conn, ConnType, Closed
<1>2. conns' = [conns EXCEPT ![k] = HungUp(k, "client")]
  BY DEF Leaves
<1> HIDE DEF k
<1>3. SameGrants
  BY <1>1, <1>2, HangsUpGrants
<1>4. \A d \in Clients \ {c} : client'[d] = client[d]
  BY DEF Leaves, TypeInv, ClientsTyped
<1> QED
  BY <1>3, <1>4

LEMMA ClientAccounts ==
  ASSUME TypeInv, AccountInv, NEW c \in Clients,
         \/ LogOut(c) \/ \E id \in AccountIds : LogIn(c, id)
         \/ Send(c) \/ Read(c) \/ TakeFrame(c) \/ TakeEnd(c) \/ Done(c) \/ Leave(c)
  PROVE  AccountInv'
<1>1. /\ client[c].pc # "add" /\ UNCHANGED accountVars /\ UNCHANGED serverVars
      /\ murky \subseteq murky'
  BY DEF LogOut, LogIn, Send, Read, TakeFrame, Keep, TakeEnd, Done, Leave
<1>2. UNCHANGED users
  BY <1>1 DEF serverVars
<1>3. SameGrants
  <2>1. CASE LogOut(c) \/ (\E id \in AccountIds : LogIn(c, id)) \/ TakeFrame(c) \/ TakeEnd(c)
    BY <2>1, ConnsGrants DEF LogOut, LogIn, TakeFrame, Keep, TakeEnd
  <2>2. ASSUME Send(c) \/ Read(c) \/ Done(c) \/ Leave(c)
        PROVE  /\ client[c].conn \in DOMAIN conns /\ conns[client[c].conn] \in ConnType
               /\ conns[client[c].conn] # Closed /\ client[c].conn # 0
    <3>1. client[c].conn # 0
      BY <2>2 DEF Send, Read, Done, Leave, TypeInv, ClientHolds
    <3> QED
      BY <3>1, OwnConn DEF Conn, ConnType, Closed
  <2>3. CASE Send(c)
    <3> DEFINE k == client[c].conn
               b == RequestBytes(Conn(c).asked) \o CRLF
               x == [conns[k] EXCEPT !.in = b]
    <3>1. conns' = [conns EXCEPT ![k] = x]
      BY <2>3 DEF Send
    <3> HIDE DEF b
    <3>2. x.answer = conns[k].answer /\ x.asked = conns[k].asked
      BY <2>2, <2>3 DEF ConnType
    <3> HIDE DEF x, k
    <3> QED
      BY <2>2, <2>3, <3>1, <3>2, OneGrants DEF k
  <2>4. CASE Read(c)
    <3> DEFINE k == client[c].conn
    <3>1. PICK n : conns' = [conns EXCEPT ![k].out = SubSeq(@, n + 1, Len(@))]
      BY <2>4 DEF Read
    <3> DEFINE x == [conns[k] EXCEPT !.out = SubSeq(conns[k].out, n + 1, Len(conns[k].out))]
    <3>2. /\ conns' = [conns EXCEPT ![k] = x] /\ x.answer = conns[k].answer
          /\ x.asked = conns[k].asked
      BY <2>2, <2>4, <3>1, SMTT(30) DEF ConnType
    <3> HIDE DEF x, k
    <3> QED
      BY <2>2, <2>4, <3>2, OneGrants DEF k
  <2>5. CASE Done(c) \/ Leave(c)
    BY <2>2, <2>5, LeavesGrants DEF Done, Leave
  <2> QED
    BY <2>1, <2>3, <2>4, <2>5
<1>4. \A d \in Clients : client[d].pc = "add" => client'[d].pc = "add"
  <2>1. client \in [Clients -> ClientType]
    BY DEF TypeInv, ClientsTyped
  <2>2. \A d \in Clients \ {c} : client'[d] = client[d]
    <3>1. CASE LogOut(c) \/ \E id \in AccountIds : LogIn(c, id)
      BY <2>1, <3>1 DEF LogOut, LogIn
    <3>2. CASE Send(c) \/ Read(c)
      BY <2>1, <3>2 DEF Send, Read
    <3>3. CASE TakeFrame(c)
      <4>1. PICK a : client' = [client EXCEPT ![c].got = a, ![c].pc = AfterFrame(a)]
        BY <3>3 DEF TakeFrame, Keep
      <4> QED
        BY <2>1, <4>1
    <3>4. CASE TakeEnd(c)
      <4> DEFINE a == Filled(Got(c, rest[c]))
                 pc == IF Known(a.head.type) THEN "show" ELSE "fail"
      <4>1. client' = [client EXCEPT ![c].got = a, ![c].pc = pc]
        BY <3>4 DEF TakeEnd
      <4> HIDE DEF a, pc
      <4> QED
        BY <2>1, <4>1
    <3>5. CASE Done(c) \/ Leave(c)
      <4>1. client[c].conn # 0
        BY <3>5 DEF Done, Leave, TypeInv, ClientHolds
      <4> QED
        BY <3>5, <4>1, LeavesGrants DEF Done, Leave
    <3> QED
      BY <3>1, <3>2, <3>3, <3>4, <3>5
  <2> QED
    BY <1>1, <2>2
<1> QED
  BY <1>1, <1>2, <1>3, <1>4, QuietAccounts

LEMMA AskAccounts ==
  ASSUME TypeInv, AccountInv, NEW c \in Clients, NEW r \in Inputs[c], Ask(c, r)
  PROVE  AccountInv'
<1>1. /\ client[c].pc = "menu" /\ UNCHANGED accountVars /\ UNCHANGED users
      /\ UNCHANGED murky
  BY DEF Ask
<1>2. \A d \in Clients : client[d].pc = "add" => client'[d].pc = "add"
  <2>1. client \in [Clients -> ClientType]
    BY DEF TypeInv, ClientsTyped
  <2>2. \A d \in Clients \ {c} : client'[d] = client[d]
    BY <2>1 DEF Ask
  <2> QED
    BY <1>1, <2>2
<1>3. AddingThere' /\ AddsRegistered' /\ FileKept'
  BY <1>1, <1>2, AccountsUnused
<1>4. GrantsRegistered'
  <2>1. CASE UNCHANGED conns
    BY <1>1, <2>1, ConnsGrants, GrantsKept DEF AccountInv
  <2>2. CASE ~ UNCHANGED conns
    <3> DEFINE new == [who |-> c, asked |-> Created(c, r), in |-> <<>>, out |-> <<>>,
                       open |-> {"client", "server"}, answer |-> Nobody,
                       dropped |-> FALSE]
    <3>1. conns' = Append(conns, new)
      BY <2>2 DEF Ask
    <3>2. new.answer = Nobody
      OBVIOUS
    <3> HIDE DEF new
    <3>3. /\ conns \in Seq(ConnType \cup {Closed}) /\ DOMAIN conns = 1..Len(conns)
          /\ Len(conns) \in Nat
      BY LenProperties DEF TypeInv, ConnsTyped
    <3>4. /\ DOMAIN conns' = 1..(Len(conns) + 1)
          /\ \A k \in 1..Len(conns) : conns'[k] = conns[k]
          /\ conns'[Len(conns) + 1] = new
      BY <3>1, <3>3
    <3>5. \A k \in DOMAIN conns' : k \in DOMAIN conns \/ k = Len(conns) + 1
      BY <3>3, <3>4
    <3> QED
      BY <1>1, <3>2, <3>3, <3>4, <3>5 DEF AccountInv, GrantsRegistered, Granted
  <2> QED
    BY <2>1, <2>2
<1>5. UsersNumbered'
  BY <1>1 DEF AccountInv, UsersNumbered
<1> QED
  BY <1>3, <1>4, <1>5 DEF AccountInv

(* The server registers whom it answers so.                                *)
LEMMA RegisteredOnly ==
  ASSUME NEW rq \in RequestType, NEW a \in Answers(rq), a.head.type = REGISTRATION
  PROVE  rq.type = REGISTRATION /\ a.head.id # 0
<1>1. rq.type \in Types
  BY AnswersTyped
<1>2. PICK h \in HeadsOrErrors(rq) :
        a = [head |-> h, posts |-> IF h.type # LASTPOSTS THEN <<>>
                                   ELSE [i \in 1..h.count |-> Post]]
  BY <1>1 DEF Answers
<1>3. h.type = REGISTRATION
  BY <1>2
<1>4. \A e \in Errors : Error(e).type # REGISTRATION
  BY DEF Error, Errors, ERR_NOID, ERR_IDMAX, REGISTRATION
<1>5. /\ ERR_FEEDNB \in Errors /\ ERR_NOFILE \in Errors /\ ERR_FEEDMAX \in Errors
      /\ ERR_IDMAX \in Errors /\ ERR_NOID \in Errors
  BY DEF Errors, ERR_FEEDNB, ERR_NOFILE, ERR_FEEDMAX, ERR_NOID, ERR_IDMAX
<1>6. h \notin Refusals(rq)
  BY <1>3, <1>4, <1>5 DEF Refusals
<1>7. h \notin {Error(ERR_IDMAX), Error(ERR_NOID)}
  BY <1>3, <1>4, <1>5
<1>8. h \in Heads(rq)
  <2>1. HeadsOrErrors(rq) \subseteq Heads(rq) \cup Refusals(rq)
                                    \cup {Error(ERR_IDMAX), Error(ERR_NOID)}
    BY DEF HeadsOrErrors
  <2> QED
    BY <1>6, <1>7, <2>1
<1>9. rq.type = REGISTRATION
  <2>1. \A x \in Heads(rq) : x.type = rq.type
    BY <1>1, HeadOfType
  <2> QED
    BY <1>3, <1>8, <2>1
<1>10. Heads(rq) = {[type |-> rq.type, id |-> id, feed |-> 0, count |-> 0,
                      addr |-> 0] : id \in FreeIds}
  BY <1>9 DEF Heads, NEWPOST, LASTPOSTS, SUBSCRIBE, UPLOAD, DOWNLOAD, REGISTRATION
<1>11. \A id \in FreeIds : id # 0
  BY ExchangeAssumption DEF FreeIds
<1> QED
  BY <1>2, <1>8, <1>9, <1>10, <1>11

LEMMA HandleAccounts ==
  ASSUME TypeInv, RequestInv', AccountInv, loop.pc = "recv",
         HasCR(infos[Fd]), Handle(Cut(infos[Fd]), Rest(infos[Fd]))
  PROVE  AccountInv'
<1> DEFINE k == Serving
           b == infos[Fd]
           rq == RequestIn(Cut(b))
<1>1. PICK a \in Answers(rq) :
        /\ loop' = [loop EXCEPT !.pc = "send", !.rq = rq, !.out = Frames(a)]
        /\ conns' = [conns EXCEPT ![k].answer = a]
        /\ users' = IF a.head.type # REGISTRATION THEN users
                    ELSE users \cup {[id |-> a.head.id, pseudo |-> rq.pseudo]}
  BY Zenon DEF Handle
<1>2. /\ Fd \in Fds /\ k \in DOMAIN conns /\ conns[k] \in ConnType
      /\ conns[k] # Closed
  BY ServedConn DEF Serving, ConnType, Closed
<1>3. /\ UNCHANGED fds /\ UNCHANGED at /\ UNCHANGED client /\ UNCHANGED murky
      /\ UNCHANGED accountVars
  BY DEF Handle, clientVars
<1>4. rq \in RequestType
  <2>1. b \in Seq(Byte)
    BY <1>2, ServerTypeOf
  <2> QED
    BY <2>1, CutTyped, RequestInTyped
<1> HIDE DEF rq
<1>5. a.head.type = REGISTRATION => rq.type = REGISTRATION /\ a.head.id # 0
  BY <1>4, RegisteredOnly
<1>6. loop'.pc = "send" /\ loop'.slot = loop.slot /\ loop'.rq = rq
  BY <1>1 DEF TypeInv, ServerTyped, LoopType
<1>7. Serving' = k
  BY <1>3, <1>6 DEF Fd, Serving
<1> DEFINE x == [conns[k] EXCEPT !.answer = a]
<1>8. conns' = [conns EXCEPT ![k] = x] /\ x.answer = a /\ x.asked = conns[k].asked
  BY <1>1, <1>2 DEF ConnType
<1> HIDE DEF x, k
<1>9. /\ DOMAIN conns' = DOMAIN conns /\ conns'[k] = x
      /\ \A j \in DOMAIN conns : j # k => conns'[j] = conns[j]
  BY <1>2, <1>8 DEF TypeInv, ConnsTyped
<1>10. murky' = {} => rq = conns'[k].asked
  BY <1>6, <1>7 DEF RequestInv, RequestAsSent
<1>11. users \subseteq users'
  BY <1>1
<1>12. UsersNumbered'
  <2>1. CASE a.head.type # REGISTRATION
    BY <1>1, <2>1 DEF AccountInv, UsersNumbered
  <2>2. CASE a.head.type = REGISTRATION
    <3>1. users' = users \cup {[id |-> a.head.id, pseudo |-> rq.pseudo]}
      BY <1>1, <2>2
    <3> QED
      BY <1>5, <2>2, <3>1 DEF AccountInv, UsersNumbered
  <2> QED
    BY <2>1, <2>2
<1>13. GrantsRegistered'
  <2> SUFFICES ASSUME murky' = {}, NEW j \in DOMAIN conns PROVE Granted(conns[j])'
    BY <1>9 DEF GrantsRegistered
  <2>1. CASE j = k
    <3> SUFFICES ASSUME a.head.type = REGISTRATION
                 PROVE  /\ x.asked.type = REGISTRATION
                        /\ [id |-> a.head.id, pseudo |-> x.asked.pseudo] \in users'
      BY <1>8, <1>9, <2>1 DEF Granted
    <3>1. x.asked = rq
      BY <1>9, <1>10
    <3>2. users' = users \cup {[id |-> a.head.id, pseudo |-> rq.pseudo]}
      BY <1>1
    <3> QED
      BY <1>5, <3>1, <3>2
  <2>2. CASE j # k
    <3>1. Granted(conns[j])
      BY <1>3 DEF AccountInv, GrantsRegistered
    <3> QED
      BY <1>9, <1>11, <2>2, <3>1 DEF Granted
  <2> QED
    BY <2>1, <2>2
<1>14. AddingThere' /\ AddsRegistered' /\ FileKept'
  BY <1>3, <1>11, AccountsUnused
<1> QED
  BY <1>12, <1>13, <1>14 DEF AccountInv

-----------------------------------------------------------------------------
(* Steps that add *)

LEMMA AddingTypeOf ==
  ASSUME TypeInv, NEW c \in Clients
  PROVE  /\ adding[c] \in AddingType /\ adding[c].user \in UserType
         /\ accounts \in [1..IdMax -> UserType] /\ adding \in [Clients -> AddingType]
BY DEF TypeInv, AccountsTyped, AddingType

(* The place after those taken is free.                                    *)
LEMMA PlaceIsFree ==
  ASSUME NbAccounts + 1 \in 1..IdMax
  PROVE  accounts[NbAccounts + 1].id = 0
<1> DEFINE T == {i \in 0..IdMax : \A j \in 1..i : accounts[j].id # 0}
<1>1. IdMax \in Nat /\ 0 \in T /\ T \subseteq 0..IdMax
  BY AccountsAssumption
<1>2. NbAccounts \in T /\ \A n \in T : n <= NbAccounts
  BY <1>1, GreatestNumber DEF NbAccounts
<1>3. \A j \in 1..NbAccounts : accounts[j].id # 0
  BY <1>2
<1>4. NbAccounts \in 0..IdMax
  BY <1>2
<1> DEFINE m == NbAccounts
<1> HIDE DEF m
<1>5. SUFFICES ASSUME accounts[m + 1].id # 0 PROVE FALSE
  BY DEF m
<1>6. \A j \in 1..(m + 1) : j \in 1..m \/ j = m + 1
  BY <1>4 DEF m
<1>7. m + 1 \in T
  BY <1>3, <1>5, <1>6 DEF m
<1>8. m + 1 <= m /\ m \in Nat
  BY <1>2, <1>4, <1>7 DEF m
<1> QED
  BY <1>8

LEMMA StartAddAccounts ==
  ASSUME TypeInv, AnswerInv, AccountInv, NEW c \in Clients, StartAdd(c)
  PROVE  AccountInv'
<1> DEFINE a == client[c].got
           asked == Conn(c).asked
           new == [user |-> [id |-> a.head.id, pseudo |-> PseudoOf(asked)],
                   place |-> NbAccounts + 1, half |-> FALSE]
<1>1. /\ client[c].pc = "show" /\ a.head.type = REGISTRATION
      /\ client' = [client EXCEPT ![c].user = a.head.id, ![c].pc = "add"]
      /\ adding' = [adding EXCEPT ![c] = new]
      /\ raced' = (raced \/ \E d \in Clients : adding[d] # NotAdding)
      /\ UNCHANGED accounts /\ UNCHANGED stored /\ UNCHANGED conns
      /\ UNCHANGED murky /\ UNCHANGED serverVars
  BY DEF StartAdd, FindPlace
<1>2. UNCHANGED users
  BY <1>1 DEF serverVars
<1>3. client'[c].pc = "add" /\ \A d \in Clients \ {c} : client'[d] = client[d]
  <2> DEFINE id == a.head.id
  <2>1. client' = [client EXCEPT ![c].user = id, ![c].pc = "add"]
    BY <1>1
  <2> HIDE DEF id
  <2> QED
    BY <2>1, ClientTypeOf DEF TypeInv, ClientsTyped, ClientType
<1>4. new.user = [id |-> a.head.id, pseudo |-> PseudoOf(asked)]
      /\ new.place = NbAccounts + 1 /\ new.half = FALSE
  OBVIOUS
<1> HIDE DEF new
<1>5. adding'[c] = new /\ \A d \in Clients \ {c} : adding'[d] = adding[d]
  BY <1>1, AddingTypeOf
<1>6. AddingThere'
  BY <1>3, <1>5 DEF AccountInv, AddingThere
<1>7. ASSUME murky' = {}
      PROVE  new.user \in users
  <2>1. c \notin murky
    BY <1>1, <1>7
  <2>2. Shown(a, Conn(c)) /\ a # Nobody
    BY <1>1, <2>1, OwnOkOf DEF ClientOk, Conn
  <2>3. client[c].conn \in DOMAIN conns /\ Conn(c) \in ConnType /\ Conn(c) # Closed
    BY <1>1, OwnConn DEF TypeInv, ClientHolds, Conn, ConnType, Closed
  <2>6. a = Conn(c).answer
    <3>1. Conn(c).answer # Nobody => Answerable(Conn(c).answer)
      BY <2>3 DEF AnswerInv, AllAnswerable, Conn
    <3> QED
      BY <1>1, <2>2, <2>3, <3>1, NoneCut DEF REGISTRATION, LASTPOSTS
  <2>4. Granted(Conn(c))
    BY <1>1, <1>7, <2>3 DEF AccountInv, GrantsRegistered, Conn
  <2>5. asked.type = REGISTRATION /\ [id |-> a.head.id, pseudo |-> asked.pseudo] \in users
    BY <1>1, <2>2, <2>3, <2>4, <2>6 DEF Granted
  <2> QED
    BY <1>4, <2>5 DEF PseudoOf
<1>8. AddsRegistered'
  BY <1>1, <1>2, <1>5, <1>7 DEF AccountInv, AddsRegistered
<1>9. ASSUME murky' = {}, ~ raced' PROVE OneAdds' /\ PlaceKept' /\ stored' = Added'
  <2>1. /\ ~ raced /\ \A d \in Clients : adding[d] = NotAdding
        /\ PlaceKept /\ stored = Added
    BY <1>1, <1>9 DEF AccountInv, FileKept
  <2>2. OneAdds'
    BY <1>5, <2>1 DEF OneAdds
  <2>3. \A d \in Clients \ {c} : adding'[d].place = 0
    BY <1>5, <2>1 DEF NotAdding
  <2>4. \A d \in Clients : adding[d].place = 0
    BY <2>1 DEF NotAdding
  <2>5. 0 \notin 1..IdMax
    BY AccountsAssumption
  <2>6. PlaceKept'
    <3>1. HasPlace(c)' => accounts[adding'[c].place].id = 0
      BY <1>4, <1>5, PlaceIsFree DEF HasPlace
    <3>2. \A d \in Clients \ {c} : ~ HasPlace(d)'
      BY <2>3, <2>5 DEF HasPlace
    <3> QED
      BY <1>1, <1>4, <1>5, <3>1, <3>2 DEF PlaceKept
  <2>7. FullPlaces' = FullPlaces
    <3>1. \A j \in 1..IdMax : accounts[j].id # 0 => new.place # j
      BY <1>4, PlaceIsFree
    <3>2. \A j \in 1..IdMax : accounts[j].id # 0 =>
            /\ \A d \in Clients : adding[d].place # j
            /\ \A d \in Clients : adding'[d].place # j
      BY <1>5, <2>3, <2>4, <2>5, <3>1
    <3> QED
      BY <1>1, <3>2 DEF FullPlaces
  <2> QED
    BY <1>1, <2>1, <2>2, <2>6, <2>7 DEF Added
<1>10. GrantsRegistered' /\ UsersNumbered'
  BY <1>1, <1>2, ConnsGrants, GrantsKept DEF AccountInv, UsersNumbered
<1> QED
  BY <1>6, <1>8, <1>9, <1>10 DEF AccountInv, FileKept

LEMMA NotAddingNowhere ==
  NotAdding.place = 0
BY DEF NotAdding

(* The place of a client that adds is in no other's way.                   *)
LEMMA AddsAlone ==
  ASSUME TypeInv, AccountInv, murky = {}, ~ raced,
         NEW c \in Clients, adding[c] # NotAdding
  PROVE  /\ \A d \in Clients \ {c} : adding[d] = NotAdding /\ adding[d].place = 0
         /\ HasPlace(c) => accounts[adding[c].place].id =
                             IF adding[c].half THEN adding[c].user.id ELSE 0
         /\ adding[c].user.id # 0 /\ stored = Added /\ 0 \notin 1..IdMax
<1>1. OneAdds /\ PlaceKept /\ stored = Added
  BY DEF AccountInv, FileKept
<1>2. \A d \in Clients \ {c} : adding[d] = NotAdding /\ adding[d].place = 0
  <2>1. \A d \in Clients \ {c} : adding[d] = NotAdding
    BY <1>1 DEF OneAdds
  <2> QED
    BY <2>1, NotAddingNowhere
<1>3. adding[c].user.id # 0
  BY DEF AccountInv, AddsRegistered, UsersNumbered
<1>4. 0 \notin 1..IdMax
  BY AccountsAssumption
<1> QED
  BY <1>1, <1>2, <1>3, <1>4 DEF PlaceKept

LEMMA WriteIdAccounts ==
  ASSUME TypeInv, AccountInv, NEW c \in Clients, WriteId(c), client[c].pc = "add",
         UNCHANGED client, UNCHANGED conns, UNCHANGED users, UNCHANGED murky
  PROVE  AccountInv'
<1> DEFINE p == adding[c].place
           user == adding[c].user
           y == [adding[c] EXCEPT !.half = TRUE]
           u == [accounts[p] EXCEPT !.id = user.id]
<1>1. /\ p \in 1..IdMax /\ ~ adding[c].half
      /\ accounts' = [accounts EXCEPT ![p] = u] /\ adding' = [adding EXCEPT ![c] = y]
      /\ UNCHANGED stored /\ UNCHANGED raced
  BY DEF WriteId, HasPlace
<1>2. y.user = user /\ y.place = p /\ y.half = TRUE
  BY AddingTypeOf DEF AddingType
<1>3. u.id = user.id
  BY <1>1, AddingTypeOf DEF UserType
<1>4. adding[c] # NotAdding
  BY <1>1, AccountsAssumption DEF NotAdding
<1> HIDE DEF y, u, p
<1>5. adding'[c] = y /\ \A d \in Clients \ {c} : adding'[d] = adding[d]
  BY <1>1, AddingTypeOf
<1>6. accounts'[p] = u /\ \A j \in 1..IdMax : j # p => accounts'[j] = accounts[j]
  BY <1>1, AddingTypeOf
<1>7. AddingThere'
  BY <1>5 DEF AccountInv, AddingThere
<1>8. AddsRegistered'
  BY <1>1, <1>2, <1>4, <1>5 DEF AccountInv, AddsRegistered
<1>9. ASSUME murky' = {}, ~ raced' PROVE OneAdds' /\ PlaceKept' /\ stored' = Added'
  <2>1. /\ \A d \in Clients \ {c} : adding[d] = NotAdding /\ adding[d].place = 0
        /\ stored = Added /\ 0 \notin 1..IdMax
    BY <1>1, <1>4, <1>9, AddsAlone
  <2>2. OneAdds'
    BY <1>5, <2>1 DEF OneAdds
  <2>3. PlaceKept'
    <3>1. \A d \in Clients \ {c} : ~ HasPlace(d)'
      BY <1>5, <2>1 DEF HasPlace
    <3> QED
      BY <1>2, <1>3, <1>5, <1>6, <3>1 DEF PlaceKept
  <2>4. FullPlaces' = FullPlaces /\ p \notin FullPlaces
    <3>1. adding[c].place = p /\ adding'[c].place = p
      BY <1>2, <1>5 DEF p
    <3>2. \A d \in Clients : adding'[d].place = adding[d].place
      BY <1>5, <3>1
    <3> QED
      BY <1>6, <3>1, <3>2 DEF FullPlaces
  <2>5. \A j \in FullPlaces : accounts'[j] = accounts[j]
    BY <1>6, <2>4 DEF FullPlaces
  <2>6. Added' = Added
    BY <2>4, <2>5 DEF Added
  <2> QED
    BY <1>1, <2>1, <2>2, <2>3, <2>6
<1>10. GrantsRegistered' /\ UsersNumbered'
  BY ConnsGrants, GrantsKept DEF AccountInv, UsersNumbered
<1> QED
  BY <1>7, <1>8, <1>9, <1>10 DEF AccountInv, FileKept

LEMMA WritePseudoAccounts ==
  ASSUME TypeInv, AccountInv, NEW c \in Clients, WritePseudo(c), SameGrants,
         \A d \in Clients \ {c} : client'[d] = client[d],
         UNCHANGED users, UNCHANGED murky
  PROVE  AccountInv'
<1> DEFINE p == adding[c].place
           user == adding[c].user
           u == [accounts[p] EXCEPT !.pseudo = user.pseudo]
<1>1. /\ p \in 1..IdMax /\ adding[c].half
      /\ accounts' = [accounts EXCEPT ![p] = u]
      /\ adding' = [adding EXCEPT ![c] = NotAdding]
      /\ stored' = stored \cup {user} /\ UNCHANGED raced
  BY DEF WritePseudo, HasPlace
<1>2. adding[c] # NotAdding
  BY <1>1, AccountsAssumption DEF NotAdding
<1>3. accounts[p].id = user.id => u = user
  <2>1. accounts[p] \in UserType /\ user \in UserType
    BY <1>1, AddingTypeOf
  <2> HIDE DEF user
  <2> QED
    BY <2>1 DEF UserType
<1> HIDE DEF u, p, user
<1>4. adding'[c] = NotAdding /\ \A d \in Clients \ {c} : adding'[d] = adding[d]
  BY <1>1, AddingTypeOf
<1>5. accounts'[p] = u /\ \A j \in 1..IdMax : j # p => accounts'[j] = accounts[j]
  BY <1>1, AddingTypeOf
<1>6. AddingThere'
  BY <1>4 DEF AccountInv, AddingThere
<1>7. AddsRegistered'
  BY <1>1, <1>2, <1>4 DEF AccountInv, AddsRegistered, user
<1>8. ASSUME murky' = {}, ~ raced' PROVE OneAdds' /\ PlaceKept' /\ stored' = Added'
  <2>1. /\ \A d \in Clients \ {c} : adding[d] = NotAdding /\ adding[d].place = 0
        /\ accounts[p].id = user.id
        /\ user.id # 0 /\ stored = Added /\ 0 \notin 1..IdMax
    BY <1>1, <1>2, <1>8, AddsAlone DEF HasPlace, p, user
  <2>2. \A d \in Clients : adding'[d] = NotAdding /\ adding'[d].place = 0
    <3>1. \A d \in Clients : adding'[d] = NotAdding
      BY <1>4, <2>1
    <3> QED
      BY <3>1, NotAddingNowhere
  <2>3. OneAdds' /\ PlaceKept'
    BY <2>1, <2>2 DEF OneAdds, PlaceKept, HasPlace
  <2>4. u = user
    BY <1>3, <2>1
  <2>5. FullPlaces' = FullPlaces \cup {p} /\ p \notin FullPlaces
    <3>1. adding[c].place = p
      BY DEF p
    <3>2. \A j \in 1..IdMax : j # p => \A d \in Clients : adding[d].place # j
      BY <2>1, <3>1
    <3> QED
      BY <1>1, <1>5, <2>1, <2>2, <2>4, <3>1, <3>2 DEF FullPlaces
  <2>6. \A j \in FullPlaces : accounts'[j] = accounts[j]
    BY <1>5, <2>5 DEF FullPlaces
  <2>7. Added' = Added \cup {user}
    BY <1>5, <2>4, <2>5, <2>6 DEF Added
  <2> QED
    BY <1>1, <2>1, <2>3, <2>7
<1>9. GrantsRegistered' /\ UsersNumbered'
  BY GrantsKept DEF AccountInv, UsersNumbered
<1> QED
  BY <1>6, <1>7, <1>8, <1>9 DEF AccountInv, FileKept

LEMMA FileFullAccounts ==
  ASSUME TypeInv, AccountInv, NEW c \in Clients, FileFull(c), SameGrants,
         \A d \in Clients \ {c} : client'[d] = client[d],
         UNCHANGED users, UNCHANGED murky
  PROVE  AccountInv'
<1>1. /\ adding[c] # NotAdding /\ ~ HasPlace(c)
      /\ adding' = [adding EXCEPT ![c] = NotAdding]
      /\ UNCHANGED accounts /\ UNCHANGED stored /\ UNCHANGED raced
  BY DEF FileFull
<1>2. adding'[c] = NotAdding /\ \A d \in Clients \ {c} : adding'[d] = adding[d]
  BY <1>1, AddingTypeOf
<1>3. AddingThere'
  BY <1>2 DEF AccountInv, AddingThere
<1>4. AddsRegistered'
  BY <1>1, <1>2 DEF AccountInv, AddsRegistered
<1>5. ASSUME murky' = {}, ~ raced' PROVE OneAdds' /\ PlaceKept' /\ stored' = Added'
  <2>1. /\ \A d \in Clients \ {c} : adding[d] = NotAdding /\ adding[d].place = 0
        /\ stored = Added /\ 0 \notin 1..IdMax
    BY <1>1, <1>5, AddsAlone
  <2>2. \A d \in Clients : adding'[d] = NotAdding /\ adding'[d].place = 0
    <3>1. \A d \in Clients : adding'[d] = NotAdding
      BY <1>2, <2>1
    <3> QED
      BY <3>1, NotAddingNowhere
  <2>3. OneAdds' /\ PlaceKept'
    BY <2>1, <2>2 DEF OneAdds, PlaceKept, HasPlace
  <2>4. \A j \in 1..IdMax : /\ \A d \in Clients : adding[d].place # j
                            /\ \A d \in Clients : adding'[d].place # j
    BY <1>1, <2>1, <2>2 DEF HasPlace
  <2>5. Added' = Added
    BY <1>1, <2>4 DEF Added, FullPlaces
  <2> QED
    BY <1>1, <2>1, <2>3, <2>5
<1>6. GrantsRegistered' /\ UsersNumbered'
  BY GrantsKept DEF AccountInv, UsersNumbered
<1> QED
  BY <1>3, <1>4, <1>5, <1>6 DEF AccountInv, FileKept

LEMMA AddAccountAccounts ==
  ASSUME TypeInv, AccountInv, NEW c \in Clients, AddAccount(c)
  PROVE  AccountInv'
<1>1. /\ client[c].pc = "add" /\ client[c].conn # 0 /\ UNCHANGED murky
      /\ UNCHANGED users
  BY DEF AddAccount, TypeInv, ClientHolds, serverVars
<1>2. CASE WriteId(c) /\ UNCHANGED <<client, conns>>
  <2>1. UNCHANGED client /\ UNCHANGED conns
    BY <1>2
  <2> QED
    BY <1>1, <1>2, <2>1, WriteIdAccounts
<1>3. CASE WritePseudo(c) /\ Leaves(c, "menu")
  BY <1>1, <1>3, LeavesGrants, WritePseudoAccounts
<1>4. CASE FileFull(c) /\ Leaves(c, "ended")
  BY <1>1, <1>4, LeavesGrants, FileFullAccounts
<1> QED
  BY <1>2, <1>3, <1>4 DEF AddAccount

-----------------------------------------------------------------------------
LEMMA AccountInvInit ==
  Init => AccountInv
<1> SUFFICES ASSUME Init PROVE AccountInv
  OBVIOUS
<1>1. /\ conns = <<>> /\ users = Range(Earlier) /\ stored = Range(Earlier)
      /\ \A c \in Clients : adding[c] = NotAdding
      /\ accounts = [i \in 1..IdMax |-> IF i \in DOMAIN Earlier THEN Earlier[i]
                                        ELSE NoUser]
  BY DEF Init, AccountsInit
<1>2. /\ Earlier \in Seq([id : 1..2047, pseudo : 0..255]) /\ Len(Earlier) \in Nat
      /\ DOMAIN Earlier = 1..Len(Earlier) /\ Len(Earlier) <= IdMax /\ IdMax \in Nat
  BY AccountsAssumption, LenProperties
<1>3. \A i \in DOMAIN Earlier : Earlier[i].id # 0
  <2> DEFINE S == [id : 1..2047, pseudo : 0..255]
  <2>1. Earlier \in Seq(S)
    BY <1>2
  <2>2. \A u \in S : u.id # 0
    OBVIOUS
  <2> HIDE DEF S
  <2>3. \A i \in DOMAIN Earlier : Earlier[i] \in S
    BY <1>2, <2>1, ElementOfSeq
  <2> QED
    BY <2>2, <2>3
<1>4. Range(Earlier) = {Earlier[i] : i \in DOMAIN Earlier}
  BY DEF Range
<1>5. UsersNumbered
  BY <1>1, <1>3, <1>4 DEF UsersNumbered
<1>6. GrantsRegistered
  <2>1. DOMAIN conns = {}
    BY <1>1
  <2> QED
    BY <2>1 DEF GrantsRegistered
<1>7. AddingThere /\ AddsRegistered
  BY <1>1 DEF AddingThere, AddsRegistered
<1>8. \A c \in Clients : adding[c].place = 0
  BY <1>1 DEF NotAdding
<1>9. OneAdds /\ PlaceKept
  BY <1>1, <1>8 DEF OneAdds, PlaceKept, HasPlace
<1>10. FullPlaces = DOMAIN Earlier
  <2>1. DOMAIN Earlier \subseteq 1..IdMax
    BY <1>2
  <2>2. \A j \in 1..IdMax : accounts[j].id # 0 <=> j \in DOMAIN Earlier
    BY <1>1, <1>3 DEF NoUser
  <2>3. \A j \in 1..IdMax : \A c \in Clients : adding[c].place # j
    BY <1>8
  <2> QED
    BY <2>1, <2>2, <2>3 DEF FullPlaces
<1>11. \A j \in DOMAIN Earlier : accounts[j] = Earlier[j]
  <2>1. DOMAIN Earlier \subseteq 1..IdMax
    BY <1>2
  <2> QED
    BY <1>1, <2>1
<1>12. stored = Added
  BY <1>1, <1>4, <1>10, <1>11 DEF Added
<1> QED
  BY <1>5, <1>6, <1>7, <1>9, <1>12 DEF AccountInv, FileKept

LEMMA TakeAccounts ==
  ASSUME TypeInv, RequestInv', AccountInv, TakeRequest \/ TakeNothing \/ SendToNobody
  PROVE  AccountInv'
<1>1. CASE TakeRequest
  <2>1. /\ loop.pc = "recv" /\ HasCR(infos[Fd])
        /\ \/ Handle(Cut(infos[Fd]), Rest(infos[Fd]))
           \/ HandleNoType(Cut(infos[Fd]))
    BY <1>1 DEF TakeRequest
  <2>2. CASE Handle(Cut(infos[Fd]), Rest(infos[Fd]))
    BY <2>1, <2>2, HandleAccounts
  <2>3. CASE HandleNoType(Cut(infos[Fd]))
    <3>1. Die
      BY <2>3 DEF HandleNoType
    <3> QED
      BY <3>1, ServerAccounts
  <2> QED
    BY <2>1, <2>2, <2>3
<1>2. CASE TakeNothing \/ SendToNobody
  <2>1. Die
    BY <1>2 DEF TakeNothing, HandleNoType, SendToNobody
  <2> QED
    BY <2>1, ServerAccounts
<1> QED
  BY <1>1, <1>2

LEMMA AccountInvNext ==
  TypeInv /\ RequestInv' /\ AnswerInv /\ AccountInv /\ [Next]_vars => AccountInv'
<1> SUFFICES ASSUME TypeInv, RequestInv', AnswerInv, AccountInv, [Next]_vars
             PROVE  AccountInv'
  OBVIOUS
<1>1. CASE \E c \in Clients : UserStep(c) \/ ClientStep(c) \/ Leave(c)
  <2> SUFFICES ASSUME NEW c \in Clients, UserStep(c) \/ ClientStep(c) \/ Leave(c)
               PROVE  AccountInv'
    BY <1>1
  <2>1. CASE \E r \in Inputs[c] : Ask(c, r)
    BY <2>1, AskAccounts
  <2>2. CASE \/ LogOut(c) \/ \E id \in AccountIds : LogIn(c, id)
             \/ Send(c) \/ Read(c) \/ TakeFrame(c) \/ TakeEnd(c) \/ Done(c) \/ Leave(c)
    BY <2>2, ClientAccounts
  <2>3. CASE StartAdd(c)
    BY <2>3, StartAddAccounts
  <2>4. CASE AddAccount(c)
    BY <2>4, AddAccountAccounts
  <2> QED
    BY <2>1, <2>2, <2>3, <2>4 DEF UserStep, ClientStep
<1>2. CASE \/ Poll \/ Accept \/ NoMoreToAccept \/ Receive \/ SendFrame \/ Finish
           \/ GiveUp \/ Drop
  BY <1>2, ServerAccounts
<1>3. CASE TakeRequest \/ TakeNothing \/ SendToNobody
  BY <1>3, TakeAccounts
<1>4. CASE UNCHANGED vars
  <2>1. /\ UNCHANGED conns /\ UNCHANGED accountVars /\ UNCHANGED murky
        /\ UNCHANGED users /\ UNCHANGED client
    BY <1>4 DEF vars, serverVars, clientVars
  <2> QED
    BY <2>1, ConnsGrants, QuietAccounts
<1> QED
  BY <1>1, <1>2, <1>3, <1>4 DEF Next, ServerStep

(* The file has the users the server registered, each once it was added    *)
(* and for ever, as long as no two clients add at a time: the lock does    *)
(* not keep them apart (user.c:37-49, 117-131, tcp_client.c:184-188).      *)
THEOREM AccountsStay ==
  Spec => []AccountsKept
<1>1. AccountInv => AccountsKept
  BY DEF AccountInv, AddsRegistered, FileKept, Added, FullPlaces, AccountsKept
<1> QED
  BY TypeInvHolds, RequestInvInit, RequestInvNext, AnswerInvInit, AnswerInvNext,
     AccountInvInit, AccountInvNext, <1>1, PTL DEF Spec
=============================================================================
