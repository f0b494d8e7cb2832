------------------------- MODULE KiiPushStreamProofs -------------------------
(***************************************************************************)
(* The stream of bytes between the broker and the receive loop, and what   *)
(* comes out of it.  First its order: the push receiver implements         *)
(* PushChannel, that is, the callback is given messages in the order of    *)
(* their publication and none twice, over any number of connections,       *)
(* failures and torn packets.  Then its shape: the loop keeps its place in *)
(* the packets and loses no message of an undamaged connection.            *)
(***************************************************************************)
EXTENDS KiiPushProofs

-----------------------------------------------------------------------------
(* The order of the stream.  The bytes on their way to the device belong   *)
(* to messages that were published, and the first byte of a message comes  *)
(* after every byte of an older one; whatever was given to the callback,   *)
(* or is being read from its first byte on, is older than all that follow. *)

Starts(b) == b.kind \in PublishKinds /\ b.at = 1

Numbered(s, n) ==
  \A i \in DOMAIN s :
    s[i].msg <= n /\ (s[i].kind \in PublishKinds => s[i].msg >= 1)

OldestFirst(s) ==
  \A i, j \in DOMAIN s : i < j /\ Starts(s[j]) => s[i].msg < s[j].msg

NewerThan(s, m) == \A i \in DOMAIN s : Starts(s[i]) => m < s[i].msg

ReadingPcs == {"recvTopicHeader", "recvRest"}

ReaderOlder ==
  pc \in ReadingPcs =>
    /\ rx.whole => rx.genuine
    /\ rx.genuine =>
         /\ rx.msg \in 1..published
         /\ NewerThan(link.down, rx.msg)
         /\ \A n \in DOMAIN received : received[n] < rx.msg

ReceivedOlder ==
  \A n \in DOMAIN received :
    received[n] <= published /\ NewerThan(link.down, received[n])

ChannelInv ==
  /\ Numbered(link.down, published)
  /\ OldestFirst(link.down)
  /\ ReceivedOlder
  /\ ReaderOlder

-----------------------------------------------------------------------------
(* What is left of a stream, what arrived of it, and what is added to it,  *)
(* byte by byte.                                                           *)

(* The bytes that are left when some are taken from the front.             *)
LEMMA DropBytes ==
  ASSUME NEW S, NEW s \in Seq(S), NEW n \in 0..Len(s)
  PROVE  /\ Drop(s, n) \in Seq(S) /\ Len(Drop(s, n)) = Len(s) - n
         /\ \A i \in DOMAIN Drop(s, n) : n + i \in DOMAIN s /\ Drop(s, n)[i] = s[n + i]
<1>1. Len(s) \in Nat /\ \A i \in n + 1..Len(s) : s[i] \in S
  OBVIOUS
<1>2. Drop(s, n) \in Seq(S) /\ Len(Drop(s, n)) = Len(s) - n
  BY <1>1, SubSeqProperties DEF Drop
<1>3. \A i \in 1..Len(s) - n : Drop(s, n)[i] = s[n + i]
  BY <1>1, SubSeqProperties DEF Drop
<1> QED
  BY <1>1, <1>2, <1>3

(* The bytes that arrived before a connection was lost.                    *)
LEMMA KeptBytes ==
  ASSUME NEW S, NEW s \in Seq(S), NEW n \in 0..Len(s)
  PROVE  /\ SubSeq(s, 1, n) \in Seq(S) /\ Len(SubSeq(s, 1, n)) = n
         /\ \A i \in DOMAIN SubSeq(s, 1, n) : i \in DOMAIN s /\ SubSeq(s, 1, n)[i] = s[i]
<1>1. Len(s) \in Nat /\ \A i \in 1..n : s[i] \in S
  OBVIOUS
<1>2. SubSeq(s, 1, n) \in Seq(S) /\ Len(SubSeq(s, 1, n)) = n
  BY <1>1, SubSeqProperties
<1>3. \A i \in 1..n : SubSeq(s, 1, n)[i] = s[i]
  BY <1>1, SubSeqProperties
<1> QED
  BY <1>1, <1>2, <1>3

(* The bytes of a stream and of a packet behind it.                        *)
IsByteOf(b, kind, msg, len, at) == b.kind = kind /\ b.msg = msg /\ b.len = len /\ b.at = at

IsJoined(t, s, kind, msg, len) ==
  /\ t \in Seq(Byte) /\ Len(t) = Len(s) + len
  /\ \A i \in DOMAIN t :
       \/ i \in DOMAIN s /\ t[i] = s[i]
       \/ /\ i \notin DOMAIN s /\ i > Len(s) /\ i - Len(s) \in 1..len
          /\ IsByteOf(t[i], kind, msg, len, i - Len(s))

(* The bytes of a stream after a packet was written to it are the old      *)
(* ones, then those of the packet in order.                                *)
LEMMA JoinedBytes ==
  ASSUME NEW s \in Seq(Byte), NEW kind \in PacketKinds, NEW msg \in 0..MaxMsgs,
         NEW len \in Nat, NEW t, t = s \o Packet(kind, msg, len)
  PROVE  IsJoined(t, s, kind, msg, len)
<1> DEFINE p == Packet(kind, msg, len)
<1>1. p \in Seq(Byte)
  BY PacketType
<1>2. Len(p) = len
  BY DEF Packet
<1>3. \A i \in 1..len : IsByteOf(p[i], kind, msg, len, i)
  BY DEF Packet, IsByteOf
<1> HIDE DEF p
<1>4. s \o p \in Seq(Byte) /\ Len(s \o p) = Len(s) + len
  BY <1>1, <1>2, ConcatProperties
<1>5. \A i \in 1..Len(s) + len :
        (s \o p)[i] = IF i <= Len(s) THEN s[i] ELSE p[i - Len(s)]
  BY <1>1, <1>2, ConcatProperties
<1>6. t = s \o p
  BY DEF p
<1>7. ASSUME NEW i \in DOMAIN t
      PROVE  \/ i \in DOMAIN s /\ t[i] = s[i]
             \/ /\ i \notin DOMAIN s /\ i > Len(s) /\ i - Len(s) \in 1..len
                /\ IsByteOf(t[i], kind, msg, len, i - Len(s))
  <2>1. i \in 1..Len(s) + len /\ Len(s) \in Nat
    BY <1>4, <1>6
  <2>2. CASE i <= Len(s)
    BY <1>5, <1>6, <2>1, <2>2
  <2>3. CASE i > Len(s)
    <3>1. i - Len(s) \in 1..len /\ i \notin DOMAIN s
      BY <2>1, <2>3
    <3>2. t[i] = p[i - Len(s)]
      BY <1>5, <1>6, <2>1, <2>3
    <3> QED
      BY <1>3, <2>3, <3>1, <3>2
  <2> QED
    BY <2>1, <2>2, <2>3
<1> QED
  BY <1>4, <1>6, <1>7 DEF IsJoined

-----------------------------------------------------------------------------
(* Numbers and order outlive what happens to a stream.                     *)

(* Taking bytes from either end of a stream keeps its order.               *)
LEMMA PartsOrdered ==
  ASSUME NEW s \in Seq(Byte), NEW n \in 0..Len(s), NEW t \in {Drop(s, n), SubSeq(s, 1, n)}
  PROVE  /\ \A p : Numbered(s, p) => Numbered(t, p)
         /\ OldestFirst(s) => OldestFirst(t)
         /\ \A m : NewerThan(s, m) => NewerThan(t, m)
<1>1. PICK d \in {0, n} : \A i \in DOMAIN t : i \in Nat /\ d + i \in DOMAIN s /\ t[i] = s[d + i]
  <2>1. CASE t = Drop(s, n)
    <3>1. \A i \in DOMAIN Drop(s, n) :
            i \in Nat /\ n + i \in DOMAIN s /\ Drop(s, n)[i] = s[n + i]
      BY DropBytes
    <3> QED
      BY <2>1, <3>1
  <2>2. CASE t = SubSeq(s, 1, n)
    <3>1. \A i \in DOMAIN SubSeq(s, 1, n) :
            i \in Nat /\ 0 + i \in DOMAIN s /\ SubSeq(s, 1, n)[i] = s[0 + i]
      BY KeptBytes
    <3> QED
      BY <2>2, <3>1
  <2> QED
    BY <2>1, <2>2
<1>2. \A i, j \in DOMAIN t : i < j => d + i < d + j
  BY <1>1
<1> QED
  BY <1>1, <1>2 DEF Numbered, OldestFirst, NewerThan

(* Adding an answer without a message, or the next message, keeps it too.  *)
LEMMA JoinedOrdered ==
  ASSUME NEW s \in Seq(Byte), NEW kind \in PacketKinds, NEW msg \in 0..MaxMsgs,
         NEW len \in Nat, NEW p \in Nat,
         NEW t, IsJoined(t, s, kind, msg, len),
         Numbered(s, p), OldestFirst(s),
         kind \in PublishKinds => msg = p + 1,
         kind \notin PublishKinds => msg = 0,
         NEW q, q = IF kind \in PublishKinds THEN p + 1 ELSE p
  PROVE  /\ Numbered(t, q) /\ OldestFirst(t)
         /\ \A m \in Int : m <= p /\ NewerThan(s, m) => NewerThan(t, m)
<1>1. t \in Seq(Byte)
  BY DEF IsJoined
<1>2. \A i \in DOMAIN t :
        \/ i \in DOMAIN s /\ t[i] = s[i]
        \/ /\ i \notin DOMAIN s /\ i > Len(s)
           /\ t[i].kind = kind /\ t[i].msg = msg /\ t[i].at = i - Len(s)
  <2>1. \A i \in DOMAIN t :
          \/ i \in DOMAIN s /\ t[i] = s[i]
          \/ /\ i \notin DOMAIN s /\ i > Len(s) /\ i - Len(s) \in 1..len
             /\ IsByteOf(t[i], kind, msg, len, i - Len(s))
    BY DEF IsJoined
  <2> QED
    BY <2>1 DEF IsByteOf
<1>3. /\ Len(s) \in Nat /\ DOMAIN t \subseteq Nat
      /\ \A i \in DOMAIN s : i \in Nat /\ i <= Len(s) /\ s[i] \in Byte
  BY <1>1
<1>4. \A i \in DOMAIN s : s[i].msg \in Nat
  BY <1>3 DEF Byte
<1>5. Numbered(t, q)
  BY <1>2, <1>4 DEF Numbered
<1>6. OldestFirst(t)
  <2> SUFFICES ASSUME NEW i \in DOMAIN t, NEW j \in DOMAIN t, i < j, Starts(t[j])
               PROVE  t[i].msg < t[j].msg
    BY DEF OldestFirst
  <2>1. CASE j \in DOMAIN s /\ t[j] = s[j]
    BY <1>2, <1>3, <2>1 DEF OldestFirst
  <2>2. CASE /\ j \notin DOMAIN s /\ j > Len(s)
             /\ t[j].kind = kind /\ t[j].msg = msg /\ t[j].at = j - Len(s)
    <3>1. i \in DOMAIN s /\ t[i] = s[i]
      BY <1>2, <1>3, <2>2 DEF Starts
    <3>2. msg = p + 1
      BY <2>2 DEF Starts
    <3> QED
      BY <1>4, <2>2, <3>1, <3>2 DEF Numbered
  <2> QED
    BY <1>2, <2>1, <2>2
<1>7. \A m \in Int : m <= p /\ NewerThan(s, m) => NewerThan(t, m)
  BY <1>2, <1>4 DEF NewerThan, Starts
<1> QED
  BY <1>5, <1>6, <1>7

-----------------------------------------------------------------------------
(* ChannelInv is inductive.                                                *)

(* A step that gives the callback nothing and begins no message keeps the  *)
(* invariant if it keeps the order of the stream.                          *)
LEMMA QuietStep ==
  ASSUME TypeOK, ChannelInv, UNCHANGED <<published, received>>,
         Numbered(link'.down, published), OldestFirst(link'.down),
         \A m : NewerThan(link.down, m) => NewerThan(link'.down, m),
         pc' \in ReadingPcs =>
           /\ pc \in ReadingPcs
           /\ rx'.msg = rx.msg /\ rx'.genuine = rx.genuine
           /\ rx'.whole => rx'.genuine
  PROVE  ChannelInv'
<1>1. ReceivedOlder'
  BY DEF ChannelInv, ReceivedOlder
<1>2. ReaderOlder'
  <2> SUFFICES ASSUME pc' \in ReadingPcs
               PROVE  /\ rx'.whole => rx'.genuine
                      /\ rx'.genuine =>
                           /\ rx'.msg \in 1..published'
                           /\ NewerThan(link'.down, rx'.msg)
                           /\ \A n \in DOMAIN received' : received'[n] < rx'.msg
    BY DEF ReaderOlder
  <2> QED
    BY DEF ChannelInv, ReaderOlder
<1> QED
  BY <1>1, <1>2 DEF ChannelInv

(* So it does if it leaves the stream alone, ...                           *)
LEMMA SameStream ==
  ASSUME TypeOK, ChannelInv, UNCHANGED <<published, received>>,
         link'.down = link.down,
         pc' \in ReadingPcs =>
           /\ pc \in ReadingPcs
           /\ rx'.msg = rx.msg /\ rx'.genuine = rx.genuine
           /\ rx'.whole => rx'.genuine
  PROVE  ChannelInv'
BY QuietStep DEF ChannelInv

(* ... takes bytes from either end of it ...                               *)
LEMMA ShorterStream ==
  ASSUME TypeOK, ChannelInv, UNCHANGED <<published, received>>,
         NEW n \in 0..Len(link.down),
         link'.down \in {Drop(link.down, n), SubSeq(link.down, 1, n)},
         pc' \in ReadingPcs =>
           /\ pc \in ReadingPcs
           /\ rx'.msg = rx.msg /\ rx'.genuine = rx.genuine
           /\ rx'.whole => rx'.genuine
  PROVE  ChannelInv'
<1>1. link.down \in Seq(Byte)
  BY DEF TypeOK, Links
<1>2. /\ Numbered(link'.down, published) /\ OldestFirst(link'.down)
      /\ \A m : NewerThan(link.down, m) => NewerThan(link'.down, m)
  BY <1>1, PartsOrdered DEF ChannelInv
<1> QED
  BY <1>2, QuietStep

(* ... or replaces the connection.                                         *)
LEMMA FreshStream ==
  ASSUME TypeOK, ChannelInv, UNCHANGED <<published, received>>,
         link' \in {NewLink, NoLink}, pc' \notin ReadingPcs
  PROVE  ChannelInv'
<1>1. link'.down = <<>>
  BY DEF NewLink, NoLink
<1>2. /\ Numbered(link'.down, published) /\ OldestFirst(link'.down)
      /\ \A m : NewerThan(link'.down, m)
  BY <1>1 DEF Numbered, OldestFirst, NewerThan
<1> QED
  BY <1>2, QuietStep

(* What the receive function does to the stream, and what it hands on: the *)
(* message it was reading from its first byte, or nothing.                 *)
LEMMA DeliverStep ==
  ASSUME TypeOK, ChannelInv, pc \in ReadingPcs, NEW r \in Parses,
         r.msg = rx.msg, r.whole => rx.genuine, HandlePublish(r)
  PROVE  /\ pc' \notin ReadingPcs
         /\ \/ received' = received
            \/ rx.genuine /\ received' = Append(received, rx.msg)
BY DEF HandlePublish, Callback, Reconnect, ReadingPcs, outcome

(* What any step of a receive takes from the stream, gives to the callback *)
(* and notes of the packet it is in.                                       *)
LEMMA ReceiveStep ==
  ASSUME TypeOK, ChannelInv, RecvFixedHeader \/ RecvTopicHeader \/ RecvRest
  PROVE  /\ UNCHANGED published
         /\ \/ link'.down = link.down
            \/ \E k \in 1..Len(link.down) : link'.down = Drop(link.down, k)
         /\ \/ received' = received
            \/ /\ pc \in ReadingPcs /\ rx.genuine /\ pc' \notin ReadingPcs
               /\ received' = Append(received, rx.msg)
         /\ pc' \in ReadingPcs =>
              \/ /\ pc \in ReadingPcs
                 /\ rx'.msg = rx.msg /\ rx'.genuine = rx.genuine
                 /\ rx'.whole => rx'.genuine
              \/ /\ \E k \in 1..Len(link.down) : link'.down = Drop(link.down, k)
                 /\ received' = received
                 /\ rx'.msg = link.down[1].msg /\ ~rx'.whole
                 /\ rx'.genuine => Starts(link.down[1])
<1> DEFINE want == KII_PUSH_TOPIC_HEADER_SIZE
<1>0. /\ link \in Links /\ link.down \in Seq(Byte) /\ Len(link.down) \in Nat
      /\ want \in Nat /\ rx \in Parses
      /\ [link EXCEPT !.torn = TRUE].down = link.down
      /\ \A s : [link EXCEPT !.down = s].down = s
  BY PushAssumption DEF TypeOK, Links
<1>1. CASE RecvFixedHeader
  <2>1. \A k \in 1..2 : Recv(2, k) => k \in 1..Len(link.down)
    BY ReceiveTypes
  <2>2. /\ UNCHANGED <<published, received>>
        /\ \/ link' = link
           \/ \E k \in 1..Len(link.down) : link' = [link EXCEPT !.down = Drop(@, k)]
    BY <1>1, <2>1 DEF RecvFixedHeader, outcome
  <2>3. ASSUME pc' \in ReadingPcs
        PROVE  /\ \E k \in 1..Len(link.down) : link'.down = Drop(link.down, k)
               /\ rx'.msg = link.down[1].msg /\ ~rx'.whole
               /\ rx'.genuine => Starts(link.down[1])
    <3>1. PICK k \in 1..2 :
            /\ Recv(2, k) /\ link' = [link EXCEPT !.down = Drop(@, k)]
            /\ TRUE \in LooksLikePublish(link.down[1])
            /\ rx' = [kind |-> link.down[1].kind, msg |-> link.down[1].msg,
                      bytes |-> 2, total |-> link.down[1].len,
                      genuine |-> link.down[1].at = 1, whole |-> FALSE]
      BY <1>1, <2>3 DEF RecvFixedHeader, Reconnect, ReadingPcs
    <3>2. link.down[1].at = 1 => Starts(link.down[1])
      BY <3>1 DEF LooksLikePublish, Starts
    <3> QED
      BY <1>0, <2>1, <3>1, <3>2
  <2> QED
    BY <1>0, <2>2, <2>3
<1>2. CASE RecvTopicHeader
  <2>0. pc \in ReadingPcs /\ UNCHANGED published
    BY <1>2 DEF RecvTopicHeader, ReadingPcs
  <2>1. \A k \in 1..want : Recv(want, k) => k \in 1..Len(link.down)
    BY <1>0, ReceiveTypes
  <2>2. \/ link' = link
        \/ \E k \in 1..Len(link.down) : link' = [link EXCEPT !.down = Drop(@, k)]
    BY <1>2, <2>1 DEF RecvTopicHeader
  <2>3. \A total \in DecodedTotals(rx) : total \in Nat
    BY <1>0, WireAssumption DEF DecodedTotals, Parses
  <2>4. ASSUME NEW total \in DecodedTotals(rx), NEW r,
               r = [rx EXCEPT !.bytes = 2 + want, !.total = total, !.whole = rx.genuine]
        PROVE  r \in Parses /\ r.msg = rx.msg /\ r.genuine = rx.genuine
                 /\ r.whole = rx.genuine
    <3>0. rx \in Parses /\ 2 + want \in Nat /\ total \in Nat
      BY <1>0, <2>3, <2>4
    <3>1. [rx EXCEPT !.bytes = 2 + want, !.total = total, !.whole = rx.genuine] \in Parses
      BY <3>0, ParseFieldTypes
    <3> QED
      BY <1>0, <2>4, <3>1 DEF Parses
  <2>5. \/ pc' \notin ReadingPcs /\ received' = received
        \/ \E total \in DecodedTotals(rx) :
             LET r == [rx EXCEPT !.bytes = 2 + want, !.total = total, !.whole = rx.genuine]
             IN HandlePublish(r) \/ (rx' = r /\ received' = received)
    BY <1>2 DEF RecvTopicHeader, Reconnect, ReadingPcs, outcome
  <2>6. \/ /\ pc' \notin ReadingPcs
           /\ \/ received' = received
              \/ rx.genuine /\ received' = Append(received, rx.msg)
        \/ /\ rx'.msg = rx.msg /\ rx'.genuine = rx.genuine /\ rx'.whole = rx.genuine
           /\ received' = received
    <3>1. CASE pc' \notin ReadingPcs /\ received' = received
      BY <3>1
    <3>2. ASSUME NEW total \in DecodedTotals(rx), NEW r,
                 r = [rx EXCEPT !.bytes = 2 + want, !.total = total, !.whole = rx.genuine],
                 HandlePublish(r) \/ (rx' = r /\ received' = received)
          PROVE  <2>6
      <4>1. r \in Parses /\ r.msg = rx.msg /\ r.genuine = rx.genuine /\ r.whole = rx.genuine
        BY <2>4, <3>2
      <4>2. CASE HandlePublish(r)
        BY <2>0, <4>1, <4>2, DeliverStep
      <4>3. CASE rx' = r /\ received' = received
        BY <4>1, <4>3
      <4> QED
        BY <3>2, <4>2, <4>3
    <3> QED
      BY <2>5, <3>1, <3>2
  <2> QED
    BY <1>0, <2>0, <2>2, <2>6
<1>3. CASE RecvRest
  <2>0. pc \in ReadingPcs /\ UNCHANGED published
    BY <1>3 DEF RecvRest, ReadingPcs
  <2>1. Readable(link.down, RestWanted) \subseteq 1..Len(link.down)
    BY <1>0 DEF Readable, Least, RestWanted, Parses
  <2>2. \/ link' = [link EXCEPT !.torn = TRUE]
        \/ \E k \in 1..Len(link.down) : link' = [link EXCEPT !.down = Drop(@, k)]
    BY <1>3, <2>1 DEF RecvRest
  <2>3. rx.whole => rx.genuine
    BY <2>0 DEF ChannelInv, ReaderOlder
  <2>4. /\ [rx EXCEPT !.whole = FALSE] \in Parses
        /\ [rx EXCEPT !.whole = FALSE].msg = rx.msg
        /\ ~[rx EXCEPT !.whole = FALSE].whole
    BY <1>0 DEF Parses
  <2>5. \/ HandlePublish(rx) \/ HandlePublish([rx EXCEPT !.whole = FALSE])
        \/ \E k : rx' = [rx EXCEPT !.bytes = Counted(k)] /\ UNCHANGED received
    BY <1>3 DEF RecvRest, RestLost, outcome
  <2>6. \A k : /\ [rx EXCEPT !.bytes = Counted(k)].msg = rx.msg
               /\ [rx EXCEPT !.bytes = Counted(k)].genuine = rx.genuine
               /\ [rx EXCEPT !.bytes = Counted(k)].whole = rx.whole
    BY <1>0 DEF Parses
  <2>7. \/ /\ pc' \notin ReadingPcs
           /\ \/ received' = received
              \/ rx.genuine /\ received' = Append(received, rx.msg)
        \/ /\ rx'.msg = rx.msg /\ rx'.genuine = rx.genuine /\ rx'.whole = rx.whole
           /\ received' = received
    <3>1. CASE HandlePublish(rx)
      BY <1>0, <2>0, <2>3, <3>1, DeliverStep
    <3>2. CASE HandlePublish([rx EXCEPT !.whole = FALSE])
      BY <2>0, <2>4, <3>2, DeliverStep
    <3>3. CASE \E k : rx' = [rx EXCEPT !.bytes = Counted(k)] /\ UNCHANGED received
      BY <2>6, <3>3
    <3> QED
      BY <2>5, <3>1, <3>2, <3>3
  <2> QED
    BY <1>0, <2>0, <2>2, <2>3, <2>7
<1> QED
  BY <1>1, <1>2, <1>3

(* The steps of the receive function keep the invariant: the message they  *)
(* hand on is older than what is left in the stream.                       *)
LEMMA ReceiveChannel ==
  ASSUME TypeOK, ChannelInv, RecvFixedHeader \/ RecvTopicHeader \/ RecvRest
  PROVE  ChannelInv'
<1>0. /\ link.down \in Seq(Byte) /\ received \in Seq(0..MaxMsgs)
      /\ published \in Nat /\ MaxMsgs \in Nat
      /\ rx \in Parses
  BY WireAssumption DEF TypeOK, Links
<1>1. /\ UNCHANGED published
      /\ \/ link'.down = link.down
         \/ \E k \in 1..Len(link.down) : link'.down = Drop(link.down, k)
  BY ReceiveStep
<1>2. /\ Numbered(link'.down, published) /\ OldestFirst(link'.down)
      /\ \A m : NewerThan(link.down, m) => NewerThan(link'.down, m)
  <2>1. \A k \in 1..Len(link.down) : k \in 0..Len(link.down)
    BY <1>0
  <2> QED
    BY <1>0, <1>1, <2>1, PartsOrdered DEF ChannelInv
<1>3. CASE /\ received' = received
           /\ pc' \in ReadingPcs =>
                /\ pc \in ReadingPcs
                /\ rx'.msg = rx.msg /\ rx'.genuine = rx.genuine
                /\ rx'.whole => rx'.genuine
  BY <1>1, <1>2, <1>3, QuietStep
<1>4. CASE /\ pc \in ReadingPcs /\ rx.genuine /\ pc' \notin ReadingPcs
           /\ received' = Append(received, rx.msg)
  <2>1. /\ rx.msg \in 1..published /\ NewerThan(link.down, rx.msg)
    BY <1>4 DEF ChannelInv, ReaderOlder
  <2>2. \A n \in DOMAIN received' :
          (n \in DOMAIN received /\ received'[n] = received[n]) \/ received'[n] = rx.msg
    BY <1>0, <1>4
  <2>3. ReceivedOlder'
    BY <1>0, <1>1, <1>2, <2>1, <2>2 DEF ChannelInv, ReceivedOlder
  <2>4. ReaderOlder'
    BY <1>4 DEF ReaderOlder
  <2> QED
    BY <1>1, <1>2, <2>3, <2>4 DEF ChannelInv
<1>5. CASE /\ \E k \in 1..Len(link.down) : link'.down = Drop(link.down, k)
           /\ received' = received
           /\ rx'.msg = link.down[1].msg /\ ~rx'.whole
           /\ rx'.genuine => Starts(link.down[1])
  <2>1. PICK k \in 1..Len(link.down) : link'.down = Drop(link.down, k)
    BY <1>5
  <2>2. 1 \in DOMAIN link.down /\ link.down[1] \in Byte
    BY <1>0, <2>1
  <2>3. ASSUME rx'.genuine
        PROVE  /\ rx'.msg \in 1..published
               /\ NewerThan(link'.down, rx'.msg)
               /\ \A n \in DOMAIN received : received[n] < rx'.msg
    <3>1. Starts(link.down[1]) /\ rx'.msg = link.down[1].msg
      BY <1>5, <2>3
    <3>2. rx'.msg \in 1..published
      BY <1>0, <2>2, <3>1 DEF ChannelInv, Numbered, Starts, Byte
    <3>3. \A n \in DOMAIN received : received[n] < rx'.msg
      BY <2>2, <3>1 DEF ChannelInv, ReceivedOlder, NewerThan
    <3>4. \A i \in DOMAIN link'.down :
            k + i \in DOMAIN link.down /\ link'.down[i] = link.down[k + i]
      BY <1>0, <2>1, DropBytes
    <3>5. \A i \in DOMAIN link'.down : 1 < k + i
      <4>1. link'.down \in Seq(Byte)
        BY <1>0, <2>1, DropBytes
      <4> QED
        BY <2>1, <4>1
    <3>6. NewerThan(link'.down, rx'.msg)
      BY <2>2, <3>1, <3>4, <3>5 DEF ChannelInv, OldestFirst, NewerThan
    <3> QED
      BY <3>2, <3>3, <3>6
  <2>4. ReceivedOlder'
    BY <1>1, <1>2, <1>5 DEF ChannelInv, ReceivedOlder
  <2>5. ReaderOlder'
    BY <1>1, <1>5, <2>3 DEF ReaderOlder
  <2> QED
    BY <1>1, <1>2, <2>4, <2>5 DEF ChannelInv
<1> QED
  BY <1>3, <1>4, <1>5, ReceiveStep

(* A recv of an acknowledgement takes bytes from the front.                *)
LEMMA AcknowledgeStep ==
  ASSUME TypeOK, RecvConnack \/ RecvSuback
  PROVE  /\ pc' \notin ReadingPcs /\ UNCHANGED <<published, received>>
         /\ \/ link' = link
            \/ \E k \in 1..Len(link.down) : link'.down = Drop(link.down, k)
<1>1. \A k \in 1..MqttBufferSize : Recv(MqttBufferSize, k) => k \in 1..Len(link.down)
  BY WireAssumption, ReceiveTypes
<1>2. link \in Links
  BY DEF TypeOK
<1>3. /\ pc' \notin ReadingPcs /\ UNCHANGED <<published, received>>
  BY DEF RecvConnack, RecvSuback, GiveUp, ReadingPcs, outcome
<1>4. \/ UNCHANGED link
      \/ \E k \in 1..MqttBufferSize :
           /\ Recv(MqttBufferSize, k)
           /\ \/ link' = [link EXCEPT !.down = Drop(@, k), !.acked = ConnackOK(k)]
              \/ link' = [link EXCEPT !.down = Drop(@, k)]
  BY DEF RecvConnack, RecvSuback
<1> QED
  <2>1. ASSUME NEW k \in 1..MqttBufferSize, Recv(MqttBufferSize, k),
               \/ link' = [link EXCEPT !.down = Drop(@, k), !.acked = ConnackOK(k)]
               \/ link' = [link EXCEPT !.down = Drop(@, k)]
        PROVE  k \in 1..Len(link.down) /\ link'.down = Drop(link.down, k)
    BY <1>1, <1>2, <2>1 DEF Links
  <2> QED
    BY <1>3, <1>4, <2>1

(* What the broker adds comes after what it wrote before.                  *)
LEMMA WriteStep ==
  ASSUME TypeOK, ChannelInv, UNCHANGED <<pc, rx, received>>,
         NEW kind \in PacketKinds, NEW len \in Nat, NEW msg \in 0..MaxMsgs,
         link'.down = link.down \o Packet(kind, msg, len),
         kind \in PublishKinds => msg = published + 1 /\ published' = published + 1,
         kind \notin PublishKinds => msg = 0 /\ published' = published
  PROVE  ChannelInv'
<1>0. link.down \in Seq(Byte) /\ published \in Nat /\ published <= published'
  BY WireAssumption DEF TypeOK, Links
<1>1. received \in Seq(0..MaxMsgs) /\ rx \in Parses
  BY DEF TypeOK
<1>2. /\ Numbered(link'.down, published') /\ OldestFirst(link'.down)
      /\ \A m \in Int : m <= published /\ NewerThan(link.down, m)
                          => NewerThan(link'.down, m)
  <2>1. Numbered(link.down, published) /\ OldestFirst(link.down)
    BY DEF ChannelInv
  <2>2. IsJoined(link'.down, link.down, kind, msg, len)
    BY <1>0, JoinedBytes
  <2>3. CASE kind \in PublishKinds
    BY <1>0, <2>1, <2>2, <2>3, JoinedOrdered
  <2>4. CASE kind \notin PublishKinds
    BY <1>0, <2>1, <2>2, <2>4, JoinedOrdered
  <2> QED
    BY <2>3, <2>4
<1>3. ReceivedOlder'
  <2>1. \A n \in DOMAIN received : received[n] \in Int
    BY <1>1, WireAssumption, LenProperties
  <2> QED
    BY <1>0, <1>2, <2>1 DEF ChannelInv, ReceivedOlder
<1>4. ReaderOlder'
  BY <1>0, <1>2 DEF ChannelInv, ReaderOlder
<1> QED
  BY <1>2, <1>3, <1>4 DEF ChannelInv

(* The broker and the network keep the invariant.                          *)
LEMMA EnvironmentChannel ==
  ASSUME TypeOK, ChannelInv, Broker \/ Network
  PROVE  ChannelInv'
<1>0. link \in Links /\ link.down \in Seq(Byte)
  BY DEF TypeOK, Links
<1>1. CASE Broker
  <2>1. UNCHANGED <<pc, rx, received, published>>
    BY <1>1 DEF Broker, BrokerConnect, BrokerReject, BrokerSubscribe, BrokerPing,
                OnlyLink, outcome
  <2>2. \/ link'.down = link.down
        \/ link'.down = link.down \o Connack
        \/ link'.down = link.down \o Refused
        \/ link'.down = link.down \o Suback
        \/ link'.down = link.down \o Pingresp
    BY <1>0, <1>1 DEF Broker, BrokerConnect, BrokerReject, BrokerSubscribe, BrokerPing,
                      Answers, Links
  <2>3. \/ link'.down = link.down
        \/ \E kind \in PacketKinds \ PublishKinds, len \in Nat :
             link'.down = link.down \o Packet(kind, 0, len)
    BY <2>2 DEF Connack, Refused, Suback, Pingresp, PacketKinds, PublishKinds,
                CONNACK_LEN, SUBACK_LEN, PINGRESP_LEN
  <2>4. 0 \in 0..MaxMsgs
    BY WireAssumption
  <2>5. CASE link'.down = link.down
    BY <2>1, <2>5, SameStream DEF ChannelInv, ReaderOlder
  <2>6. ASSUME NEW kind \in PacketKinds \ PublishKinds, NEW len \in Nat,
               link'.down = link.down \o Packet(kind, 0, len)
        PROVE  ChannelInv'
    BY <2>1, <2>4, <2>6, WriteStep
  <2> QED
    BY <2>3, <2>5, <2>6
<1>2. CASE BrokerPublish
  <2>1. PICK kind \in PublishKinds, len \in PublishLens :
          link' = [link EXCEPT !.down = @ \o Packet(kind, published + 1, len)]
    BY <1>2 DEF BrokerPublish
  <2>2. /\ UNCHANGED <<pc, rx, received>> /\ published' = published + 1
        /\ published + 1 \in 0..MaxMsgs /\ len \in Nat /\ kind \in PacketKinds
    BY <1>2, WireAssumption DEF BrokerPublish, outcome, TypeOK, PacketKinds
  <2>3. link'.down = link.down \o Packet(kind, published + 1, len)
    BY <1>0, <2>1 DEF Links
  <2> QED
    BY <2>2, <2>3, WriteStep
<1>3. CASE LoseLink
  <2>1. PICK n \in 0..Len(link.down) :
          link' = [link EXCEPT !.peer = FALSE, !.down = SubSeq(@, 1, n)]
    BY <1>3 DEF LoseLink
  <2>2. link'.down = SubSeq(link.down, 1, n)
    BY <1>0, <2>1 DEF Links
  <2>3. UNCHANGED <<pc, rx, received, published>>
    BY <1>3 DEF LoseLink, outcome
  <2> QED
    BY <2>2, <2>3, ShorterStream DEF ChannelInv, ReaderOlder
<1>4. CASE ExpireEndpoint
  BY <1>4, SameStream DEF ExpireEndpoint, outcome, ChannelInv, ReaderOlder
<1> QED
  BY <1>1, <1>2, <1>3, <1>4 DEF Network

(* The steps that set a connection up, and those of the ping task, neither *)
(* read nor write the stream of a connection they keep.                    *)
LEMMA OtherChannel ==
  ASSUME TypeOK, ChannelInv,
         \/ StartRoutine \/ Install \/ RetrieveEndpoint \/ CloseSocket
         \/ OpenSocket \/ SendConnect \/ SendSubscribe \/ PingReqTask
         \/ UNCHANGED vars
  PROVE  ChannelInv'
<1>1. \A p \in Requests : Sent(p).down = link.down /\ Sent(p) \in Links
  BY SentType DEF TypeOK
<1>2. ASSUME NEW p \in Requests, NEW n
      PROVE  [Sent(p) EXCEPT !.strays = n].down = link.down
  BY <1>1 DEF Links
<1>3. UNCHANGED <<published, received>>
  BY DEF StartRoutine, Install, RetrieveEndpoint, CloseSocket, OpenSocket,
         SendConnect, SendSubscribe, PingReqTask, PingCheck, PingLoad, PingSend,
         PingDelay, vars, outcome
<1>4. CASE StartRoutine \/ Install \/ RetrieveEndpoint
  <2>1. link' = link /\ pc' \notin ReadingPcs
    BY <1>4 DEF StartRoutine, Install, RetrieveEndpoint, ReadingPcs
  <2> QED
    BY <1>3, <2>1, SameStream
<1>5. CASE CloseSocket \/ OpenSocket
  <2>1. link' \in {link, NewLink, NoLink} /\ pc' \notin ReadingPcs
    BY <1>5 DEF CloseSocket, OpenSocket, GiveUp, ReadingPcs
  <2> QED
    BY <1>3, <2>1, SameStream, FreshStream
<1>6. CASE SendConnect \/ SendSubscribe
  <2>1. link' \in {link, Sent("CONNECT"), Sent("SUBSCRIBE")} /\ pc' \notin ReadingPcs
    BY <1>6 DEF SendConnect, SendSubscribe, GiveUp, ReadingPcs
  <2> QED
    BY <1>1, <1>3, <2>1, SameStream DEF Requests
<1>7. CASE PingReqTask
  <2>1. /\ UNCHANGED <<pc, rx>>
        /\ \/ link' = link
           \/ link' = [Sent("PINGREQ") EXCEPT !.strays = IF link.acked THEN @ ELSE @ + 1]
    BY <1>7 DEF PingReqTask, PingCheck, PingLoad, PingSend, PingDelay
  <2>2. link'.down = link.down
    BY <1>2, <2>1 DEF Requests
  <2> QED
    BY <1>3, <2>1, <2>2, SameStream DEF ChannelInv, ReaderOlder
<1>8. CASE UNCHANGED vars
  BY <1>3, <1>8, SameStream DEF vars, ChannelInv, ReaderOlder
<1> QED
  BY <1>4, <1>5, <1>6, <1>7, <1>8

(* Every step keeps the invariant.                                         *)
LEMMA NextChannel == TypeOK /\ ChannelInv /\ [Next]_vars => ChannelInv'
<1>1. ASSUME TypeOK, ChannelInv, RecvConnack \/ RecvSuback PROVE ChannelInv'
  <2>1. \A k \in 1..Len(link.down) : k \in 0..Len(link.down)
    BY DEF TypeOK, Links
  <2> QED
    BY <1>1, <2>1, AcknowledgeStep, SameStream, ShorterStream
<1> QED
  BY <1>1, OtherChannel, ReceiveChannel, EnvironmentChannel DEF Next, RecvMsgTask

(* It holds at first, when nothing was published.                          *)
LEMMA InitChannel == Init => ChannelInv
<1> SUFFICES ASSUME Init PROVE ChannelInv
  OBVIOUS
<1>1. link.down = <<>> /\ received = <<>> /\ pc = "start"
  BY DEF Init, NoLink, NewLink
<1> QED
  BY <1>1 DEF ChannelInv, Numbered, OldestFirst, ReceivedOlder, ReaderOlder, ReadingPcs

(* The order of the stream is an invariant.                                *)
THEOREM ChannelInvariant == Spec => []ChannelInv
BY TypeCorrect, InitChannel, NextChannel, PTL DEF Spec

-----------------------------------------------------------------------------
(* The refinement.                                                         *)

(* A step publishes the next message, or delivers one that is newer than   *)
(* all that were delivered, or is none of the channel.                     *)
LEMMA ChannelStep ==
  ASSUME TypeOK, ChannelInv, [Next]_vars
  PROVE  [Channel!Next]_<<published, received>>
<1>1. CASE UNCHANGED <<published, received>>
  BY <1>1
<1>2. CASE BrokerPublish
  <2>1. Channel!Publish
    BY <1>2 DEF BrokerPublish, Channel!Publish, outcome
  <2> QED
    BY <2>1 DEF Channel!Next
<1>3. CASE RecvFixedHeader \/ RecvTopicHeader \/ RecvRest
  <2>1. CASE received' = received
    BY <1>1, <1>3, <2>1, ReceiveStep
  <2>2. CASE pc \in ReadingPcs /\ rx.genuine /\ received' = Append(received, rx.msg)
    <3>1. rx.msg \in 1..published /\ Channel!Newest(rx.msg)
      BY <2>2 DEF ChannelInv, ReaderOlder, Channel!Newest
    <3>2. UNCHANGED published
      BY <1>3, ReceiveStep
    <3> QED
      BY <2>2, <3>1, <3>2 DEF Channel!Next, Channel!Deliver
  <2> QED
    BY <1>3, <2>1, <2>2, ReceiveStep
<1>4. CASE RecvConnack \/ RecvSuback
  BY <1>1, <1>4, AcknowledgeStep
<1>5. CASE Broker \/ LoseLink \/ ExpireEndpoint
  BY <1>1, <1>5 DEF Broker, BrokerConnect, BrokerReject, BrokerSubscribe, BrokerPing,
     OnlyLink, LoseLink, ExpireEndpoint, outcome
<1>6. CASE \/ StartRoutine \/ Install \/ RetrieveEndpoint \/ CloseSocket
           \/ OpenSocket \/ SendConnect \/ SendSubscribe \/ PingReqTask
           \/ UNCHANGED vars
  BY <1>1, <1>6 DEF StartRoutine, Install, RetrieveEndpoint, CloseSocket, OpenSocket,
     SendConnect, SendSubscribe, PingReqTask, PingCheck, PingLoad, PingSend,
     PingDelay, vars, outcome
<1> QED
  BY <1>2, <1>3, <1>4, <1>5, <1>6 DEF Next, RecvMsgTask, Network

(* The receiver gives the callback the messages in publication order, none *)
(* twice, whatever fails, is lost or is torn.                              *)
THEOREM ImplementsPushChannelCorrect == Spec => ImplementsPushChannel
<1>1. Init => Channel!Init
  BY DEF Init, Channel!Init
<1> QED
  BY <1>1, TypeCorrect, ChannelInvariant, ChannelStep, PTL
     DEF Spec, ImplementsPushChannel, Channel!Spec

(* What that promises in plain words: the callback is given messages that  *)
(* were published, one after the other in the order of publication, so     *)
(* that none comes twice.                                                  *)
OnceInOrder ==
  /\ \A i \in DOMAIN received : received[i] \in 1..published
  /\ \A i, j \in DOMAIN received : i < j => received[i] < received[j]

(* A delivery appends a message that is newer than all before it.          *)
LEMMA DeliveryInOrder ==
  ASSUME TypeOK, OnceInOrder, [Channel!Next]_<<published, received>>
  PROVE  OnceInOrder'
<1>1. received \in Seq(0..MaxMsgs) /\ published \in Nat
  BY DEF TypeOK
<1>2. CASE UNCHANGED <<published, received>>
  BY <1>2 DEF OnceInOrder
<1>3. CASE Channel!Publish
  BY <1>1, <1>3 DEF OnceInOrder, Channel!Publish
<1>4. CASE Channel!Deliver
  <2>1. PICK m \in 1..published : Channel!Newest(m) /\ received' = Append(received, m)
    BY <1>4 DEF Channel!Deliver
  <2> DEFINE n == Len(received)
  <2>2. n \in Nat /\ DOMAIN received = 1..n /\ DOMAIN received' = 1..n + 1
    BY <1>1, <2>1
  <2>3. (\A i \in 1..n : received'[i] = received[i]) /\ received'[n + 1] = m
    BY <1>1, <2>1
  <2> HIDE DEF n
  <2>4. published' = published /\ \A i \in 1..n : received[i] < m
    <3>1. published' = published
      BY <1>4 DEF Channel!Deliver
    <3>2. \A i \in 1..n : received[i] < m
      BY <2>1, <2>2 DEF Channel!Newest
    <3> QED
      BY <3>1, <3>2
  <2>5. ASSUME NEW i \in 1..n + 1 PROVE received'[i] \in 1..published
    <3>1. i \in 1..n \/ i = n + 1
      BY <2>2
    <3> QED
      BY <2>1, <2>2, <2>3, <3>1 DEF OnceInOrder
  <2>6. ASSUME NEW i \in 1..n + 1, NEW j \in 1..n + 1, i < j
        PROVE  received'[i] < received'[j]
    <3>1. i \in 1..n /\ (j \in 1..n \/ j = n + 1)
      BY <2>2, <2>6
    <3> QED
      BY <2>2, <2>3, <2>4, <2>6, <3>1 DEF OnceInOrder
  <2> QED
    BY <2>2, <2>4, <2>5, <2>6 DEF OnceInOrder
<1> QED
  BY <1>2, <1>3, <1>4 DEF Channel!Next

(* Over any number of failures and reconnections, the callback is given    *)
(* each message at most once and in the order of publication               *)
(* (kii_push.c:336-411).                                                   *)
THEOREM OnceInOrderCorrect == Spec => []OnceInOrder
<1>1. Init => OnceInOrder
  BY DEF Init, OnceInOrder
<1>2. TypeOK /\ ChannelInv /\ OnceInOrder /\ [Next]_vars => OnceInOrder'
  BY ChannelStep, DeliveryInOrder
<1> QED
  BY <1>1, <1>2, TypeCorrect, ChannelInvariant, PTL DEF Spec

-----------------------------------------------------------------------------
(* The shape of the stream.                                                *)

SamePacket(b, c) == b.kind = c.kind /\ b.msg = c.msg /\ b.len = c.len

(* A byte is followed by the others of its packet, and these by the first  *)
(* of another.                                                             *)
Framed(s) ==
  /\ \A i \in DOMAIN s : s[i].at \in 1..s[i].len
  /\ \A i, j \in DOMAIN s : i < j =>
       /\ s[i].at + (j - i) <= s[i].len =>
            SamePacket(s[i], s[j]) /\ s[j].at = s[i].at + (j - i)
       /\ s[i].at + (j - i) = s[i].len + 1 => s[j].at = 1

(* What a byte of a packet of each kind says.                              *)
Lawful(s) ==
  \A i \in DOMAIN s :
    /\ s[i].kind \in PublishKinds => s[i].len \in PublishLens
    /\ s[i].kind \notin PublishKinds => s[i].msg = 0
    /\ s[i].kind = "pingresp" => s[i].len = PINGRESP_LEN

(* An answer to CONNECT comes first, and there is one answer to SUBSCRIBE. *)
AnswersInTurn(s) ==
  \A i, j \in DOMAIN s : i < j =>
    /\ s[j].kind \in {"connack", "refused"} => s[i].kind = s[j].kind
    /\ s[i].kind = "suback" /\ s[j].kind = "suback" =>
         s[i].at + (j - i) <= SUBACK_LEN

(* A broker that still holds the connection has written whole packets, and *)
(* nothing before it was asked.                                            *)
EndsWhole(s) == s # <<>> => s[Len(s)].at = s[Len(s)].len
BrokerWrites ==
  link.peer => /\ EndsWhole(link.down)
               /\ link.session = "new" => link.down = <<>>

(* The subscription is asked for once the connection is acknowledged.      *)
AsksInTurn ==
  pc \in {"sendConnect", "recvConnack", "sendSubscribe"} =>
    /\ link.session # "subscribed"
    /\ \A i \in DOMAIN link.up : link.up[i] # "SUBSCRIBE"

OnlyMessages(s) == \A i \in DOMAIN s : s[i].kind \in PublishKinds \cup {"pingresp"}

(* The packet being read, of which r tells, goes on where the reader is.   *)
Continues(r, s, open) ==
  /\ r.genuine /\ r.kind \in PublishKinds /\ r.total \in PublishLens
  /\ r.bytes <= r.total
  /\ s = <<>> /\ open => r.bytes = r.total
  /\ s # <<>> =>
       /\ r.bytes < r.total =>
            /\ s[1].kind = r.kind /\ s[1].msg = r.msg /\ s[1].len = r.total
            /\ s[1].at = r.bytes + 1
       /\ r.bytes = r.total => s[1].at = 1

ReaderInPlace ==
  READY =>
    /\ OnlyMessages(link.down)
    /\ ~link.torn =>
         /\ pc = "recvFixed" => AtBoundary(link.down)
         /\ pc = "recvTopicHeader" =>
              rx.bytes = 2 /\ Continues(rx, link.down, link.peer)
         /\ pc = "recvRest" =>
              /\ rx.whole /\ rx.bytes < rx.total
              /\ Continues(rx, link.down, link.peer)

(* Nothing published to a new subscription is lost before its SUBACK.      *)
KeptForSuback ==
  pc = "recvSuback" /\ link.session = "subscribed" /\ link.peer =>
    \A m \in link.base + 1..published :
      \E i \in DOMAIN link.down : link.down[i].msg = m

StreamInv ==
  /\ Framed(link.down) /\ Lawful(link.down) /\ AnswersInTurn(link.down)
  /\ BrokerWrites /\ AsksInTurn /\ ReaderInPlace /\ KeptForSuback /\ NoSilentLoss

-----------------------------------------------------------------------------
(* What the shape of a stream tells a reader.                              *)

(* Bytes taken within a packet are of that packet; what is left goes on    *)
(* with it, or starts another.                                             *)
LEMMA FrontOfPacket ==
  ASSUME NEW s \in Seq(Byte), Framed(s), NEW k \in 1..Len(s),
         s[1].at + k - 1 <= s[1].len, NEW t, t = Drop(s, k)
  PROVE  /\ \A i \in 1..k : SamePacket(s[1], s[i])
         /\ t # <<>> =>
              /\ s[1].at + k - 1 < s[1].len => SamePacket(s[1], t[1]) /\ t[1].at = s[1].at + k
              /\ s[1].at + k - 1 = s[1].len => t[1].at = 1
         /\ t = <<>> /\ EndsWhole(s) => s[1].at + k - 1 = s[1].len
<1>1. /\ Len(s) \in Nat /\ k \in 1..Len(s) /\ k \in 0..Len(s)
      /\ 1 \in DOMAIN s /\ k \in DOMAIN s
      /\ \A i \in DOMAIN s : s[i] \in Byte
  OBVIOUS
<1>2. \A i \in DOMAIN s : s[i].at \in Nat /\ s[i].len \in Nat
  BY <1>1 DEF Byte
<1>3. \A i \in 1..k : SamePacket(s[1], s[i]) /\ s[i].at = s[1].at + (i - 1)
  <2> SUFFICES ASSUME NEW i \in 1..k
               PROVE  SamePacket(s[1], s[i]) /\ s[i].at = s[1].at + (i - 1)
    OBVIOUS
  <2>1. CASE i = 1
    BY <1>2, <2>1, <1>1 DEF SamePacket
  <2>2. CASE 1 < i
    <3>1. i \in DOMAIN s /\ s[1].at + (i - 1) <= s[1].len
      BY <1>1, <1>2
    <3> QED
      BY <1>1, <2>2, <3>1 DEF Framed
  <2> QED
    BY <2>1, <2>2
<1>4. ASSUME t # <<>>
      PROVE  /\ s[1].at + k - 1 < s[1].len => SamePacket(s[1], t[1]) /\ t[1].at = s[1].at + k
             /\ s[1].at + k - 1 = s[1].len => t[1].at = 1
  <2>1. t \in Seq(Byte) /\ Len(t) = Len(s) - k
    BY <1>1, DropBytes
  <2>2. 1 \in DOMAIN t
    BY <1>4, <2>1
  <2>3. k + 1 \in DOMAIN s /\ t[1] = s[k + 1]
    BY <1>1, <2>2, DropBytes
  <2>4. 1 < k + 1 /\ s[1].at + ((k + 1) - 1) = s[1].at + k
    BY <1>1, <1>2
  <2>5. /\ s[1].at + ((k + 1) - 1) <= s[1].len =>
             SamePacket(s[1], s[k + 1]) /\ s[k + 1].at = s[1].at + ((k + 1) - 1)
        /\ s[1].at + ((k + 1) - 1) = s[1].len + 1 => s[k + 1].at = 1
    BY <1>1, <2>3, <2>4 DEF Framed
  <2>6. SamePacket(s[1], s[k + 1]) <=> SamePacket(s[1], t[1])
    BY <2>3
  <2>7. s[1].at \in Nat /\ s[1].len \in Nat /\ k \in Nat
    BY <1>1, <1>2
  <2> HIDE DEF SamePacket
  <2> QED
    BY <2>3, <2>4, <2>5, <2>6, <2>7
<1>5. ASSUME t = <<>>, EndsWhole(s)
      PROVE  s[1].at + k - 1 = s[1].len
  <2>1. Len(t) = Len(s) - k /\ Len(t) = 0
    BY <1>1, <1>5, DropBytes
  <2>2. k = Len(s) /\ s # <<>>
    BY <1>1, <2>1
  <2>3. s[k].at = s[k].len
    BY <1>5, <2>2 DEF EndsWhole
  <2>4. SamePacket(s[1], s[k]) /\ s[k].at = s[1].at + (k - 1)
    BY <1>1, <1>3
  <2> QED
    BY <1>1, <1>2, <2>3, <2>4 DEF SamePacket
<1> QED
  BY <1>3, <1>4, <1>5

(* Taking bytes from either end of a stream keeps its shape.               *)
LEMMA PartsFramed ==
  ASSUME NEW s \in Seq(Byte), NEW n \in 0..Len(s), NEW t \in {Drop(s, n), SubSeq(s, 1, n)}
  PROVE  /\ Framed(s) => Framed(t)
         /\ Lawful(s) => Lawful(t)
         /\ AnswersInTurn(s) => AnswersInTurn(t)
         /\ OnlyMessages(s) => OnlyMessages(t)
<1>1. PICK d \in {0, n} : \A i \in DOMAIN t : i \in Nat /\ d + i \in DOMAIN s /\ t[i] = s[d + i]
  <2>1. CASE t = Drop(s, n)
    <3>1. \A i \in DOMAIN Drop(s, n) :
            i \in Nat /\ n + i \in DOMAIN s /\ Drop(s, n)[i] = s[n + i]
      BY DropBytes
    <3> QED
      BY <2>1, <3>1
  <2>2. CASE t = SubSeq(s, 1, n)
    <3>1. \A i \in DOMAIN SubSeq(s, 1, n) :
            i \in Nat /\ 0 + i \in DOMAIN s /\ SubSeq(s, 1, n)[i] = s[0 + i]
      BY KeptBytes
    <3> QED
      BY <2>2, <3>1
  <2> QED
    BY <2>1, <2>2
<1>2. \A i, j \in DOMAIN t : i < j => d + i < d + j /\ (d + j) - (d + i) = j - i
  BY <1>1
<1>3. Framed(s) => Framed(t)
  <2> SUFFICES ASSUME Framed(s) PROVE Framed(t)
    OBVIOUS
  <2>1. \A i \in DOMAIN t : t[i].at \in 1..t[i].len
    BY <1>1 DEF Framed
  <2>2. ASSUME NEW i \in DOMAIN t, NEW j \in DOMAIN t, i < j
        PROVE  /\ t[i].at + (j - i) <= t[i].len =>
                    SamePacket(t[i], t[j]) /\ t[j].at = t[i].at + (j - i)
               /\ t[i].at + (j - i) = t[i].len + 1 => t[j].at = 1
    <3>1. d + i \in DOMAIN s /\ d + j \in DOMAIN s /\ t[i] = s[d + i] /\ t[j] = s[d + j]
      BY <1>1
    <3>2. d + i < d + j /\ (d + j) - (d + i) = j - i
      BY <1>2, <2>2
    <3> QED
      BY <3>1, <3>2 DEF Framed
  <2> QED
    BY <2>1, <2>2 DEF Framed
<1>4. Lawful(s) => Lawful(t)
  BY <1>1 DEF Lawful
<1>5. AnswersInTurn(s) => AnswersInTurn(t)
  <2> SUFFICES ASSUME AnswersInTurn(s), NEW i \in DOMAIN t, NEW j \in DOMAIN t, i < j
               PROVE  /\ t[j].kind \in {"connack", "refused"} => t[i].kind = t[j].kind
                      /\ t[i].kind = "suback" /\ t[j].kind = "suback" =>
                           t[i].at + (j - i) <= SUBACK_LEN
    BY DEF AnswersInTurn
  <2>1. d + i \in DOMAIN s /\ d + j \in DOMAIN s /\ t[i] = s[d + i] /\ t[j] = s[d + j]
    BY <1>1
  <2>2. d + i < d + j /\ (d + j) - (d + i) = j - i
    BY <1>2
  <2> QED
    BY <2>1, <2>2 DEF AnswersInTurn
<1>6. OnlyMessages(s) => OnlyMessages(t)
  BY <1>1 DEF OnlyMessages
<1> QED
  BY <1>3, <1>4, <1>5, <1>6

(* What is left of a stream that ends with a whole packet does too.        *)
LEMMA RestEndsWhole ==
  ASSUME NEW s \in Seq(Byte), NEW n \in 0..Len(s), EndsWhole(s)
  PROVE  EndsWhole(Drop(s, n))
<1> DEFINE t == Drop(s, n)
<1>1. t \in Seq(Byte) /\ Len(t) = Len(s) - n /\ Len(s) \in Nat
  BY DropBytes
<1>2. \A i \in DOMAIN t : n + i \in DOMAIN s /\ t[i] = s[n + i]
  BY DropBytes
<1> HIDE DEF t
<1>3. ASSUME t # <<>> PROVE t[Len(t)].at = t[Len(t)].len
  <2>1. Len(t) \in DOMAIN t /\ n + Len(t) = Len(s) /\ s # <<>>
    BY <1>1, <1>3
  <2> QED
    BY <1>2, <2>1 DEF EndsWhole
<1> QED
  BY <1>3 DEF EndsWhole, t

(* A whole packet behind whole packets keeps the shape.                    *)
LEMMA JoinedFramed ==
  ASSUME NEW s \in Seq(Byte), Framed(s), EndsWhole(s),
         NEW kind, NEW msg, NEW len \in Nat, len > 0,
         NEW t, IsJoined(t, s, kind, msg, len)
  PROVE  /\ Framed(t) /\ EndsWhole(t) /\ t # <<>>
         /\ s = <<>> => t[1].at = 1
         /\ s # <<>> => t[1] = s[1]
<1> DEFINE size == Len(s)
<1>0. len \in Nat /\ len >= 1 /\ Len(s) \in Nat
  OBVIOUS
<1>1. t \in Seq(Byte) /\ Len(t) = size + len /\ size \in Nat
  BY DEF IsJoined
<1>2. \A i \in DOMAIN t :
        \/ i \in DOMAIN s /\ t[i] = s[i]
        \/ /\ i \notin DOMAIN s /\ i > size /\ i - size \in 1..len
           /\ IsByteOf(t[i], kind, msg, len, i - size)
  BY DEF IsJoined
<1>3. \A i \in DOMAIN s : i \in 1..size /\ s[i].at \in Nat /\ s[i].len \in Nat
  <2>1. \A i \in DOMAIN s : i \in 1..size /\ s[i] \in Byte
    OBVIOUS
  <2> QED
    BY <2>1 DEF Byte
<1>4. DOMAIN t = 1..size + len /\ DOMAIN s = 1..size
  BY <1>1
<1>5. \A i \in DOMAIN t : t[i].at \in 1..t[i].len
  BY <1>2 DEF Framed, IsByteOf
<1>6. ASSUME NEW i \in DOMAIN t, NEW j \in DOMAIN t, i < j
      PROVE  /\ t[i].at + (j - i) <= t[i].len =>
                  SamePacket(t[i], t[j]) /\ t[j].at = t[i].at + (j - i)
             /\ t[i].at + (j - i) = t[i].len + 1 => t[j].at = 1
  <2>1. CASE j \in DOMAIN s
    <3>1. i \in DOMAIN s /\ t[i] = s[i] /\ t[j] = s[j]
      BY <1>2, <1>4, <1>6, <2>1
    <3> QED
      BY <1>6, <2>1, <3>1 DEF Framed
  <2>2. CASE i \notin DOMAIN s
    <3>1. /\ i > size /\ IsByteOf(t[i], kind, msg, len, i - size)
          /\ j > size /\ j - size \in 1..len /\ IsByteOf(t[j], kind, msg, len, j - size)
      BY <1>2, <1>4, <1>6, <2>2
    <3> QED
      BY <1>1, <1>4, <3>1 DEF IsByteOf, SamePacket
  <2>3. CASE i \in DOMAIN s /\ j \notin DOMAIN s
    <3>1. /\ t[i] = s[i] /\ j > size /\ IsByteOf(t[j], kind, msg, len, j - size)
      BY <1>2, <2>3
    <3>2. size \in DOMAIN s /\ s # <<>> /\ s[size].at = s[size].len
      BY <1>3, <1>4, <2>3 DEF EndsWhole
    <3>3. s[i].at + (size - i) <= s[i].len => s[i].at + (size - i) = s[i].len
      <4>1. CASE i = size
        BY <1>3, <3>2, <4>1
      <4>2. CASE i < size
        <5>1. s[i].at + (size - i) <= s[i].len =>
                SamePacket(s[i], s[size]) /\ s[size].at = s[i].at + (size - i)
          BY <2>3, <3>2, <4>2 DEF Framed
        <5> QED
          BY <3>2, <5>1 DEF SamePacket
      <4> QED
        BY <1>3, <1>4, <2>3, <4>1, <4>2
    <3>4. s[i].at \in Nat /\ s[i].len \in Nat /\ i \in Nat /\ j \in Nat /\ i <= size
      BY <1>3, <1>4, <2>3
    <3>5. /\ ~(s[i].at + (j - i) <= s[i].len)
          /\ s[i].at + (j - i) = s[i].len + 1 => j = size + 1
      <4> DEFINE at == s[i].at
                 l == s[i].len
      <4>1. size \in Nat /\ size < j /\ i \in Nat /\ j \in Nat /\ i <= size
        BY <1>1, <3>1, <3>4
      <4>2. at \in Nat /\ l \in Nat /\ (at + (size - i) <= l => at + (size - i) = l)
        BY <3>3, <3>4
      <4> HIDE DEF at, l, size
      <4>3. ~(at + (j - i) <= l) /\ (at + (j - i) = l + 1 => j = size + 1)
        BY <4>1, <4>2
      <4> QED
        BY <4>3 DEF at, l
    <3> QED
      BY <1>1, <3>1, <3>5 DEF IsByteOf
  <2> QED
    BY <2>1, <2>2, <2>3
<1>7. EndsWhole(t) /\ t # <<>>
  <2>1. size + len \in DOMAIN t /\ size + len \notin DOMAIN s
    BY <1>1, <1>4
  <2>2. IsByteOf(t[size + len], kind, msg, len, (size + len) - size)
    BY <1>2, <2>1
  <2>3. (size + len) - size = len
    BY <1>1
  <2> QED
    BY <1>1, <2>1, <2>2, <2>3 DEF IsByteOf, EndsWhole
<1>8. s = <<>> => t[1].at = 1
  <2> SUFFICES ASSUME s = <<>> PROVE t[1].at = 1
    OBVIOUS
  <2>1. size = 0 /\ 1 \in DOMAIN t /\ 1 \notin DOMAIN s
    BY <1>1, <1>4
  <2>2. IsByteOf(t[1], kind, msg, len, 1 - size)
    BY <1>2, <2>1
  <2> QED
    BY <2>1, <2>2 DEF IsByteOf
<1>9. s # <<>> => t[1] = s[1]
  BY <1>1, <1>2, <1>4
<1> QED
  BY <1>5, <1>6, <1>7, <1>8, <1>9 DEF Framed

(* So does it the answers' lengths and their turns, ...                    *)
LEMMA JoinedLawful ==
  ASSUME NEW s \in Seq(Byte), Lawful(s), AnswersInTurn(s),
         NEW kind \in PacketKinds, NEW msg, NEW len \in Nat,
         NEW t, IsJoined(t, s, kind, msg, len),
         kind \in PublishKinds => len \in PublishLens,
         kind \notin PublishKinds => msg = 0,
         kind = "pingresp" => len = PINGRESP_LEN,
         kind \in {"connack", "refused"} => s = <<>>,
         kind = "suback" => len = SUBACK_LEN /\ \A i \in DOMAIN s : s[i].kind # "suback"
  PROVE  Lawful(t) /\ AnswersInTurn(t)
<1>1. \A i \in DOMAIN t :
        \/ i \in DOMAIN s /\ t[i] = s[i]
        \/ /\ i \notin DOMAIN s /\ i > Len(s) /\ i - Len(s) \in 1..len
           /\ IsByteOf(t[i], kind, msg, len, i - Len(s))
  BY DEF IsJoined
<1>2. Lawful(t)
  BY <1>1 DEF Lawful, IsByteOf
<1>3. DOMAIN t \subseteq Nat /\ DOMAIN s = 1..Len(s) /\ Len(s) \in Nat
  BY DEF IsJoined
<1>4. ASSUME NEW i \in DOMAIN t, NEW j \in DOMAIN t, i < j
      PROVE  /\ t[j].kind \in {"connack", "refused"} => t[i].kind = t[j].kind
             /\ t[i].kind = "suback" /\ t[j].kind = "suback" =>
                  t[i].at + (j - i) <= SUBACK_LEN
  <2>1. CASE j \in DOMAIN s
    <3>1. i \in DOMAIN s /\ t[i] = s[i] /\ t[j] = s[j]
      BY <1>1, <1>3, <1>4, <2>1
    <3> QED
      BY <1>4, <2>1, <3>1 DEF AnswersInTurn
  <2>2. CASE i \notin DOMAIN s
    <3>1. /\ i > Len(s) /\ IsByteOf(t[i], kind, msg, len, i - Len(s))
          /\ j > Len(s) /\ j - Len(s) \in 1..len /\ IsByteOf(t[j], kind, msg, len, j - Len(s))
      BY <1>1, <1>3, <1>4, <2>2
    <3>2. t[i].kind = kind /\ t[j].kind = kind /\ t[i].at + (j - i) = j - Len(s)
      BY <1>3, <3>1 DEF IsByteOf
    <3> QED
      BY <3>1, <3>2
  <2>3. CASE i \in DOMAIN s /\ j \notin DOMAIN s
    <3>1. t[i] = s[i] /\ t[j].kind = kind /\ s # <<>>
      BY <1>1, <1>3, <2>3 DEF IsByteOf
    <3> QED
      BY <2>3, <3>1
  <2> QED
    BY <2>1, <2>2, <2>3
<1>5. AnswersInTurn(t)
  BY <1>4 DEF AnswersInTurn
<1> QED
  BY <1>2, <1>5

(* ... and where the reader is in the packet it reads.                     *)
LEMMA JoinedReader ==
  ASSUME NEW s \in Seq(Byte), Framed(s), EndsWhole(s),
         NEW kind \in PublishKinds \cup {"pingresp"}, NEW msg, NEW len \in Nat, len > 0,
         NEW t, IsJoined(t, s, kind, msg, len)
  PROVE  /\ OnlyMessages(s) => OnlyMessages(t)
         /\ AtBoundary(s) => AtBoundary(t)
         /\ \A r \in Parses : Continues(r, s, TRUE) => Continues(r, t, TRUE)
<1>1. /\ t # <<>>
      /\ s = <<>> => t[1].at = 1
      /\ s # <<>> => t[1] = s[1]
  BY JoinedFramed
<1>2. \A i \in DOMAIN t : (i \in DOMAIN s /\ t[i] = s[i]) \/ t[i].kind = kind
  BY DEF IsJoined, IsByteOf
<1>3. OnlyMessages(s) => OnlyMessages(t)
  BY <1>2 DEF OnlyMessages
<1>4. AtBoundary(s) => AtBoundary(t)
  BY <1>1 DEF AtBoundary
<1>5. ASSUME NEW r \in Parses, Continues(r, s, TRUE) PROVE Continues(r, t, TRUE)
  <2>1. CASE s = <<>>
    <3>1. r.bytes = r.total /\ r.bytes \in Nat
      BY <1>5, <2>1 DEF Continues, Parses
    <3> QED
      BY <1>1, <1>5, <2>1, <3>1 DEF Continues
  <2>2. CASE s # <<>>
    BY <1>1, <1>5, <2>2 DEF Continues
  <2> QED
    BY <2>1, <2>2
<1> QED
  BY <1>3, <1>4, <1>5

(* The reader that takes more bytes of its packet stays in it to its end.  *)
LEMMA ReadOn ==
  ASSUME NEW s \in Seq(Byte), Framed(s), NEW k \in 1..Len(s), NEW open \in BOOLEAN,
         open => EndsWhole(s),
         NEW r \in Parses, Continues(r, s, open), r.bytes < r.total, r.bytes + k <= r.total,
         NEW t, t = Drop(s, k),
         NEW q, q.kind = r.kind, q.msg = r.msg, q.total = r.total,
         q.genuine = r.genuine, q.bytes = r.bytes + k
  PROVE  /\ Continues(q, t, open)
         /\ q.bytes = q.total => AtBoundary(t)
         /\ \A i \in 1..k : s[i].msg = r.msg
<1>1. Len(s) \in Nat /\ k \in Nat /\ s # <<>> /\ r.bytes \in Nat /\ r.total \in Nat
  BY DEF Parses
<1>2. /\ s[1].kind = r.kind /\ s[1].msg = r.msg /\ s[1].len = r.total
      /\ s[1].at = r.bytes + 1
  BY <1>1 DEF Continues
<1>3. s[1].at + k - 1 = q.bytes /\ s[1].at + k = q.bytes + 1 /\ s[1].at + k - 1 <= s[1].len
  <2>1. \A b, m \in Nat : (b + 1) + m - 1 = b + m /\ (b + 1) + m = (b + m) + 1
    OBVIOUS
  <2>2. (r.bytes + 1) + k - 1 = r.bytes + k /\ (r.bytes + 1) + k = (r.bytes + k) + 1
    BY <1>1, <2>1
  <2> QED
    BY <1>2, <2>2
<1>4. /\ \A i \in 1..k : SamePacket(s[1], s[i])
      /\ t # <<>> =>
           /\ s[1].at + k - 1 < s[1].len => SamePacket(s[1], t[1]) /\ t[1].at = s[1].at + k
           /\ s[1].at + k - 1 = s[1].len => t[1].at = 1
      /\ t = <<>> /\ EndsWhole(s) => s[1].at + k - 1 = s[1].len
  BY <1>3, FrontOfPacket
<1>5. \A i \in 1..k : s[i].msg = r.msg
  BY <1>2, <1>4 DEF SamePacket
<1>6. q.bytes = q.total => AtBoundary(t)
  BY <1>2, <1>3, <1>4 DEF AtBoundary
<1>7. Continues(q, t, open)
  <2>1. /\ q.genuine /\ q.kind \in PublishKinds /\ q.total \in PublishLens
        /\ q.bytes <= q.total
    BY DEF Continues
  <2>2. t = <<>> /\ open => q.bytes = q.total
    BY <1>2, <1>3, <1>4
  <2>3. ASSUME t # <<>>, q.bytes < q.total
        PROVE  /\ t[1].kind = q.kind /\ t[1].msg = q.msg /\ t[1].len = q.total
               /\ t[1].at = q.bytes + 1
    BY <1>2, <1>3, <1>4, <2>3 DEF SamePacket
  <2>4. t # <<>> /\ q.bytes = q.total => t[1].at = 1
    BY <1>2, <1>3, <1>4
  <2> QED
    BY <2>1, <2>2, <2>3, <2>4 DEF Continues
<1> QED
  BY <1>5, <1>6, <1>7

-----------------------------------------------------------------------------
(* StreamInv is inductive: the steps that set a connection up.             *)

(* What a step is to keep of a connection: all but the stream to the       *)
(* broker and what the device notes of it.                                 *)
SameLink ==
  /\ link'.down = link.down /\ link'.peer = link.peer /\ link'.session = link.session
  /\ link'.torn = link.torn /\ link'.base = link.base

(* A step that leaves stream and reader alone keeps the invariant.         *)
LEMMA StreamKept ==
  ASSUME TypeOK, StreamInv, SameLink, UNCHANGED <<published, received>>,
         pc' \in ReadyPcs => pc' = pc /\ rx' = rx,
         pc' = "recvSuback" => pc = "recvSuback" \/ link.session # "subscribed",
         AsksInTurn'
  PROVE  StreamInv'
<1> USE DEF SameLink
<1>1. Framed(link'.down) /\ Lawful(link'.down) /\ AnswersInTurn(link'.down)
  BY DEF StreamInv
<1>2. BrokerWrites'
  BY DEF StreamInv, BrokerWrites
<1>3. ReaderInPlace'
  BY DEF StreamInv, ReaderInPlace, READY
<1>4. KeptForSuback'
  BY DEF StreamInv, KeptForSuback
<1>5. NoSilentLoss'
  BY DEF StreamInv, NoSilentLoss, READY
<1> QED
  BY <1>1, <1>2, <1>3, <1>4, <1>5 DEF StreamInv

(* So does one that begins a connection, or gives it up.                   *)
LEMMA StreamFresh ==
  ASSUME link' \in {NewLink, NoLink}, pc' \notin ReadyPcs
  PROVE  StreamInv'
<1>1. /\ link'.down = <<>> /\ link'.up = <<>> /\ link'.session = "new"
  BY DEF NewLink, NoLink
<1>2. Framed(link'.down) /\ Lawful(link'.down) /\ AnswersInTurn(link'.down)
  BY <1>1 DEF Framed, Lawful, AnswersInTurn
<1>3. BrokerWrites' /\ AsksInTurn' /\ KeptForSuback'
  BY <1>1 DEF BrokerWrites, EndsWhole, AsksInTurn, KeptForSuback
<1>4. ReaderInPlace' /\ NoSilentLoss'
  BY DEF ReaderInPlace, NoSilentLoss, READY
<1> QED
  BY <1>2, <1>3, <1>4 DEF StreamInv

(* SUBSCRIBE is not asked for before its turn.                             *)
LEMMA AskedInTurn ==
  ASSUME TypeOK, AsksInTurn, link'.session = link.session,
         NEW p \in Requests, p # "SUBSCRIBE", link'.up \in {link.up, Append(link.up, p)},
         pc' \in {"sendConnect", "recvConnack", "sendSubscribe"} =>
           pc \in {"sendConnect", "recvConnack", "sendSubscribe"}
  PROVE  AsksInTurn'
<1>1. link.up \in Seq(Requests)
  BY DEF TypeOK, Links
<1>2. \A i \in DOMAIN Append(link.up, p) :
        Append(link.up, p)[i] = p \/ (i \in DOMAIN link.up /\ Append(link.up, p)[i] = link.up[i])
  BY <1>1
<1> QED
  BY <1>2 DEF AsksInTurn

(* The steps that set a connection up, and those of the ping task, keep    *)
(* the invariant.                                                          *)
LEMMA OtherStream ==
  ASSUME TypeOK, StreamInv,
         \/ StartRoutine \/ Install \/ RetrieveEndpoint \/ CloseSocket
         \/ OpenSocket \/ SendConnect \/ SendSubscribe \/ PingReqTask
         \/ UNCHANGED vars
  PROVE  StreamInv'
<1>0. AsksInTurn
  BY DEF StreamInv
<1>1. ASSUME NEW p \in Requests
      PROVE  /\ Sent(p) \in Links
             /\ Sent(p).down = link.down /\ Sent(p).peer = link.peer
             /\ Sent(p).session = link.session /\ Sent(p).torn = link.torn
             /\ Sent(p).base = link.base /\ Sent(p).up \in {link.up, Append(link.up, p)}
  <2>1. Sent(p).up \in {link.up, Append(link.up, p)}
    BY DEF Sent, TypeOK, Links
  <2> QED
    BY <2>1, SentType DEF TypeOK
<1>2. UNCHANGED <<published, received>>
  BY DEF StartRoutine, Install, RetrieveEndpoint, CloseSocket, OpenSocket,
         SendConnect, SendSubscribe, PingReqTask, PingCheck, PingLoad, PingSend,
         PingDelay, vars, outcome
<1>3. CASE StartRoutine \/ Install \/ RetrieveEndpoint
  <2>1. link' = link /\ pc' \in {"install", "absent", "retrieve", "close"}
    BY <1>3 DEF StartRoutine, Install, RetrieveEndpoint
  <2> QED
    BY <1>2, <2>1, StreamKept DEF SameLink, AsksInTurn, ReadyPcs
<1>4. CASE CloseSocket \/ OpenSocket
  <2>1. \/ link' \in {NewLink, NoLink} /\ pc' \notin ReadyPcs
        \/ link' = link /\ pc' \in {"install", "open"}
    BY <1>4 DEF CloseSocket, OpenSocket, GiveUp, ReadyPcs
  <2> QED
    BY <1>2, <2>1, StreamKept, StreamFresh DEF SameLink, AsksInTurn, ReadyPcs
<1>5. CASE SendConnect
  <2>1. /\ pc = "sendConnect" /\ pc' \in {"recvConnack", "install"}
        /\ link' \in {link, Sent("CONNECT")}
    BY <1>5 DEF SendConnect, GiveUp
  <2>2. SameLink /\ link'.up \in {link.up, Append(link.up, "CONNECT")}
    BY <1>1, <2>1 DEF SameLink, Requests
  <2>3. AsksInTurn'
    BY <1>0, <2>1, <2>2, AskedInTurn DEF SameLink, Requests
  <2> QED
    BY <1>2, <2>1, <2>2, <2>3, StreamKept DEF ReadyPcs
<1>6. CASE SendSubscribe
  <2>1. /\ pc = "sendSubscribe" /\ pc' \in {"recvSuback", "install"}
        /\ link' \in {link, Sent("SUBSCRIBE")}
    BY <1>6 DEF SendSubscribe, GiveUp
  <2>2. SameLink /\ link.session # "subscribed" /\ AsksInTurn'
    BY <1>0, <1>1, <2>1 DEF SameLink, Requests, AsksInTurn
  <2> QED
    BY <1>2, <2>1, <2>2, StreamKept DEF ReadyPcs
<1>7. CASE PingReqTask
  <2>1. /\ UNCHANGED <<pc, rx>>
        /\ \/ link' = link
           \/ link' = [Sent("PINGREQ") EXCEPT !.strays = IF link.acked THEN @ ELSE @ + 1]
    BY <1>7 DEF PingReqTask, PingCheck, PingLoad, PingSend, PingDelay
  <2>2. SameLink /\ link'.up \in {link.up, Append(link.up, "PINGREQ")}
    <3>1. CASE link' = link
      BY <3>1 DEF SameLink
    <3>2. CASE link' = [Sent("PINGREQ") EXCEPT !.strays = IF link.acked THEN @ ELSE @ + 1]
      <4>1. \A n : LET l == [Sent("PINGREQ") EXCEPT !.strays = n] IN
              /\ l.down = link.down /\ l.peer = link.peer /\ l.session = link.session
              /\ l.torn = link.torn /\ l.base = link.base
              /\ l.up = Sent("PINGREQ").up
        BY <1>1 DEF Requests, Links
      <4>2. Sent("PINGREQ").up \in {link.up, Append(link.up, "PINGREQ")}
        BY <1>1 DEF Requests
      <4> QED
        BY <3>2, <4>1, <4>2 DEF SameLink
    <3> QED
      BY <2>1, <3>1, <3>2
  <2>3. AsksInTurn'
    BY <1>0, <2>1, <2>2, AskedInTurn DEF SameLink, Requests
  <2> QED
    BY <1>2, <2>1, <2>2, <2>3, StreamKept
<1>8. CASE UNCHANGED vars
  BY <1>0, <1>2, <1>8, StreamKept DEF SameLink, vars, AsksInTurn
<1> QED
  BY <1>3, <1>4, <1>5, <1>6, <1>7, <1>8

-----------------------------------------------------------------------------
(* StreamInv is inductive: the steps that take bytes from the stream.      *)

(* Taking bytes keeps the shape of the stream.                             *)
LEMMA TakenShape ==
  ASSUME TypeOK, StreamInv, NEW k \in 1..Len(link.down),
         link'.down = Drop(link.down, k),
         link'.peer = link.peer, link'.session = link.session
  PROVE  /\ Framed(link'.down) /\ Lawful(link'.down) /\ AnswersInTurn(link'.down)
         /\ BrokerWrites'
         /\ OnlyMessages(link.down) => OnlyMessages(link'.down)
<1>1. /\ link.down \in Seq(Byte) /\ Len(link.down) \in Nat /\ k \in 0..Len(link.down)
      /\ link.down # <<>>
  BY DEF TypeOK, Links
<1>2. /\ Framed(link'.down) /\ Lawful(link'.down) /\ AnswersInTurn(link'.down)
      /\ OnlyMessages(link.down) => OnlyMessages(link'.down)
  BY <1>1, PartsFramed DEF StreamInv
<1>3. BrokerWrites'
  <2>1. link.peer => EndsWhole(link.down) /\ link.session # "new"
    BY <1>1 DEF StreamInv, BrokerWrites
  <2> QED
    BY <1>1, <2>1, RestEndsWhole DEF BrokerWrites
<1> QED
  BY <1>2, <1>3

(* A byte is among those taken, or among those left.                       *)
LEMMA TakenOrLeft ==
  ASSUME NEW s \in Seq(Byte), NEW k \in 1..Len(s), NEW t, t = Drop(s, k), NEW i \in DOMAIN s
  PROVE  i \in 1..k \/ \E j \in DOMAIN t : t[j] = s[i]
<1>1. Len(s) \in Nat /\ k \in 0..Len(s) /\ i \in 1..Len(s)
  OBVIOUS
<1>2. t \in Seq(Byte) /\ Len(t) = Len(s) - k
  BY <1>1, DropBytes
<1>3. \A j \in DOMAIN t : t[j] = s[k + j]
  BY <1>1, DropBytes
<1>4. ASSUME i \notin 1..k PROVE \E j \in DOMAIN t : t[j] = s[i]
  <2>1. i - k \in DOMAIN t /\ k + (i - k) = i
    BY <1>1, <1>2, <1>4
  <2> QED
    BY <1>3, <2>1
<1> QED
  BY <1>4

(* Waiting for the answer to CONNECT keeps the invariant, ...              *)
LEMMA ConnackStream ==
  ASSUME TypeOK, StreamInv, RecvConnack
  PROVE  StreamInv'
<1>1. link \in Links /\ link.down \in Seq(Byte) /\ AsksInTurn
  BY DEF TypeOK, Links, StreamInv
<1>2. /\ pc = "recvConnack" /\ pc' \in {"sendSubscribe", "install"}
      /\ UNCHANGED <<published, received>>
  BY DEF RecvConnack, GiveUp, outcome
<1>3. CASE link' = link
  BY <1>1, <1>2, <1>3, StreamKept DEF SameLink, AsksInTurn, ReadyPcs
<1>4. ASSUME NEW k \in 1..MqttBufferSize, Recv(MqttBufferSize, k),
             link' = [link EXCEPT !.down = Drop(@, k), !.acked = ConnackOK(k)]
      PROVE  StreamInv'
  <2>1. k \in 1..Len(link.down)
    BY <1>4, WireAssumption, ReceiveTypes
  <2>2. /\ link'.down = Drop(link.down, k) /\ link'.peer = link.peer
        /\ link'.session = link.session /\ link'.up = link.up
    BY <1>1, <1>4 DEF Links
  <2>3. /\ Framed(link'.down) /\ Lawful(link'.down) /\ AnswersInTurn(link'.down)
        /\ BrokerWrites'
    BY <2>1, <2>2, TakenShape
  <2>4. AsksInTurn'
    BY <1>1, <1>2, <2>2 DEF AsksInTurn
  <2>5. ReaderInPlace' /\ KeptForSuback' /\ NoSilentLoss'
    BY <1>2 DEF ReaderInPlace, KeptForSuback, NoSilentLoss, READY, ReadyPcs
  <2> QED
    BY <2>3, <2>4, <2>5 DEF StreamInv
<1> QED
  BY <1>3, <1>4 DEF RecvConnack

(* ... and so does waiting for the answer to SUBSCRIBE: it is read alone,  *)
(* and a first message behind it stays.                                    *)
LEMMA SubackStream ==
  ASSUME TypeOK, IInv, StreamInv, RecvSuback
  PROVE  StreamInv'
<1>1. /\ link \in Links /\ link.down \in Seq(Byte) /\ Len(link.down) \in Nat
      /\ link.base \in Nat /\ published \in Nat
  BY WireAssumption DEF TypeOK, Links
<1>2. /\ pc = "recvSuback" /\ pc' \in {"recvFixed", "install"}
      /\ UNCHANGED <<published, received>>
  BY DEF RecvSuback, GiveUp, outcome
<1>3. CASE link' = link /\ pc' = "install"
  BY <1>1, <1>2, <1>3, StreamKept DEF SameLink, AsksInTurn, ReadyPcs
<1>4. ASSUME NEW k \in 1..MqttBufferSize, Recv(MqttBufferSize, k),
             link' = [link EXCEPT !.down = Drop(@, k)],
             pc' = "recvFixed" => SubackOK(k)
      PROVE  StreamInv'
  <2>1. k \in 1..Len(link.down)
    BY <1>4, WireAssumption, ReceiveTypes
  <2>2. /\ link'.down = Drop(link.down, k) /\ link'.peer = link.peer
        /\ link'.session = link.session /\ link'.base = link.base
    BY <1>1, <1>4 DEF Links
  <2>3. /\ Framed(link'.down) /\ Lawful(link'.down) /\ AnswersInTurn(link'.down)
        /\ BrokerWrites'
    BY <2>1, <2>2, TakenShape
  <2>4. AsksInTurn' /\ KeptForSuback'
    BY <1>2 DEF AsksInTurn, KeptForSuback
  <2>5. CASE pc' = "install"
    <3>1. ReaderInPlace' /\ NoSilentLoss'
      BY <2>5 DEF ReaderInPlace, NoSilentLoss, READY, ReadyPcs
    <3> QED
      BY <2>3, <2>4, <3>1 DEF StreamInv
  <2>6. CASE pc' = "recvFixed"
    <3>1. k = 5 /\ SubSeq(link.down, 1, 5) = Suback
      BY <1>4, <2>6 DEF SubackOK, SUBACK_LEN
    <3>2. \A i \in 1..5 : IsByteOf(link.down[i], "suback", 0, 5, i)
      <4>1. \A i \in 1..5 : SubSeq(link.down, 1, 5)[i] = link.down[i]
        <5>1. 5 \in 0..Len(link.down)
          BY <1>1, <2>1, <3>1
        <5>2. /\ SubSeq(link.down, 1, 5) \in Seq(Byte) /\ Len(SubSeq(link.down, 1, 5)) = 5
              /\ \A i \in DOMAIN SubSeq(link.down, 1, 5) :
                   SubSeq(link.down, 1, 5)[i] = link.down[i]
          BY <1>1, <5>1, KeptBytes
        <5> QED
          BY <5>2
      <4>2. \A i \in 1..5 : IsByteOf(Suback[i], "suback", 0, 5, i)
        BY DEF Suback, Packet, IsByteOf, SUBACK_LEN
      <4> QED
        BY <3>1, <4>1, <4>2
    <3>3. 1 \in DOMAIN link.down /\ IsByteOf(link.down[1], "suback", 0, 5, 1)
      BY <1>1, <2>1, <3>2
    <3>4. \A i \in DOMAIN link'.down :
            i \in Nat /\ i >= 1 /\ 5 + i \in DOMAIN link.down /\ link'.down[i] = link.down[5 + i]
      <4>1. 5 \in 0..Len(link.down) /\ link'.down = Drop(link.down, 5)
        BY <1>1, <2>1, <2>2, <3>1
      <4>2. /\ Drop(link.down, 5) \in Seq(Byte)
            /\ \A i \in DOMAIN Drop(link.down, 5) :
                 5 + i \in DOMAIN link.down /\ Drop(link.down, 5)[i] = link.down[5 + i]
        BY <1>1, <4>1, DropBytes
      <4> QED
        BY <4>1, <4>2
    <3>5. OnlyMessages(link'.down)
      <4> SUFFICES ASSUME NEW i \in DOMAIN link'.down
                   PROVE  link'.down[i].kind \in PublishKinds \cup {"pingresp"}
        BY DEF OnlyMessages
      <4>1. 5 + i \in DOMAIN link.down /\ 1 < 5 + i /\ i >= 1 /\ i \in Nat
        BY <3>4
      <4>2. link.down[5 + i].kind \in PacketKinds
        <5>1. link.down[5 + i] \in Byte
          BY <1>1, <4>1
        <5> QED
          BY <5>1 DEF Byte
      <4>3. link.down[5 + i].kind \notin {"connack", "refused"}
        BY <3>3, <4>1 DEF StreamInv, AnswersInTurn, IsByteOf
      <4>4. link.down[5 + i].kind # "suback"
        <5>1. ~(1 + ((5 + i) - 1) <= 5)
          BY <4>1
        <5> QED
          BY <3>3, <4>1, <5>1 DEF StreamInv, AnswersInTurn, IsByteOf, SUBACK_LEN
      <4> QED
        BY <3>4, <4>2, <4>3, <4>4 DEF PacketKinds
    <3>6. AtBoundary(link'.down)
      <4>1. link.down[1].at + 5 - 1 = link.down[1].len /\ link.down[1].len = 5
        BY <3>3 DEF IsByteOf
      <4> QED
        BY <1>1, <2>1, <2>2, <3>1, <4>1, FrontOfPacket DEF StreamInv, AtBoundary
    <3>7. ReaderInPlace'
      BY <2>6, <3>5, <3>6 DEF ReaderInPlace
    <3>8. NoSilentLoss'
      <4> SUFFICES ASSUME link.peer, NEW m \in link.base + 1..published
                   PROVE  \E i \in DOMAIN link'.down : link'.down[i].msg = m
        BY <1>2, <2>2, <2>6 DEF NoSilentLoss
      <4>1. link.session = "subscribed"
        BY <3>3 DEF IInv, AnswersTruthful, Truthful, IsByteOf
      <4>2. PICK i \in DOMAIN link.down : link.down[i].msg = m
        BY <1>2, <4>1 DEF StreamInv, KeptForSuback
      <4>3. m # 0
        BY <1>1
      <4>4. i \notin 1..5
        BY <3>2, <4>2, <4>3 DEF IsByteOf
      <4>5. i \in 1..k \/ \E j \in DOMAIN link'.down : link'.down[j] = link.down[i]
        BY <1>1, <2>1, <2>2, TakenOrLeft
      <4> QED
        BY <3>1, <4>2, <4>4, <4>5
    <3> QED
      BY <2>3, <2>4, <3>7, <3>8 DEF StreamInv
  <2> QED
    BY <1>2, <2>5, <2>6
<1>5. \/ link' = link /\ pc' = "install"
      \/ \E k \in 1..MqttBufferSize :
           /\ Recv(MqttBufferSize, k)
           /\ link' = [link EXCEPT !.down = Drop(@, k)]
           /\ pc' = "recvFixed" => SubackOK(k)
  BY DEF RecvSuback, GiveUp
<1> QED
  BY <1>3, <1>4, <1>5

(* Where the reader is after a step, and that the step lost no message:    *)
(* what it took, or was reading, it is reading still or has given to the   *)
(* callback.                                                               *)
Placed ==
  /\ pc = "recvFixed" => AtBoundary(link.down)
  /\ pc = "recvTopicHeader" => rx.bytes = 2 /\ Continues(rx, link.down, link.peer)
  /\ pc = "recvRest" =>
       /\ rx.whole /\ rx.bytes < rx.total
       /\ Continues(rx, link.down, link.peer)

HandedOn(k) ==
  \A m \in 1..published :
    (\/ \E i \in 1..k : link.down[i].msg = m
     \/ pc # "recvFixed" /\ rx.msg = m
     \/ \E n \in DOMAIN received : received[n] = m)
    => (\/ \E n \in DOMAIN received' : received'[n] = m
        \/ pc' # "recvFixed" /\ rx'.msg = m)

(* A step of the receive function that takes bytes keeps the invariant if  *)
(* it keeps the place and hands on what it took.                           *)
LEMMA TakenStream ==
  ASSUME TypeOK, StreamInv, READY, pc' \in ReadyPcs \cup {"close"},
         UNCHANGED published,
         NEW k \in 1..Len(link.down), link' = [link EXCEPT !.down = Drop(@, k)],
         pc' \in ReadyPcs /\ ~link.torn => Placed' /\ HandedOn(k)
  PROVE  StreamInv'
<1>1. /\ link \in Links /\ link.down \in Seq(Byte)
      /\ link.base \in Nat /\ published \in Nat
  BY WireAssumption DEF TypeOK, Links
<1>2. /\ link'.down = Drop(link.down, k) /\ link'.peer = link.peer
      /\ link'.session = link.session /\ link'.base = link.base
      /\ link'.torn = link.torn
  BY <1>1 DEF Links
<1>3. /\ Framed(link'.down) /\ Lawful(link'.down) /\ AnswersInTurn(link'.down)
      /\ BrokerWrites' /\ OnlyMessages(link'.down)
  BY <1>2, TakenShape DEF StreamInv, ReaderInPlace
<1>4. AsksInTurn' /\ KeptForSuback'
  BY DEF AsksInTurn, KeptForSuback, ReadyPcs
<1>5. ReaderInPlace'
  BY <1>2, <1>3 DEF ReaderInPlace, Placed, READY
<1>6. NoSilentLoss'
  <2> SUFFICES ASSUME READY', link'.peer, ~link'.torn, NEW m \in link'.base + 1..published'
               PROVE  \/ \E i \in DOMAIN received' : received'[i] = m
                      \/ \E i \in DOMAIN link'.down : link'.down[i].msg = m
                      \/ pc' # "recvFixed" /\ rx'.msg = m
    BY DEF NoSilentLoss
  <2>1. HandedOn(k) /\ m \in 1..published
    BY <1>1, <1>2 DEF READY
  <2>2. \/ \E i \in DOMAIN received : received[i] = m
        \/ \E i \in DOMAIN link.down : link.down[i].msg = m
        \/ pc # "recvFixed" /\ rx.msg = m
    BY <1>2 DEF StreamInv, NoSilentLoss
  <2>3. \A i \in DOMAIN link.down :
          i \in 1..k \/ \E j \in DOMAIN link'.down : link'.down[j] = link.down[i]
    <3>1. ASSUME NEW t, t = Drop(link.down, k), NEW i \in DOMAIN link.down
          PROVE  i \in 1..k \/ \E j \in DOMAIN t : t[j] = link.down[i]
      BY <1>1, <3>1, TakenOrLeft
    <3> QED
      BY <1>2, <3>1
  <2> QED
    BY <2>1, <2>2, <2>3 DEF HandedOn
<1> QED
  BY <1>3, <1>4, <1>5, <1>6 DEF StreamInv

(* So does one that takes none and gives the connection up.                *)
LEMMA GivenUpStream ==
  ASSUME TypeOK, StreamInv, link' = link, pc' = "close", UNCHANGED <<published, received>>
  PROVE  StreamInv'
BY StreamKept DEF SameLink, AsksInTurn, ReadyPcs

(* Giving a message to the callback, or not, adds to what was received.    *)
LEMMA HandledMessage ==
  ASSUME TypeOK, NEW r \in Parses, r.whole, HandlePublish(r)
  PROVE  \/ pc' = "close" /\ received' = received
         \/ /\ pc' = "recvFixed"
            /\ \E n \in DOMAIN received' : received'[n] = r.msg
            /\ \A m : (\E n \in DOMAIN received : received[n] = m) =>
                        \E n \in DOMAIN received' : received'[n] = m
<1>1. received \in Seq(0..MaxMsgs) /\ r.msg \in 0..MaxMsgs /\ Len(received) \in Nat
  BY DEF TypeOK, Parses
<1>2. CASE pc' = "recvFixed" /\ received' = Append(received, r.msg)
  <2>1. /\ Len(received') = Len(received) + 1 /\ DOMAIN received' = 1..Len(received) + 1
        /\ received'[Len(received) + 1] = r.msg
        /\ \A n \in DOMAIN received : n \in DOMAIN received' /\ received'[n] = received[n]
    BY <1>1, <1>2
  <2>2. Len(received) + 1 \in DOMAIN received'
    BY <1>1, <2>1
  <2>3. \E n \in DOMAIN received' : received'[n] = r.msg
    BY <2>1, <2>2
  <2> QED
    BY <1>2, <2>1, <2>3
<1> QED
  BY <1>2 DEF HandlePublish, Callback, Reconnect, outcome

(* Reading the fixed header at a boundary finds the first bytes of one     *)
(* packet: of a message, or a whole PINGRESP.                              *)
LEMMA FixedHeaderStream ==
  ASSUME TypeOK, StreamInv, RecvFixedHeader
  PROVE  StreamInv'
<1> DEFINE b == link.down[1]
<1>1. /\ pc = "recvFixed" /\ READY /\ UNCHANGED <<published, received>>
      /\ link.down \in Seq(Byte) /\ Len(link.down) \in Nat /\ published \in Nat
      /\ link.peer \in BOOLEAN
  BY WireAssumption DEF RecvFixedHeader, READY, ReadyPcs, outcome, TypeOK, Links
<1>2. CASE link' = link /\ Reconnect
  BY <1>1, <1>2, GivenUpStream DEF Reconnect
<1>3. ASSUME NEW k \in 1..2, Recv(2, k), link' = [link EXCEPT !.down = Drop(@, k)],
             \/ /\ k = 2 /\ (b.at = 1 => b.kind \in PublishKinds)
                /\ pc' = "recvTopicHeader"
                /\ rx' = [kind |-> b.kind, msg |-> b.msg, bytes |-> 2, total |-> b.len,
                          genuine |-> b.at = 1, whole |-> FALSE]
             \/ /\ k = 2 /\ (b.at = 1 => b.kind \notin PublishKinds)
                /\ UNCHANGED <<pc, rx>>
             \/ k < 2 /\ Reconnect
      PROVE  StreamInv'
  <2>1. k \in 1..Len(link.down) /\ link.down # <<>>
    <3>1. \A m \in 1..2 : Recv(2, m) => m \in 1..Len(link.down)
      BY ReceiveTypes
    <3>2. k \in 1..Len(link.down)
      BY <1>3, <3>1
    <3> QED
      BY <1>1, <3>2
  <2>2. link'.down = Drop(link.down, k) /\ link'.peer = link.peer
    BY <1>3 DEF TypeOK, Links
  <2>3. pc' \in ReadyPcs \cup {"close"}
    BY <1>1, <1>3 DEF Reconnect, ReadyPcs
  <2>4. ASSUME pc' \in ReadyPcs, ~link.torn
        PROVE  Placed' /\ HandedOn(k)
    <3>0. k = 2
      <4>1. ~(pc' = "close")
        BY <2>4 DEF ReadyPcs
      <4> QED
        BY <1>3, <4>1 DEF Reconnect
    <3>1. k = 2 /\ 1 \in DOMAIN link.down /\ b \in Byte
      BY <1>1, <2>1, <3>0
    <3>2. b.at = 1
      BY <1>1, <2>1, <2>4 DEF StreamInv, ReaderInPlace, AtBoundary
    <3>3. b.kind \in PublishKinds \cup {"pingresp"} /\ b.len \in Nat
      BY <1>1, <3>1 DEF StreamInv, ReaderInPlace, OnlyMessages, Byte
    <3>4. /\ b.kind \in PublishKinds => b.len \in PublishLens
          /\ b.kind \notin PublishKinds => b.msg = 0 /\ b.len = 2
      BY <3>1, <3>3 DEF StreamInv, Lawful, PINGRESP_LEN
    <3>5. 2 <= b.len
      BY <3>3, <3>4, PushAssumption
    <3>6. b.at + k - 1 <= b.len /\ b.at + k - 1 = 2 /\ b.at + k = 3
      BY <3>1, <3>2, <3>5
    <3>7. /\ \A i \in 1..k : SamePacket(b, link.down[i])
          /\ link'.down # <<>> =>
               /\ b.at + k - 1 < b.len => SamePacket(b, link'.down[1]) /\ link'.down[1].at = b.at + k
               /\ b.at + k - 1 = b.len => link'.down[1].at = 1
          /\ link'.down = <<>> /\ EndsWhole(link.down) => b.at + k - 1 = b.len
      BY <1>1, <2>1, <2>2, <3>6, FrontOfPacket DEF StreamInv
    <3>8. CASE b.kind \in PublishKinds
      <4>1. /\ pc' = "recvTopicHeader"
            /\ rx'.kind = b.kind /\ rx'.msg = b.msg /\ rx'.bytes = 2 /\ rx'.total = b.len
            /\ rx'.genuine
        <5>1. /\ pc' = "recvTopicHeader"
              /\ rx' = [kind |-> b.kind, msg |-> b.msg, bytes |-> 2, total |-> b.len,
                        genuine |-> b.at = 1, whole |-> FALSE]
          BY <1>3, <3>1, <3>2, <3>8
        <5>2. rx'.genuine = (b.at = 1)
          BY <5>1
        <5> QED
          BY <3>2, <5>1, <5>2
      <4>2. link.peer => EndsWhole(link.down)
        BY DEF StreamInv, BrokerWrites
      <4>3. Continues(rx', link'.down, link'.peer)
        <5>1. /\ rx'.genuine /\ rx'.kind \in PublishKinds /\ rx'.total \in PublishLens
              /\ rx'.bytes <= rx'.total
          BY <3>4, <3>5, <3>8, <4>1
        <5>2. link'.down = <<>> /\ link'.peer => rx'.bytes = rx'.total
          BY <2>2, <3>6, <3>7, <4>1, <4>2
        <5>3. ASSUME link'.down # <<>>, rx'.bytes < rx'.total
              PROVE  /\ link'.down[1].kind = rx'.kind /\ link'.down[1].msg = rx'.msg
                     /\ link'.down[1].len = rx'.total /\ link'.down[1].at = rx'.bytes + 1
          <6>1. SamePacket(b, link'.down[1]) /\ link'.down[1].at = 3
            BY <3>6, <3>7, <4>1, <5>3
          <6> QED
            BY <4>1, <6>1 DEF SamePacket
        <5>4. link'.down # <<>> /\ rx'.bytes = rx'.total => link'.down[1].at = 1
          BY <3>6, <3>7, <4>1
        <5> QED
          BY <5>1, <5>2, <5>3, <5>4 DEF Continues
      <4>4. Placed'
        BY <4>1, <4>3 DEF Placed
      <4>5. HandedOn(k)
        BY <1>1, <3>7, <4>1 DEF HandedOn, SamePacket
      <4> QED
        BY <4>4, <4>5
    <3>9. CASE b.kind \notin PublishKinds
      <4>1. pc' = "recvFixed"
        BY <1>1, <1>3, <3>1, <3>2, <3>9
      <4>2. Placed'
        BY <3>4, <3>6, <3>7, <3>9, <4>1 DEF Placed, AtBoundary
      <4>3. HandedOn(k)
        BY <1>1, <3>4, <3>7, <3>9 DEF HandedOn, SamePacket
      <4> QED
        BY <4>2, <4>3
    <3> QED
      BY <3>8, <3>9
  <2> QED
    BY <1>1, <1>3, <2>1, <2>3, <2>4, TakenStream
<1>4. \/ link' = link /\ Reconnect
      \/ \E k \in 1..2 :
           /\ Recv(2, k) /\ link' = [link EXCEPT !.down = Drop(@, k)]
           /\ \/ /\ k = 2 /\ (b.at = 1 => b.kind \in PublishKinds)
                 /\ pc' = "recvTopicHeader"
                 /\ rx' = [kind |-> b.kind, msg |-> b.msg, bytes |-> 2, total |-> b.len,
                           genuine |-> b.at = 1, whole |-> FALSE]
              \/ /\ k = 2 /\ (b.at = 1 => b.kind \notin PublishKinds)
                 /\ UNCHANGED <<pc, rx>>
              \/ k < 2 /\ Reconnect
  <2>1. TRUE \in LooksLikePublish(b) => (b.at = 1 => b.kind \in PublishKinds)
    BY DEF LooksLikePublish
  <2>2. FALSE \in LooksLikePublish(b) => (b.at = 1 => b.kind \notin PublishKinds)
    BY DEF LooksLikePublish
  <2> QED
    BY <2>1, <2>2 DEF RecvFixedHeader
<1> QED
  BY <1>2, <1>3, <1>4

(* A message that ends with the bytes taken leaves the reader at the next  *)
(* packet: it was given to the callback, or the connection is given up.    *)
LEMMA WholeMessage ==
  ASSUME TypeOK, NEW k \in 1..Len(link.down), NEW r \in Parses, r.whole, HandlePublish(r),
         r.msg = rx.msg, AtBoundary(link'.down), pc' \in ReadyPcs,
         \A i \in 1..k : link.down[i].msg = rx.msg
  PROVE  Placed' /\ HandedOn(k)
<1>1. /\ pc' = "recvFixed"
      /\ \E n \in DOMAIN received' : received'[n] = rx.msg
      /\ \A m : (\E n \in DOMAIN received : received[n] = m) =>
                  \E n \in DOMAIN received' : received'[n] = m
  BY HandledMessage DEF ReadyPcs
<1>2. Placed'
  BY <1>1 DEF Placed
<1>3. HandedOn(k)
  BY <1>1 DEF HandedOn
<1> QED
  BY <1>2, <1>3

(* Reading the topic header stays in the packet, whose length it decodes.  *)
LEMMA TopicHeaderStream ==
  ASSUME TypeOK, StreamInv, RecvTopicHeader
  PROVE  StreamInv'
<1> DEFINE want == KII_PUSH_TOPIC_HEADER_SIZE
<1>1. /\ pc = "recvTopicHeader" /\ READY /\ UNCHANGED published
      /\ link.down \in Seq(Byte) /\ Len(link.down) \in Nat /\ link.peer \in BOOLEAN
      /\ rx \in Parses /\ want \in Nat
  <2>1. pc = "recvTopicHeader" /\ UNCHANGED published
    BY DEF RecvTopicHeader
  <2>2. /\ link.down \in Seq(Byte) /\ Len(link.down) \in Nat /\ link.peer \in BOOLEAN
        /\ rx \in Parses
    BY DEF TypeOK, Links
  <2> QED
    BY <2>1, <2>2, PushAssumption DEF READY, ReadyPcs
<1>2. CASE link' = link /\ Reconnect /\ UNCHANGED received
  BY <1>1, <1>2, GivenUpStream DEF Reconnect
<1>3. ASSUME NEW k \in 1..want, Recv(want, k), link' = [link EXCEPT !.down = Drop(@, k)],
             \/ Reconnect
             \/ /\ k = want
                /\ \E total \in DecodedTotals(rx) : \E r :
                     /\ r = [rx EXCEPT !.bytes = 2 + want, !.total = total, !.whole = rx.genuine]
                     /\ total # 0
                     /\ \/ HandlePublish(r) /\ 2 + want >= total
                        \/ /\ 2 + want < total /\ pc' = "recvRest" /\ rx' = r
                           /\ UNCHANGED received
      PROVE  StreamInv'
  <2>1. k \in 1..Len(link.down)
    <3>1. \A m \in 1..want : Recv(want, m) => m \in 1..Len(link.down)
      BY <1>1, ReceiveTypes
    <3> QED
      BY <1>3, <3>1
  <2>2. link'.down = Drop(link.down, k) /\ link'.peer = link.peer
    BY <1>3 DEF TypeOK, Links
  <2>3. pc' \in ReadyPcs \cup {"close"}
    BY <1>3 DEF Reconnect, HandlePublish, ReadyPcs
  <2>4. ASSUME pc' \in ReadyPcs, ~link.torn
        PROVE  Placed' /\ HandedOn(k)
    <3>1. ~Reconnect
      BY <2>4 DEF Reconnect, ReadyPcs
    <3>2. k = want /\ want >= 1
      <4>1. k = want
        BY <1>3, <3>1
      <4>2. \A m \in 1..want : m >= 1
        BY <1>1
      <4> QED
        BY <4>1, <4>2
    <3>2a. PICK total \in DecodedTotals(rx) : \E r :
             /\ r = [rx EXCEPT !.bytes = 2 + want, !.total = total, !.whole = rx.genuine]
             /\ total # 0
             /\ \/ HandlePublish(r) /\ 2 + want >= total
                \/ /\ 2 + want < total /\ pc' = "recvRest" /\ rx' = r
                   /\ UNCHANGED received
      BY <1>3, <3>1
    <3>3. PICK r :
            /\ r = [rx EXCEPT !.bytes = 2 + want, !.total = total, !.whole = rx.genuine]
            /\ total # 0
            /\ \/ HandlePublish(r) /\ 2 + want >= total
               \/ /\ 2 + want < total /\ pc' = "recvRest" /\ rx' = r
                  /\ UNCHANGED received
      BY <3>2a
    <3>4. rx.bytes = 2 /\ Continues(rx, link.down, link.peer)
      BY <1>1, <2>4 DEF StreamInv, ReaderInPlace
    <3>5. rx.genuine /\ rx.total \in PublishLens /\ rx.total \in Nat /\ rx.total >= 2 + want
      BY <1>1, <3>4, PushAssumption DEF Continues, Parses
    <3>6. total = rx.total
      BY <3>3, <3>5 DEF DecodedTotals
    <3>7. /\ r \in Parses /\ r.kind = rx.kind /\ r.msg = rx.msg /\ r.total = rx.total
          /\ r.genuine = rx.genuine /\ r.bytes = 2 + want /\ r.whole = rx.genuine
      <4>1. 2 + want \in Nat /\ rx.genuine \in BOOLEAN
        BY <1>1 DEF Parses
      <4>2. [rx EXCEPT !.bytes = 2 + want, !.total = total, !.whole = rx.genuine] \in Parses
        BY <1>1, <3>5, <3>6, <4>1, ParseFieldTypes
      <4> QED
        BY <1>1, <3>3, <3>6, <4>2 DEF Parses
    <3>8. rx.bytes < rx.total /\ rx.bytes + k <= rx.total /\ r.bytes = rx.bytes + k
      BY <1>1, <3>2, <3>4, <3>5, <3>7
    <3>9. link.peer => EndsWhole(link.down)
      BY DEF StreamInv, BrokerWrites
    <3>10. /\ Continues(r, link'.down, link'.peer)
           /\ r.bytes = r.total => AtBoundary(link'.down)
           /\ \A i \in 1..k : link.down[i].msg = rx.msg
      BY <1>1, <2>1, <2>2, <3>4, <3>7, <3>8, <3>9, ReadOn DEF StreamInv
    <3>11. CASE HandlePublish(r) /\ 2 + want >= total
      <4>1. r.bytes = r.total
        BY <1>1, <3>5, <3>6, <3>7, <3>11
      <4> QED
        BY <2>1, <2>4, <3>5, <3>7, <3>10, <3>11, <4>1, WholeMessage
    <3>12. CASE /\ 2 + want < total /\ pc' = "recvRest" /\ rx' = r
                /\ UNCHANGED received
      <4>1. rx'.whole /\ rx'.bytes < rx'.total /\ rx'.msg = rx.msg
        BY <3>5, <3>6, <3>7, <3>12
      <4>2. Placed'
        BY <3>10, <3>12, <4>1 DEF Placed
      <4>3. HandedOn(k)
        BY <3>10, <3>12, <4>1 DEF HandedOn
      <4> QED
        BY <4>2, <4>3
    <3> QED
      BY <3>3, <3>11, <3>12
  <2> QED
    BY <1>1, <1>3, <2>1, <2>3, <2>4, TakenStream
<1>4. \/ link' = link /\ Reconnect /\ UNCHANGED received
      \/ \E k \in 1..want :
           /\ Recv(want, k) /\ link' = [link EXCEPT !.down = Drop(@, k)]
           /\ \/ Reconnect
              \/ /\ k = want
                 /\ \E total \in DecodedTotals(rx) : \E r :
                      /\ r = [rx EXCEPT !.bytes = 2 + want, !.total = total, !.whole = rx.genuine]
                      /\ total # 0
                      /\ \/ HandlePublish(r) /\ 2 + want >= total
                         \/ /\ 2 + want < total /\ pc' = "recvRest" /\ rx' = r
                            /\ UNCHANGED received
  <2>1. \A total : [rx EXCEPT !.bytes = 2 + want, !.total = total, !.whole = rx.genuine].bytes
                     = 2 + want
    BY <1>1 DEF Parses
  <2>2. ASSUME NEW k \in 1..want, k = want, NEW total \in DecodedTotals(rx), NEW r,
               r = [rx EXCEPT !.bytes = 2 + want, !.total = total, !.whole = rx.genuine],
               \/ /\ total = 0 \/ total > MqttBufferSize
                  /\ Reconnect /\ UNCHANGED <<rx, outcome>>
               \/ /\ total \in 1..MqttBufferSize /\ r.bytes >= total
                  /\ HandlePublish(r) /\ rx' = NoPacket
               \/ /\ total \in 1..MqttBufferSize /\ r.bytes < total
                  /\ pc' = "recvRest" /\ rx' = r
                  /\ UNCHANGED <<mqttConnected, outcome>>
        PROVE  \/ Reconnect
               \/ /\ total # 0
                  /\ \/ HandlePublish(r) /\ 2 + want >= total
                     \/ /\ 2 + want < total /\ pc' = "recvRest" /\ rx' = r
                        /\ UNCHANGED received
    <3>1. r.bytes = 2 + want
      BY <2>1, <2>2
    <3>2. \A n \in 1..MqttBufferSize : n # 0
      BY WireAssumption
    <3> QED
      BY <2>2, <3>1, <3>2 DEF outcome
  <2>3. \/ link' = link /\ Reconnect /\ UNCHANGED received
        \/ \E k \in 1..want :
             /\ Recv(want, k) /\ link' = [link EXCEPT !.down = Drop(@, k)]
             /\ \/ Reconnect
                \/ /\ k = want
                   /\ \E total \in DecodedTotals(rx) : \E r :
                        /\ r = [rx EXCEPT !.bytes = 2 + want, !.total = total,
                                          !.whole = rx.genuine]
                        /\ \/ /\ total = 0 \/ total > MqttBufferSize
                              /\ Reconnect /\ UNCHANGED <<rx, outcome>>
                           \/ /\ total \in 1..MqttBufferSize /\ r.bytes >= total
                              /\ HandlePublish(r) /\ rx' = NoPacket
                           \/ /\ total \in 1..MqttBufferSize /\ r.bytes < total
                              /\ pc' = "recvRest" /\ rx' = r
                              /\ UNCHANGED <<mqttConnected, outcome>>
    BY DEF RecvTopicHeader, outcome
  <2> QED
    BY <2>2, <2>3
<1> QED
  BY <1>2, <1>3, <1>4

(* Reading the rest stays in the packet to its end; a packet given up      *)
(* inside tears the stream.                                                *)
LEMMA RestStream ==
  ASSUME TypeOK, StreamInv, RecvRest
  PROVE  StreamInv'
<1>1. /\ pc = "recvRest" /\ READY /\ UNCHANGED published
      /\ link \in Links /\ link.down \in Seq(Byte) /\ Len(link.down) \in Nat
      /\ link.peer \in BOOLEAN
      /\ rx \in Parses /\ rx.bytes \in Nat /\ rx.total \in Nat
  BY DEF RecvRest, READY, ReadyPcs, outcome, TypeOK, Links, Parses
<1>2. CASE RestLost /\ link' = [link EXCEPT !.torn = TRUE]
  <2>1. /\ link'.down = link.down /\ link'.peer = link.peer
        /\ link'.session = link.session /\ link'.torn
    BY <1>1, <1>2 DEF Links
  <2>2. pc' \in {"recvFixed", "close"}
    BY <1>2 DEF RestLost, HandlePublish, Reconnect
  <2>3. Framed(link'.down) /\ Lawful(link'.down) /\ AnswersInTurn(link'.down)
    BY <2>1 DEF StreamInv
  <2>4. BrokerWrites' /\ AsksInTurn' /\ KeptForSuback' /\ NoSilentLoss'
    BY <2>1, <2>2 DEF StreamInv, BrokerWrites, AsksInTurn, KeptForSuback, NoSilentLoss
  <2>5. ReaderInPlace'
    BY <1>1, <2>1 DEF StreamInv, ReaderInPlace
  <2> QED
    BY <2>3, <2>4, <2>5 DEF StreamInv
<1>3. ASSUME NEW k \in Readable(link.down, RestWanted),
             link' = [link EXCEPT !.down = Drop(@, k)],
             \/ HandlePublish(rx) /\ Counted(k) >= rx.total
             \/ /\ ~(Counted(k) >= rx.total)
                /\ rx' = [rx EXCEPT !.bytes = Counted(k)] /\ UNCHANGED <<pc, received>>
      PROVE  StreamInv'
  <2>1. k \in 1..Len(link.down) /\ k \in Nat /\ k <= rx.total - rx.bytes
    BY <1>1 DEF Readable, Least, RestWanted
  <2>2. link'.down = Drop(link.down, k) /\ link'.peer = link.peer
    BY <1>1, <1>3 DEF Links
  <2>3. pc' \in ReadyPcs \cup {"close"}
    BY <1>1, <1>3 DEF Reconnect, HandlePublish, ReadyPcs
  <2>4. ASSUME pc' \in ReadyPcs, ~link.torn
        PROVE  Placed' /\ HandedOn(k)
    <3>1. rx.whole /\ rx.bytes < rx.total /\ Continues(rx, link.down, link.peer)
      BY <1>1, <2>4 DEF StreamInv, ReaderInPlace
    <3>2. link.peer => EndsWhole(link.down)
      BY DEF StreamInv, BrokerWrites
    <3>3. rx.bytes + k <= rx.total /\ Counted(k) = rx.bytes + k /\ Counted(k) \in Nat
      BY <1>1, <2>1 DEF Counted
    <3>4. ASSUME NEW q, q = [rx EXCEPT !.bytes = Counted(k)]
          PROVE  /\ q.kind = rx.kind /\ q.msg = rx.msg /\ q.total = rx.total
                 /\ q.genuine = rx.genuine /\ q.bytes = rx.bytes + k /\ q.whole = rx.whole
                 /\ Continues(q, link'.down, link'.peer)
                 /\ q.bytes = q.total => AtBoundary(link'.down)
                 /\ \A i \in 1..k : link.down[i].msg = rx.msg
      <4>1. /\ q.kind = rx.kind /\ q.msg = rx.msg /\ q.total = rx.total
            /\ q.genuine = rx.genuine /\ q.bytes = rx.bytes + k /\ q.whole = rx.whole
        BY <1>1, <3>3, <3>4 DEF Parses
      <4> QED
        BY <1>1, <2>1, <2>2, <3>1, <3>2, <3>3, <4>1, ReadOn DEF StreamInv
    <3>5. CASE HandlePublish(rx) /\ Counted(k) >= rx.total
      <4>1. rx.bytes + k = rx.total
        BY <1>1, <2>1, <3>3, <3>5
      <4>2. AtBoundary(link'.down) /\ \A i \in 1..k : link.down[i].msg = rx.msg
        BY <3>4, <4>1
      <4> QED
        BY <1>1, <2>1, <2>4, <3>1, <3>5, <4>2, WholeMessage
    <3>6. CASE /\ ~(Counted(k) >= rx.total)
               /\ rx' = [rx EXCEPT !.bytes = Counted(k)] /\ UNCHANGED <<pc, received>>
      <4>1. /\ rx'.msg = rx.msg /\ rx'.whole /\ rx'.bytes = rx.bytes + k /\ rx'.total = rx.total
            /\ Continues(rx', link'.down, link'.peer)
            /\ \A i \in 1..k : link.down[i].msg = rx.msg
        BY <3>1, <3>4, <3>6
      <4>2. rx'.bytes < rx'.total
        BY <1>1, <2>1, <3>3, <3>6, <4>1
      <4>3. Placed'
        BY <1>1, <3>6, <4>1, <4>2 DEF Placed
      <4>4. HandedOn(k)
        BY <1>1, <3>6, <4>1 DEF HandedOn
      <4> QED
        BY <4>3, <4>4
    <3> QED
      BY <1>3, <3>5, <3>6
  <2> QED
    BY <1>1, <1>3, <2>1, <2>3, <2>4, TakenStream
<1> QED
  BY <1>2, <1>3 DEF RecvRest, outcome

-----------------------------------------------------------------------------
(* StreamInv is inductive: the broker and the network.                     *)

(* The broker takes requests from the front of its stream.                 *)
LEMMA TakenInTurn ==
  ASSUME TypeOK, AsksInTurn, UNCHANGED pc, link.up # <<>>,
         link'.up \in {link.up, Tail(link.up)}, link'.session # "subscribed"
  PROVE  AsksInTurn'
<1>1. link.up \in Seq(Requests) /\ Len(link.up) \in Nat
  BY DEF TypeOK, Links
<1>2. \A i \in DOMAIN Tail(link.up) : i + 1 \in DOMAIN link.up /\ Tail(link.up)[i] = link.up[i + 1]
  BY <1>1
<1> QED
  BY <1>2 DEF AsksInTurn

(* The answers to CONNECT and to SUBSCRIBE find nobody reading messages.   *)
LEMMA AnsweredStream ==
  ASSUME TypeOK, IInv, StreamInv, link.peer, link.session \in {"new", "connected"},
         UNCHANGED <<pc, published>>, AsksInTurn', link'.session # "new",
         link'.session = "subscribed" => link'.base = published,
         NEW kind \in {"connack", "suback"}, NEW len \in Nat,
         IsJoined(link'.down, link.down, kind, 0, len),
         kind = "connack" => link.session = "new" /\ len = CONNACK_LEN,
         kind = "suback" => link.session = "connected" /\ len = SUBACK_LEN
  PROVE  StreamInv'
<1>1. link.down \in Seq(Byte) /\ published \in Nat
  BY WireAssumption DEF TypeOK, Links
<1>2. ~READY
  BY DEF IInv, HandshakeTracksTask
<1>3. EndsWhole(link.down) /\ (link.session = "new" => link.down = <<>>)
  BY DEF StreamInv, BrokerWrites
<1>4. Framed(link'.down) /\ EndsWhole(link'.down)
  <2>1. len > 0
    BY DEF CONNACK_LEN, SUBACK_LEN
  <2> QED
    BY <1>1, <1>3, <2>1, JoinedFramed DEF StreamInv
<1>5. Lawful(link'.down) /\ AnswersInTurn(link'.down)
  <2>1. link.session = "connected" => \A i \in DOMAIN link.down : link.down[i].kind # "suback"
    BY DEF IInv, AnswersTruthful, Truthful
  <2>2. kind \in PacketKinds /\ kind \notin PublishKinds
    BY DEF PacketKinds, PublishKinds
  <2> QED
    BY <1>1, <1>3, <2>1, <2>2, JoinedLawful DEF StreamInv
<1>6. BrokerWrites' /\ KeptForSuback' /\ ReaderInPlace' /\ NoSilentLoss'
  BY <1>1, <1>2, <1>4 DEF BrokerWrites, KeptForSuback, ReaderInPlace, NoSilentLoss, READY
<1> QED
  BY <1>4, <1>5, <1>6 DEF StreamInv

(* A packet of the broker's own accord, and the answer to PINGREQ, come    *)
(* behind all that was written.                                            *)
LEMMA WrittenStream ==
  ASSUME TypeOK, IInv, StreamInv, link.peer, link.session # "new",
         UNCHANGED <<pc, rx, received>>, AsksInTurn',
         link'.peer = link.peer, link'.session = link.session,
         link'.torn = link.torn, link'.base = link.base,
         NEW kind \in PublishKinds \cup {"pingresp"}, NEW msg \in 0..MaxMsgs, NEW len \in Nat,
         IsJoined(link'.down, link.down, kind, msg, len),
         kind \in PublishKinds => len \in PublishLens,
         kind = "pingresp" => msg = 0 /\ len = PINGRESP_LEN,
         \A m \in 1..published' : m \in 1..published \/ m = msg
  PROVE  StreamInv'
<1>1. /\ link.down \in Seq(Byte) /\ link.base \in Nat /\ rx \in Parses
      /\ Len(link.down) \in Nat
  BY WireAssumption DEF TypeOK, Links
<1>2. kind \in PacketKinds /\ len > 0 /\ (kind = "pingresp" <=> kind \notin PublishKinds)
  <2>1. \A n \in PublishLens : n \in Nat /\ n > 0
    BY WireAssumption, PushAssumption
  <2> QED
    BY <2>1 DEF PacketKinds, PublishKinds, PINGRESP_LEN
<1>3. EndsWhole(link.down)
  BY DEF StreamInv, BrokerWrites
<1>4. Framed(link'.down) /\ EndsWhole(link'.down)
  BY <1>1, <1>2, <1>3, JoinedFramed DEF StreamInv
<1>5. Lawful(link'.down) /\ AnswersInTurn(link'.down)
  <2>1. kind \notin {"connack", "refused", "suback"}
    BY DEF PublishKinds
  <2> QED
    BY <1>1, <1>2, <2>1, JoinedLawful DEF StreamInv
<1>6. BrokerWrites'
  BY <1>4 DEF BrokerWrites
<1>7. ReaderInPlace'
  <2>1. /\ OnlyMessages(link.down) => OnlyMessages(link'.down)
        /\ AtBoundary(link.down) => AtBoundary(link'.down)
        /\ Continues(rx, link.down, TRUE) => Continues(rx, link'.down, TRUE)
    BY <1>1, <1>2, <1>3, JoinedReader DEF StreamInv
  <2>2. link.peer = TRUE /\ link'.peer = TRUE
    BY DEF TypeOK, Links
  <2> QED
    BY <2>1, <2>2 DEF StreamInv, ReaderInPlace, READY
<1>8. /\ \A i \in DOMAIN link.down : i \in DOMAIN link'.down /\ link'.down[i] = link.down[i]
      /\ \E i \in DOMAIN link'.down : link'.down[i].msg = msg
  <2>1. /\ link'.down \in Seq(Byte) /\ Len(link'.down) = Len(link.down) + len
        /\ \A i \in DOMAIN link'.down :
             \/ i \in DOMAIN link.down /\ link'.down[i] = link.down[i]
             \/ i \notin DOMAIN link.down /\ link'.down[i].msg = msg
    BY DEF IsJoined, IsByteOf
  <2>2. /\ Len(link'.down) \in DOMAIN link'.down /\ Len(link'.down) \notin DOMAIN link.down
        /\ DOMAIN link.down \subseteq DOMAIN link'.down
    BY <1>1, <1>2, <2>1
  <2> QED
    BY <2>1, <2>2
<1>9. KeptForSuback'
  <2> SUFFICES ASSUME pc = "recvSuback", link.session = "subscribed",
                      NEW m \in link.base + 1..published'
               PROVE  \E i \in DOMAIN link'.down : link'.down[i].msg = m
    BY DEF KeptForSuback
  <2>1. m \in 1..published' /\ (m \in 1..published => m \in link.base + 1..published)
    BY <1>1
  <2>2. m \in link.base + 1..published \/ m = msg
    BY <2>1
  <2> QED
    BY <1>8, <2>2 DEF StreamInv, KeptForSuback
<1>10. NoSilentLoss'
  <2> SUFFICES ASSUME READY, ~link.torn, NEW m \in link.base + 1..published'
               PROVE  \/ \E i \in DOMAIN received : received[i] = m
                      \/ \E i \in DOMAIN link'.down : link'.down[i].msg = m
                      \/ pc # "recvFixed" /\ rx.msg = m
    BY DEF NoSilentLoss, READY
  <2>1. m \in 1..published' /\ (m \in 1..published => m \in link.base + 1..published)
    BY <1>1
  <2>2. m \in link.base + 1..published \/ m = msg
    BY <2>1
  <2> QED
    BY <1>8, <2>2 DEF StreamInv, NoSilentLoss
<1> QED
  BY <1>4, <1>5, <1>6, <1>7, <1>9, <1>10 DEF StreamInv

(* A connection that is lost, or closed by the broker, keeps what arrived. *)
LEMMA LostStream ==
  ASSUME TypeOK, StreamInv, UNCHANGED <<pc, rx, received, published>>,
         link'.peer = FALSE, link'.session = link.session, link'.torn = link.torn,
         AsksInTurn', NEW n \in 0..Len(link.down), link'.down = SubSeq(link.down, 1, n)
  PROVE  StreamInv'
<1>1. link.down \in Seq(Byte) /\ Len(link.down) \in Nat
  BY DEF TypeOK, Links
<1>2. /\ Framed(link'.down) /\ Lawful(link'.down) /\ AnswersInTurn(link'.down)
      /\ OnlyMessages(link.down) => OnlyMessages(link'.down)
  BY <1>1, PartsFramed DEF StreamInv
<1>3. BrokerWrites' /\ KeptForSuback' /\ NoSilentLoss'
  BY DEF BrokerWrites, KeptForSuback, NoSilentLoss
<1>4. link'.down # <<>> => link.down # <<>> /\ link'.down[1] = link.down[1]
  <2>1. /\ SubSeq(link.down, 1, n) \in Seq(Byte) /\ Len(SubSeq(link.down, 1, n)) = n
        /\ \A i \in DOMAIN SubSeq(link.down, 1, n) :
             i \in DOMAIN link.down /\ SubSeq(link.down, 1, n)[i] = link.down[i]
    BY <1>1, KeptBytes
  <2>2. SubSeq(link.down, 1, n) # <<>> => 1 \in DOMAIN SubSeq(link.down, 1, n)
    BY <2>1
  <2>3. 1 \in DOMAIN link.down => link.down # <<>>
    BY <1>1
  <2> QED
    BY <2>1, <2>2, <2>3
<1>5. AtBoundary(link.down) => AtBoundary(link'.down)
  BY <1>4 DEF AtBoundary
<1>6. Continues(rx, link.down, link.peer) => Continues(rx, link'.down, link'.peer)
  BY <1>4 DEF Continues
<1>7. ReaderInPlace'
  BY <1>2, <1>5, <1>6 DEF StreamInv, ReaderInPlace, READY
<1> QED
  BY <1>2, <1>3, <1>7 DEF StreamInv

(* The broker's steps keep the invariant, ...                              *)
LEMMA BrokerStream ==
  ASSUME TypeOK, IInv, StreamInv, Broker
  PROVE  StreamInv'
<1>1. /\ link \in Links /\ link.down \in Seq(Byte) /\ link.up # <<>> /\ link.peer
      /\ Len(link.down) \in Nat
      /\ UNCHANGED <<pc, rx, received, published>>
      /\ AsksInTurn /\ 0 \in 0..MaxMsgs
  BY WireAssumption DEF Broker, BrokerConnect, BrokerReject, BrokerSubscribe, BrokerPing,
     BrokerTakes, OnlyLink, outcome, TypeOK, Links, StreamInv
<1>2. \A bytes : LET a == Answers(bytes) IN
        /\ a.down = link.down \o bytes /\ a.up = Tail(link.up) /\ a.peer = link.peer
        /\ a.session = link.session /\ a.torn = link.torn /\ a.base = link.base
  BY <1>1 DEF Answers, Links
<1>3. CASE BrokerConnect
  <2>1. CASE link' = [Answers(Connack) EXCEPT !.session = "connected"]
    <3>1. /\ link'.down = link.down \o Connack /\ link'.session = "connected"
          /\ link'.up = Tail(link.up)
      BY <1>1, <1>2, <2>1 DEF Answers, Links
    <3>2. IsJoined(link'.down, link.down, "connack", 0, 4)
      BY <1>1, <3>1, JoinedBytes DEF Connack, CONNACK_LEN, PacketKinds
    <3>3. AsksInTurn'
      BY <1>1, <3>1, TakenInTurn
    <3>4. link.session = "new"
      BY <1>3 DEF BrokerConnect
    <3> QED
      BY <1>1, <3>1, <3>2, <3>3, <3>4, AnsweredStream DEF CONNACK_LEN
  <2>2. CASE link' = [Answers(Refused) EXCEPT !.peer = FALSE]
    <3>1. /\ link'.down = link.down \o Refused /\ link'.session = link.session
          /\ link'.up = Tail(link.up) /\ link'.peer = FALSE
      BY <1>1, <1>2, <2>2 DEF Answers, Links
    <3>2. IsJoined(link'.down, link.down, "refused", 0, 4)
      BY <1>1, <3>1, JoinedBytes DEF Refused, CONNACK_LEN, PacketKinds
    <3>3. link.session = "new" /\ link.down = <<>> /\ EndsWhole(link.down)
      BY <1>1, <1>3 DEF BrokerConnect, StreamInv, BrokerWrites
    <3>4. AsksInTurn' /\ ~READY
      BY <1>1, <3>1, <3>3, TakenInTurn DEF IInv, HandshakeTracksTask
    <3>5. Framed(link'.down)
      <4>1. 4 \in Nat /\ 4 > 0
        OBVIOUS
      <4>2. Framed(link.down)
        BY DEF StreamInv
      <4> QED
        BY <1>1, <3>2, <3>3, <4>1, <4>2, JoinedFramed
    <3>6. Lawful(link'.down) /\ AnswersInTurn(link'.down)
      <4>1. "refused" \in PacketKinds /\ "refused" \notin PublishKinds
        BY DEF PacketKinds, PublishKinds
      <4> QED
        BY <1>1, <3>2, <3>3, <4>1, JoinedLawful DEF StreamInv
    <3>7. BrokerWrites' /\ KeptForSuback' /\ ReaderInPlace' /\ NoSilentLoss'
      BY <1>1, <3>1, <3>4 DEF BrokerWrites, KeptForSuback, ReaderInPlace, NoSilentLoss, READY
    <3> QED
      BY <3>4, <3>5, <3>6, <3>7 DEF StreamInv
  <2> QED
    BY <1>3, <2>1, <2>2 DEF BrokerConnect
<1>4. CASE BrokerReject
  <2>1. /\ link'.down = link.down /\ link'.session = link.session /\ link'.up = link.up
        /\ link'.torn = link.torn /\ link'.peer = FALSE /\ link.session = "new"
    BY <1>1, <1>4 DEF BrokerReject, Links
  <2>2. AsksInTurn'
    BY <1>1, <2>1, TakenInTurn
  <2>3. Len(link.down) \in 0..Len(link.down) /\ link'.down = SubSeq(link.down, 1, Len(link.down))
    BY <1>1, <2>1
  <2> QED
    BY <1>1, <2>1, <2>2, <2>3, LostStream
<1>5. CASE BrokerSubscribe
  <2>1. link' = [Answers(Suback) EXCEPT !.session = "subscribed", !.base = published]
    BY <1>5 DEF BrokerSubscribe
  <2>2. /\ link'.down = link.down \o Suback /\ link'.session = "subscribed"
        /\ link'.base = published
    BY <1>1, <1>2, <2>1 DEF Answers, Links
  <2>3. IsJoined(link'.down, link.down, "suback", 0, 5)
    BY <1>1, <2>2, JoinedBytes DEF Suback, SUBACK_LEN, PacketKinds
  <2>4. AsksInTurn'
    <3>1. 1 \in DOMAIN link.up /\ link.up[1] = "SUBSCRIBE"
      BY <1>1, <1>5 DEF BrokerSubscribe, BrokerTakes, Links
    <3> QED
      BY <1>1, <3>1 DEF AsksInTurn
  <2>5. link.session = "connected"
    BY <1>5 DEF BrokerSubscribe
  <2> QED
    BY <1>1, <2>2, <2>3, <2>4, <2>5, AnsweredStream DEF SUBACK_LEN
<1>6. CASE BrokerPing
  <2>1. /\ link'.down = link.down \o Pingresp /\ link'.up = Tail(link.up)
        /\ link'.peer = link.peer /\ link'.session = link.session
        /\ link'.torn = link.torn /\ link'.base = link.base /\ link.session # "new"
    BY <1>2, <1>6 DEF BrokerPing
  <2>2. IsJoined(link'.down, link.down, "pingresp", 0, 2)
    BY <1>1, <2>1, JoinedBytes DEF Pingresp, PINGRESP_LEN, PacketKinds
  <2>3. AsksInTurn'
    <3>1. CASE link.session = "subscribed"
      BY <1>1, <3>1 DEF AsksInTurn
    <3>2. CASE link.session # "subscribed"
      BY <1>1, <2>1, <3>2, TakenInTurn
    <3> QED
      BY <3>1, <3>2
  <2>4. \A m \in 1..published' : m \in 1..published
    BY <1>1
  <2>5. "pingresp" \notin PublishKinds
    BY DEF PublishKinds
  <2> QED
    BY <1>1, <2>1, <2>2, <2>3, <2>4, <2>5, WrittenStream DEF PINGRESP_LEN
<1> QED
  BY <1>3, <1>4, <1>5, <1>6 DEF Broker

(* ... and so do those of the network.                                     *)
LEMMA NetworkStream ==
  ASSUME TypeOK, IInv, StreamInv, Network
  PROVE  StreamInv'
<1>1. /\ link \in Links /\ link.down \in Seq(Byte) /\ published \in 0..MaxMsgs
      /\ AsksInTurn
  BY DEF TypeOK, Links, StreamInv
<1>2. CASE BrokerPublish
  <2>1. PICK kind \in PublishKinds, len \in PublishLens :
          link' = [link EXCEPT !.down = @ \o Packet(kind, published + 1, len)]
    BY <1>2 DEF BrokerPublish
  <2>2. /\ UNCHANGED <<pc, rx, received>> /\ published' = published + 1
        /\ published + 1 \in 0..MaxMsgs /\ len \in Nat /\ kind \in PacketKinds
        /\ link.peer /\ link.session = "subscribed"
    BY <1>1, <1>2, WireAssumption DEF BrokerPublish, outcome, PacketKinds
  <2>3. /\ link'.down = link.down \o Packet(kind, published + 1, len)
        /\ link'.peer = link.peer /\ link'.session = link.session
        /\ link'.torn = link.torn /\ link'.base = link.base /\ link'.up = link.up
    BY <1>1, <2>1 DEF Links
  <2>4. IsJoined(link'.down, link.down, kind, published + 1, len)
    BY <1>1, <2>2, <2>3, JoinedBytes
  <2>5. AsksInTurn'
    BY <1>1, <2>2, <2>3 DEF AsksInTurn
  <2>6. \A m \in 1..published' : m \in 1..published \/ m = published + 1
    BY <1>1, <2>2, WireAssumption
  <2>7. kind # "pingresp"
    BY DEF PublishKinds
  <2> QED
    BY <2>2, <2>3, <2>4, <2>5, <2>6, <2>7, WrittenStream
<1>3. CASE LoseLink
  <2>1. PICK n \in 0..Len(link.down) :
          link' = [link EXCEPT !.peer = FALSE, !.down = SubSeq(@, 1, n)]
    BY <1>3 DEF LoseLink
  <2>2. /\ link'.down = SubSeq(link.down, 1, n) /\ link'.peer = FALSE
        /\ link'.session = link.session /\ link'.torn = link.torn /\ link'.up = link.up
    BY <1>1, <2>1 DEF Links
  <2>3. UNCHANGED <<pc, rx, received, published>>
    BY <1>3 DEF LoseLink, outcome
  <2>4. AsksInTurn'
    BY <1>1, <2>2, <2>3 DEF AsksInTurn
  <2> QED
    BY <2>2, <2>3, <2>4, LostStream
<1>4. CASE ExpireEndpoint
  <2>1. UNCHANGED <<pc, rx, link, received, published>>
    BY <1>4 DEF ExpireEndpoint, outcome
  <2>2. AsksInTurn'
    BY <1>1, <2>1 DEF AsksInTurn
  <2> QED
    BY <2>1, <2>2, StreamKept DEF SameLink
<1> QED
  BY <1>2, <1>3, <1>4 DEF Network

(* Every step keeps the invariant.                                         *)
LEMMA NextStream == TypeOK /\ IInv /\ StreamInv /\ [Next]_vars => StreamInv'
BY OtherStream, ConnackStream, SubackStream, FixedHeaderStream, TopicHeaderStream,
   RestStream, BrokerStream, NetworkStream DEF Next, RecvMsgTask

(* It holds at first, when there is no connection.                         *)
LEMMA InitStream == Init => StreamInv
<1> SUFFICES ASSUME Init PROVE StreamInv
  OBVIOUS
<1>1. /\ link.down = <<>> /\ link.up = <<>> /\ link.session = "new" /\ pc = "start"
  BY DEF Init, NoLink, NewLink
<1> QED
  BY <1>1 DEF StreamInv, Framed, Lawful, AnswersInTurn, BrokerWrites, EndsWhole, AsksInTurn,
     ReaderInPlace, KeptForSuback, NoSilentLoss, READY, ReadyPcs

-----------------------------------------------------------------------------
(* What follows from it.                                                   *)

(* The shape of the stream and the reader's place in it are an invariant.  *)
THEOREM StreamInvariant == Spec => []StreamInv
BY TypeCorrect, InvariantCorrect, InitStream, NextStream, PTL DEF Spec

(* The receive loop takes for a fixed header only the first byte of a      *)
(* packet, until a receive gives up inside one.                            *)
THEOREM FramingKeptCorrect == Spec => []FramingKept
<1>1. StreamInv => FramingKept
  BY DEF StreamInv, ReaderInPlace, FramingKept, READY, ReadyPcs
<1> QED
  BY <1>1, StreamInvariant, PTL

(* No message of a subscribed, undamaged connection vanishes.              *)
THEOREM NoSilentLossCorrect == Spec => []NoSilentLoss
<1>1. StreamInv => NoSilentLoss
  BY DEF StreamInv
<1> QED
  BY <1>1, StreamInvariant, PTL
=============================================================================
