--------------------------- MODULE KiiPushProofs ---------------------------
(***************************************************************************)
(* Proofs about the push receiver, for every buffer size, packet length,   *)
(* number of messages, of failures and of keep-alive rounds.               *)
(***************************************************************************)
EXTENDS KiiPush, SequenceTheorems, TLAPS

-----------------------------------------------------------------------------
(* The streams stay streams of bytes.                                      *)

(* Taking bytes from the front of a stream leaves a stream.                *)
LEMMA DropType ==
  ASSUME NEW S, NEW s \in Seq(S), NEW n \in Nat
  PROVE  Drop(s, n) \in Seq(S)
<1>1. Len(s) \in Nat
  OBVIOUS
<1>2. \A i \in n + 1..Len(s) : s[i] \in S
  BY <1>1
<1> QED
  BY <1>1, <1>2, SubSeqProperties DEF Drop

(* So does keeping the bytes that arrived.                                 *)
LEMMA KeepType ==
  ASSUME NEW S, NEW s \in Seq(S), NEW n \in 0..Len(s)
  PROVE  SubSeq(s, 1, n) \in Seq(S)
BY SubSeqProperties

(* A packet is a sequence of bytes.                                        *)
LEMMA PacketType ==
  ASSUME NEW kind \in PacketKinds, NEW msg \in 0..MaxMsgs, NEW len \in Nat
  PROVE  Packet(kind, msg, len) \in Seq(Byte)
<1>1. \A i \in 1..len :
         [kind |-> kind, msg |-> msg, len |-> len, at |-> i] \in Byte
  BY DEF Byte
<1>2. Packet(kind, msg, len) \in [1..len -> Byte]
  BY <1>1 DEF Packet
<1> QED
  BY <1>2

(* A link stays a link when one of its fields changes.                     *)
LEMMA LinkFieldTypes ==
  ASSUME NEW l \in Links
  PROVE  /\ \A s \in Seq(Byte) : [l EXCEPT !.down = s] \in Links
         /\ \A s \in Seq(Requests) : [l EXCEPT !.up = s] \in Links
         /\ \A b \in BOOLEAN : [l EXCEPT !.peer = b] \in Links
         /\ \A b \in BOOLEAN : [l EXCEPT !.acked = b] \in Links
         /\ \A b \in BOOLEAN : [l EXCEPT !.torn = b] \in Links
         /\ \A n \in Nat : [l EXCEPT !.strays = n] \in Links
<1> USE DEF Links
<1>1. \A s \in Seq(Byte) : [l EXCEPT !.down = s] \in Links
  OBVIOUS
<1>2. \A s \in Seq(Requests) : [l EXCEPT !.up = s] \in Links
  OBVIOUS
<1>3. \A b \in BOOLEAN : [l EXCEPT !.peer = b] \in Links
  OBVIOUS
<1>4. \A b \in BOOLEAN : [l EXCEPT !.acked = b] \in Links
  OBVIOUS
<1>5. \A b \in BOOLEAN : [l EXCEPT !.torn = b] \in Links
  OBVIOUS
<1>6. \A n \in Nat : [l EXCEPT !.strays = n] \in Links
  OBVIOUS
<1> QED
  BY <1>1, <1>2, <1>3, <1>4, <1>5, <1>6

(* A new connection and no connection are links.                           *)
LEMMA NewLinkTypes == NewLink \in Links /\ NoLink \in Links
<1>1. 0 \in 0..MaxMsgs
  BY WireAssumption
<1>2. NewLink \in Links
  BY <1>1 DEF NewLink, Links
<1> QED
  BY <1>2, LinkFieldTypes DEF NoLink

(* What the broker answers with, and a link after an answer.               *)
LEMMA AnswersType ==
  ASSUME link \in Links, link.up # <<>>, NEW bytes \in Seq(Byte)
  PROVE  Answers(bytes) \in Links
<1>1. Tail(link.up) \in Seq(Requests) /\ link.down \o bytes \in Seq(Byte)
  BY DEF Links
<1> QED
  BY <1>1 DEF Answers, Links

(* The answers of the broker are sequences of bytes.                       *)
LEMMA AcknowledgementTypes ==
  /\ Connack \in Seq(Byte)
  /\ Refused \in Seq(Byte)
  /\ Suback \in Seq(Byte)
  /\ Pingresp \in Seq(Byte)
<1>1. 0 \in 0..MaxMsgs
  BY WireAssumption
<1> QED
  BY <1>1, PacketType DEF Connack, Refused, Suback, Pingresp, PacketKinds,
     PublishKinds, CONNACK_LEN, SUBACK_LEN, PINGRESP_LEN

(* Handing a packet to the socket changes at most the stream to the broker *)
LEMMA SentType ==
  ASSUME link \in Links, NEW p \in Requests
  PROVE  /\ Sent(p) \in Links
         /\ \A f \in {"peer", "session", "down", "acked", "strays", "torn", "base"} :
              Sent(p)[f] = link[f]
<1>1. Append(link.up, p) \in Seq(Requests)
  BY DEF Links
<1> QED
  BY <1>1 DEF Sent, Links

-----------------------------------------------------------------------------
(* TypeOK is an invariant: one lemma per step that touches the streams.    *)

(* A recv takes some of the bytes that arrived, no more than it asked for. *)
LEMMA ReceiveTypes ==
  ASSUME TypeOK, NEW want \in Nat, NEW k \in Nat, Recv(want, k)
  PROVE  /\ faults' \in 0..MaxFaults
         /\ k \in 1..Len(link.down)
         /\ k <= want
         /\ Drop(link.down, k) \in Seq(Byte)
<1>1. link.down \in Seq(Byte) /\ Len(link.down) \in Nat
  BY DEF TypeOK, Links
<1>2. k \in 1..Len(link.down) /\ k <= want
  BY <1>1 DEF Recv, Readable, Least
<1>3. faults' \in 0..MaxFaults
  BY PushAssumption DEF Recv, Fault, Fine, TypeOK
<1> QED
  BY <1>1, <1>2, <1>3, DropType

(* A step of the budget of failures stays within it.                       *)
LEMMA FaultTypes ==
  ASSUME TypeOK, Fault \/ Fine \/ SendFails \/ RecvFails
  PROVE  faults' \in 0..MaxFaults
BY PushAssumption DEF TypeOK, Fault, Fine, SendFails, RecvFails

(* What becomes of a packet keeps the types it touches.                    *)
LEMMA HandleTypes ==
  ASSUME TypeOK, NEW r \in Parses, HandlePublish(r)
  PROVE  /\ pc' \in RecvPcs
         /\ mqttConnected' \in BOOLEAN
         /\ received' \in Seq(0..MaxMsgs)
         /\ mangled' \in BOOLEAN
<1>1. /\ r.msg \in 0..MaxMsgs
      /\ received \in Seq(0..MaxMsgs) /\ mangled \in BOOLEAN
      /\ mqttConnected \in BOOLEAN
  BY DEF TypeOK, Parses
<1>2. Append(received, r.msg) \in Seq(0..MaxMsgs)
  BY <1>1
<1>3. received' \in Seq(0..MaxMsgs) /\ mangled' \in BOOLEAN
  BY <1>1, <1>2 DEF HandlePublish, Callback, outcome
<1>4. pc' \in RecvPcs /\ mqttConnected' \in BOOLEAN
  BY <1>1 DEF HandlePublish, Reconnect, RecvPcs, SubscribingPcs, ReadyPcs
<1> QED
  BY <1>3, <1>4

(* The locals of the receive function keep their types.                    *)
LEMMA ParseFieldTypes ==
  ASSUME NEW r \in Parses, NEW n \in Nat, NEW total \in Nat
  PROVE  /\ [r EXCEPT !.bytes = n] \in Parses
         /\ [r EXCEPT !.whole = FALSE] \in Parses
         /\ [r EXCEPT !.bytes = n, !.total = total, !.whole = r.genuine] \in Parses
<1>1. r.genuine \in BOOLEAN
  BY DEF Parses
<1>2. [r EXCEPT !.bytes = n] \in Parses /\ [r EXCEPT !.whole = FALSE] \in Parses
  BY DEF Parses
<1>3. [[r EXCEPT !.bytes = n] EXCEPT !.total = total] \in Parses
  BY <1>2 DEF Parses
<1>4. [[[r EXCEPT !.bytes = n] EXCEPT !.total = total] EXCEPT !.whole = r.genuine]
        \in Parses
  BY <1>1, <1>3 DEF Parses
<1> QED
  BY <1>2, <1>4

(* The initial state is well typed.                                        *)
LEMMA InitTypes == Init => TypeOK
<1> SUFFICES ASSUME Init PROVE TypeOK
  OBVIOUS
<1>1. 0 \in 0..MaxMsgs /\ 0 \in 0..MaxPings /\ 0 \in 0..MaxFaults
  BY WireAssumption, PushAssumption
<1>2. NoLink \in Links
  BY NewLinkTypes
<1>3. NoPacket \in Parses
  BY <1>1 DEF NoPacket, Parses, PacketKinds, PublishKinds
<1>4. link \in Links /\ rx \in Parses /\ received \in Seq(0..MaxMsgs)
  BY <1>2, <1>3 DEF Init
<1>5. /\ published \in 0..MaxMsgs /\ pings \in 0..MaxPings /\ faults \in 0..MaxFaults
      /\ socket \in {NoSocket, Open}
  BY <1>1 DEF Init
<1> QED
  BY <1>4, <1>5 DEF Init, TypeOK

(* So is every state after a step that creates the tasks or prepares.      *)
LEMMA SetupTypes ==
  ASSUME TypeOK,
         StartRoutine \/ Install \/ RetrieveEndpoint \/ CloseSocket
           \/ OpenSocket \/ SendConnect \/ SendSubscribe
  PROVE  TypeOK'
<1> USE DEF RecvPcs, PreparingPcs, SubscribingPcs, ReadyPcs, device, ping, outcome
<1>1. CASE StartRoutine
  BY <1>1, FaultTypes DEF StartRoutine, TypeOK
<1>2. CASE Install
  BY <1>2, FaultTypes DEF Install, TypeOK
<1>3. CASE RetrieveEndpoint
  BY <1>3, FaultTypes DEF RetrieveEndpoint, TypeOK
<1>4. NewLink \in Links /\ NoLink \in Links
  BY NewLinkTypes
<1>5. CASE CloseSocket
  BY <1>4, <1>5, FaultTypes DEF CloseSocket, GiveUp, TypeOK, NoSocket, Open
<1>6. CASE OpenSocket
  BY <1>4, <1>6, FaultTypes DEF OpenSocket, GiveUp, TypeOK, NoSocket, Open
<1>7. CASE SendConnect
  BY <1>7, SentType, FaultTypes DEF SendConnect, GiveUp, TypeOK, Requests
<1>8. CASE SendSubscribe
  BY ZenonT(30), <1>8, SentType, FaultTypes DEF SendSubscribe, GiveUp, TypeOK, Requests
<1> QED
  BY <1>1, <1>2, <1>3, <1>5, <1>6, <1>7, <1>8

(* The two steps that wait for an acknowledgement keep the types.          *)
LEMMA AcknowledgeTypes ==
  ASSUME TypeOK, RecvConnack \/ RecvSuback
  PROVE  TypeOK'
<1> USE DEF RecvPcs, PreparingPcs, SubscribingPcs, ReadyPcs, ping, outcome
<1>1. ASSUME NEW k \in 1..MqttBufferSize, Recv(MqttBufferSize, k)
      PROVE  /\ faults' \in 0..MaxFaults
             /\ [link EXCEPT !.down = Drop(@, k)] \in Links
             /\ [link EXCEPT !.down = Drop(@, k), !.acked = ConnackOK(k)] \in Links
  <2>1. faults' \in 0..MaxFaults /\ Drop(link.down, k) \in Seq(Byte)
    BY <1>1, ReceiveTypes, WireAssumption
  <2>2. [link EXCEPT !.down = Drop(@, k)] \in Links
    BY <2>1, LinkFieldTypes DEF TypeOK
  <2>3. ConnackOK(k) \in BOOLEAN
    BY DEF ConnackOK
  <2> QED
    BY <2>1, <2>2, <2>3, LinkFieldTypes
<1>2. link' \in Links
  BY <1>1 DEF RecvConnack, RecvSuback, TypeOK
<1>3. faults' \in 0..MaxFaults
  BY <1>1, FaultTypes DEF RecvConnack, RecvSuback
<1> QED
  BY ZenonT(30), <1>2, <1>3 DEF RecvConnack, RecvSuback, GiveUp, TypeOK

(* So do the other steps of the receive task.                              *)
LEMMA ReceiveTaskTypes ==
  ASSUME TypeOK, RecvFixedHeader \/ RecvTopicHeader \/ RecvRest
  PROVE  TypeOK'
<1> USE DEF RecvPcs, PreparingPcs, SubscribingPcs, ReadyPcs, ping, outcome
<1> DEFINE want == KII_PUSH_TOPIC_HEADER_SIZE
<1>0. /\ want \in Nat /\ MqttBufferSize \in Nat
      /\ NoPacket \in Parses
  BY WireAssumption, PushAssumption DEF NoPacket, Parses, PacketKinds, PublishKinds
<1>1. CASE RecvFixedHeader
  <2>1. ASSUME NEW k \in 1..2, Recv(2, k)
        PROVE  /\ faults' \in 0..MaxFaults
               /\ [link EXCEPT !.down = Drop(@, k)] \in Links
               /\ link.down[1] \in Byte
    <3>1. /\ faults' \in 0..MaxFaults /\ k \in 1..Len(link.down)
          /\ Drop(link.down, k) \in Seq(Byte)
      BY <2>1, ReceiveTypes
    <3>2. link \in Links /\ link.down \in Seq(Byte)
      BY DEF TypeOK, Links
    <3>3. link.down[1] \in Byte
      BY <3>1, <3>2
    <3> QED
      BY <3>1, <3>2, <3>3, LinkFieldTypes
  <2>2. link' \in Links /\ faults' \in 0..MaxFaults
    BY <1>1, <2>1, FaultTypes DEF RecvFixedHeader, TypeOK
  <2>3. rx' \in Parses
    <3>1. CASE UNCHANGED rx
      BY <3>1 DEF TypeOK
    <3>2. CASE /\ link.down[1] \in Byte
               /\ rx' = [kind |-> link.down[1].kind, msg |-> link.down[1].msg,
                         bytes |-> 2, total |-> link.down[1].len,
                         genuine |-> link.down[1].at = 1, whole |-> FALSE]
      BY <3>2 DEF Parses, Byte
    <3> QED
      BY <1>1, <2>1, <3>1, <3>2 DEF RecvFixedHeader
  <2> QED
    BY ZenonT(30), <1>1, <2>2, <2>3 DEF RecvFixedHeader, Reconnect, TypeOK
<1>2. CASE RecvTopicHeader
  <2>1. ASSUME NEW k \in 1..want, Recv(want, k)
        PROVE  /\ faults' \in 0..MaxFaults
               /\ [link EXCEPT !.down = Drop(@, k)] \in Links
    BY <1>0, <2>1, ReceiveTypes, LinkFieldTypes DEF TypeOK
  <2>2. link' \in Links /\ faults' \in 0..MaxFaults
    BY <1>2, <2>1, FaultTypes DEF RecvTopicHeader, TypeOK
  <2>3. DecodedTotals(rx) \subseteq Nat
    BY <1>0 DEF DecodedTotals, TypeOK, Parses
  <2>4. ASSUME NEW total \in DecodedTotals(rx)
        PROVE  [rx EXCEPT !.bytes = 2 + want, !.total = total,
                          !.whole = rx.genuine] \in Parses
    <3>1. rx \in Parses /\ 2 + want \in Nat /\ total \in Nat
      BY <1>0, <2>3, <2>4 DEF TypeOK
    <3> QED
      BY <3>1, ParseFieldTypes
  <2>5. /\ rx' \in Parses
        /\ pc' \in RecvPcs /\ mqttConnected' \in BOOLEAN
        /\ received' \in Seq(0..MaxMsgs) /\ mangled' \in BOOLEAN
    <3>1. CASE Reconnect /\ UNCHANGED <<rx, outcome>>
      BY <3>1 DEF Reconnect, TypeOK
    <3>2. ASSUME NEW total \in DecodedTotals(rx),
                 HandlePublish([rx EXCEPT !.bytes = 2 + want, !.total = total,
                                          !.whole = rx.genuine]),
                 rx' = NoPacket
          PROVE  <2>5
      BY <1>0, <2>4, <3>2, HandleTypes
    <3>3. ASSUME NEW total \in DecodedTotals(rx),
                 pc' = "recvRest",
                 rx' = [rx EXCEPT !.bytes = 2 + want, !.total = total,
                                  !.whole = rx.genuine],
                 UNCHANGED <<mqttConnected, outcome>>
          PROVE  <2>5
      BY <2>4, <3>3 DEF TypeOK
    <3> QED
      BY <1>2, <3>1, <3>2, <3>3 DEF RecvTopicHeader
  <2> QED
    BY <1>2, <2>2, <2>5 DEF RecvTopicHeader, TypeOK
<1>3. CASE RecvRest
  <2>1. link.down \in Seq(Byte) /\ Len(link.down) \in Nat
    BY DEF TypeOK, Links
  <2>2. ASSUME NEW k \in Readable(link.down, RestWanted)
        PROVE  /\ k \in Nat
               /\ [link EXCEPT !.down = Drop(@, k)] \in Links
               /\ [rx EXCEPT !.bytes = Counted(k)] \in Parses
    <3>1. k \in Nat
      BY <2>1 DEF Readable
    <3>2. Drop(link.down, k) \in Seq(Byte)
      BY <2>1, <3>1, DropType
    <3>3. [link EXCEPT !.down = Drop(@, k)] \in Links
      BY <3>2, LinkFieldTypes DEF TypeOK
    <3>4. rx \in Parses /\ Counted(k) \in Nat
      BY <3>1 DEF Counted, TypeOK, Parses
    <3> QED
      BY <3>1, <3>3, <3>4, ParseFieldTypes
  <2>3. link' \in Links /\ faults' \in 0..MaxFaults
    BY <1>3, <2>2, FaultTypes DEF RecvRest, TypeOK, Links
  <2>4. [rx EXCEPT !.whole = FALSE] \in Parses /\ rx \in Parses
    BY DEF TypeOK, Parses
  <2>5. /\ rx' \in Parses
        /\ pc' \in RecvPcs /\ mqttConnected' \in BOOLEAN
        /\ received' \in Seq(0..MaxMsgs) /\ mangled' \in BOOLEAN
    BY <1>0, <1>3, <2>2, <2>4, HandleTypes DEF RecvRest, RestLost, TypeOK
  <2> QED
    BY <1>3, <2>3, <2>5 DEF RecvRest, TypeOK
<1> QED
  BY <1>1, <1>2, <1>3

(* So do the steps of the ping task.                                       *)
LEMMA PingTypes ==
  ASSUME TypeOK, PingReqTask
  PROVE  TypeOK'
<1> USE DEF device, outcome
<1>1. CASE PingCheck
  BY <1>1 DEF PingCheck, TypeOK
<1>2. CASE PingLoad
  BY <1>2 DEF PingLoad, TypeOK
<1>3. CASE PingSend
  <2>1. [Sent("PINGREQ") EXCEPT !.strays = IF link.acked THEN @ ELSE @ + 1] \in Links
    <3>1. Sent("PINGREQ") \in Links
      BY SentType DEF TypeOK, Requests
    <3>2. (IF link.acked THEN Sent("PINGREQ").strays
                         ELSE Sent("PINGREQ").strays + 1) \in Nat
      BY <3>1 DEF Links
    <3> QED
      BY <3>1, <3>2, LinkFieldTypes
  <2> QED
    BY <1>3, <2>1 DEF PingSend, TypeOK
<1>4. CASE PingDelay
  BY <1>4, PushAssumption DEF PingDelay, TypeOK
<1> QED
  BY <1>1, <1>2, <1>3, <1>4 DEF PingReqTask

(* So do those of the broker and of the network.                           *)
LEMMA EnvironmentTypes ==
  ASSUME TypeOK, Broker \/ Network
  PROVE  TypeOK'
<1> USE DEF device, ping, outcome
<1>1. CASE Broker
  <2>1. link.up # <<>>
    BY <1>1 DEF Broker, BrokerConnect, BrokerReject, BrokerSubscribe, BrokerPing,
                BrokerTakes
  <2>2. /\ Answers(Connack) \in Links
        /\ Answers(Refused) \in Links
        /\ Answers(Suback) \in Links
        /\ Answers(Pingresp) \in Links
    BY <2>1, AnswersType, AcknowledgementTypes DEF TypeOK
  <2>3. link' \in Links
    BY ZenonT(30), <1>1, <2>2 DEF Broker, BrokerConnect, BrokerReject, BrokerSubscribe,
                      BrokerPing, TypeOK, Links
  <2> QED
    BY <1>1, <2>3 DEF Broker, BrokerConnect, BrokerReject, BrokerSubscribe,
                      BrokerPing, OnlyLink, TypeOK
<1>2. CASE BrokerPublish
  <2>1. published' \in 0..MaxMsgs
    BY <1>2, WireAssumption DEF BrokerPublish, TypeOK
  <2>2. ASSUME NEW kind \in PublishKinds, NEW len \in PublishLens
        PROVE  [link EXCEPT !.down = @ \o Packet(kind, published + 1, len)] \in Links
    <3>1. Packet(kind, published + 1, len) \in Seq(Byte)
      BY <1>2, <2>1, PacketType, WireAssumption DEF BrokerPublish, PacketKinds
    <3>2. link \in Links /\ link.down \in Seq(Byte)
      BY DEF TypeOK, Links
    <3>3. link.down \o Packet(kind, published + 1, len) \in Seq(Byte)
      BY <3>1, <3>2
    <3> QED
      BY <3>2, <3>3, LinkFieldTypes
  <2> QED
    BY ZenonT(30), <1>2, <2>1, <2>2 DEF BrokerPublish, TypeOK
<1>3. CASE LoseLink
  <2>1. ASSUME NEW n \in 0..Len(link.down)
        PROVE  [link EXCEPT !.peer = FALSE, !.down = SubSeq(@, 1, n)] \in Links
    BY KeepType DEF TypeOK, Links
  <2> QED
    BY ZenonT(30), <1>3, <2>1, FaultTypes DEF LoseLink, TypeOK
<1>4. CASE ExpireEndpoint
  BY <1>4, FaultTypes DEF ExpireEndpoint, TypeOK
<1> QED
  BY <1>1, <1>2, <1>3, <1>4 DEF Network

(* Every step keeps the types.                                             *)
LEMMA NextTypes == TypeOK /\ [Next]_vars => TypeOK'
<1>1. ASSUME TypeOK, UNCHANGED vars PROVE TypeOK'
  BY <1>1 DEF vars, device, ping, outcome, TypeOK
<1> QED
  BY <1>1, SetupTypes, AcknowledgeTypes, ReceiveTaskTypes, PingTypes,
     EnvironmentTypes DEF Next, RecvMsgTask

(* Every variable keeps its type in every reachable state.                 *)
THEOREM TypeCorrect == Spec => []TypeOK
BY InitTypes, NextTypes, PTL DEF Spec

-----------------------------------------------------------------------------
(* What the bytes in flight say about the broker stays true.               *)

(* Bytes that remain after some are taken still tell the truth.            *)
LEMMA TruthfulParts ==
  ASSUME NEW s \in Seq(Byte), NEW x, Truthful(s, x), NEW n \in 0..Len(s)
  PROVE  Truthful(Drop(s, n), x) /\ Truthful(SubSeq(s, 1, n), x)
<1>1. \A j \in DOMAIN Drop(s, n) : n + j \in DOMAIN s /\ Drop(s, n)[j] = s[n + j]
  BY SubSeqProperties DEF Drop
<1>2. \A j \in DOMAIN SubSeq(s, 1, n) : j \in DOMAIN s /\ SubSeq(s, 1, n)[j] = s[j]
  BY SubSeqProperties
<1>3. Truthful(Drop(s, n), x)
  BY <1>1 DEF Truthful
<1>4. Truthful(SubSeq(s, 1, n), x)
  BY <1>2 DEF Truthful
<1> QED
  BY <1>3, <1>4

(* So do two streams one after the other.                                  *)
LEMMA TruthfulConcat ==
  ASSUME NEW s \in Seq(Byte), NEW t \in Seq(Byte), NEW x,
         Truthful(s, x), Truthful(t, x)
  PROVE  Truthful(s \o t, x)
<1>1. \A i \in DOMAIN (s \o t) :
        \/ i \in DOMAIN s /\ (s \o t)[i] = s[i]
        \/ i - Len(s) \in DOMAIN t /\ (s \o t)[i] = t[i - Len(s)]
  BY ConcatProperties
<1> QED
  BY <1>1 DEF Truthful

(* So does a packet that the session of the broker allows.                 *)
LEMMA TruthfulPacket ==
  ASSUME NEW kind, NEW msg, NEW len \in Nat, NEW x,
         kind = "connack" => x # "new", kind = "suback" => x = "subscribed"
  PROVE  Truthful(Packet(kind, msg, len), x)
BY DEF Truthful, Packet

(* A session only ever advances past what the bytes say of it.             *)
LEMMA TruthfulLater ==
  ASSUME NEW s
  PROVE  /\ Truthful(s, "new") => \A x : Truthful(s, x)
         /\ Truthful(s, "connected") => Truthful(s, "subscribed")
BY DEF Truthful

-----------------------------------------------------------------------------
(* IInv is inductive, one lemma per group of steps.                        *)

(* The initial state satisfies the invariant.                              *)
LEMMA InitInvariant == Init => IInv
<1> SUFFICES ASSUME Init PROVE IInv
  OBVIOUS
<1>1. Truthful(NoLink.down, NoLink.session) /\ ~NoLink.acked /\ NoLink.strays = 0
  BY DEF NoLink, NewLink, Truthful
<1> QED
  BY <1>1 DEF Init, IInv, FlagTracksTask, SocketTracksTask, HandshakeTracksTask,
     AnswersTruthful, StraysSpent, AcknowledgedPcs, ConnectingPcs, READY, ReadyPcs

(* A new connection and no connection carry no acknowledgement.            *)
LEMMA FreshLinks ==
  ASSUME NEW l \in {NewLink, NoLink}
  PROVE  Truthful(l.down, l.session) /\ ~l.acked /\ l.strays = 0
BY DEF NoLink, NewLink, Truthful

(* Steps that prepare, close, open and send keep the invariant.            *)
LEMMA SetupInvariant ==
  ASSUME TypeOK, IInv,
         StartRoutine \/ Install \/ RetrieveEndpoint \/ CloseSocket
           \/ OpenSocket \/ SendConnect \/ SendSubscribe
  PROVE  IInv'
<1> USE DEF IInv, FlagTracksTask, SocketTracksTask, HandshakeTracksTask,
            AnswersTruthful, StraysSpent, AcknowledgedPcs, ConnectingPcs,
            READY, ReadyPcs, device, ping, outcome, GiveUp
<1>1. CASE StartRoutine
  BY <1>1 DEF StartRoutine
<1>2. CASE Install
  BY <1>2 DEF Install
<1>3. CASE RetrieveEndpoint
  BY <1>3 DEF RetrieveEndpoint
<1>4. CASE CloseSocket
  BY <1>4, FreshLinks DEF CloseSocket, MustClose, TypeOK, NoSocket, Open
<1>5. CASE OpenSocket
  BY <1>5, FreshLinks DEF OpenSocket, NoSocket, Open
<1>6. ASSUME NEW p \in Requests
      PROVE  /\ Sent(p).down = link.down /\ Sent(p).session = link.session
             /\ Sent(p).acked = link.acked /\ Sent(p).strays = link.strays
  BY <1>6, SentType DEF TypeOK
<1>7. CASE SendConnect
  BY <1>6, <1>7 DEF SendConnect, Requests, NoSocket, Open
<1>8. CASE SendSubscribe
  <2>0. pc = "sendSubscribe" /\ UNCHANGED <<socket, pingPc>>
    BY <1>8 DEF SendSubscribe
  <2>1. /\ socket = Open /\ Open # NoSocket
        /\ link'.down = link.down /\ link'.session = link.session
        /\ link'.acked = link.acked /\ link'.strays = link.strays
    <3>1. socket = Open /\ Open # NoSocket
      BY <2>0 DEF NoSocket, Open
    <3>2. link' = link \/ link' = Sent("SUBSCRIBE")
      BY <1>8 DEF SendSubscribe
    <3> QED
      BY <1>6, <3>1, <3>2 DEF Requests
  <2>2. \/ pc' = "recvSuback" /\ mqttConnected' = mqttConnected
        \/ pc' = "install" /\ mqttConnected' = FALSE
    BY <1>8 DEF SendSubscribe
  <2> QED
    BY <2>0, <2>1, <2>2
<1> QED
  BY <1>1, <1>2, <1>3, <1>4, <1>5, <1>7, <1>8

(* A flag set or cleared goes with the step of the handshake it is for.    *)
LEMMA AcknowledgeInvariant ==
  ASSUME TypeOK, IInv, RecvConnack \/ RecvSuback
  PROVE  IInv'
<1> USE DEF IInv, FlagTracksTask, SocketTracksTask, HandshakeTracksTask,
            AnswersTruthful, StraysSpent, AcknowledgedPcs, ConnectingPcs,
            READY, ReadyPcs, ping, GiveUp
<1>0. /\ Open # NoSocket /\ socket = Open /\ link \in Links
      /\ link.down \in Seq(Byte) /\ MqttBufferSize \in Nat
      /\ UNCHANGED <<socket, pingPc>>
  <2>1. pc \in {"recvConnack", "recvSuback"} /\ UNCHANGED <<socket, pingPc>>
    BY DEF RecvConnack, RecvSuback
  <2>2. socket = Open /\ Open # NoSocket
    BY <2>1 DEF NoSocket, Open
  <2> QED
    BY <2>1, <2>2, WireAssumption DEF TypeOK, Links
<1>1. ASSUME NEW k \in 1..MqttBufferSize, Recv(MqttBufferSize, k)
      PROVE  k \in 1..Len(link.down) /\ Truthful(Drop(link.down, k), link.session)
  <2>1. k \in 1..Len(link.down)
    BY <1>0, <1>1, ReceiveTypes
  <2> QED
    BY <1>0, <2>1, TruthfulParts
<1>2. ASSUME NEW k \in 1..MqttBufferSize, Recv(MqttBufferSize, k), ConnackOK(k)
      PROVE  link.session # "new"
  <2>1. 1 \in DOMAIN link.down
    BY <1>0, <1>1, <1>2
  <2>2. link.down[1] = Connack[1]
    <3>1. SubSeq(link.down, 1, k)[1] = link.down[1]
      BY <1>0, <1>1, <1>2, SubSeqProperties
    <3> QED
      BY <1>2, <3>1 DEF ConnackOK
  <2>3. Connack[1].kind = "connack"
    BY DEF Connack, Packet, CONNACK_LEN
  <2> QED
    BY <2>1, <2>2, <2>3 DEF Truthful
<1>3. ASSUME NEW k \in 1..MqttBufferSize, Recv(MqttBufferSize, k), SubackOK(k)
      PROVE  link.session = "subscribed"
  <2>1. 1 \in DOMAIN link.down
    BY <1>0, <1>1, <1>3
  <2>2. link.down[1] = Suback[1]
    <3>1. SubSeq(link.down, 1, k)[1] = link.down[1]
      BY <1>0, <1>1, <1>3, SubSeqProperties
    <3> QED
      BY <1>3, <3>1 DEF SubackOK
  <2>3. Suback[1].kind = "suback"
    BY DEF Suback, Packet, SUBACK_LEN
  <2> QED
    BY <2>1, <2>2, <2>3 DEF Truthful
<1>4. CASE RecvConnack
  <2>1. ASSUME NEW k \in 1..MqttBufferSize, Recv(MqttBufferSize, k),
               IF ConnackOK(k)
               THEN pc' = "sendSubscribe" /\ mqttConnected' = TRUE
               ELSE GiveUp /\ UNCHANGED mqttConnected,
               link' = [link EXCEPT !.down = Drop(@, k), !.acked = ConnackOK(k)]
        PROVE  IInv'
    <3>1. /\ link'.down = Drop(link.down, k) /\ link'.session = link.session
          /\ link'.acked = ConnackOK(k) /\ link'.strays = link.strays
          /\ ConnackOK(k) \in BOOLEAN
      BY <1>0, <2>1 DEF Links, ConnackOK
    <3>2. ~link.acked /\ pc = "recvConnack"
      BY <1>4 DEF RecvConnack
    <3>3. CASE ConnackOK(k)
      BY <1>0, <1>1, <1>2, <2>1, <3>1, <3>2, <3>3
    <3>4. CASE ~ConnackOK(k)
      BY <1>0, <1>1, <2>1, <3>1, <3>2, <3>4
    <3> QED
      BY <3>3, <3>4
  <2>2. CASE GiveUp /\ UNCHANGED <<mqttConnected, link>>
    BY <1>0, <1>4, <2>2 DEF RecvConnack
  <2> QED
    BY <1>4, <2>1, <2>2 DEF RecvConnack
<1>5. CASE RecvSuback
  <2>1. ASSUME NEW k \in 1..MqttBufferSize, Recv(MqttBufferSize, k),
               IF SubackOK(k)
               THEN pc' = "recvFixed" /\ UNCHANGED mqttConnected
               ELSE GiveUp /\ mqttConnected' = FALSE,
               link' = [link EXCEPT !.down = Drop(@, k)]
        PROVE  IInv'
    <3>1. /\ link'.down = Drop(link.down, k) /\ link'.session = link.session
          /\ link'.acked = link.acked /\ link'.strays = link.strays
      BY <1>0, <2>1 DEF Links
    <3>2. pc = "recvSuback"
      BY <1>5 DEF RecvSuback
    <3>3. CASE SubackOK(k)
      BY <1>0, <1>1, <1>3, <2>1, <3>1, <3>2, <3>3
    <3>4. CASE ~SubackOK(k)
      BY <1>0, <1>1, <2>1, <3>1, <3>2, <3>4
    <3> QED
      BY <3>3, <3>4
  <2>2. CASE GiveUp /\ mqttConnected' = FALSE /\ UNCHANGED link
    BY <1>0, <1>5, <2>2 DEF RecvSuback
  <2> QED
    BY <1>5, <2>1, <2>2 DEF RecvSuback
<1> QED
  BY <1>4, <1>5

(* A receive in KIIPUSH_READY takes bytes, and ends in KIIPUSH_READY or at *)
(* a reconnection with the flag cleared.                                   *)
LEMMA ReadyShape ==
  ASSUME TypeOK, IInv, RecvFixedHeader \/ RecvTopicHeader \/ RecvRest
  PROVE  /\ \/ pc' \in ReadyPcs /\ mqttConnected' = mqttConnected
            \/ pc' = "close" /\ mqttConnected' = FALSE
         /\ pc \in ReadyPcs
         /\ UNCHANGED <<socket, pingPc>>
         /\ link'.session = link.session /\ link'.acked = link.acked
         /\ link'.strays = link.strays /\ (link.torn => link'.torn)
         /\ Truthful(link'.down, link.session)
<1>0. /\ link \in Links /\ link.down \in Seq(Byte) /\ Len(link.down) \in Nat
      /\ Truthful(link.down, link.session)
  BY DEF TypeOK, Links, IInv, AnswersTruthful
<1>1. pc \in ReadyPcs /\ UNCHANGED <<socket, pingPc>>
  BY DEF RecvFixedHeader, RecvTopicHeader, RecvRest, ReadyPcs, ping
<1>2. \A r : HandlePublish(r) =>
        \/ pc' \in ReadyPcs /\ mqttConnected' = mqttConnected
        \/ pc' = "close" /\ mqttConnected' = FALSE
  BY DEF HandlePublish, Reconnect, ReadyPcs
<1>3. \/ pc' \in ReadyPcs /\ mqttConnected' = mqttConnected
      \/ pc' = "close" /\ mqttConnected' = FALSE
  BY <1>1, <1>2 DEF RecvFixedHeader, RecvTopicHeader, RecvRest, RestLost, Reconnect,
                    ReadyPcs
<1>4. ASSUME NEW k \in 1..Len(link.down),
             link' = [link EXCEPT !.down = Drop(@, k)]
      PROVE  /\ link'.session = link.session /\ link'.acked = link.acked
             /\ link'.strays = link.strays /\ (link.torn => link'.torn)
             /\ Truthful(link'.down, link.session)
  BY <1>0, <1>4, TruthfulParts DEF Links
<1>5. ASSUME link' = link \/ link' = [link EXCEPT !.torn = TRUE]
      PROVE  /\ link'.session = link.session /\ link'.acked = link.acked
             /\ link'.strays = link.strays /\ (link.torn => link'.torn)
             /\ Truthful(link'.down, link.session)
  BY <1>0, <1>5 DEF Links
<1>6. \/ \E k \in 1..Len(link.down) : link' = [link EXCEPT !.down = Drop(@, k)]
      \/ link' = link
      \/ link' = [link EXCEPT !.torn = TRUE]
  <2> DEFINE want == KII_PUSH_TOPIC_HEADER_SIZE
  <2>0. want \in Nat
    BY PushAssumption
  <2>1. CASE RecvFixedHeader
    <3>1. \A k \in 1..2 : Recv(2, k) => k \in 1..Len(link.down)
      BY ReceiveTypes
    <3> QED
      BY <2>1, <3>1 DEF RecvFixedHeader
  <2>2. CASE RecvTopicHeader
    <3>1. \A k \in 1..want : Recv(want, k) => k \in 1..Len(link.down)
      BY <2>0, ReceiveTypes
    <3> QED
      BY <2>2, <3>1 DEF RecvTopicHeader
  <2>3. CASE RecvRest
    <3>1. Readable(link.down, RestWanted) \subseteq 1..Len(link.down)
      BY <1>0 DEF Readable, Least, RestWanted, TypeOK, Parses
    <3> QED
      BY <2>3, <3>1 DEF RecvRest
  <2> QED
    BY <2>1, <2>2, <2>3
<1> QED
  BY <1>1, <1>3, <1>4, <1>5, <1>6

(* Receiving a message, or giving the connection up, keeps the invariant.  *)
LEMMA ReadyInvariant ==
  ASSUME TypeOK, IInv, RecvFixedHeader \/ RecvTopicHeader \/ RecvRest
  PROVE  IInv'
<1> USE DEF IInv, FlagTracksTask, SocketTracksTask, HandshakeTracksTask,
            AnswersTruthful, StraysSpent, AcknowledgedPcs, ConnectingPcs,
            READY, ReadyPcs
<1>1. /\ pc \in ReadyPcs /\ UNCHANGED <<socket, pingPc>>
      /\ link'.session = link.session /\ link'.acked = link.acked
      /\ link'.strays = link.strays
      /\ Truthful(link'.down, link.session)
  BY ReadyShape
<1>2. socket = Open /\ Open # NoSocket
  BY <1>1 DEF NoSocket, Open
<1>3. CASE pc' \in ReadyPcs /\ mqttConnected' = mqttConnected
  BY <1>1, <1>2, <1>3
<1>4. CASE pc' = "close" /\ mqttConnected' = FALSE
  BY <1>1, <1>2, <1>4
<1> QED
  BY <1>3, <1>4, ReadyShape

(* A PINGREQ strays only when the connection is new to this round.         *)
LEMMA PingInvariant ==
  ASSUME TypeOK, IInv, PingReqTask
  PROVE  IInv'
<1> USE DEF IInv, FlagTracksTask, SocketTracksTask, HandshakeTracksTask,
            AnswersTruthful, StraysSpent, AcknowledgedPcs, ConnectingPcs,
            READY, ReadyPcs, device, outcome
<1>1. CASE PingCheck
  BY <1>1 DEF PingCheck
<1>2. CASE PingLoad
  BY <1>2 DEF PingLoad
<1>3. CASE PingSend
  <2>1. CASE UNCHANGED link
    BY <1>3, <2>1 DEF PingSend
  <2>2. CASE /\ socket > 0
             /\ link' = [Sent("PINGREQ") EXCEPT
                           !.strays = IF link.acked THEN @ ELSE @ + 1]
    <3>1. /\ Sent("PINGREQ") \in Links /\ Sent("PINGREQ").down = link.down
          /\ Sent("PINGREQ").session = link.session
          /\ Sent("PINGREQ").acked = link.acked
          /\ Sent("PINGREQ").strays = link.strays
      BY SentType DEF TypeOK, Requests
    <3>2. /\ link'.down = link.down /\ link'.session = link.session
          /\ link'.acked = link.acked
          /\ link'.strays = IF link.acked THEN link.strays ELSE link.strays + 1
      BY <2>2, <3>1 DEF Links
    <3>3. ~link.acked => link.strays = 0
      BY <1>3 DEF PingSend, TypeOK, Links
    <3>4. pingPc' = "delay" /\ UNCHANGED <<pc, mqttConnected, socket>> /\ socket # NoSocket
      BY <1>3, <2>2 DEF PingSend, NoSocket
    <3> QED
      BY <3>2, <3>3, <3>4
  <2> QED
    BY <1>3, <2>1, <2>2 DEF PingSend
<1>4. CASE PingDelay
  BY <1>4 DEF PingDelay
<1> QED
  BY <1>1, <1>2, <1>3, <1>4 DEF PingReqTask

(* The broker says what it did, and the network takes away at most.        *)
LEMMA EnvironmentInvariant ==
  ASSUME TypeOK, IInv, Broker \/ Network
  PROVE  IInv'
<1> USE DEF IInv, FlagTracksTask, SocketTracksTask, HandshakeTracksTask,
            AnswersTruthful, StraysSpent, AcknowledgedPcs, ConnectingPcs,
            READY, ReadyPcs, device, ping
<1>0. link \in Links /\ link.down \in Seq(Byte)
  BY DEF TypeOK, Links
<1>1. ASSUME UNCHANGED <<pc, mqttConnected, socket, pingPc>>,
             socket = NoSocket => link' = link,
             Truthful(link'.down, link'.session),
             link'.acked = link.acked, link'.strays = link.strays,
             link.session # "new" => link'.session # "new",
             link.session = "subscribed" => link'.session = "subscribed"
      PROVE  IInv'
  BY <1>1
<1>2. link.peer => socket # NoSocket
  BY DEF NoLink, NewLink
<1>3. CASE Broker
  <2>1. link.peer /\ UNCHANGED <<pc, mqttConnected, socket, pingPc>>
    BY <1>3 DEF Broker, BrokerConnect, BrokerReject, BrokerSubscribe, BrokerPing,
                BrokerTakes, OnlyLink
  <2>2. \A bytes : LET a == Answers(bytes) IN
          a.down = link.down \o bytes /\ a.session = link.session
            /\ a.acked = link.acked /\ a.strays = link.strays
    BY <1>0 DEF Answers, Links
  <2>3. CASE BrokerConnect
    <3>1. /\ Truthful(link.down \o Connack, "connected")
          /\ Truthful(link.down \o Refused, "new")
      <4>1. Truthful(link.down, "new") /\ Truthful(link.down, "connected")
        BY <2>3, TruthfulLater DEF BrokerConnect
      <4>2. Truthful(Connack, "connected") /\ Truthful(Refused, "new")
        BY TruthfulPacket DEF Connack, Refused, CONNACK_LEN
      <4> QED
        BY <1>0, <4>1, <4>2, TruthfulConcat, AcknowledgementTypes
    <3>2. link.session = "new"
      BY <2>3 DEF BrokerConnect
    <3>3. CASE link' = [Answers(Connack) EXCEPT !.session = "connected"]
      <4>1. /\ link'.down = link.down \o Connack /\ link'.session = "connected"
            /\ link'.acked = link.acked /\ link'.strays = link.strays
        BY <1>0, <2>2, <3>3 DEF Answers, Links
      <4> QED
        BY <1>1, <1>2, <2>1, <3>1, <3>2, <4>1
    <3>4. CASE link' = [Answers(Refused) EXCEPT !.peer = FALSE]
      <4>1. /\ link'.down = link.down \o Refused /\ link'.session = link.session
            /\ link'.acked = link.acked /\ link'.strays = link.strays
        BY <1>0, <2>2, <3>4 DEF Answers, Links
      <4> QED
        BY <1>1, <1>2, <2>1, <3>1, <3>2, <4>1
    <3> QED
      BY <2>3, <3>3, <3>4 DEF BrokerConnect
  <2>4. CASE BrokerReject
    BY <1>0, <1>1, <1>2, <2>1, <2>4 DEF BrokerReject, Links
  <2>5. CASE BrokerSubscribe
    <3>1. Truthful(link.down \o Suback, "subscribed")
      BY SMTT(30), <1>0, <2>5, TruthfulLater, TruthfulConcat, TruthfulPacket, AcknowledgementTypes
         DEF BrokerSubscribe, Suback, SUBACK_LEN
    <3>2. /\ link'.down = link.down \o Suback /\ link'.session = "subscribed"
          /\ link'.acked = link.acked /\ link'.strays = link.strays
      BY <1>0, <2>5 DEF BrokerSubscribe, Answers, Links
    <3> QED
      BY <1>1, <1>2, <2>1, <3>1, <3>2
  <2>6. CASE BrokerPing
    <3>1. Truthful(link.down \o Pingresp, link.session)
      BY <1>0, TruthfulConcat, TruthfulPacket, AcknowledgementTypes
         DEF Pingresp, PINGRESP_LEN
    <3>2. /\ link'.down = link.down \o Pingresp /\ link'.session = link.session
          /\ link'.acked = link.acked /\ link'.strays = link.strays
      BY <2>2, <2>6 DEF BrokerPing
    <3> QED
      BY <1>1, <1>2, <2>1, <3>1, <3>2
  <2> QED
    BY <1>3, <2>3, <2>4, <2>5, <2>6 DEF Broker
<1>4. CASE BrokerPublish
  <2>1. PICK kind \in PublishKinds, len \in PublishLens :
          link' = [link EXCEPT !.down = @ \o Packet(kind, published + 1, len)]
    BY <1>4 DEF BrokerPublish
  <2>2. len \in Nat /\ published + 1 \in 0..MaxMsgs
    BY <1>4, WireAssumption DEF BrokerPublish, TypeOK
  <2>3. Truthful(Packet(kind, published + 1, len), link.session)
    BY <2>2, TruthfulPacket DEF PublishKinds
  <2>4. Truthful(link.down \o Packet(kind, published + 1, len), link.session)
    BY <1>0, <2>2, <2>3, TruthfulConcat, PacketType DEF PacketKinds
  <2>5. /\ link'.down = link.down \o Packet(kind, published + 1, len)
        /\ link'.session = link.session
        /\ link'.acked = link.acked /\ link'.strays = link.strays
    BY <1>0, <2>1 DEF Links
  <2>6. link.peer /\ UNCHANGED <<pc, mqttConnected, socket, pingPc>>
    BY <1>4 DEF BrokerPublish
  <2> QED
    BY <1>1, <1>2, <2>4, <2>5, <2>6
<1>5. CASE LoseLink
  <2>1. PICK n \in 0..Len(link.down) :
          link' = [link EXCEPT !.peer = FALSE, !.down = SubSeq(@, 1, n)]
    BY <1>5 DEF LoseLink
  <2>2. Truthful(SubSeq(link.down, 1, n), link.session)
    BY <1>0, TruthfulParts
  <2>3. /\ link'.down = SubSeq(link.down, 1, n) /\ link'.session = link.session
        /\ link'.acked = link.acked /\ link'.strays = link.strays
    BY <1>0, <2>1 DEF Links
  <2>4. link.peer /\ UNCHANGED <<pc, mqttConnected, socket, pingPc>>
    BY <1>5 DEF LoseLink
  <2> QED
    BY <1>1, <1>2, <2>2, <2>3, <2>4
<1>6. CASE ExpireEndpoint
  BY <1>6 DEF ExpireEndpoint
<1> QED
  BY <1>3, <1>4, <1>5, <1>6 DEF Network

(* Every step keeps the invariant.                                         *)
LEMMA NextInvariant == TypeOK /\ IInv /\ [Next]_vars => IInv'
<1>1. ASSUME IInv, UNCHANGED vars PROVE IInv'
  BY <1>1 DEF vars, device, ping, IInv, FlagTracksTask, SocketTracksTask,
     HandshakeTracksTask, AnswersTruthful, StraysSpent, READY
<1> QED
  BY <1>1, SetupInvariant, AcknowledgeInvariant, ReadyInvariant, PingInvariant,
     EnvironmentInvariant DEF Next, RecvMsgTask

(* The inductive invariant holds in every reachable state.                 *)
THEOREM InvariantCorrect == Spec => []IInv
BY TypeCorrect, InitInvariant, NextInvariant, PTL DEF Spec

-----------------------------------------------------------------------------
(* What follows from it.                                                   *)

(* While the flag the ping task tests is set, the socket is open and its   *)
(* connection acknowledged.                                                *)
THEOREM ConnectedMeansAcknowledgedCorrect == Spec => []ConnectedMeansAcknowledged
<1>1. IInv => ConnectedMeansAcknowledged
  BY DEF IInv, FlagTracksTask, SocketTracksTask, HandshakeTracksTask,
     AnswersTruthful, ConnectedMeansAcknowledged, Open
<1> QED
  BY <1>1, InvariantCorrect, PTL

(* The race of the two tasks costs a connection at most one PINGREQ.       *)
THEOREM AtMostOneStrayPingCorrect == Spec => []AtMostOneStrayPing
<1>1. IInv => AtMostOneStrayPing
  BY DEF IInv, StraysSpent, AtMostOneStrayPing
<1> QED
  BY <1>1, InvariantCorrect, PTL

(* A task in KIIPUSH_READY listens on a subscribed connection.             *)
THEOREM ReadyMeansSubscribedCorrect == Spec => []ReadyMeansSubscribed
<1>1. IInv => ReadyMeansSubscribed
  BY DEF IInv, FlagTracksTask, SocketTracksTask, HandshakeTracksTask,
     ReadyMeansSubscribed, READY, AcknowledgedPcs, Open
<1> QED
  BY <1>1, InvariantCorrect, PTL

(* No step exchanges the connection behind a socket that stays open.       *)
THEOREM NeverOverwritesSocketCorrect == Spec => NeverOverwritesSocket
<1> DEFINE Same == socket > 0 /\ socket' > 0 =>
                     /\ link.session # "new" => link'.session # "new"
                     /\ link.torn => link'.torn
                     /\ link.strays <= link'.strays
<1>1. ASSUME TypeOK, IInv, [Next]_vars PROVE Same
  <2>0. link \in Links /\ link.strays \in Nat /\ link.strays <= link.strays
    BY <1>1 DEF TypeOK, Links
  <2>1. ASSUME link' = link PROVE Same
    BY <2>0, <2>1
  <2>2. CASE StartRoutine \/ Install \/ RetrieveEndpoint \/ UNCHANGED vars
    BY <2>1, <2>2 DEF StartRoutine, Install, RetrieveEndpoint, vars
  <2>3. CASE CloseSocket
    BY <2>1, <2>3 DEF CloseSocket, NoSocket
  <2>4. CASE OpenSocket
    BY <1>1, <2>1, <2>4 DEF OpenSocket, IInv, SocketTracksTask, NoSocket
  <2>5. CASE SendConnect \/ SendSubscribe
    <3>1. \A q \in Requests : Sent(q).session = link.session
            /\ Sent(q).torn = link.torn /\ Sent(q).strays = link.strays
      BY <2>0, SentType
    <3>2. link' = link \/ link' = Sent("CONNECT") \/ link' = Sent("SUBSCRIBE")
      BY <2>5 DEF SendConnect, SendSubscribe
    <3> QED
      BY <2>0, <2>1, <3>1, <3>2 DEF Requests
  <2>6. CASE RecvConnack \/ RecvSuback
    BY <2>0, <2>1, <2>6 DEF RecvConnack, RecvSuback, Links
  <2>7. CASE RecvFixedHeader \/ RecvTopicHeader \/ RecvRest
    BY <1>1, <2>0, <2>7, ReadyShape
  <2>8. CASE PingReqTask
    <3>1. /\ Sent("PINGREQ") \in Links /\ Sent("PINGREQ").session = link.session
          /\ Sent("PINGREQ").torn = link.torn /\ Sent("PINGREQ").strays = link.strays
      BY <2>0, SentType DEF Requests
    <3>2. ASSUME link' = [Sent("PINGREQ") EXCEPT
                           !.strays = IF link.acked THEN @ ELSE @ + 1]
          PROVE  Same
      BY <2>0, <3>1, <3>2 DEF Links
    <3> QED
      BY <2>1, <2>8, <3>2 DEF PingReqTask, PingCheck, PingLoad, PingSend, PingDelay
  <2>9. CASE Broker \/ Network
    BY <2>0, <2>1, <2>9 DEF Broker, BrokerConnect, BrokerReject, BrokerSubscribe,
       BrokerPing, Answers, Network, BrokerPublish, LoseLink, ExpireEndpoint, Links
  <2> QED
    BY <1>1, <2>2, <2>3, <2>4, <2>5, <2>6, <2>7, <2>8, <2>9 DEF Next, RecvMsgTask
<1> QED
  BY <1>1, TypeCorrect, InvariantCorrect, PTL DEF Spec, NeverOverwritesSocket
=============================================================================
