------------------------------ MODULE KiiPush ------------------------------
(***************************************************************************)
(* The push receiver of kii/kii_push.c and the MQTT client it drives in    *)
(* kii/kii_mqtt.c: kiiPush_recvMsgTask, which installs the thing, fetches  *)
(* the MQTT endpoint, connects, subscribes and receives; and               *)
(* kiiPush_pingReqTask, which shares with it, unsynchronised, the flag     *)
(* kii_t._mqtt_connected and the socket kii_t.mqtt_socket_context.  The    *)
(* broker and the network are modelled from what the SDK sends them and    *)
(* how it reads their answers.                                             *)
(*                                                                         *)
(* An action is a step of a task up to the next point where the other task *)
(* or the network can be noticed: each socket callback is one step.        *)
(***************************************************************************)
EXTENDS MqttWire

CONSTANTS
  KII_PUSH_TOPIC_HEADER_SIZE, (* bytes of a PUBLISH read in the second recv *)
  ConnectSize,    (* buffer bytes kiiMQTT_connect asks for: 27 + strings    *)
  SubscribeSize,  (* buffer bytes kiiMQTT_subscribe asks for: 14 + topic    *)
  MaxFaults,      (* bound: failures of callbacks, requests and the network *)
  MaxPings        (* bound: keep-alive rounds of the ping task              *)

(* A topic name of the Kii cloud is longer than the bytes of the second    *)
(* recv, so a whole PUBLISH never is shorter than the two recvs together.  *)
ASSUME PushAssumption ==
  /\ KII_PUSH_TOPIC_HEADER_SIZE \in Nat
  /\ \A n \in PublishLens : n >= 2 + KII_PUSH_TOPIC_HEADER_SIZE
  /\ ConnectSize \in Nat
  /\ SubscribeSize \in Nat
  /\ MaxFaults \in Nat
  /\ MaxPings \in Nat

VARIABLES
  pc,            (* where the receive task is; pushState is read off it    *)
  endpoint,      (* the credentials in the task's kii_mqtt_endpoint_t      *)
  rx,            (* locals of kiiPush_receivePushNotification              *)
  mqttConnected, (* kii_t._mqtt_connected                                  *)
  socket,        (* kii_t.mqtt_socket_context.socket                       *)
  pingPc,        (* where the ping task is                                 *)
  pingSock,      (* the descriptor its send callback has loaded            *)
  pings,         (* keep-alive rounds so far                               *)
  link,          (* the TCP connection behind socket, and its broker end   *)
  published,     (* messages the broker has published to this thing        *)
  received,      (* messages push_received_cb was given whole, in order    *)
  mangled,       (* push_received_cb was given something else              *)
  faults         (* failures so far                                        *)

device  == <<mqttConnected, socket>>
ping    == <<pingPc, pingSock, pings>>
outcome == <<received, mangled>>
vars == <<pc, endpoint, rx, device, ping, link, published, outcome, faults>>

PreparingPcs   == {"install", "retrieve"}
SubscribingPcs == {"close", "open", "sendConnect", "recvConnack",
                   "sendSubscribe", "recvSuback"}
ReadyPcs       == {"recvFixed", "recvTopicHeader", "recvRest"}
RecvPcs == PreparingPcs \cup SubscribingPcs \cup ReadyPcs

PREPARING_ENDPOINT == pc \in PreparingPcs
SUBSCRIBING_TOPIC  == pc \in SubscribingPcs
READY              == pc \in ReadyPcs

(* acked: the device accepted a CONNACK on it.  strays: PINGREQs sent on   *)
(* it before that.  torn: a receive gave up inside a packet.  base: number *)
(* of the last message published before the broker took the subscription.  *)
NewLink == [peer |-> TRUE, session |-> "new", up |-> <<>>, down |-> <<>>,
            acked |-> FALSE, strays |-> 0, torn |-> FALSE, base |-> 0]
NoLink  == [NewLink EXCEPT !.peer = FALSE]

NoSocket == 0 - 1
Open     == 1

(* genuine: the bytes were read from a packet boundary; whole: all of them *)
NoPacket == [kind |-> "publish", msg |-> 0, bytes |-> 0, total |-> 0,
             genuine |-> FALSE, whole |-> FALSE]

Init ==
  /\ pc = "start" /\ pingPc = "start"
  /\ endpoint = "none"
  /\ rx = NoPacket
  /\ mqttConnected = FALSE
  /\ socket = NoSocket
  /\ pingSock = "none" /\ pings = 0
  /\ link = NoLink
  /\ published = 0
  /\ received = <<>> /\ mangled = FALSE
  /\ faults = 0

(* A failure takes one of the budget, anything else leaves it alone.       *)
Fault == faults < MaxFaults /\ faults' = faults + 1
Fine  == UNCHANGED faults

-----------------------------------------------------------------------------
(* kii_push_start_routine: two tasks are created, the result codes dropped *)

StartRoutine ==
  /\ pc = "start" /\ pingPc = "start"
  /\ \E recvTask, pingTask \in BOOLEAN :
       /\ IF recvTask /\ pingTask THEN Fine ELSE Fault
       /\ pc' = IF recvTask THEN "install" ELSE "absent"
       /\ pingPc' = IF pingTask THEN "check" ELSE "absent"
  /\ UNCHANGED <<endpoint, rx, device, pingSock, pings, link, published, outcome>>

-----------------------------------------------------------------------------
(* KIIPUSH_PREPARING_ENDPOINT                                              *)

Install ==
  /\ pc = "install"
  /\ \/ pc' = "retrieve" /\ Fine
     \/ UNCHANGED pc /\ Fault
  /\ UNCHANGED <<endpoint, rx, device, ping, link, published, outcome>>

(* A 503 answer is asked again, any other failure installs again.          *)
RetrieveEndpoint ==
  /\ pc = "retrieve"
  /\ \/ pc' = "close" /\ endpoint' = "valid" /\ Fine
     \/ UNCHANGED <<pc, endpoint>> /\ Fault
     \/ pc' = "install" /\ UNCHANGED endpoint /\ Fault
  /\ UNCHANGED <<rx, device, ping, link, published, outcome>>

-----------------------------------------------------------------------------
(* KIIPUSH_SUBSCRIBING_TOPIC: kiiMQTT_connect, then kiiMQTT_subscribe      *)

(* A failed connect or subscribe goes all the way back to a new endpoint.  *)
GiveUpSameEndpoint == pc' = "close"
GiveUp == pc' = "install"

MustCloseConnected == mqttConnected
MustClose == socket > 0

(* An open socket is closed first.  A descriptor the ping task has already *)
(* loaded goes stale: its number may come back as another connection.      *)
CloseSocket ==
  /\ pc = "close"
  /\ \/ /\ MustClose
        /\ pc' = "open" /\ socket' = NoSocket /\ link' = NoLink /\ Fine
        /\ pingSock' = IF pingSock = "live" THEN "stale" ELSE pingSock
     \/ /\ MustClose
        /\ GiveUp /\ Fault
        /\ UNCHANGED <<socket, link, pingSock>>
     \/ /\ ~MustClose
        /\ pc' = "open" /\ Fine
        /\ UNCHANGED <<socket, link, pingSock>>
  /\ UNCHANGED <<endpoint, rx, mqttConnected, pingPc, pings, published, outcome>>

(* The buffer is found too short only after the socket has been connected. *)
OpenSocket ==
  /\ pc = "open"
  /\ \/ /\ IF MqttBufferSize < ConnectSize THEN GiveUp ELSE pc' = "sendConnect"
        /\ socket' = Open /\ link' = NewLink /\ Fine
     \/ /\ GiveUp /\ Fault
        /\ UNCHANGED <<socket, link>>
  /\ UNCHANGED <<endpoint, rx, mqttConnected, ping, published, outcome>>

(* The link after packet p was handed to the socket: a connection that is  *)
(* gone swallows it.                                                       *)
Sent(p) == IF link.peer THEN [link EXCEPT !.up = Append(@, p)] ELSE link

(* The failure of a send on a lost connection is no fault of its own.      *)
SendFails == IF link.peer THEN Fault ELSE Fine

SendConnect ==
  /\ pc = "sendConnect"
  /\ \/ pc' = "recvConnack" /\ link' = Sent("CONNECT") /\ Fine
     \/ GiveUp /\ SendFails /\ UNCHANGED link
  /\ UNCHANGED <<endpoint, rx, device, ping, published, outcome>>

(* recv returns the first k bytes that arrived; tearing a packet is a      *)
(* fault of the network.                                                   *)
Recv(want, k) ==
  /\ k \in Readable(link.down, want)
  /\ IF Tears(link.down, want, k) THEN Fault ELSE Fine

(* recv gives nothing: the connection is over, or the wait timed out.      *)
RecvFails == IF ~link.peer /\ link.down = <<>> THEN Fine ELSE Fault

(* The k bytes of one recv must be the expected packet and nothing more.   *)
ConnackOK(k) == k = CONNACK_LEN /\ SubSeq(link.down, 1, k) = Connack

SubackOKAnything(k) == k >= 2
SubackOKPrefix(k) == k >= SUBACK_LEN /\ SubSeq(link.down, 1, SUBACK_LEN) = Suback
SubackOK(k) == k = SUBACK_LEN /\ SubSeq(link.down, 1, k) = Suback

RecvConnack ==
  /\ pc = "recvConnack"
  /\ \/ \E k \in 1..MqttBufferSize :
          /\ Recv(MqttBufferSize, k)
          /\ IF ConnackOK(k)
             THEN pc' = "sendSubscribe" /\ mqttConnected' = TRUE
             ELSE GiveUp /\ UNCHANGED mqttConnected
          /\ link' = [link EXCEPT !.down = Drop(@, k), !.acked = ConnackOK(k)]
     \/ /\ GiveUp /\ RecvFails
        /\ UNCHANGED <<mqttConnected, link>>
  /\ UNCHANGED <<endpoint, rx, socket, ping, published, outcome>>

SendSubscribe ==
  /\ pc = "sendSubscribe"
  /\ \/ /\ MqttBufferSize >= SubscribeSize
        /\ pc' = "recvSuback" /\ link' = Sent("SUBSCRIBE") /\ Fine
        /\ UNCHANGED mqttConnected
     \/ /\ IF MqttBufferSize < SubscribeSize THEN Fine ELSE SendFails
        /\ GiveUp /\ mqttConnected' = FALSE
        /\ UNCHANGED link
  /\ UNCHANGED <<endpoint, rx, socket, ping, published, outcome>>

RecvSuback ==
  /\ pc = "recvSuback"
  /\ \/ \E k \in 1..MqttBufferSize :
          /\ Recv(MqttBufferSize, k)
          /\ IF SubackOK(k)
             THEN pc' = "recvFixed" /\ UNCHANGED mqttConnected
             ELSE GiveUp /\ mqttConnected' = FALSE
          /\ link' = [link EXCEPT !.down = Drop(@, k)]
     \/ /\ GiveUp /\ mqttConnected' = FALSE /\ RecvFails
        /\ UNCHANGED link
  /\ UNCHANGED <<endpoint, rx, socket, ping, published, outcome>>

-----------------------------------------------------------------------------
(* KIIPUSH_READY: kiiPush_receivePushNotification                          *)

(* Its return value is not 0: the task connects again, same endpoint.      *)
ReconnectKeepingFlag == pc' = "close" /\ UNCHANGED mqttConnected
Reconnect == pc' = "close" /\ mqttConnected' = FALSE

(* What the code may find in byte b where it expects the start of a packet *)
LooksLikePublish(b) == IF b.at = 1 THEN {b.kind \in PublishKinds} ELSE BOOLEAN

RecvFixedHeader ==
  /\ pc = "recvFixed"
  /\ \/ \E k \in 1..2 :
          /\ Recv(2, k)
          /\ link' = [link EXCEPT !.down = Drop(@, k)]
          /\ \/ /\ k = 2 /\ TRUE \in LooksLikePublish(link.down[1])
                /\ pc' = "recvTopicHeader"
                /\ rx' = [kind |-> link.down[1].kind, msg |-> link.down[1].msg,
                          bytes |-> 2, total |-> link.down[1].len,
                          genuine |-> link.down[1].at = 1, whole |-> FALSE]
                /\ UNCHANGED mqttConnected
             \/ /\ k = 2 /\ FALSE \in LooksLikePublish(link.down[1])
                /\ UNCHANGED <<pc, rx, mqttConnected>>
             \/ k < 2 /\ Reconnect /\ UNCHANGED rx
     \/ Reconnect /\ RecvFails /\ UNCHANGED <<rx, link>>
  /\ UNCHANGED <<endpoint, socket, ping, published, outcome>>

(* The callback runs if the lengths leave room for a payload, else the     *)
(* packet counts as an error.  Bytes read off a boundary can say anything. *)
HasPayload(r) == IF r.genuine THEN {r.kind = "publish"} ELSE BOOLEAN

Callback(r) ==
  IF r.whole
  THEN received' = Append(received, r.msg) /\ UNCHANGED mangled
  ELSE mangled' = TRUE /\ UNCHANGED received

HandlePublish(r) ==
  \/ /\ TRUE \in HasPayload(r)
     /\ Callback(r) /\ pc' = "recvFixed" /\ UNCHANGED mqttConnected
  \/ /\ FALSE \in HasPayload(r)
     /\ Reconnect /\ UNCHANGED outcome

(* What kiiMQTT_decode makes of the remaining length: the packet's own     *)
(* length, no length at all (0), or anything if the bytes are not a header *)
DecodedTotals(r) ==
  CASE r.genuine /\ r.kind = "malformed" -> {0}
    [] r.genuine /\ r.kind # "malformed" -> {r.total}
    [] OTHER -> 0..MqttBufferSize

RecvTopicHeader ==
  /\ pc = "recvTopicHeader"
  /\ LET want == KII_PUSH_TOPIC_HEADER_SIZE IN
     \/ \E k \in 1..want :
          /\ Recv(want, k)
          /\ link' = [link EXCEPT !.down = Drop(@, k)]
          /\ \/ k < want /\ Reconnect /\ UNCHANGED <<rx, outcome>>
             \/ /\ k = want
                /\ \E total \in DecodedTotals(rx) :
                     LET r == [rx EXCEPT !.bytes = 2 + want, !.total = total,
                                         !.whole = rx.genuine]
                     IN \/ /\ total = 0 \/ total > MqttBufferSize
                           /\ Reconnect /\ UNCHANGED <<rx, outcome>>
                        \/ /\ total \in 1..MqttBufferSize /\ r.bytes >= total
                           /\ HandlePublish(r) /\ rx' = NoPacket
                        \/ /\ total \in 1..MqttBufferSize /\ r.bytes < total
                           /\ pc' = "recvRest" /\ rx' = r
                           /\ UNCHANGED <<mqttConnected, outcome>>
     \/ Reconnect /\ RecvFails /\ UNCHANGED <<rx, link, outcome>>
  /\ UNCHANGED <<endpoint, socket, ping, published>>

(* What the loop still asks for, and its count after k more bytes.         *)
RestWantedOneMore == rx.total - rx.bytes + 1
RestWanted == rx.total - rx.bytes

CountedForgetting(k) == k
Counted(k) == rx.bytes + k

(* A failed recv sets the unsigned `bytes` to -1, which is not below       *)
(* totalLen: the packet is taken for complete and the callback runs on     *)
(* what is there.                                                          *)
RestLostSigned ==
  /\ rx' = [rx EXCEPT !.bytes = 0 - 1]
  /\ UNCHANGED <<pc, mqttConnected, outcome>>
RestLostNoBreak ==
  Callback(rx) /\ UNCHANGED <<pc, mqttConnected, rx>>
RestLost ==
  HandlePublish([rx EXCEPT !.whole = FALSE]) /\ rx' = NoPacket

(* One round of the loop that reads the rest of the packet.                *)
RecvRest ==
  /\ pc = "recvRest"
  /\ \/ \E k \in Readable(link.down, RestWanted) :
          /\ link' = [link EXCEPT !.down = Drop(@, k)] /\ Fine
          /\ IF Counted(k) >= rx.total
             THEN HandlePublish(rx) /\ rx' = NoPacket
             ELSE /\ rx' = [rx EXCEPT !.bytes = Counted(k)]
                  /\ UNCHANGED <<pc, mqttConnected, outcome>>
     \/ RestLost /\ RecvFails /\ link' = [link EXCEPT !.torn = TRUE]
  /\ UNCHANGED <<endpoint, socket, ping, published>>

-----------------------------------------------------------------------------
(* kiiPush_pingReqTask: nothing orders its test of _mqtt_connected, its    *)
(* load of the descriptor and its send with the steps of the other task.   *)

PingCheck ==
  /\ pingPc = "check"
  /\ pingPc' = IF mqttConnected THEN "load" ELSE "delay"
  /\ UNCHANGED <<pc, endpoint, rx, device, pingSock, pings, link, published,
                 outcome, faults>>

PingLoad ==
  /\ pingPc = "load"
  /\ pingPc' = "send"
  /\ pingSock' = IF socket > 0 THEN "live" ELSE "none"
  /\ UNCHANGED <<pc, endpoint, rx, device, pings, link, published, outcome, faults>>

(* The send may fail, which nobody looks at.  A stale descriptor reaches   *)
(* the connection that now has its number, or none.                        *)
PingSend ==
  /\ pingPc = "send"
  /\ pingPc' = "delay" /\ pingSock' = "none"
  /\ \/ /\ socket > 0 /\ pingSock # "none"
        /\ link' = [Sent("PINGREQ") EXCEPT
                      !.strays = IF link.acked THEN @ ELSE @ + 1]
     \/ UNCHANGED link
  /\ UNCHANGED <<pc, endpoint, rx, device, pings, published, outcome, faults>>

PingDelay ==
  /\ pingPc = "delay"
  /\ pings < MaxPings
  /\ pingPc' = "check" /\ pings' = pings + 1
  /\ UNCHANGED <<pc, endpoint, rx, device, pingSock, link, published, outcome, faults>>

-----------------------------------------------------------------------------
(* The broker's end of the connection.                                     *)

BrokerTakes(p) == link.peer /\ link.up # <<>> /\ Head(link.up) = p
Answers(bytes) == [link EXCEPT !.up = Tail(@), !.down = @ \o bytes]
OnlyLink == UNCHANGED <<pc, endpoint, rx, device, ping, published, outcome, faults>>

BrokerConnect ==
  /\ BrokerTakes("CONNECT") /\ link.session = "new"
  /\ link' = IF endpoint = "valid"
             THEN [Answers(Connack) EXCEPT !.session = "connected"]
             ELSE [Answers(Refused) EXCEPT !.peer = FALSE]
  /\ OnlyLink

(* A connection that does not open with CONNECT is closed.                 *)
BrokerReject ==
  /\ link.peer /\ link.up # <<>> /\ Head(link.up) # "CONNECT"
  /\ link.session = "new"
  /\ link' = [link EXCEPT !.peer = FALSE]
  /\ OnlyLink

BrokerSubscribe ==
  /\ BrokerTakes("SUBSCRIBE") /\ link.session = "connected"
  /\ link' = [Answers(Suback) EXCEPT !.session = "subscribed", !.base = published]
  /\ OnlyLink

BrokerPing ==
  /\ BrokerTakes("PINGREQ") /\ link.session # "new"
  /\ link' = Answers(Pingresp)
  /\ OnlyLink

BrokerPublish ==
  /\ link.peer /\ link.session = "subscribed"
  /\ published < MaxMsgs
  /\ published' = published + 1
  /\ \E kind \in PublishKinds, len \in PublishLens :
       link' = [link EXCEPT !.down = @ \o Packet(kind, published + 1, len)]
  /\ UNCHANGED <<pc, endpoint, rx, device, ping, outcome, faults>>

(* The connection is lost, with the bytes that had not arrived.            *)
LoseLink ==
  /\ link.peer /\ Fault
  /\ \E n \in 0..Len(link.down) :
       link' = [link EXCEPT !.peer = FALSE, !.down = SubSeq(@, 1, n)]
  /\ UNCHANGED <<pc, endpoint, rx, device, ping, published, outcome>>

(* X-MQTT-TTL runs out: the broker refuses the credentials from now on.    *)
ExpireEndpoint ==
  /\ endpoint = "valid" /\ Fault
  /\ endpoint' = "expired"
  /\ UNCHANGED <<pc, rx, device, ping, link, published, outcome>>

-----------------------------------------------------------------------------
RecvMsgTask ==
  \/ Install \/ RetrieveEndpoint
  \/ CloseSocket \/ OpenSocket \/ SendConnect \/ RecvConnack
  \/ SendSubscribe \/ RecvSuback
  \/ RecvFixedHeader \/ RecvTopicHeader \/ RecvRest
PingReqTask == PingCheck \/ PingLoad \/ PingSend \/ PingDelay
Broker  == BrokerConnect \/ BrokerReject \/ BrokerSubscribe \/ BrokerPing
Network == BrokerPublish \/ LoseLink \/ ExpireEndpoint

Next == StartRoutine \/ RecvMsgTask \/ PingReqTask \/ Broker \/ Network

Spec == Init /\ [][Next]_vars

(* The scheduler runs both tasks and the broker answers what it was sent.  *)
Fairness == WF_vars(StartRoutine) /\ WF_vars(RecvMsgTask) /\ WF_vars(PingReqTask)
            /\ WF_vars(Broker)
FairSpec == Spec /\ Fairness

-----------------------------------------------------------------------------
(* Type invariant.                                                         *)
Parses == [kind : PacketKinds, msg : 0..MaxMsgs, bytes : Nat, total : Nat,
           genuine : BOOLEAN, whole : BOOLEAN]
Requests == {"CONNECT", "SUBSCRIBE", "PINGREQ"}
Links == [peer : BOOLEAN, session : {"new", "connected", "subscribed"},
          up : Seq(Requests), down : Seq(Byte),
          acked : BOOLEAN, strays : Nat, torn : BOOLEAN, base : 0..MaxMsgs]

TypeOK ==
  /\ pc \in RecvPcs \cup {"start", "absent"}
  /\ endpoint \in {"none", "valid", "expired"}
  /\ rx \in Parses
  /\ mqttConnected \in BOOLEAN
  /\ socket \in {NoSocket, Open}
  /\ pingPc \in {"start", "absent", "check", "load", "send", "delay"}
  /\ pingSock \in {"none", "live", "stale"}
  /\ pings \in 0..MaxPings
  /\ link \in Links
  /\ published \in 0..MaxMsgs
  /\ received \in Seq(0..MaxMsgs)
  /\ mangled \in BOOLEAN
  /\ faults \in 0..MaxFaults

(* What the ping task trusts: while _mqtt_connected is set, the socket is  *)
(* open and its connection has answered our CONNECT with an accepting      *)
(* CONNACK (kii_push.c:497-515, across every way back to a reconnect).     *)
ConnectedMeansAcknowledged ==
  mqttConnected => socket > 0 /\ link.acked /\ link.session # "new"

(* The unsynchronised test-then-send of the ping task (kii_push.c:531-533) *)
(* can put a PINGREQ on a connection that has not been acknowledged yet,   *)
(* but never more than one on any connection.                              *)
AtMostOneStrayPing == link.strays <= 1

(* A receive task in KIIPUSH_READY listens on a connection whose broker    *)
(* has this thing's subscription, until that connection is lost.           *)
ReadyMeansSubscribed ==
  READY => mqttConnected /\ socket > 0 /\ link.session = "subscribed"

(* The receive loop takes the byte at a packet boundary for a fixed header *)
(* and no other, as long as no earlier receive on that connection gave up  *)
(* in the middle of a packet (kii_push.c:382-387).                         *)
FramingKept ==
  pc = "recvFixed" /\ ~link.torn => AtBoundary(link.down)

(* No message published to a subscribed, undamaged connection vanishes:    *)
(* it was given to the callback, or is being received, or is on its way.   *)
(* A SUBACK that arrives together with a first message must not eat it.    *)
NoSilentLoss ==
  READY /\ link.peer /\ ~link.torn =>
    \A m \in link.base + 1..published :
      \/ \E i \in DOMAIN received : received[i] = m
      \/ \E i \in DOMAIN link.down : link.down[i].msg = m
      \/ pc # "recvFixed" /\ rx.msg = m

(* The callback is given messages in publication order and none twice,     *)
(* over any number of reconnections: the receiver implements PushChannel.  *)
Channel == INSTANCE PushChannel
ImplementsPushChannel == Channel!Spec

(* The callback is told of whole messages only: "callback is called when   *)
(* push message is delivered to this thing" (kii.h:480), and a receive     *)
(* that fails inside a message is an error (kii_push.c:411).               *)
OnlyWholeMessages == ~mangled

(* While the socket stays open the connection behind it stays the same:    *)
(* no reconnection puts a new connection over one that was not closed,     *)
(* whose descriptor would be lost (kii_mqtt.c:54-61).                      *)
NeverOverwritesSocket ==
  [][socket > 0 /\ socket' > 0 =>
       /\ link.session # "new" => link'.session # "new"
       /\ link.torn => link'.torn
       /\ link.strays <= link'.strays]_vars

(* Once failures stop, the task works its way back to a connection with    *)
(* this thing's subscription, whatever state the failures left it in: a    *)
(* refused endpoint is fetched anew, a half-open socket is replaced.       *)
Recovers == (pc \in RecvPcs) ~> (READY /\ link.peer)

(* A message on the way to a task in KIIPUSH_READY reaches the callback,   *)
(* or the task gives the connection up.                                    *)
MessagesArrive ==
  \A m \in 1..MaxMsgs :
    (READY /\ \E i \in DOMAIN link.down : link.down[i].msg = m /\ link.down[i].kind = "publish")
      ~> (~READY \/ mangled \/ \E i \in DOMAIN received : received[i] = m)

-----------------------------------------------------------------------------
(* The inductive invariant behind the safety properties.                   *)

ConnectingPcs   == {"sendConnect", "recvConnack"}
AcknowledgedPcs == {"sendSubscribe", "recvSuback"} \cup ReadyPcs

FlagTracksTask == mqttConnected <=> pc \in AcknowledgedPcs

SocketTracksTask ==
  /\ pc \in ConnectingPcs \cup AcknowledgedPcs => socket = Open
  /\ pc = "open" => socket = NoSocket
  /\ socket = NoSocket => link = NoLink

HandshakeTracksTask ==
  /\ pc \in ConnectingPcs => ~link.acked
  /\ pc \in AcknowledgedPcs => link.acked
  /\ READY => link.session = "subscribed"

(* The bytes on their way say what the broker did, and an acknowledgement  *)
(* that was read said it too.                                              *)
Truthful(bytes, session) ==
  \A i \in DOMAIN bytes :
    /\ bytes[i].kind = "connack" => session # "new"
    /\ bytes[i].kind = "suback" => session = "subscribed"

AnswersTruthful ==
  /\ Truthful(link.down, link.session)
  /\ link.acked => link.session # "new"

(* Only a round of the ping task that began before the connection existed  *)
(* can stray onto it, and it is over once it did.                          *)
StraysSpent ==
  /\ link.strays <= 1
  /\ ~link.acked /\ link.strays = 1 => pingPc \notin {"load", "send"}

IInv == /\ FlagTracksTask /\ SocketTracksTask /\ HandshakeTracksTask
        /\ AnswersTruthful /\ StraysSpent
=============================================================================
