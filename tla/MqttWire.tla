------------------------------ MODULE MqttWire ------------------------------
(***************************************************************************)
(* What travels from the MQTT broker to the device: packets, cut into the  *)
(* bytes the SDK's receive callback hands out.  A byte knows the packet it *)
(* belongs to and its place in it, which is all the receive code of        *)
(* kii/kii_push.c and kii/kii_mqtt.c depends on: lengths, the type nibble  *)
(* of a first byte, and whether a reader is at a packet boundary.          *)
(***************************************************************************)
EXTENDS Naturals, Sequences

CONSTANTS
  MqttBufferSize,  (* kii_t.mqtt_buffer_size, in bytes                     *)
  PublishLens,     (* total lengths of the PUBLISH packets a broker sends  *)
  MaxMsgs          (* bound: PUBLISH packets sent in a behaviour           *)

(* CONNACK and SUBACK are the 4 and 5 bytes the SDK compares against.      *)
CONNACK_LEN  == 4
SUBACK_LEN   == 5
PINGRESP_LEN == 2

ASSUME WireAssumption ==
  /\ MqttBufferSize \in Nat
  /\ MqttBufferSize >= SUBACK_LEN
  /\ MaxMsgs \in Nat
  /\ PublishLens \subseteq Nat

(* "empty" is a PUBLISH with no payload, "malformed" one whose remaining   *)
(* length does not end within four bytes: kiiMQTT_decode answers -1.       *)
PublishKinds == {"publish", "empty", "malformed"}

PacketKinds == PublishKinds \cup {"connack", "refused", "suback", "pingresp"}

(* An acknowledgement carries no message, hence message number 0.          *)
Byte == [kind : PacketKinds, msg : 0..MaxMsgs, len : Nat, at : Nat]

Packet(kind, msg, len) ==
  [i \in 1..len |-> [kind |-> kind, msg |-> msg, len |-> len, at |-> i]]

Connack  == Packet("connack", 0, CONNACK_LEN)
Refused  == Packet("refused", 0, CONNACK_LEN)
Suback   == Packet("suback", 0, SUBACK_LEN)
Pingresp == Packet("pingresp", 0, PINGRESP_LEN)

(* The stream that is left when n bytes were taken from its front.         *)
Drop(s, n) == SubSeq(s, n + 1, Len(s))

(* A receive for at most `want` bytes returns k of those that arrived.     *)
Least(m, n) == IF m <= n THEN m ELSE n
Readable(s, want) == 1..Least(want, Len(s))

(* The reader is about to take the first byte of a packet.                 *)
AtBoundary(s) == s # <<>> => s[1].at = 1

(* Taking k bytes tears a packet: it ends neither where the caller asked   *)
(* to stop nor at the end of a packet.                                     *)
Tears(s, want, k) == k < Least(want, Len(s)) /\ s[k].at # s[k].len
=============================================================================
