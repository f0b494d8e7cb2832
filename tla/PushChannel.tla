---------------------------- MODULE PushChannel ----------------------------
(***************************************************************************)
(* What kii_push_start_routine promises the application: a channel of push *)
(* messages that may lose messages (QoS 0, and reconnections) but hands    *)
(* each one to the callback at most once and in publication order.         *)
(***************************************************************************)
EXTENDS Naturals, Sequences

CONSTANT MaxMsgs  (* bound: messages published in a behaviour *)

VARIABLES
  published,  (* messages 1..published have been published        *)
  received    (* what the callback was given, in the order it was *)

Init == published = 0 /\ received = <<>>

Publish ==
  /\ published < MaxMsgs
  /\ published' = published + 1
  /\ UNCHANGED received

(* Skipping messages is allowed, going back is not. *)
Newest(m) == \A i \in DOMAIN received : received[i] < m

Deliver ==
  /\ \E m \in 1..published : Newest(m) /\ received' = Append(received, m)
  /\ UNCHANGED published

Next == Publish \/ Deliver

Spec == Init /\ [][Next]_<<published, received>>
=============================================================================
