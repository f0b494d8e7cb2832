----------------------------- MODULE RemoteCall -----------------------------
(***************************************************************************)
(* What one call of the SDK promises its caller: the cloud carries it out  *)
(* at most once, and a call that succeeds was carried out and returns the  *)
(* status code the cloud gave to that very call.  A call that fails may    *)
(* have been carried out or not, and may still be after it has failed.     *)
(***************************************************************************)
EXTENDS Naturals

CONSTANTS
  MaxCalls,  (* bound: calls made in a behaviour            *)
  Codes      (* HTTP status codes the cloud answers with    *)

VARIABLES
  outcome,  (* of each call: "new", "pending", "ok", "failed" *)
  carried,  (* the code the cloud gave it, 0: not carried out *)
  given     (* the code its caller was given, 0: none         *)

Calls == 1..MaxCalls

Init ==
  /\ outcome = [c \in Calls |-> "new"]
  /\ carried = [c \in Calls |-> 0]
  /\ given = [c \in Calls |-> 0]

Begin(c) ==
  /\ outcome[c] = "new"
  /\ \A d \in Calls : outcome[d] # "pending" /\ (d < c => outcome[d] # "new")
  /\ outcome' = [outcome EXCEPT ![c] = "pending"]
  /\ UNCHANGED <<carried, given>>

CarryOut(c) ==
  /\ outcome[c] # "new" /\ carried[c] = 0
  /\ \E code \in Codes : carried' = [carried EXCEPT ![c] = code]
  /\ UNCHANGED <<outcome, given>>

Succeed(c) ==
  /\ outcome[c] = "pending" /\ carried[c] # 0
  /\ outcome' = [outcome EXCEPT ![c] = "ok"]
  /\ given' = [given EXCEPT ![c] = carried[c]]
  /\ UNCHANGED carried

Fail(c) ==
  /\ outcome[c] = "pending"
  /\ outcome' = [outcome EXCEPT ![c] = "failed"]
  /\ UNCHANGED <<carried, given>>

Next == \E c \in Calls : Begin(c) \/ CarryOut(c) \/ Succeed(c) \/ Fail(c)

Spec == Init /\ [][Next]_<<outcome, carried, given>>
=============================================================================
