---------------------------- MODULE MCKiiRequest ----------------------------
(* Small sizes for KiiRequest: lines from one byte to one too long for the *)
(* buffer, so that every call of an operation is the first not to fit, and *)
(* two with another host, one shorter than tested and one too long for the *)
(* buffer.  A token and an encoding are longer than what may follow them,  *)
(* as they are in practice.                                                *)
EXTENDS KiiRequest

MCLines == {[tested |-> n, size |-> n] : n \in 1..BufferSize}
             \cup {[tested |-> 3, size |-> n] : n \in {2, BufferSize + 2}}
MCHeaderSize == [k \in HeaderKinds |->
  CASE k = "encoding" -> 6 [] k = "auth" -> 3 [] OTHER -> 1]
MCKeys == {<<"a">>, <<"b", "c">>}
=============================================================================
