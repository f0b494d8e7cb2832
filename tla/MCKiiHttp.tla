----------------------------- MODULE MCKiiHttp -----------------------------
(* Small instances of KiiHttp for TLC.                                     *)
EXTENDS KiiHttp

MCRequestSizes == {3, 6}

(* A body with its length and a longer one without, a response that does   *)
(* not fit, and one that does not begin with "HTTP/1.1 ".                  *)
MCReplies == {
  [head |-> 4, body |-> 2, announced |-> 2, http11 |-> TRUE, code |-> 200],
  [head |-> 4, body |-> 4, announced |-> 0, http11 |-> TRUE, code |-> 201],
  [head |-> 4, body |-> 6, announced |-> 6, http11 |-> TRUE, code |-> 200],
  [head |-> 4, body |-> 0, announced |-> 0, http11 |-> FALSE, code |-> 502]}
=============================================================================
