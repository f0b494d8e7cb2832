----------------------------- MODULE MCKiiPush -----------------------------
(* Small instances of KiiPush for TLC.                                     *)
EXTENDS KiiPush

(* Two bytes of fixed header, two of topic header and then one or two more *)
(* in the loop; nine bytes do not fit the buffer of eight.                 *)
MCPublishLens == {6, 9}
=============================================================================
