---------------------------- MODULE MCKiiParsers ----------------------------
(* A small instance of KiiParsers for TLC: names of two letters, a search  *)
(* of six characters, which ends in the line after a short one.            *)
EXTENDS KiiParsers

MCLower == <<"c", "l">>
MCUpper == <<"C", "L">>

Figures == {<<>>, <<0>>, <<5>>, <<0, 7>>, <<1, 0>>, <<1, 2, 3>>, <<9, 8, 7, 6>>, <<0, 0, 0, 0, 8>>,
            <<0, 0, 0, 0, 0, 4>>}

(* Content-Length in three ways of writing it, names that end like it,     *)
(* begin with it or are the beginning of it, and a short one.              *)
MCHeaders == [name : {<<"C", "l">>, <<"c", "l">>, <<"C", "L">>}, figures : Figures]
  \cup [name : {<<"x", "C", "l">>, <<"c", "l", "x">>, <<"c">>, <<"a">>}, figures : {<<>>, <<5>>, <<1, 2, 3>>}]

(* A body may itself look like a header.                                   *)
MCBodies == {<<>>, <<Char(6)>>, <<Text("x"), CR, LF, Text("c"), Text("l"), Text(":"), Char(9)>>}
=============================================================================
