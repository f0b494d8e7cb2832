----------------------------- MODULE KiiParsers -----------------------------
(***************************************************************************)
(* The two pure functions that decide where a message ends:                *)
(* kii_parse_content_length of kii-core/kii_cl_parser.c, and               *)
(* kiiMQTT_encode and kiiMQTT_decode of kii/kii_mqtt.c, against what they  *)
(* stand for.  A behaviour is one input.                                   *)
(*                                                                         *)
(* The sizes in the code are parameters, so that every case within and     *)
(* beyond them can be enumerated.                                          *)
(***************************************************************************)
EXTENDS Integers, Sequences, SequencesExt, FiniteSetsExt

CONSTANTS
  lower, upper,      (* the name of the header in either case (kii_cl_parser.c) *)
  MAX_SEARCH_NUM,    (* characters looked through for the first figure      *)
  MAX_FIGURES,       (* figures of a length                                 *)
  RADIX,             (* 128: values of a byte of a remaining length         *)
  MAX_BYTES,         (* 4: bytes of a remaining length                      *)
  Headers,           (* the header lines of a response: a name and figures  *)
  MaxHeaders,        (* bound: lines of a head                              *)
  Bodies             (* what follows the empty line                         *)

ASSUME ParsersAssumption ==
  /\ Len(lower) = Len(upper)
  /\ {lower, upper} \subseteq Seq(STRING \ {":", "CR", "LF", "NUL"})
  /\ MAX_SEARCH_NUM \in Nat /\ MAX_FIGURES \in Nat \ {0}
  /\ RADIX \in Nat \ {0, 1} /\ MAX_BYTES \in Nat \ {0}
  /\ Headers \subseteq [name : Seq(STRING \ {":", "CR", "LF", "NUL"}), figures : Seq(0..9)]
  /\ MaxHeaders \in Nat
  /\ Bodies \subseteq Seq([figure : -1..9, text : STRING])

VARIABLE input  (* a response, or a remaining length                        *)

-----------------------------------------------------------------------------
(* kii_cl_parser.c.  A text is a sequence of characters; figures are       *)
(* numbers, which no other character is equal to.                          *)

Char(n) == [figure |-> n, text |-> ""]
Text(s) == [figure |-> -1, text |-> s]
NUL == Text("NUL")
CR == Text("CR")
LF == Text("LF")
Colon == Text(":")
Blank == Text(" ")
NULL == 0

cl_length == Len(lower)
At(text, i) == IF i \in DOMAIN text THEN text[i] ELSE NUL
Least(S) == IF S = {} THEN NULL ELSE Min(S)

(* Where the line after the one at i begins, unless it is the empty one.   *)
EndOfLine(text, i) == At(text, i) = CR /\ At(text, i + 1) = LF
skipPastEmpty(text, i) ==
  LET end == Least({j \in i..Len(text) : EndOfLine(text, j)})
  IN IF end = NULL THEN NULL ELSE end + 2
skip(text, i) ==
  LET end == Least({j \in i..Len(text) : EndOfLine(text, j)})
  IN IF end = NULL \/ EndOfLine(text, end + 2) THEN NULL ELSE end + 2

check(text, i) ==
  \A k \in 1..cl_length : At(text, i + k - 1) \in {Text(lower[k]), Text(upper[k])}

(* The first figure but 0 close after the name, and those that follow it.  *)
Number(figures) == FoldLeft(LAMBDA n, c : 10 * n + c.figure, 0, figures)
FiguresAt(text, i, most) ==
  SubSeq(text, i, Min({i + most - 1} \cup {j - 1 : j \in {k \in i..i + most : At(text, k).figure = -1}}))

value(text, i) ==
  LET start == i + cl_length
      first == Least({j \in start..start + MAX_SEARCH_NUM : At(text, j).figure > 0})
  IN IF first = NULL THEN 0 ELSE Number(FiguresAt(text, first, MAX_FIGURES))

kii_parse_content_length(text) ==
  LET parse[i \in 1..Len(text) + 2] ==
        LET next == skip(text, i)
        IN IF next = NULL THEN 0
           ELSE IF check(text, next) THEN value(text, next)
           ELSE parse[next]
  IN parse[1]

-----------------------------------------------------------------------------
(* kii_mqtt.c.  A byte is a digit and whether another follows.  Decoding   *)
(* that gives up has added up the bytes it looked at.                      *)

kiiMQTT_encode(length) ==
  LET encode[n \in 0..length] ==
        <<[digit |-> n % RADIX, more |-> n \div RADIX > 0]>>
          \o (IF n \div RADIX > 0 THEN encode[n \div RADIX] ELSE <<>>)
  IN encode[length]

Weighed(bytes) == FoldRight(LAMBDA b, n : b.digit + RADIX * n, bytes, 0)
decodeLong(bytes) ==
  LET len == Least({i \in DOMAIN bytes : ~bytes[i].more})
  IN IF len = NULL \/ len > MAX_BYTES + 1
     THEN [len |-> -1, value |-> Weighed(SubSeq(bytes, 1, MAX_BYTES + 1))]
     ELSE [len |-> len, value |-> Weighed(SubSeq(bytes, 1, len))]
kiiMQTT_decode(bytes) ==
  LET len == Least({i \in DOMAIN bytes : ~bytes[i].more})
  IN IF len = NULL \/ len > MAX_BYTES
     THEN [len |-> -1, value |-> Weighed(SubSeq(bytes, 1, MAX_BYTES))]
     ELSE [len |-> len, value |-> Weighed(SubSeq(bytes, 1, len))]

-----------------------------------------------------------------------------
(* What the functions are given: a response of the cloud, as its lines and *)
(* as its text, and the length of a packet that follows its two bytes.     *)

Line(header) == [k \in DOMAIN header.name |-> Text(header.name[k])]
                  \o <<Colon, Blank>>
                  \o [k \in DOMAIN header.figures |-> Char(header.figures[k])]
Rendered(headers, body) ==
  <<Text("status")>>
    \o FoldLeft(LAMBDA text, header : text \o <<CR, LF>> \o Line(header), <<>>, headers)
    \o <<CR, LF, CR, LF>> \o body

Heads == UNION {[1..n -> Headers] : n \in 0..MaxHeaders}
(* The numbers of at most k bytes are those below it.                      *)
Limit[k \in 0..MAX_BYTES + 1] == IF k = 0 THEN 1 ELSE RADIX * Limit[k - 1]

Responses == [headers : Heads, body : Bodies, length : {-1}]
Remainders == [headers : {<<>>}, body : {<<>>}, length : 0..Limit[MAX_BYTES + 1]]

Init == input \in Responses \cup Remainders
Next == UNCHANGED input
Spec == Init /\ [][Next]_input

-----------------------------------------------------------------------------
(* What a Content-Length says: the first line of that name decides, or the *)
(* first whose name is longer and begins with it.                          *)
Named(header) ==
  cl_length <= Len(header.name)
    /\ \A k \in 1..cl_length : header.name[k] \in {lower[k], upper[k]}
Sizing == {k \in DOMAIN input.headers : Named(input.headers[k])}
SizingLine == input.headers[Min(Sizing)]
Decimal(figures) == FoldLeft(LAMBDA n, f : 10 * n + f, 0, figures)
Announced == Decimal(SizingLine.figures)
Parsed == kii_parse_content_length(Rendered(input.headers, input.body))

(* What is in the way of a value: leading zeros do not count as figures,   *)
(* and more figures than a length has are cut off.                         *)
Significant ==
  LET figures == SizingLine.figures
      first == Least({k \in DOMAIN figures : figures[k] # 0})
  IN IF first = NULL THEN <<>> ELSE SubSeq(figures, first, Len(figures))

(* The value begins within the search, behind the rest of the name, ": "   *)
(* and leading zeros.                                                      *)
Reached ==
  /\ Significant # <<>>
  /\ Len(SizingLine.name) - cl_length + 2
       + Len(SizingLine.figures) - Len(Significant) <= MAX_SEARCH_NUM

(* The parser returns the length a response announces, in whichever case   *)
(* its letters, behind whichever headers and before whichever body; 0 if   *)
(* none is; and the first figures of one that has too many                 *)
(* (kii_cl_parser.c:93-109).  More leading zeros than the search passes    *)
(* over read as 0.                                                         *)
ContentLengthRight ==
  input.length = -1 =>
    IF Sizing = {} THEN Parsed = 0
    ELSE IF Significant # <<>> /\ ~Reached THEN Parsed = 0
    ELSE Reached =>
           Parsed = Decimal(SubSeq(Significant, 1, Min({MAX_FIGURES, Len(Significant)})))

(* A length of 0 reads as 0 unless the search for a figure, which neither  *)
(* the 0 nor the end of the line stops, comes upon one of the next header  *)
(* or of the body: "Content-Length: 0", "Age: 5" reads as 5                *)
(* (kii_cl_parser.c:46-52).                                                *)
ZeroReadsOnlyNearby ==
  input.length = -1 /\ Sizing # {} /\ Significant = <<>> =>
    \/ Parsed = Announced
    \/ LET text == Rendered(input.headers, input.body)
           named == {i \in DOMAIN text : EndOfLine(text, i - 2) /\ check(text, i)}
       IN \E i \in named, k \in 0..MAX_SEARCH_NUM :
            At(text, i + cl_length + k).figure > 0

(* A remaining length is decoded to the number that was encoded and to the *)
(* bytes it took, whatever follows it, and one of more than four bytes is  *)
(* refused (kii_mqtt.c:8-43).                                              *)
RemainingLengthRight ==
  input.length # -1 =>
    LET bytes == kiiMQTT_encode(input.length)
        rest == <<[digit |-> 1, more |-> TRUE], [digit |-> 1, more |-> FALSE]>>
        decoded == kiiMQTT_decode(bytes \o rest)
    IN IF input.length < Limit[MAX_BYTES]
       THEN decoded = [len |-> Len(bytes), value |-> input.length]
       ELSE decoded.len = -1
=============================================================================
