-------------------------- MODULE KiiRequestProofs --------------------------
(***************************************************************************)
(* Proofs about the request builder, for every size of the buffer, of the  *)
(* headers, bodies and identifiers, and any number of operations.          *)
(***************************************************************************)
EXTENDS KiiRequest, FiniteSetTheorems, FunctionTheorems, TLAPS

-----------------------------------------------------------------------------
(* The inductive invariant.  An operation begins with the request line and *)
(* has no other, and a header comes next; if the line or a header failed,  *)
(* only an encoding is left to be written; a count of body bytes is one of *)
(* bytes in the buffer.  Where a line has overrun it, what comes next is   *)
(* a header, which does not fit, or the line of another operation.         *)

HeaderCall == [do : {"header"}, kind : HeaderKinds, size : Nat, n : Nat]
ExtraCall == [do : {"extra"}, key : Seq(STRING)]
BodyCall == [do : {"body"}, kind : BodyKinds, size : Nat, n : Nat]
PlainCall == [do : {"encoding", "token", "stop", "crash", "ready", "started"}]
Rest == HeaderCall \cup ExtraCall \cup BodyCall \cup PlainCall
Calls == Rest \cup {Line}

HeaderFollows(calls) == Len(calls) > 1 /\ calls[2].do = "header"

Form(calls) ==
  /\ calls \in Seq(Calls) /\ calls # <<>> /\ calls[1] = Line /\ HeaderFollows(calls)
  /\ \A i \in 2..Len(calls) : calls[i] \in Rest

TodoOK ==
  /\ todo \in Seq(Calls) /\ keyBuffer \in Seq(STRING)
  /\ \A i \in 2..Len(todo) : todo[i] \in Rest
  /\ result = "failing" => todo \in {<<Encoding, Stop>>, <<Stop>>}
  /\ todo # <<>> /\ todo[1] = Line => HeaderFollows(todo)

NothingAfter ==
  total >= BufferSize /\ todo # <<>> /\ result = "pending" =>
    Call.do \in {"line", "header"}

PhaseOK ==
  /\ todo # <<>> => /\ result \in {"pending", "failing"}
                    /\ state = "IDLE" /\ building = FALSE
  /\ building => state = "IDLE" /\ contentLength <= total

OverrunOK == OnlyLineOverruns /\ NothingAfter

IInv == TypeOK /\ TodoOK /\ PhaseOK /\ OverrunOK /\ InOrder

-----------------------------------------------------------------------------
(* The constants.                                                          *)

LEMMA ConstantTypes ==
  /\ BufferSize \in Nat /\ BufferSize > 0
  /\ HeaderSize \in [HeaderKinds -> Nat]
  /\ \A l \in Lines : l.tested \in Nat /\ l.size \in Nat
  /\ \A n \in BodySizes \cup ArgSizes : n \in Nat
  /\ \A key \in Keys : key \in Seq(STRING)
  /\ MaxExtras \in Nat
BY RequestAssumption

(* Positions are numbers, and those inside of the buffer are among them.   *)
LEMMA PositionTypes ==
  /\ 0..BufferSize - 1 \subseteq Totals /\ Totals \subseteq Nat
  /\ \A l \in Lines : l.tested < BufferSize => l.size \in Totals
  /\ TypeOK => total \in Nat /\ body \in Nat /\ body <= total
<1>1. 0..BufferSize - 1 \subseteq Totals
  BY DEF Totals, Addresses
<1>4. ASSUME NEW l \in Lines, l.tested < BufferSize PROVE l.size \in Totals
  <2>1. l.tested < l.size \/ l.size \in 0..BufferSize - 1
    BY <1>4, ConstantTypes
  <2> QED
    BY <2>1 DEF Totals, Addresses
<1>2. Totals \subseteq Nat
  BY ConstantTypes DEF Totals, Addresses
<1>3. TypeOK => total \in Nat /\ body \in Nat /\ body <= total
  BY <1>2 DEF TypeOK
<1> QED
  BY <1>1, <1>4, <1>2, <1>3

(* Nothing has overrun a buffer that holds all that was written.           *)
LEMMA InsideKeeps ==
  ASSUME total' \in 0..BufferSize - 1
  PROVE  OverrunOK'
<1>1. ~(total' >= BufferSize)
  BY ConstantTypes
<1> QED
  BY <1>1 DEF OverrunOK, OnlyLineOverruns, NothingAfter

(* Nul and the bytes of a line are bytes.                                  *)
LEMMA ByteTypes ==
  /\ \A kind \in Kinds, n \in Nat : Of(kind, n) \in Byte
  /\ \A kind, n : Of(kind, n).kind = kind
  /\ Nul \in Byte /\ AllNul \in [Addresses -> Byte]
  /\ LineKinds \subseteq Kinds /\ BodyKinds \subseteq Kinds
  /\ "response" \in Kinds /\ "line" \in LineKinds
  /\ HeaderKinds \subseteq LineKinds
BY DEF Of, Byte, Kinds, LineKinds, BodyKinds, Nul, AllNul

-----------------------------------------------------------------------------
(* The lists of calls of the operations have the form the invariant wants. *)

LEMMA CallTypes ==
  /\ \A kind \in HeaderKinds, n \in Nat : Header(kind, n) \in Rest
  /\ \A key \in Seq(STRING) : Extra(key) \in Rest
  /\ \A kind \in BodyKinds, size, n \in Nat : Piece(kind, size, n) \in Rest
  /\ EmptyLine \in Rest /\ Encoding \in Rest /\ Token \in Rest
  /\ Stop \in Rest /\ Crash \in Rest /\ Ready \in Rest /\ Started \in Rest
<1>1. \A kind \in HeaderKinds, n \in Nat : Header(kind, n) \in HeaderCall
  BY ConstantTypes DEF Header, HeaderCall
<1>2. \A key \in Seq(STRING) : Extra(key) \in ExtraCall
  BY DEF Extra, ExtraCall
<1>3. \A kind \in BodyKinds, size, n \in Nat : Piece(kind, size, n) \in BodyCall
  BY DEF Piece, BodyCall
<1>4. EmptyLine \in BodyCall
  BY <1>3 DEF EmptyLine, BodyKinds
<1>5. {Encoding, Token, Stop, Crash, Ready, Started} \subseteq PlainCall
  BY DEF Encoding, Token, Stop, Crash, Ready, Started, PlainCall
<1> QED
  BY <1>1, <1>2, <1>3, <1>4, <1>5 DEF Rest

(* A list keeps its form when calls other than the line's are added.       *)
LEMMA FormExtends ==
  ASSUME NEW s, Form(s), NEW t \in Seq(Rest)
  PROVE  Form(s \o t)
<1>1. s \in Seq(Calls) /\ t \in Seq(Calls)
  BY DEF Form, Calls
<1>2. s \o t \in Seq(Calls) /\ Len(s \o t) = Len(s) + Len(t)
  BY <1>1
<1>3. Len(s) \in Nat /\ Len(s) > 1
  BY DEF Form, HeaderFollows
<1>4. (s \o t)[1] = Line /\ s \o t # <<>> /\ HeaderFollows(s \o t)
  <2>1. (s \o t)[1] = s[1] /\ (s \o t)[2] = s[2]
    BY <1>1, <1>3
  <2>2. Len(s \o t) > 1
    BY <1>1, <1>2, <1>3
  <2> QED
    BY <2>1, <2>2 DEF Form, HeaderFollows
<1>5. ASSUME NEW i \in 2..Len(s \o t)
      PROVE  (s \o t)[i] \in Rest
  <2>1. CASE i <= Len(s)
    BY <1>1, <1>3, <2>1 DEF Form
  <2>2. CASE i > Len(s)
    <3>1. (s \o t)[i] = t[i - Len(s)] /\ i - Len(s) \in 1..Len(t)
      BY <1>1, <1>2, <1>3, <2>2
    <3> QED
      BY <3>1
  <2> QED
    BY <1>3, <2>1, <2>2
<1> QED
  BY <1>2, <1>4, <1>5 DEF Form

LEMMA RestConcat ==
  ASSUME NEW s \in Seq(Rest), NEW t \in Seq(Rest)
  PROVE  s \o t \in Seq(Rest)
OBVIOUS

LEMMA Concatenation ==
  ASSUME NEW S, NEW s \in Seq(S), NEW t \in Seq(S)
  PROVE  /\ s \o t \in Seq(S) /\ Len(s \o t) = Len(s) + Len(t)
         /\ \A i \in 1..Len(s) + Len(t) :
              (s \o t)[i] = IF i <= Len(s) THEN s[i] ELSE t[i - Len(s)]
         /\ \A i \in 1..Len(s) : s[i] \in S
OBVIOUS

(* A list with one more in front.                                          *)
LEMMA Prefixed ==
  ASSUME NEW S, NEW e \in S, NEW s \in Seq(S), s # <<>>
  PROVE  /\ <<e>> \o s \in Seq(S) /\ Len(<<e>> \o s) = Len(s) + 1
         /\ (<<e>> \o s)[1] = e /\ (<<e>> \o s)[2] = s[1]
         /\ \A i \in 2..Len(s) + 1 : \E j \in 1..Len(s) : (<<e>> \o s)[i] = s[j]
<1>1. <<e>> \in Seq(S) /\ Len(<<e>>) = 1 /\ <<e>>[1] = e
  OBVIOUS
<1> DEFINE one == <<e>>
<1> HIDE DEF one
<1>2. one \in Seq(S) /\ Len(one) = 1 /\ one[1] = e
  BY <1>1 DEF one
<1>3. /\ one \o s \in Seq(S) /\ Len(one \o s) = 1 + Len(s)
      /\ \A i \in 1..1 + Len(s) : (one \o s)[i] = IF i <= 1 THEN one[i] ELSE s[i - 1]
  <2>1. /\ one \o s \in Seq(S) /\ Len(one \o s) = Len(one) + Len(s)
        /\ \A i \in 1..Len(one) + Len(s) :
             (one \o s)[i] = IF i <= Len(one) THEN one[i] ELSE s[i - Len(one)]
    BY <1>2, Concatenation, Zenon
  <2> QED
    BY <1>2, <2>1, Zenon
<1>4. Len(s) \in Nat /\ Len(s) > 0
  OBVIOUS
<1>5. (one \o s)[1] = e /\ (one \o s)[2] = s[1]
  BY <1>2, <1>3, <1>4
<1>6. ASSUME NEW i \in 2..Len(s) + 1
      PROVE  \E j \in 1..Len(s) : (one \o s)[i] = s[j]
  <2>1. i - 1 \in 1..Len(s) /\ (one \o s)[i] = s[i - 1]
    BY <1>3, <1>4
  <2> QED
    BY <2>1
<1>7. Len(one \o s) = Len(s) + 1
  BY <1>3, <1>4
<1> QED
  BY <1>3, <1>5, <1>6, <1>7 DEF one

(* prv_http_request_line_and_headers.                                      *)
LEMMA LineForm ==
  ASSUME NEW kinds, NEW auth \in Seq(Rest)
  PROVE  Form(LineAndHeaders(kinds, auth))
<1> DEFINE type == If("type" \in kinds, <<Header("type", 0)>>)
           token == If("auth" \in kinds, auth)
           etag == If("etag" \in kinds, <<Header("etag", 0)>>)
<1>1. \A kind \in {"host", "appid", "appkey", "sdk", "type", "etag"} :
        Header(kind, 0) \in Rest
  BY CallTypes DEF HeaderKinds, DefaultKinds, OptionalKinds
<1>2. /\ DefaultHeaders \in Seq(Rest) /\ type \in Seq(Rest)
      /\ token \in Seq(Rest) /\ etag \in Seq(Rest)
  BY <1>1 DEF DefaultHeaders, If
<1>3. /\ DefaultHeaders \in Seq(Rest) /\ Len(DefaultHeaders) = 4
      /\ DefaultHeaders[1] = Header("host", 0)
  BY <1>2 DEF DefaultHeaders
<1>4. Form(<<Line>> \o DefaultHeaders)
  <2> DEFINE s == DefaultHeaders
             calls == <<Line>> \o s
  <2> HIDE DEF s, calls
  <2>1. s \in Seq(Rest) /\ s # <<>> /\ Len(s) \in Nat /\ Len(s) > 0
        /\ \A i \in 1..Len(s) : s[i] \in Rest
    <3>1. s \in Seq(Rest) /\ Len(s) = 4
      BY <1>3 DEF s
    <3>2. Len(s) \in Nat /\ Len(s) > 0
      BY <3>1
    <3>3. \A i \in 1..Len(s) : s[i] \in Rest
      BY <3>1, Concatenation, Zenon
    <3>4. s # <<>>
      BY <3>1
    <3> QED
      BY <3>1, <3>2, <3>3, <3>4
  <2>2. s \in Seq(Calls) /\ Line \in Calls
    BY <2>1 DEF Calls
  <2>3. /\ calls \in Seq(Calls) /\ Len(calls) = Len(s) + 1
        /\ calls[1] = Line /\ calls[2] = s[1]
        /\ \A i \in 2..Len(s) + 1 : \E j \in 1..Len(s) : calls[i] = s[j]
    BY <2>1, <2>2, Prefixed DEF calls
  <2>4. \A i \in 2..Len(calls) : calls[i] \in Rest
    BY <2>1, <2>3
  <2>5. s[1].do = "header"
    BY <1>3 DEF s, Header
  <2>6. calls # <<>> /\ Len(calls) > 1
    BY <2>1, <2>3
  <2>7. Form(calls)
    BY <2>3, <2>4, <2>5, <2>6 DEF Form, HeaderFollows
  <2> QED
    BY <2>7 DEF s, calls
<1>5. Form(<<Line>> \o DefaultHeaders \o type)
  BY <1>2, <1>4, FormExtends
<1>6. Form(<<Line>> \o DefaultHeaders \o type \o token)
  BY <1>2, <1>5, FormExtends
<1>7. Form(<<Line>> \o DefaultHeaders \o type \o token \o etag)
  BY <1>2, <1>6, FormExtends
<1> QED
  BY <1>7 DEF LineAndHeaders

LEMMA AuthTypes == Checked \in Seq(Rest) /\ Unchecked \in Seq(Rest)
BY SMTT(30), CallTypes DEF Checked, Unchecked, HeaderKinds, OptionalKinds

(* The bytes before a piece are a finite set.                              *)
LEMMA BeforeFinite ==
  ASSUME NEW pieces \in Seq(Nat), NEW i \in 1..Len(pieces) + 1
  PROVE  IsFiniteSet(UNION {{j} \X (1..pieces[j]) : j \in 1..i - 1})
<1> DEFINE Bytes(j) == {j} \X (1..pieces[j])
           Sets == {Bytes(j) : j \in 1..i - 1}
<1>0. \A n \in Nat : IsFiniteSet(1..n)
  BY FS_Interval
<1>1. IsFiniteSet(Sets)
  <2>1. IsFiniteSet(1..i - 1)
    BY FS_Interval
  <2>2. [j \in 1..i - 1 |-> Bytes(j)] \in Surjection(1..i - 1, Sets)
    BY Fun_IsSurj DEF Surjection
  <2> QED
    BY <2>1, <2>2, FS_Surjection
<1>2. \A s \in Sets : IsFiniteSet(s)
  <2> SUFFICES ASSUME NEW j \in 1..i - 1
               PROVE  IsFiniteSet(Bytes(j))
    OBVIOUS
  <2>1. pieces[j] \in Nat
    OBVIOUS
  <2>2. IsFiniteSet({j})
    BY FS_Singleton, Zenon
  <2>3. IsFiniteSet(1..pieces[j])
    BY <1>0, <2>1, Zenon
  <2> QED
    BY <2>2, <2>3, FS_Product
<1> QED
  BY <1>1, <1>2, FS_UNION

LEMMA BeforeType ==
  ASSUME NEW pieces \in Seq(Nat), NEW i \in 1..Len(pieces) + 1
  PROVE  Before(pieces, i) \in Nat
BY BeforeFinite, FS_CardinalityType DEF Before

LEMMA BodyForm ==
  ASSUME NEW pieces \in Seq(Nat)
  PROVE  WithBody(pieces) \in Seq(Rest) /\ Whole(pieces) \in Nat
<1>1. Whole(pieces) \in Nat
  BY BeforeType DEF Whole
<1>2. <<Header("length", Whole(pieces)), EmptyLine>> \in Seq(Rest)
  <2>1. "length" \in HeaderKinds
    BY DEF HeaderKinds
  <2>2. Header("length", Whole(pieces)) \in Rest /\ EmptyLine \in Rest
    BY <1>1, <2>1, CallTypes
  <2> QED
    BY <2>2
<1>3. [i \in DOMAIN pieces |-> Piece("body", pieces[i], Before(pieces, i) + 1)]
        \in Seq(Rest)
  <2>1. ASSUME NEW i \in DOMAIN pieces
        PROVE  Piece("body", pieces[i], Before(pieces, i) + 1) \in Rest
    <3>1. Before(pieces, i) \in Nat /\ pieces[i] \in Nat
      BY BeforeType
    <3> QED
      BY <3>1, CallTypes DEF BodyKinds
  <2> QED
    BY <2>1
<1> QED
  BY <1>1, <1>2, <1>3, RestConcat DEF WithBody

LEMMA BodyCallsForm ==
  ASSUME NEW size \in BodySizes \cup {NoBody}
  PROVE  BodyCalls(size) \in Seq(Rest)
<1>1. CASE size = NoBody
  BY <1>1, CallTypes DEF BodyCalls, Bodiless
<1>2. CASE size # NoBody
  <2>1. <<size>> \in Seq(Nat)
    BY <1>2, ConstantTypes
  <2> QED
    BY <1>2, <2>1, BodyForm DEF BodyCalls
<1> QED
  BY <1>1, <1>2

-----------------------------------------------------------------------------
(* Operations.  Nothing is being written until the line is.                *)

LEMMA BeginKeeps ==
  ASSUME IInv, NEW calls, NEW headers, NEW size, NEW keys, Form(calls),
         Begin(calls, headers, size, keys)
  PROVE  IInv' /\ ~Begun'
<1>1. TypeOK'
  BY DEF IInv, TypeOK, Begin, text
<1>2. TodoOK'
  BY DEF TodoOK, Begin, Form
<1>3. PhaseOK'
  BY DEF PhaseOK, Begin, Idle
<1>5. OverrunOK'
  <2>1. Call' = Line /\ Line.do = "line"
    BY DEF Call, Begin, Form, Line
  <2>2. /\ UNCHANGED <<state, total, body>> /\ building' = FALSE /\ result' = "pending"
    BY DEF Begin, text
  <2> QED
    BY <2>1, <2>2 DEF IInv, OverrunOK, OnlyLineOverruns, NothingAfter
<1>4. ~Writing' /\ ~Begun'
  <2>1. 1 \in DOMAIN todo' /\ todo'[1].do = "line"
    <3>1. Len(calls) \in Nat /\ Len(calls) > 0
      BY DEF Form
    <3> QED
      BY <3>1 DEF Begin, Form, Line
  <2> QED
    BY <2>1 DEF Writing, Begun, Begin, Idle
<1> QED
  BY <1>1, <1>2, <1>3, <1>4, <1>5 DEF IInv, InOrder

LEMMA HttpRequestKeeps ==
  ASSUME IInv, NEW always, NEW optional, NEW size \in BodySizes \cup {NoBody},
         HttpRequest(always, optional, size)
  PROVE  IInv' /\ ~Begun'
<1>1. BodyCalls(size) \in Seq(Rest)
  BY BodyCallsForm
<1>2. PICK given \in SUBSET optional :
        LET kinds == always \cup given
        IN Begin(LineAndHeaders(kinds, Checked)
                   \o If("encoding" \in kinds, <<Encoding>>)
                   \o BodyCalls(size) \o <<Ready>>,
                 kinds, size, <<>>)
  BY DEF HttpRequest
<1> DEFINE kinds == always \cup given
           encoding == If("encoding" \in kinds, <<Encoding>>)
<1>3. Form(LineAndHeaders(kinds, Checked))
  BY AuthTypes, LineForm
<1>4. encoding \in Seq(Rest) /\ <<Ready>> \in Seq(Rest)
  BY CallTypes DEF If
<1>5. Form(LineAndHeaders(kinds, Checked) \o encoding)
  BY <1>3, <1>4, FormExtends
<1>6. Form(LineAndHeaders(kinds, Checked) \o encoding \o BodyCalls(size))
  BY <1>1, <1>5, FormExtends
<1>7. Form(LineAndHeaders(kinds, Checked) \o encoding \o BodyCalls(size) \o <<Ready>>)
  BY <1>4, <1>6, FormExtends
<1> QED
  BY <1>2, <1>7, BeginKeeps

LEMMA InPiecesKeeps ==
  ASSUME IInv, NEW optional, NEW pieces \in Seq(Nat), InPieces(optional, pieces)
  PROVE  IInv' /\ ~Begun'
<1>1. PICK given \in SUBSET optional :
        LET kinds == {"type"} \cup given
        IN Begin(LineAndHeaders(kinds, Checked) \o WithBody(pieces) \o <<Ready>>,
                 kinds, Whole(pieces), <<>>)
  BY DEF InPieces
<1> DEFINE kinds == {"type"} \cup given
<1>2. Form(LineAndHeaders(kinds, Checked) \o WithBody(pieces))
  BY AuthTypes, LineForm, BodyForm, FormExtends
<1>3. <<Ready>> \in Seq(Rest)
  BY CallTypes
<1>4. Form(LineAndHeaders(kinds, Checked) \o WithBody(pieces) \o <<Ready>>)
  BY <1>2, <1>3, FormExtends
<1> QED
  BY <1>1, <1>4, BeginKeeps

LEMMA ApiCallKeeps ==
  ASSUME IInv, ApiCall
  PROVE  IInv' /\ ~Begun'
<1>1. PICK kinds \in SUBSET {"type", "auth"}, size \in BodySizes \cup {NoBody},
           keys \in UNION {[1..k -> Keys] : k \in 0..MaxExtras},
           malformed \in BOOLEAN :
             Begin(LineAndHeaders(kinds, Unchecked) \o Extras(keys, malformed)
                     \o BodyCalls(size) \o <<Ready>>, kinds, size, keys)
  BY DEF ApiCall
<1>2. Extras(keys, malformed) \in Seq(Rest)
  <2>1. PICK k \in 0..MaxExtras : keys \in [1..k -> Keys]
    BY <1>1
  <2>2. k \in Nat
    BY <2>1, ConstantTypes
  <2>3. ASSUME NEW i \in 1..k PROVE Extra(keys[i]) \in Rest
    BY <2>1, ConstantTypes, CallTypes
  <2>4. [i \in DOMAIN keys |-> Extra(keys[i])] \in Seq(Rest)
    BY <2>1, <2>2, <2>3
  <2>5. <<Stop>> \in Seq(Rest)
    BY CallTypes
  <2> QED
    BY <2>4, <2>5 DEF Extras
<1>3. BodyCalls(size) \in Seq(Rest)
  BY BodyCallsForm
<1>4. <<Ready>> \in Seq(Rest)
  BY CallTypes
<1>5. Form(LineAndHeaders(kinds, Unchecked) \o Extras(keys, malformed))
  BY <1>2, AuthTypes, LineForm, FormExtends
<1>6. Form(LineAndHeaders(kinds, Unchecked) \o Extras(keys, malformed)
             \o BodyCalls(size))
  BY <1>3, <1>5, FormExtends
<1>7. Form(LineAndHeaders(kinds, Unchecked) \o Extras(keys, malformed)
             \o BodyCalls(size) \o <<Ready>>)
  BY <1>4, <1>6, FormExtends
<1> QED
  BY <1>1, <1>7, BeginKeeps

LEMMA OperationKeeps ==
  ASSUME IInv, Operation
  PROVE  IInv' /\ ~Begun'
<1>1. \A n \in BodySizes : n \in BodySizes \cup {NoBody}
  OBVIOUS
<1>2. CASE RegisterThing
  BY <1>1, <1>2, HttpRequestKeeps DEF RegisterThing
<1>3. CASE UploadThingState
  BY <1>1, <1>3, HttpRequestKeeps DEF UploadThingState
<1>4. CASE CreateObject
  BY <1>4, HttpRequestKeeps DEF CreateObject
<1>5. CASE ChangeObject
  BY <1>5, HttpRequestKeeps DEF ChangeObject
<1>6. CASE GetOrDeleteObject \/ BucketSubscription \/ TopicOrSubscription
           \/ GetMqttEndpoint
  BY <1>6, HttpRequestKeeps
     DEF GetOrDeleteObject, BucketSubscription, TopicOrSubscription, GetMqttEndpoint
<1>7. CASE RegisterThingWithId
  <2>1. PICK id, password, type \in ArgSizes :
          InPieces({}, <<1, id, 1, password, 1, type, 1>>)
    BY <1>7 DEF RegisterThingWithId
  <2>2. <<1, id, 1, password, 1, type, 1>> \in Seq(Nat)
    BY <2>1, ConstantTypes
  <2> QED
    BY <2>1, <2>2, InPiecesKeeps
<1>8. CASE ThingAuthentication
  <2>1. PICK id, password \in ArgSizes : InPieces({}, <<1, id, 1, password, 1>>)
    BY <1>8 DEF ThingAuthentication
  <2>2. <<1, id, 1, password, 1>> \in Seq(Nat)
    BY <2>1, ConstantTypes
  <2> QED
    BY <2>1, <2>2, InPiecesKeeps
<1>9. CASE InstallThingPush
  <2>1. PICK flag \in ArgSizes : InPieces({"auth"}, <<1, flag, 1>>)
    BY <1>9 DEF InstallThingPush
  <2>2. <<1, flag, 1>> \in Seq(Nat)
    BY <2>1, ConstantTypes
  <2> QED
    BY <2>1, <2>2, InPiecesKeeps
<1>10. CASE RegisterThingWithoutType
  <2>1. <<Crash>> \in Seq(Rest)
    BY CallTypes
  <2>2. Form(LineAndHeaders({"type"}, Checked) \o <<Crash>>)
    BY <2>1, AuthTypes, LineForm, FormExtends
  <2> QED
    BY <1>10, <2>2, BeginKeeps DEF RegisterThingWithoutType
<1>11. CASE ApiCallStart
  <2>1. PICK kinds \in SUBSET {"type", "auth"} :
          Begin(LineAndHeaders(kinds, Checked) \o <<EmptyLine, Started>>,
                kinds, NoBody, <<>>)
    BY <1>11 DEF ApiCallStart
  <2>2. <<EmptyLine, Started>> \in Seq(Rest)
    BY CallTypes
  <2>3. Form(LineAndHeaders(kinds, Checked) \o <<EmptyLine, Started>>)
    BY <2>2, AuthTypes, LineForm, FormExtends
  <2> QED
    BY <2>1, <2>3, BeginKeeps
<1> QED
  BY <1>2, <1>3, <1>4, <1>5, <1>6, <1>7, <1>8, <1>9, <1>10, <1>11, ApiCallKeeps
     DEF Operation
-----------------------------------------------------------------------------
(* Writing into the buffer.                                                *)

(* A header is inserted in front of the body, which keeps its order.       *)
LEMMA InsertKeeps ==
  ASSUME TypeOK, NEW size \in Nat, Fits(size),
         NEW byte \in Byte, byte.kind \in LineKinds, Insert(size, byte)
  PROVE  /\ total' = total + size /\ total' \in 0..BufferSize - 1
         /\ body' \in 0..total' /\ buffer' \in [Addresses -> Byte]
         /\ Ordered => Ordered'
         /\ total' \in Totals /\ OverrunOK'
<1> USE DEF TypeOK, Addresses
<1>1. /\ BufferSize \in Nat /\ total \in Nat /\ body \in Nat /\ body <= total
      /\ total + size < BufferSize
  BY ConstantTypes, PositionTypes DEF Fits
<1>2. total' = total + size /\ body' = body + size
  BY DEF Insert
<1>3. buffer' \in [Addresses -> Byte]
  <2>1. ASSUME NEW i \in Addresses
        PROVE  /\ buffer[i] \in Byte
               /\ ~(i < body + size) /\ i < total + size => buffer[i - size] \in Byte
    BY <1>1
  <2> QED
    BY <2>1, ByteTypes DEF Insert
<1>4. ASSUME Ordered PROVE Ordered'
  <2> SUFFICES ASSUME NEW i \in Addresses
               PROVE  /\ i < body' => buffer'[i].kind \in LineKinds
                      /\ i \in body'..total' - 1 => buffer'[i].kind \in BodyKinds
                      /\ i >= total' => buffer'[i] = Nul
    BY DEF Ordered
  <2>1. buffer'[i] = IF i < body THEN buffer[i]
                     ELSE IF i < body + size THEN byte
                     ELSE IF i < total + size THEN buffer[i - size]
                     ELSE IF i = total + size THEN Nul ELSE buffer[i]
    BY DEF Insert
  <2>2. CASE i < body + size
    BY <1>1, <1>2, <1>4, <2>1, <2>2 DEF Ordered
  <2>3. CASE ~(i < body + size) /\ i < total + size
    <3>1. i - size \in Addresses /\ i - size \in body..total - 1
      BY <1>1, <2>3
    <3>2. buffer[i - size].kind \in BodyKinds
      BY <1>4, <3>1 DEF Ordered
    <3> QED
      BY <1>1, <1>2, <2>1, <2>3, <3>2
  <2>4. CASE i >= total + size
    BY <1>1, <1>2, <1>4, <2>1, <2>4 DEF Ordered
  <2> QED
    BY <1>1, <2>2, <2>3, <2>4
<1>5. total' \in 0..BufferSize - 1
  BY <1>1, <1>2
<1> QED
  BY <1>1, <1>2, <1>3, <1>4, <1>5, PositionTypes, InsideKeeps

(* A piece of the body is appended.                                        *)
LEMMA AppendKeeps ==
  ASSUME TypeOK, NEW size \in Nat, Fits(size),
         NEW kind \in BodyKinds, NEW n \in Nat,
         buffer' = Extended(size, kind, n), total' = total + size, body' = body
  PROVE  /\ total' \in 0..BufferSize - 1
         /\ body' \in 0..total' /\ buffer' \in [Addresses -> Byte]
         /\ Ordered => Ordered'
         /\ total' \in Totals /\ OverrunOK'
<1> USE DEF TypeOK, Addresses
<1>1. /\ BufferSize \in Nat /\ total \in Nat /\ body \in Nat /\ body <= total
      /\ total + size < BufferSize
  BY ConstantTypes, PositionTypes DEF Fits
<1>2. ASSUME NEW i \in Addresses
      PROVE  buffer'[i] = IF i \in total..total + size - 1
                          THEN Of(kind, n + i - total) ELSE buffer[i]
  BY DEF Extended
<1>3. buffer' \in [Addresses -> Byte]
  <2>1. ASSUME NEW i \in total..total + size - 1
        PROVE  Of(kind, n + i - total) \in Byte
    <3>1. n + i - total \in Nat /\ kind \in Kinds
      BY <1>1, ByteTypes
    <3> QED
      BY <3>1, ByteTypes
  <2> QED
    BY <2>1 DEF Extended
<1>4. ASSUME Ordered PROVE Ordered'
  <2> SUFFICES ASSUME NEW i \in Addresses
               PROVE  /\ i < body' => buffer'[i].kind \in LineKinds
                      /\ i \in body'..total' - 1 => buffer'[i].kind \in BodyKinds
                      /\ i >= total' => buffer'[i] = Nul
    BY DEF Ordered
  <2>1. CASE i \in total..total + size - 1
    BY <1>1, <1>2, <2>1, ByteTypes
  <2>2. CASE i \notin total..total + size - 1
    BY <1>1, <1>2, <1>4, <2>2 DEF Ordered
  <2> QED
    BY <2>1, <2>2
<1>5. total' \in 0..BufferSize - 1
  BY <1>1
<1> QED
  BY <1>1, <1>3, <1>4, <1>5, PositionTypes, InsideKeeps
-----------------------------------------------------------------------------
(* The calls of an operation, one after the other.                         *)

(* What a call in progress says of the context.                            *)
LEMMA NowFacts ==
  ASSUME IInv, NEW do, Now(do)
  PROVE  /\ todo # <<>> /\ todo \in Seq(Calls) /\ Call \in Calls /\ Call.do = do
         /\ state = "IDLE" /\ building = FALSE
         /\ do \notin {"encoding", "stop"} => result = "pending"
<1>1. todo # <<>> /\ todo \in Seq(Calls) /\ Call \in Calls /\ Call.do = do
  BY DEF IInv, TodoOK, Now, Call
<1>2. result = "failing" => do \in {"encoding", "stop"}
  BY <1>1 DEF IInv, TodoOK, Call, Encoding, Stop
<1> QED
  BY <1>1, <1>2 DEF IInv, PhaseOK

(* The arguments of a call.                                                *)
LEMMA ArgumentTypes ==
  ASSUME NEW call \in Calls
  PROVE  /\ call.do = "header" => /\ call.kind \in HeaderKinds
                                  /\ call.size \in Nat /\ call.n \in Nat
         /\ call.do = "extra" => call.key \in Seq(STRING)
         /\ call.do = "body" => /\ call.kind \in BodyKinds
                                /\ call.size \in Nat /\ call.n \in Nat
         /\ call # Line <=> call.do # "line"
BY DEF Calls, Rest, HeaderCall, ExtraCall, BodyCall, PlainCall, Line

(* No line comes after the first call.                                     *)
LEMMA BegunAfter ==
  ASSUME IInv, todo # <<>>
  PROVE  /\ Tail(todo) \in Seq(Calls)
         /\ \A i \in DOMAIN Tail(todo) :
              Tail(todo)[i] \in Rest /\ Tail(todo)[i].do # "line"
         /\ Call.do # "line" => Begun
<1>1. todo \in Seq(Calls) /\ \A i \in 2..Len(todo) : todo[i] \in Rest
  BY DEF IInv, TodoOK
<1>2. \A call \in Rest : call.do # "line"
  BY DEF Rest, HeaderCall, ExtraCall, BodyCall, PlainCall
<1>3. Tail(todo) \in Seq(Calls) /\ Len(Tail(todo)) = Len(todo) - 1
  BY <1>1
<1>4. ASSUME NEW i \in DOMAIN Tail(todo)
      PROVE  Tail(todo)[i] \in Rest /\ Tail(todo)[i].do # "line"
  <2>1. i \in 1..Len(todo) - 1
    BY <1>1, <1>3
  <2>2. Tail(todo)[i] = todo[i + 1] /\ i + 1 \in 2..Len(todo)
    BY <1>1, <2>1
  <2> QED
    BY <1>1, <1>2, <2>2
<1>5. ASSUME Call.do # "line", NEW i \in DOMAIN todo
      PROVE  todo[i].do # "line"
  <2>1. CASE i = 1
    BY <1>1, <1>5, <2>1 DEF Call
  <2>2. CASE i # 1
    <3>1. i \in 2..Len(todo)
      BY <1>1, <2>2
    <3> QED
      BY <1>1, <1>2, <3>1
  <2> QED
    BY <2>1, <2>2
<1> QED
  BY <1>3, <1>4, <1>5 DEF Begun

(* A call that succeeded leaves the rest of the operation.                 *)
LEMMA DoneKeeps ==
  ASSUME IInv, NEW do, Now(do), do # "stop", Done,
         state' = state, keyBuffer' \in Seq(STRING)
  PROVE  /\ TodoOK' /\ PhaseOK' /\ Call.do = do
         /\ Writing' /\ do # "line" => Writing
         /\ UNCHANGED <<total, body>> /\ do \notin {"line", "header"} => OverrunOK'
<1>1. todo' = Tail(todo) /\ result' = result /\ building' = building
  BY DEF Done
<1>2. todo' \in Seq(Calls) /\ \A i \in 2..Len(todo') : todo'[i] \in Rest
  <2>1. Tail(todo) \in Seq(Calls) /\ \A i \in DOMAIN Tail(todo) : Tail(todo)[i] \in Rest
    BY NowFacts, BegunAfter
  <2>2. \A i \in 2..Len(Tail(todo)) : i \in DOMAIN Tail(todo)
    BY <2>1
  <2> QED
    BY <1>1, <2>1, <2>2
<1>3. result' = "failing" => todo' = <<Stop>>
  <2> SUFFICES ASSUME result = "failing" PROVE Tail(todo) = <<Stop>>
    BY <1>1
  <2>1. todo = <<Encoding, Stop>> \/ todo = <<Stop>>
    BY DEF IInv, TodoOK
  <2>2. Call.do # "stop"
    BY NowFacts
  <2>3. <<Stop>>[1].do = "stop"
    BY DEF Stop
  <2>4. todo # <<Stop>>
    BY <2>2, <2>3 DEF Call
  <2>5. Tail(<<Encoding, Stop>>) = <<Stop>>
    OBVIOUS
  <2> QED
    BY <2>1, <2>4, <2>5
<1>4. TodoOK'
  <2>1. todo' # <<>> => todo'[1] # Line
    <3>1. \A call \in Rest : call # Line
      BY DEF Rest, HeaderCall, ExtraCall, BodyCall, PlainCall, Line
    <3>2. \A i \in DOMAIN todo' : todo'[i] \in Rest
      BY <1>1, NowFacts, BegunAfter
    <3>3. todo' # <<>> => 1 \in DOMAIN todo'
      BY <1>2
    <3> QED
      BY <3>1, <3>2, <3>3
  <2> QED
    BY <1>2, <1>3, <2>1 DEF TodoOK
<1>5. PhaseOK'
  BY <1>1, NowFacts DEF IInv, PhaseOK
<1>6. Call.do = do /\ (do # "line" => Begun)
  BY NowFacts, BegunAfter
<1>7. ASSUME UNCHANGED <<total, body>>, do \notin {"line", "header"}
      PROVE  OverrunOK'
  <2>1. total >= BufferSize => result # "pending"
    BY <1>6, <1>7, NowFacts DEF IInv, OverrunOK, NothingAfter
  <2> QED
    BY <1>1, <1>7, <2>1 DEF IInv, OverrunOK, OnlyLineOverruns, NothingAfter
<1> QED
  BY <1>1, <1>4, <1>5, <1>6, <1>7, NowFacts DEF Writing

(* A call that failed leaves nothing, or an encoding and the failure.      *)
LEMMA FailsKeeps ==
  ASSUME IInv, NEW do, Now(do), Fails, state' = state, keyBuffer' \in Seq(STRING)
  PROVE  /\ TodoOK' /\ PhaseOK' /\ ~Writing'
         /\ UNCHANGED <<total, body>> => OverrunOK'
<1>1. /\ building' = building
      /\ \/ todo' = <<Encoding, Stop>> /\ result' = "failing"
         \/ todo' = <<>> /\ result' = "failed"
  BY DEF Fails
<1>2. Encoding \in Rest /\ Stop \in Rest
  BY CallTypes
<1>3. /\ <<Encoding, Stop>> \in Seq(Calls) /\ <<>> \in Seq(Calls)
      /\ \A i \in 2..Len(<<Encoding, Stop>>) : <<Encoding, Stop>>[i] \in Rest
      /\ \A i \in 2..Len(<<>>) : <<>>[i] \in Rest
  BY <1>2 DEF Calls
<1>4. state = "IDLE" /\ building = FALSE
  BY NowFacts
<1>5. TodoOK'
  <2>1. todo' # <<>> => todo'[1] # Line
    BY <1>1 DEF Encoding, Line
  <2> QED
    BY <1>1, <1>3, <2>1 DEF TodoOK
<1>6. UNCHANGED <<total, body>> => OverrunOK'
  BY <1>1, <1>4 DEF IInv, OverrunOK, OnlyLineOverruns, NothingAfter
<1> QED
  BY <1>1, <1>4, <1>5, <1>6 DEF PhaseOK, Writing

(* An operation that ends without a call.                                  *)
LEMMA EndKeeps ==
  ASSUME IInv, todo' = <<>>, result' # "failing", keyBuffer' = keyBuffer
  PROVE  TodoOK'
<1>1. <<>> \in Seq(Calls) /\ \A i \in 2..Len(<<>>) : <<>>[i] \in Rest
  OBVIOUS
<1> QED
  BY <1>1 DEF IInv, TodoOK

(* The end of an operation is no line that has overrun the buffer.         *)
LEMMA EndFits ==
  ASSUME IInv, todo' = <<>>, UNCHANGED <<total, body>>
  PROVE  state' = "IDLE" /\ building' = FALSE /\ result' # "ok" => OverrunOK'
BY DEF IInv, OverrunOK, OnlyLineOverruns, NothingAfter

(* Any other call finds the buffer as it was when it fitted.               *)
LEMMA NowFits ==
  ASSUME IInv, NEW do, Now(do), do \notin {"line", "header", "encoding", "stop"}
  PROVE  total \in 0..BufferSize - 1
<1>1. result = "pending" /\ Call.do = do /\ todo # <<>>
  BY NowFacts
<1>2. ~(total >= BufferSize)
  BY <1>1 DEF IInv, OverrunOK, NothingAfter
<1>3. total \in Nat
  BY PositionTypes DEF IInv
<1> QED
  BY <1>2, <1>3, ConstantTypes

LEMMA ResultTypes ==
  ASSUME IInv
  PROVE  /\ Done => result' \in {"none", "pending", "failing", "ok", "failed"} \cup Crashed
                    /\ building' \in BOOLEAN
         /\ Fails => result' \in {"none", "pending", "failing", "ok", "failed"} \cup Crashed
                     /\ building' \in BOOLEAN
         /\ keyBuffer \in Seq(STRING)
BY DEF IInv, TypeOK, TodoOK, Done, Fails

LEMMA SetRequestLineKeeps ==
  ASSUME IInv, SetRequestLine
  PROVE  IInv'
<1>1. /\ Now("line") /\ state' = state /\ contentLength' = contentLength
      /\ keyBuffer' = keyBuffer /\ keyBuffer' \in Seq(STRING)
  BY ResultTypes DEF SetRequestLine, Same
<1>2. PICK l \in Lines :
        \/ /\ l.tested < BufferSize
           /\ buffer' = [i \in Addresses |-> IF i < l.size THEN Of("line", 0) ELSE Nul]
           /\ total' = l.size /\ body' = l.size
           /\ Done
        \/ /\ buffer' = AllNul /\ UNCHANGED <<total, body>>
           /\ Fails
  BY DEF SetRequestLine
<1>3. CASE Done /\ total' = l.size /\ body' = l.size /\ l.tested < BufferSize
           /\ buffer' = [i \in Addresses |-> IF i < l.size THEN Of("line", 0) ELSE Nul]
  <2>1. l.size \in Totals /\ l.size \in Nat
    BY <1>3, ConstantTypes, PositionTypes
  <2>2. buffer' \in [Addresses -> Byte]
    <3>1. Of("line", 0) \in Byte /\ Nul \in Byte
      BY ByteTypes
    <3> QED
      BY <1>3, <3>1
  <2>3. TypeOK'
    BY <1>1, <1>3, <2>1, <2>2, ResultTypes DEF IInv, TypeOK
  <2>4. Ordered'
    <3> SUFFICES ASSUME NEW i \in Addresses
                 PROVE  /\ i < l.size => buffer'[i].kind \in LineKinds
                        /\ i \notin l.size..l.size - 1
                        /\ i >= l.size => buffer'[i] = Nul
      BY <1>3 DEF Ordered
    <3>1. i \notin l.size..l.size - 1
      BY <2>1
    <3>2. i < l.size => buffer'[i].kind \in LineKinds
      BY <1>3, ByteTypes
    <3>3. i >= l.size => buffer'[i] = Nul
      BY <1>3, <2>1 DEF Addresses
    <3> QED
      BY <3>1, <3>2, <3>3
  <2>5. Call'.do = "header"
    <3>1. todo[1] = Line /\ todo # <<>> /\ todo \in Seq(Calls)
      <4>1. todo # <<>> /\ todo \in Seq(Calls) /\ Call \in Calls /\ Call.do = "line"
        BY <1>1, NowFacts
      <4>2. Call = Line
        BY <4>1, ArgumentTypes
      <4> QED
        BY <4>1, <4>2 DEF Call
    <3>2. Len(todo) > 1 /\ todo[2].do = "header"
      BY <3>1 DEF IInv, TodoOK, HeaderFollows
    <3>3. Head(Tail(todo)) = todo[2]
      BY <3>1, <3>2
    <3> QED
      BY <1>3, <3>2, <3>3 DEF Done, Call
  <2>6. OverrunOK'
    <3>1. /\ state' = "IDLE" /\ building' = FALSE /\ result' = "pending"
          /\ body' = total' /\ total' = l.size
      <4>1. "line" \notin {"encoding", "stop"}
        OBVIOUS
      <4>2. state = "IDLE" /\ building = FALSE /\ result = "pending"
        BY <1>1, <4>1, NowFacts, Zenon
      <4> QED
        BY <1>1, <1>3, <4>2 DEF Done
    <3>2. OnlyLineOverruns'
      BY <1>3, <3>1 DEF OnlyLineOverruns
    <3> QED
      BY <2>5, <3>2 DEF OverrunOK, NothingAfter
  <2> QED
    BY <1>1, <1>3, <2>3, <2>4, <2>6, DoneKeeps DEF IInv, InOrder
<1>4. CASE Fails /\ buffer' = AllNul /\ UNCHANGED <<total, body>>
  <2>1. TypeOK'
    BY <1>1, <1>4, ByteTypes, ResultTypes DEF IInv, TypeOK
  <2> QED
    BY <1>1, <1>4, <2>1, FailsKeeps DEF IInv, InOrder
<1> QED
  BY <1>2, <1>3, <1>4

(* A call that changes nothing in the buffer, and fails or does not.       *)
LEMMA UnchangedKeeps ==
  ASSUME IInv, NEW do, Now(do), Done \/ Fails, UNCHANGED text,
         state' = state, contentLength' = contentLength,
         keyBuffer' \in Seq(STRING), do \notin {"line", "header", "stop"} \/ Fails
  PROVE  IInv'
<1>1. TypeOK'
  BY ResultTypes DEF IInv, TypeOK, text
<1>2. CASE Done /\ do \notin {"line", "header", "stop"}
  BY <1>1, <1>2, DoneKeeps DEF IInv, InOrder, Ordered, text
<1>3. CASE Fails
  BY <1>1, <1>3, FailsKeeps DEF IInv, InOrder, text
<1> QED
  BY <1>2, <1>3

(* A header inserted by a call that succeeds.                              *)
LEMMA InsertDoneKeeps ==
  ASSUME IInv, NEW do, Now(do), do \notin {"line", "stop"}, Done,
         NEW size \in Nat, Fits(size), NEW kind \in HeaderKinds, NEW n \in Nat,
         Insert(size, Of(kind, n)),
         state' = state, contentLength' = contentLength, keyBuffer' \in Seq(STRING)
  PROVE  IInv'
<1>1. Of(kind, n) \in Byte /\ Of(kind, n).kind \in LineKinds
  <2>1. kind \in LineKinds /\ kind \in Kinds
    BY ByteTypes
  <2> QED
    BY <2>1, ByteTypes
<1>2. /\ total' \in Totals /\ body' \in 0..total' /\ OverrunOK'
      /\ buffer' \in [Addresses -> Byte] /\ (Ordered => Ordered')
  BY <1>1, InsertKeeps DEF IInv
<1>3. TypeOK'
  BY <1>2, ResultTypes DEF IInv, TypeOK
<1> QED
  BY <1>2, <1>3, DoneKeeps DEF IInv, InOrder

LEMMA StepKeeps ==
  ASSUME IInv, Step
  PROVE  IInv'
<1>1. CASE SetHeader
  <2>1. /\ Now("header") /\ state' = state /\ contentLength' = contentLength
        /\ keyBuffer' \in Seq(STRING)
    BY <1>1, ResultTypes DEF SetHeader, Same
  <2>2. Call.kind \in HeaderKinds /\ Call.size \in Nat /\ Call.n \in Nat
    BY <2>1, NowFacts, ArgumentTypes
  <2>3. CASE Fits(Call.size) /\ Insert(Call.size, Of(Call.kind, Call.n)) /\ Done
    BY <2>1, <2>2, <2>3, InsertDoneKeeps
  <2>4. CASE Fails /\ UNCHANGED text
    BY <2>1, <2>4, UnchangedKeeps
  <2> QED
    BY <1>1, <2>3, <2>4 DEF SetHeader
<1>2. CASE SetExtraHeader
  <2>1. Now("extra") /\ state' = state /\ contentLength' = contentLength
    BY <1>2 DEF SetExtraHeader
  <2>2. Call.key \in Seq(STRING) /\ keyBuffer \in Seq(STRING)
    BY <2>1, NowFacts, ArgumentTypes, ResultTypes
  <2>3. keyBuffer' \in Seq(STRING)
    <3>1. keyBuffer' = Call.key \o SubSeq(keyBuffer, Len(Call.key) + 1, Len(keyBuffer))
      BY <1>2 DEF SetExtraHeader, Over
    <3>2. SubSeq(keyBuffer, Len(Call.key) + 1, Len(keyBuffer)) \in Seq(STRING)
      BY <2>2
    <3> QED
      BY <2>2, <3>1, <3>2
  <2>4. ExtraSize(keyBuffer') \in Nat /\ "extra" \in HeaderKinds
    BY <2>3, ConstantTypes DEF ExtraSize, HeaderKinds
  <2>5. CASE /\ Fits(ExtraSize(keyBuffer'))
             /\ Insert(ExtraSize(keyBuffer'), Of("extra", 0)) /\ Done
    BY <2>1, <2>3, <2>4, <2>5, InsertDoneKeeps
  <2>6. CASE Fails /\ UNCHANGED text
    BY <2>1, <2>3, <2>6, UnchangedKeeps
  <2> QED
    BY <1>2, <2>5, <2>6 DEF SetExtraHeader
<1>3. CASE SetEncoding
  <2>1. /\ Now("encoding") /\ state' = state /\ contentLength' = contentLength
        /\ keyBuffer' = keyBuffer /\ keyBuffer' \in Seq(STRING)
    BY <1>3, ResultTypes DEF SetEncoding, Same
  <2>2. "encoding" \in HeaderKinds /\ HeaderSize["encoding"] \in Nat
    BY ConstantTypes DEF HeaderKinds, OptionalKinds
  <2>3. CASE /\ Fits(HeaderSize["encoding"]) /\ Done
             /\ Insert(HeaderSize["encoding"], Of("encoding", 0))
    BY <2>1, <2>2, <2>3, InsertDoneKeeps
  <2>4. CASE todo' = <<>> /\ result' = "memmove(NULL)" /\ UNCHANGED <<text, building>>
    <3>1. TypeOK'
      BY <2>1, <2>4 DEF IInv, TypeOK, text, Crashed
    <3>2. state = "IDLE" /\ building = FALSE
      BY <2>1, NowFacts
    <3> QED
      BY <2>1, <2>4, <3>1, <3>2, EndKeeps, EndFits
         DEF IInv, PhaseOK, InOrder, Writing, text
  <2>5. CASE Done /\ UNCHANGED text
    BY <2>1, <2>5, UnchangedKeeps
  <2> QED
    BY <1>3, <2>3, <2>4, <2>5 DEF SetEncoding
<1>4. CASE AppendBody
  <2>1. /\ Now("body") /\ state' = state /\ contentLength' = contentLength
        /\ keyBuffer' \in Seq(STRING)
    BY <1>4, ResultTypes DEF AppendBody, Same
  <2>2. Call.kind \in BodyKinds /\ Call.size \in Nat /\ Call.n \in Nat
    BY <2>1, NowFacts, ArgumentTypes
  <2>3. CASE /\ Fits(Call.size) /\ buffer' = Extended(Call.size, Call.kind, Call.n)
             /\ total' = total + Call.size /\ UNCHANGED body /\ Done
    <3>1. /\ total' \in Totals /\ body' \in 0..total' /\ OverrunOK'
          /\ buffer' \in [Addresses -> Byte] /\ (Ordered => Ordered')
      BY <2>2, <2>3, AppendKeeps DEF IInv
    <3>2. TypeOK'
      BY <2>1, <2>3, <3>1, ResultTypes DEF IInv, TypeOK
    <3> QED
      BY <2>1, <2>3, <3>1, <3>2, DoneKeeps DEF IInv, InOrder
  <2>4. CASE Fails /\ UNCHANGED text
    BY <2>1, <2>4, UnchangedKeeps
  <2> QED
    BY <1>4, <2>3, <2>4 DEF AppendBody
<1>5. CASE TokenFits
  BY <1>5, UnchangedKeeps, ResultTypes DEF TokenFits, Same
<1>6. CASE GiveUp
  <2>1. PICK do \in {"token", "stop"} : Now(do)
    BY <1>6 DEF GiveUp
  <2> QED
    BY <1>6, <2>1, UnchangedKeeps, ResultTypes DEF GiveUp, Same
<1>7. CASE Dereference
  <2>1. Now("crash")
    BY <1>7 DEF Dereference
  <2>2. TypeOK'
    BY <1>7 DEF Dereference, Same, IInv, TypeOK, text, Crashed
  <2>3. state = "IDLE" /\ building = FALSE
    BY <2>1, NowFacts
  <2>4. TodoOK'
    BY <1>7, EndKeeps DEF Dereference, Same
  <2>5. OverrunOK'
    BY <1>7, <2>3, EndFits DEF Dereference, Same, text
  <2> QED
    BY <1>7, <2>2, <2>3, <2>4, <2>5
       DEF Dereference, Same, IInv, PhaseOK, InOrder, Writing
<1>8. CASE Finish
  <2>1. Now("ready") /\ Writing
    <3>1. Now("ready")
      BY <1>8 DEF Finish
    <3>2. todo # <<>> /\ Call.do = "ready" /\ result = "pending"
      <4>1. "ready" \notin {"encoding", "stop"}
        OBVIOUS
      <4> QED
        BY <3>1, <4>1, NowFacts, Zenon
    <3>3. Begun
      BY <3>2, BegunAfter
    <3> QED
      BY <3>1, <3>2, <3>3 DEF Writing
  <2>2. TypeOK'
    BY <1>8 DEF Finish, IInv, TypeOK, text
  <2>3. building = FALSE
    BY <2>1, NowFacts
  <2>4. TodoOK'
    BY <1>8, EndKeeps DEF Finish
  <2>5. OverrunOK'
    <3>1. "ready" \notin {"line", "header", "encoding", "stop"}
      OBVIOUS
    <3>2. total' \in 0..BufferSize - 1
      BY <1>8, <2>1, <3>1, NowFits DEF Finish, text
    <3> QED
      BY <3>2, InsideKeeps
  <2> QED
    BY <1>8, <2>1, <2>2, <2>3, <2>4, <2>5
       DEF Finish, IInv, PhaseOK, InOrder, Ordered, text
<1>9. CASE FinishStart
  <2>1. Now("started") /\ Writing
    <3>1. Now("started")
      BY <1>9 DEF FinishStart
    <3>2. todo # <<>> /\ Call.do = "started" /\ result = "pending"
      <4>1. "started" \notin {"encoding", "stop"}
        OBVIOUS
      <4> QED
        BY <3>1, <4>1, NowFacts, Zenon
    <3>3. Begun
      BY <3>2, BegunAfter
    <3> QED
      BY <3>1, <3>2, <3>3 DEF Writing
  <2>2. TypeOK'
    BY <1>9, ConstantTypes DEF FinishStart, IInv, TypeOK, text
  <2>3. state = "IDLE"
    BY <2>1, NowFacts
  <2>4. TodoOK'
    BY <1>9, EndKeeps DEF FinishStart
  <2>5. PhaseOK'
    BY <1>9, <2>3, PositionTypes DEF FinishStart, PhaseOK, IInv, text
  <2>6. OverrunOK'
    <3>1. "started" \notin {"line", "header", "encoding", "stop"}
      OBVIOUS
    <3>2. total' \in 0..BufferSize - 1
      BY <1>9, <2>1, <3>1, NowFits DEF FinishStart, text
    <3> QED
      BY <3>2, InsideKeeps
  <2> QED
    BY <1>9, <2>1, <2>2, <2>4, <2>5, <2>6
       DEF FinishStart, IInv, InOrder, Ordered, text
<1> QED
  BY <1>1, <1>2, <1>3, <1>4, <1>5, <1>6, <1>7, <1>8, <1>9, SetRequestLineKeeps
     DEF Step
-----------------------------------------------------------------------------
(* Between kii_core_api_call_start and _end, and kii_core_run.             *)

LEMMA BuildingFacts ==
  ASSUME IInv, Building
  PROVE  /\ building = TRUE /\ todo = <<>> /\ state = "IDLE"
         /\ contentLength <= total /\ Writing
         /\ total \in 0..BufferSize - 1
         /\ total' = total => OverrunOK'
<1>1. /\ building = TRUE /\ todo = <<>> /\ state = "IDLE"
      /\ contentLength <= total /\ Writing
  BY DEF IInv, Building, Idle, PhaseOK, TypeOK, Writing
<1>2. ~(total >= BufferSize)
  BY <1>1 DEF IInv, OverrunOK, OnlyLineOverruns
<1>3. total \in 0..BufferSize - 1
  BY <1>2, ConstantTypes, PositionTypes DEF IInv
<1> QED
  BY <1>1, <1>3, InsideKeeps

LEMMA BetweenKeeps ==
  ASSUME IInv, Between
  PROVE  IInv'
<1>1. CASE ApiCallAppendBody
  <2>1. /\ Building /\ todo' = todo /\ keyBuffer' = keyBuffer /\ building' = building
        /\ state' = state /\ body' = body
    BY <1>1 DEF ApiCallAppendBody
  <2>2. PICK size \in BodySizes :
          \/ /\ Fits(size)
             /\ buffer' = Extended(size, "body", contentLength + 1)
             /\ total' = total + size /\ Counted(size) /\ result' = "ok"
          \/ result' = "failed" /\ UNCHANGED <<buffer, total, contentLength>>
    BY <1>1 DEF ApiCallAppendBody
  <2>3. TodoOK'
    BY <2>1, <2>2, BuildingFacts, EndKeeps
  <2>4. CASE /\ Fits(size) /\ total' = total + size /\ Counted(size) /\ result' = "ok"
             /\ buffer' = Extended(size, "body", contentLength + 1)
    <3>1. /\ size \in Nat /\ "body" \in BodyKinds /\ contentLength + 1 \in Nat
          /\ contentLength \in Nat /\ total \in Nat
      BY ConstantTypes, PositionTypes DEF BodyKinds, IInv, TypeOK
    <3>2. /\ total' \in 0..BufferSize - 1 /\ body' \in 0..total'
          /\ total' \in Totals /\ OverrunOK'
          /\ buffer' \in [Addresses -> Byte] /\ (Ordered => Ordered')
      BY <2>1, <2>4, <3>1, AppendKeeps DEF IInv
    <3>3. contentLength' \in Nat /\ contentLength' <= total'
      BY <2>1, <2>4, <3>1, BuildingFacts DEF Counted
    <3>4. contentLength' \in 0..BufferSize - 1
      BY <3>2, <3>3, ConstantTypes
    <3>5. TypeOK'
      BY <2>1, <2>4, <3>2, <3>4 DEF IInv, TypeOK
    <3> QED
      BY <2>1, <2>3, <2>4, <3>2, <3>3, <3>5, BuildingFacts DEF IInv, PhaseOK, InOrder
  <2>5. CASE result' = "failed" /\ UNCHANGED <<buffer, total, contentLength>>
    BY <2>1, <2>3, <2>5, BuildingFacts
       DEF IInv, TypeOK, PhaseOK, InOrder, Ordered
  <2> QED
    BY <2>2, <2>4, <2>5
<1>2. CASE ApiCallAppendHeader
  <2>1. /\ Building /\ todo' = todo /\ keyBuffer' = keyBuffer /\ building' = building
        /\ state' = state /\ contentLength' = contentLength
    BY <1>2 DEF ApiCallAppendHeader
  <2>2. PICK key \in Keys :
          \/ /\ Fits(ExtraSize(key)) /\ Insert(ExtraSize(key), Of("extra", 0))
             /\ result' = "ok"
          \/ result' = "failed" /\ UNCHANGED text
    BY <1>2 DEF ApiCallAppendHeader
  <2>3. TodoOK'
    BY <2>1, <2>2, BuildingFacts, EndKeeps
  <2>4. CASE /\ Fits(ExtraSize(key)) /\ Insert(ExtraSize(key), Of("extra", 0))
             /\ result' = "ok"
    <3>1. key \in Seq(STRING) /\ "extra" \in HeaderKinds
      BY ConstantTypes DEF HeaderKinds
    <3>2. ExtraSize(key) \in Nat
      BY <3>1, ConstantTypes DEF ExtraSize
    <3>3. Of("extra", 0) \in Byte /\ Of("extra", 0).kind \in LineKinds
      BY <3>1, ByteTypes
    <3>4. /\ total' \in Totals /\ body' \in 0..total' /\ OverrunOK'
          /\ buffer' \in [Addresses -> Byte] /\ (Ordered => Ordered')
          /\ total' = total + ExtraSize(key)
      BY <2>4, <3>2, <3>3, InsertKeeps DEF IInv
    <3>5. TypeOK'
      BY <2>1, <2>4, <3>4 DEF IInv, TypeOK
    <3>6. contentLength' <= total'
      <4>1. contentLength \in Nat /\ total \in Nat
        BY ConstantTypes, PositionTypes DEF IInv, TypeOK
      <4>2. contentLength <= total
        BY <2>1, BuildingFacts
      <4> QED
        BY <2>1, <3>2, <3>4, <4>1, <4>2
    <3> QED
      BY <2>1, <2>3, <2>4, <3>4, <3>5, <3>6, BuildingFacts DEF IInv, PhaseOK, InOrder
  <2>5. CASE result' = "failed" /\ UNCHANGED text
    BY <2>1, <2>3, <2>5, BuildingFacts
       DEF IInv, TypeOK, PhaseOK, InOrder, Ordered, text
  <2> QED
    BY <2>2, <2>4, <2>5
<1>3. CASE ApiCallEnd
  <2>1. /\ Building /\ todo' = todo /\ keyBuffer' = keyBuffer
        /\ contentLength' = contentLength
    BY <1>3 DEF ApiCallEnd
  <2>2. TodoOK'
    BY <1>3, <2>1, BuildingFacts, EndKeeps DEF ApiCallEnd
  <2>3. CASE /\ contentLength > 0 /\ Fits(HeaderSize["length"])
             /\ Insert(HeaderSize["length"], Of("length", contentLength))
             /\ state' = "READY" /\ building' = FALSE /\ result' = "ok"
    <3>1. "length" \in HeaderKinds /\ contentLength \in Nat
      BY ConstantTypes DEF HeaderKinds, IInv, TypeOK
    <3>2. HeaderSize["length"] \in Nat
      BY <3>1, ConstantTypes
    <3>3. /\ Of("length", contentLength) \in Byte
          /\ Of("length", contentLength).kind \in LineKinds
      <4>1. "length" \in LineKinds /\ "length" \in Kinds
        BY <3>1, ByteTypes
      <4> QED
        BY <3>1, <4>1, ByteTypes
    <3>4. /\ total' \in Totals /\ body' \in 0..total' /\ OverrunOK'
          /\ buffer' \in [Addresses -> Byte] /\ (Ordered => Ordered')
      BY <2>3, <3>2, <3>3, InsertKeeps DEF IInv
    <3>5. TypeOK'
      BY <2>1, <2>3, <3>4 DEF IInv, TypeOK
    <3> QED
      BY <2>1, <2>2, <2>3, <3>4, <3>5, BuildingFacts DEF IInv, PhaseOK, InOrder
  <2>4. CASE /\ UNCHANGED text
             /\ \/ state' = "READY" /\ building' = FALSE /\ result' = "ok"
                \/ UNCHANGED <<state, building>> /\ result' = "failed"
    BY <2>1, <2>2, <2>4, BuildingFacts
       DEF IInv, TypeOK, PhaseOK, InOrder, Ordered, text
  <2>5. CASE contentLength > 0 /\ state' = "READY"
    <3>1. ~(contentLength = 0)
      BY <2>5
    <3> QED
      BY <1>3, <2>3, <2>4, <2>5, <3>1 DEF ApiCallEnd
  <2>6. CASE ~(contentLength > 0) /\ state' = "READY"
    BY <1>3, <2>4, <2>6 DEF ApiCallEnd
  <2>7. CASE ~(state' = "READY")
    BY <1>3, <2>4, <2>7 DEF ApiCallEnd
  <2> QED
    BY <2>5, <2>6, <2>7
<1> QED
  BY <1>1, <1>2, <1>3 DEF Between

LEMMA RunKeeps ==
  ASSUME IInv, Run
  PROVE  IInv'
<1>1. todo = <<>> /\ building = FALSE
  BY DEF IInv, PhaseOK, TypeOK, Run
<1>2. buffer' \in [Addresses -> Byte]
  <2>1. CASE buffer' = buffer
    BY <2>1 DEF IInv, TypeOK
  <2>2. CASE \E n \in ResponseSizes :
               buffer' = [i \in Addresses |-> IF i < n THEN Of("response", 0) ELSE Nul]
    <3>1. Of("response", 0) \in Byte /\ Nul \in Byte
      BY ByteTypes
    <3> QED
      BY <2>2, <3>1
  <2> QED
    BY <2>1, <2>2 DEF Run
<1>3. TypeOK'
  BY <1>2 DEF IInv, TypeOK, Run
<1>4. TodoOK'
  <2>1. <<>> \in Seq(Calls) /\ <<>> \in Seq(STRING)
        /\ \A i \in 2..Len(<<>>) : <<>>[i] \in Rest
    OBVIOUS
  <2> QED
    BY <1>1, <2>1 DEF Run, TodoOK
<1>5. OverrunOK'
  BY <1>1 DEF Run, IInv, OverrunOK, OnlyLineOverruns, NothingAfter
<1> QED
  BY <1>1, <1>3, <1>4, <1>5 DEF Run, IInv, PhaseOK, InOrder, Writing

-----------------------------------------------------------------------------
(* The theorems.                                                           *)

LEMMA InitInvariant == Init => IInv
<1> SUFFICES ASSUME Init PROVE IInv
  OBVIOUS
<1>1. TypeOK
  <2>1. 0 \in 0..BufferSize - 1
    BY ConstantTypes
  <2>2. buffer \in [Addresses -> Byte]
    BY ByteTypes DEF Init
  <2>3. /\ state = "IDLE" /\ total = 0 /\ body = 0 /\ contentLength = 0
        /\ result = "none" /\ building = FALSE
    BY DEF Init, NULL
  <2>4. body \in 0..total
    BY <2>3
  <2>5. total \in Totals /\ contentLength \in 0..BufferSize - 1
    BY <2>1, <2>3, PositionTypes
  <2>6. state \in {"IDLE", "READY"} /\ building \in BOOLEAN
    BY <2>3
  <2>7. result \in {"none", "pending", "failing", "ok", "failed"} \cup Crashed
    BY <2>3
  <2> QED
    BY <2>2, <2>4, <2>5, <2>6, <2>7 DEF TypeOK
<1>2. <<>> \in Seq(Calls) /\ <<>> \in Seq(STRING)
      /\ \A i \in 2..Len(<<>>) : <<>>[i] \in Rest
  OBVIOUS
<1>3. OverrunOK
  BY ConstantTypes DEF Init, OverrunOK, OnlyLineOverruns, NothingAfter
<1> QED
  BY <1>1, <1>2, <1>3 DEF Init, IInv, TodoOK, PhaseOK, InOrder, Writing

LEMMA NextInvariant == IInv /\ [Next]_vars => IInv'
<1> SUFFICES ASSUME IInv, [Next]_vars PROVE IInv'
  OBVIOUS
<1>1. CASE UNCHANGED vars
  BY <1>1 DEF IInv, TypeOK, TodoOK, PhaseOK, InOrder, Ordered, Writing, Begun,
              OverrunOK, OnlyLineOverruns, NothingAfter, Call, vars, text
<1>2. CASE Next
  BY <1>2, OperationKeeps, StepKeeps, BetweenKeeps, RunKeeps DEF Next
<1> QED
  BY <1>1, <1>2

(* The inductive invariant holds for every size of buffer, header and body *)
(* and any number of operations on the context (kii_core.c:356-468).       *)
THEOREM InvariantCorrect == Spec => []IInv
BY InitInvariant, NextInvariant, PTL DEF Spec

(* Whatever operations follow one another, and failing where they may, the *)
(* buffer and the positions keep their type: _body_position is never after *)
(* total_send_size, which is outside of the buffer only at the end of a    *)
(* request line longer than the one that was tested, and no count of body  *)
(* bytes reaches the size of the buffer (kii_core.c:369-387, 410-437,      *)
(* 449-461, 1753).                                                         *)
THEOREM TypeCorrect == Spec => []TypeOK
<1>1. IInv => TypeOK
  BY DEF IInv
<1> QED
  BY <1>1, InvariantCorrect, PTL

(* No header and no piece of a body is ever written past the buffer; the   *)
(* only text that is, is a request line with a host longer than the one    *)
(* tested, and its operation fails with the line as the last it wrote      *)
(* (kii_core.c:369-387, 409-413, 449-453).                                 *)
THEOREM OnlyLineOverrunsCorrect == Spec => []OnlyLineOverruns
<1>1. IInv => OnlyLineOverruns
  BY DEF IInv, OverrunOK
<1> QED
  BY <1>1, InvariantCorrect, PTL

(* Whatever an operation is made of, headers stay in front of the empty    *)
(* line and the body, and a NUL ends them (kii_core.c:410-437, 449-461).   *)
THEOREM InOrderCorrect == Spec => []InOrder
<1>1. IInv => InOrder
  BY DEF IInv
<1> QED
  BY <1>1, InvariantCorrect, PTL
=============================================================================
