----------------------------- MODULE KiiRequest -----------------------------
(***************************************************************************)
(* The request builder of kii-core/kii_core.c: every kii_core_* operation  *)
(* writes a request line, headers and a body into the one buffer of        *)
(* kii_core_t and makes the context READY for kii_core_run.  A header is   *)
(* inserted at _body_position, in front of the empty line and the body     *)
(* that may already be there; a body is appended at total_send_size.       *)
(*                                                                         *)
(* An operation is the list of the calls it makes, in `todo`; each call of *)
(* prv_kii_http_set_request_line, _set_header and _append_body is a step.  *)
(* A byte of the buffer is known by what it belongs to.  Sending the       *)
(* request is KiiHttp's business: Run is what it leaves behind here.       *)
(***************************************************************************)
EXTENDS Integers, Sequences, FiniteSets

CONSTANTS
  BufferSize,     (* http_context.buffer_size                               *)
  Lines,          (* request lines: the size tested, and the size written   *)
  HeaderSize,     (* bytes of a header of each kind, its key apart          *)
  BodySizes,      (* bytes of a body, or of a piece of one                  *)
  ArgSizes,       (* bytes of an identifier or a password put into a body   *)
  Keys,           (* keys of additional headers, letter by letter           *)
  MaxExtras,      (* bound: additional headers of one request               *)
  ResponseSizes   (* bytes of a response, which overwrites the buffer       *)

DefaultKinds == {"host", "appid", "appkey", "sdk"}
OptionalKinds == {"type", "auth", "etag", "encoding"}
HeaderKinds == DefaultKinds \cup OptionalKinds \cup {"length", "extra"}
LineKinds == {"line"} \cup HeaderKinds
BodyKinds == {"crlf", "body"}

(* Both sizes are the same unless a normalizer host replaces the app host, *)
(* which may be shorter or longer: line 369 tests the app host's.          *)
ASSUME RequestAssumption ==
  /\ BufferSize \in Nat \ {0}
  /\ Lines \subseteq [tested : Nat, size : Nat \ {0}]
  /\ HeaderSize \in [HeaderKinds -> Nat \ {0}]
  /\ BodySizes \subseteq Nat /\ ArgSizes \subseteq Nat
  /\ Keys \subseteq Seq(STRING)
  /\ MaxExtras \in Nat
  /\ ResponseSizes \subseteq 0..BufferSize - 1

VARIABLES
  state,          (* kii_core_t._state                                      *)
  buffer,         (* http_context.buffer                                    *)
  total,          (* http_context.total_send_size                           *)
  body,           (* http_context._body_position, as an index               *)
  contentLength,  (* kii_core_t._content_length                             *)
  todo,           (* calls the running operation has still to make          *)
  keyBuffer,      (* char key[128] of kii_core_api_call                     *)
  result,         (* what the last operation returned                       *)
  building,       (* between kii_core_api_call_start and _end               *)
  asked,          (* what the caller wants of the request                   *)
  sentKeys        (* keys of the additional headers that were written       *)

text == <<buffer, total, body>>
vars == <<state, text, contentLength, todo, keyBuffer, result, building, asked, sentKeys>>

Addresses == 0..BufferSize - 1
(* n: which byte of a body or of the empty line, or the length announced.  *)
Of(kind, n) == [kind |-> kind, n |-> n]
Nul == Of("nul", 0)
AllNul == [i \in Addresses |-> Nul]

(* No position is before the end of a request line: 0 stands for NULL.     *)
NULL == 0
NoBody == 0 - 1
Nothing == [headers |-> {}, body |-> NoBody, keys |-> <<>>]

Init ==
  /\ state = "IDLE" /\ buffer = AllNul /\ total = 0 /\ body = NULL
  /\ contentLength = 0 /\ todo = <<>> /\ keyBuffer = <<>>
  /\ result = "none" /\ building = FALSE
  /\ asked = Nothing
  /\ sentKeys = <<>>

-----------------------------------------------------------------------------
(* The calls an operation is made of.                                      *)

Line == [do |-> "line"]
Header(kind, n) == [do |-> "header", kind |-> kind, size |-> HeaderSize[kind], n |-> n]
Extra(key) == [do |-> "extra", key |-> key]
Encoding == [do |-> "encoding"]
Piece(kind, size, n) == [do |-> "body", kind |-> kind, size |-> size, n |-> n]
EmptyLine == Piece("crlf", 2, 1)
Token == [do |-> "token"]    \* does the token fit its buffer?
Stop == [do |-> "stop"]      \* give up
Crash == [do |-> "crash"]    \* dereference NULL
Ready == [do |-> "ready"]    \* _state = KII_STATE_READY
Started == [do |-> "started"]

If(condition, calls) == IF condition THEN calls ELSE <<>>

DefaultHeaders == << Header("host", 0), Header("appid", 0),
                     Header("appkey", 0), Header("sdk", 0) >>

(* prv_http_request_line_and_headers, and the same calls elsewhere.        *)
LineAndHeaders(kinds, auth) ==
  <<Line>> \o DefaultHeaders
    \o If("type" \in kinds, <<Header("type", 0)>>)
    \o If("auth" \in kinds, auth)
    \o If("etag" \in kinds, <<Header("etag", 0)>>)
Checked == <<Token, Header("auth", 0)>>
Unchecked == <<Header("auth", 0)>>

(* The body as one piece or several, given by their sizes: the bytes of a  *)
(* body before its piece i, and the calls.                                 *)
Before(pieces, i) == Cardinality(UNION {{j} \X (1..pieces[j]) : j \in 1..i - 1})
Whole(pieces) == Before(pieces, Len(pieces) + 1)
WithBody(pieces) ==
  <<Header("length", Whole(pieces)), EmptyLine>>
    \o [i \in DOMAIN pieces |-> Piece("body", pieces[i], Before(pieces, i) + 1)]
Bodiless == <<EmptyLine>>

(* Mutant: without a body there is no empty line either.                   *)
BodyCallsUnended(size) == IF size = NoBody THEN <<>> ELSE WithBody(<<size>>)
BodyCalls(size) == IF size = NoBody THEN Bodiless ELSE WithBody(<<size>>)

-----------------------------------------------------------------------------
(* The operations.  They begin when the context is idle.                   *)

(* Where a NULL is dereferenced the program ends.                          *)
Crashed == {"strlen(NULL)", "memmove(NULL)"}
Idle == todo = <<>> /\ state = "IDLE" /\ result \notin Crashed

Begin(calls, headers, size, keys) ==
  /\ Idle
  /\ todo' = calls /\ result' = "pending" /\ building' = FALSE
  /\ asked' = [headers |-> headers, body |-> size, keys |-> keys]
  /\ sentKeys' = <<>> /\ keyBuffer' = <<>>
  /\ UNCHANGED <<state, text, contentLength>>

(* prv_http_request, with the headers every call of the operation has and  *)
(* those that depend on its caller.                                        *)
HttpRequest(always, optional, size) ==
  \E given \in SUBSET optional :
    LET kinds == always \cup given
    IN Begin(LineAndHeaders(kinds, Checked)
               \o If("encoding" \in kinds, <<Encoding>>)
               \o BodyCalls(size) \o <<Ready>>,
             kinds, size, <<>>)

RegisterThing == \E n \in BodySizes : HttpRequest({"type"}, {}, n)
UploadThingState ==
  \E n \in BodySizes : HttpRequest({"type"}, {"auth", "encoding"}, n)
CreateObject ==
  \E n \in BodySizes \cup {NoBody} : HttpRequest({"type"}, {"auth"}, n)
ChangeObject ==
  \E n \in BodySizes \cup {NoBody} : HttpRequest({}, {"auth", "etag"}, n)
GetOrDeleteObject == HttpRequest({}, {"auth"}, NoBody)
BucketSubscription == HttpRequest({}, {"auth"}, NoBody)
TopicOrSubscription == HttpRequest({}, {"auth"}, NoBody)
GetMqttEndpoint == HttpRequest({}, {"auth"}, NoBody)

(* The operations that put their body together piece by piece announce the *)
(* sum of the pieces first.                                                *)
InPieces(optional, pieces) ==
  \E given \in SUBSET optional :
    LET kinds == {"type"} \cup given
    IN Begin(LineAndHeaders(kinds, Checked) \o WithBody(pieces) \o <<Ready>>,
             kinds, Whole(pieces), <<>>)

RegisterThingWithId ==
  \E id, password, type \in ArgSizes :
    InPieces({}, <<1, id, 1, password, 1, type, 1>>)
(* The length of a missing type is asked for all the same.                 *)
RegisterThingWithoutType ==
  Begin(LineAndHeaders({"type"}, Checked) \o <<Crash>>, {"type"}, NoBody, <<>>)
ThingAuthentication ==
  \E id, password \in ArgSizes : InPieces({}, <<1, id, 1, password, 1>>)
InstallThingPush == \E flag \in ArgSizes : InPieces({"auth"}, <<1, flag, 1>>)

(* kii_core_api_call.  A first header without a colon ends the operation,  *)
(* a later one only the list of headers.                                   *)
Extras(keys, malformed) ==
  IF keys = <<>> /\ malformed THEN <<Stop>>
  ELSE [i \in DOMAIN keys |-> Extra(keys[i])]

ApiCall ==
  \E kinds \in SUBSET {"type", "auth"}, size \in BodySizes \cup {NoBody},
     keys \in UNION {[1..k -> Keys] : k \in 0..MaxExtras} :
    \E malformed \in {FALSE, keys = <<>>} :
      Begin(LineAndHeaders(kinds, Unchecked) \o Extras(keys, malformed)
              \o BodyCalls(size) \o <<Ready>>,
            kinds, size, keys)

(* kii_core_api_call_start; an author without a token fails here.          *)
ApiCallStart ==
  \E kinds \in SUBSET {"type", "auth"} :
    Begin(LineAndHeaders(kinds, Checked) \o <<EmptyLine, Started>>,
          kinds, NoBody, <<>>)

-----------------------------------------------------------------------------
(* The calls.                                                              *)

Now(do) == todo # <<>> /\ Head(todo).do = do
Call == Head(todo)
Done == todo' = Tail(todo) /\ UNCHANGED <<result, building, asked>>

(* A call failed, and so does the operation; but prv_http_request writes   *)
(* the encoding before it looks at the result of the line and headers.     *)
Fails ==
  /\ IF \E i \in DOMAIN Tail(todo) : Tail(todo)[i] = Encoding
     THEN todo' = <<Encoding, Stop>> /\ result' = "failing"
     ELSE todo' = <<>> /\ result' = "failed"
  /\ asked' = Nothing
  /\ UNCHANGED building

Same == UNCHANGED <<state, contentLength, sentKeys, keyBuffer>>

(* A line longer than tested may run past the buffer.  What it overwrites  *)
(* behind it is not modelled: the program is taken to survive that, and    *)
(* goes on with positions that are outside of the buffer.                  *)
SetRequestLine ==
  /\ Now("line")
  /\ \E l \in Lines :
       \/ /\ l.tested < BufferSize
          /\ buffer' = [i \in Addresses |-> IF i < l.size THEN Of("line", 0) ELSE Nul]
          /\ total' = l.size /\ body' = l.size
          /\ Done
       \/ /\ l.tested >= BufferSize
          /\ buffer' = AllNul /\ UNCHANGED <<total, body>>
          /\ Fails
  /\ Same

(* Mutant: no room is left for the NUL.                                    *)
FitsExactly(size) == total + size <= BufferSize
Fits(size) == total + size < BufferSize

(* Mutant: what follows the headers stays where it is.                     *)
InsertUnmoved(size, byte) ==
  /\ buffer' = [i \in Addresses |->
       IF i \in body..body + size - 1 THEN byte
       ELSE IF i = total + size THEN Nul ELSE buffer[i]]
  /\ total' = total + size /\ body' = body + size

(* What follows the headers is moved to make room for one more.            *)
Insert(size, byte) ==
  /\ buffer' = [i \in Addresses |->
       IF i < body THEN buffer[i]
       ELSE IF i < body + size THEN byte
       ELSE IF i < total + size THEN buffer[i - size]
       ELSE IF i = total + size THEN Nul ELSE buffer[i]]
  /\ total' = total + size /\ body' = body + size

(* Mutant: a header that does not fit is passed over.                      *)
SetHeaderUnchecked ==
  /\ Now("header")
  /\ \/ Fits(Call.size) /\ Insert(Call.size, Of(Call.kind, Call.n)) /\ Done
     \/ ~Fits(Call.size) /\ Done /\ UNCHANGED text
  /\ Same

SetHeader ==
  /\ Now("header")
  /\ \/ Fits(Call.size) /\ Insert(Call.size, Of(Call.kind, Call.n)) /\ Done
     \/ ~Fits(Call.size) /\ Fails /\ UNCHANGED text
  /\ Same

ExtraSize(key) == Len(key) + HeaderSize["extra"]

(* A key is copied over the one before it: the buffer is not cleared, nor  *)
(* is the copy terminated.                                                 *)
Over(new, old) == new \o SubSeq(old, Len(new) + 1, Len(old))

SetExtraHeader ==
  /\ Now("extra")
  /\ keyBuffer' = Over(Call.key, keyBuffer)
  /\ LET size == ExtraSize(keyBuffer') IN
     \/ /\ Fits(size) /\ Insert(size, Of("extra", 0)) /\ Done
        /\ sentKeys' = Append(sentKeys, keyBuffer')
     \/ ~Fits(size) /\ Fails /\ UNCHANGED <<text, sentKeys>>
  /\ UNCHANGED <<state, contentLength>>

(* Its result is dropped.  Without a request line so far there is nowhere  *)
(* to insert it: _body_position is NULL.                                   *)
SetEncoding ==
  /\ Now("encoding")
  /\ LET size == HeaderSize["encoding"] IN
     \/ Fits(size) /\ body # NULL /\ Insert(size, Of("encoding", 0)) /\ Done
     \/ /\ Fits(size) /\ body = NULL
        /\ todo' = <<>> /\ result' = "memmove(NULL)" /\ UNCHANGED <<text, building, asked>>
     \/ ~Fits(size) /\ Done /\ UNCHANGED text
  /\ Same

(* The bytes appended are those from number n of the caller's.             *)
Extended(size, kind, n) ==
  [i \in Addresses |->
     IF i \in total..total + size - 1 THEN Of(kind, n + i - total) ELSE buffer[i]]

AppendBody ==
  /\ Now("body")
  /\ \/ /\ Fits(Call.size)
        /\ buffer' = Extended(Call.size, Call.kind, Call.n)
        /\ total' = total + Call.size /\ UNCHANGED body
        /\ Done
     \/ ~Fits(Call.size) /\ Fails /\ UNCHANGED text
  /\ Same

(* A token longer than bearer_buff, or for kii_core_api_call_start none,   *)
(* ends the operation, and so does what cannot be parsed.                  *)
TokenFits == Now("token") /\ Done /\ UNCHANGED text /\ Same
GiveUp == (Now("token") \/ Now("stop")) /\ Fails /\ UNCHANGED text /\ Same

Dereference ==
  /\ Now("crash")
  /\ todo' = <<>> /\ result' = "strlen(NULL)"
  /\ UNCHANGED <<text, building, asked>> /\ Same

Finish ==
  /\ Now("ready")
  /\ todo' = <<>> /\ result' = "ok" /\ state' = "READY"
  /\ UNCHANGED <<text, contentLength, building, asked, sentKeys, keyBuffer>>

(* Mutant: the count of the request before goes on.                        *)
FinishStartKeepingCount ==
  /\ Now("started")
  /\ todo' = <<>> /\ result' = "ok" /\ building' = TRUE
  /\ UNCHANGED <<state, text, contentLength, asked, sentKeys, keyBuffer>>

FinishStart ==
  /\ Now("started")
  /\ todo' = <<>> /\ result' = "ok" /\ building' = TRUE
  /\ contentLength' = 0
  /\ UNCHANGED <<state, text, asked, sentKeys, keyBuffer>>

-----------------------------------------------------------------------------
(* Between kii_core_api_call_start and kii_core_api_call_end: whatever a   *)
(* call returns, the caller may go on.                                     *)

Building == Idle /\ building

Counted(size) == contentLength' = contentLength + size

ApiCallAppendBody ==
  /\ Building
  /\ \E size \in BodySizes :
       \/ /\ Fits(size)
          /\ buffer' = Extended(size, "body", contentLength + 1)
          /\ total' = total + size /\ Counted(size)
          /\ asked' = [asked EXCEPT !.body = IF @ = NoBody THEN size ELSE @ + size]
          /\ result' = "ok"
       \/ result' = "failed" /\ UNCHANGED <<buffer, total, contentLength, asked>>
  /\ UNCHANGED <<state, body, todo, building, sentKeys, keyBuffer>>

ApiCallAppendHeader ==
  /\ Building
  /\ \E key \in Keys :
       \/ /\ Fits(ExtraSize(key)) /\ Insert(ExtraSize(key), Of("extra", 0))
          /\ Len(sentKeys) < MaxExtras
          /\ sentKeys' = Append(sentKeys, key)
          /\ asked' = [asked EXCEPT !.keys = Append(@, key)]
          /\ result' = "ok"
       \/ /\ ~Fits(ExtraSize(key))
          /\ result' = "failed" /\ UNCHANGED <<text, sentKeys, asked>>
  /\ UNCHANGED <<state, contentLength, todo, building, keyBuffer>>

(* The state is idle: no other operation has begun since.                  *)
ApiCallEnd ==
  /\ Building
  /\ \/ /\ contentLength = 0 \/ Fits(HeaderSize["length"])
        /\ IF contentLength > 0
           THEN Insert(HeaderSize["length"], Of("length", contentLength))
           ELSE UNCHANGED text
        /\ state' = "READY" /\ building' = FALSE /\ result' = "ok"
     \/ /\ contentLength > 0 /\ ~Fits(HeaderSize["length"])
        /\ result' = "failed" /\ UNCHANGED <<text, state, building>>
  /\ UNCHANGED <<contentLength, todo, asked, sentKeys, keyBuffer>>

-----------------------------------------------------------------------------
(* What kii_core_run leaves behind: no connection was made, or the buffer  *)
(* was cleared for a response.  The positions stay where they are.         *)

Run ==
  /\ state = "READY" /\ state' = "IDLE" /\ result' = "none"
  /\ \/ UNCHANGED buffer
     \/ \E n \in ResponseSizes :
          buffer' = [i \in Addresses |-> IF i < n THEN Of("response", 0) ELSE Nul]
  /\ asked' = Nothing /\ sentKeys' = <<>> /\ keyBuffer' = <<>>
  /\ UNCHANGED <<total, body, contentLength, todo, building>>

-----------------------------------------------------------------------------
Operation ==
  \/ RegisterThing \/ RegisterThingWithId \/ RegisterThingWithoutType
  \/ UploadThingState \/ ThingAuthentication
  \/ CreateObject \/ ChangeObject \/ GetOrDeleteObject
  \/ BucketSubscription \/ TopicOrSubscription
  \/ InstallThingPush \/ GetMqttEndpoint \/ ApiCall \/ ApiCallStart
Step ==
  \/ SetRequestLine \/ SetHeader \/ SetExtraHeader \/ SetEncoding \/ AppendBody
  \/ TokenFits \/ GiveUp \/ Dereference \/ Finish \/ FinishStart
Between == ApiCallAppendBody \/ ApiCallAppendHeader \/ ApiCallEnd

Next == Operation \/ Step \/ Between \/ Run

Spec == Init /\ [][Next]_vars

-----------------------------------------------------------------------------
(* Type invariant.  total_send_size is in the buffer, or at the end of a   *)
(* request line longer than the one tested (kii_core.c:369-387).           *)
Kinds == LineKinds \cup BodyKinds \cup {"nul", "response"}
Byte == [kind : Kinds, n : Nat]
Totals == Addresses \cup {l.size : l \in {m \in Lines : m.tested < m.size}}

TypeOK ==
  /\ state \in {"IDLE", "READY"}
  /\ buffer \in [Addresses -> Byte]
  /\ total \in Totals
  /\ body \in 0..total
  /\ contentLength \in 0..BufferSize - 1
  /\ result \in {"none", "pending", "failing", "ok", "failed"} \cup Crashed
  /\ building \in BOOLEAN

(* A request line longer than the one that was tested is all that is ever  *)
(* written past the buffer: nothing is inserted or appended behind it, and *)
(* its operation fails, so that no such request is sent or added to        *)
(* (kii_core.c:369-387, 409-413, 449-453).                                 *)
OnlyLineOverruns ==
  total >= BufferSize =>
    /\ \E l \in Lines : l.size = total /\ l.tested < BufferSize
    /\ body = total
    /\ state = "IDLE" /\ ~building /\ result # "ok"

(* "buffer size too short. can't insert request line." (kii_core.c:371): a *)
(* request line that does not fit is refused, and none leaves the buffer.  *)
WithinBuffer == total < BufferSize

Begun == \A i \in DOMAIN todo : todo[i].do # "line"
Writing == building \/ state = "READY" \/ (result = "pending" /\ Begun)
Ordered ==
  \A i \in Addresses :
    /\ i < body => buffer[i].kind \in LineKinds
    /\ i \in body..total - 1 => buffer[i].kind \in BodyKinds
    /\ i >= total => buffer[i] = Nul

(* The request in the buffer is in order however far its operation is: the *)
(* line and the headers, then the empty line and the body, then NULs; no   *)
(* header has landed in a body, nor a body in front of a header            *)
(* (kii_core.c:410-437, 449-461).                                          *)
InOrder == Writing => Ordered

(* A context is READY only with a whole request, ended by a NUL: exactly   *)
(* one empty line where the headers end, and the caller's body after it,   *)
(* every byte once and in order, whatever headers were inserted before it  *)
(* later and whatever an earlier or abandoned request left in the buffer.  *)
WholeRequest ==
  state = "READY" =>
    /\ 0 < body /\ body + 2 <= total /\ total < BufferSize
    /\ buffer[total] = Nul
    /\ \A i \in 0..body - 1 : buffer[i].kind \in LineKinds
    /\ buffer[body] = Of("crlf", 1) /\ buffer[body + 1] = Of("crlf", 2)
    /\ \A i \in body + 2..total - 1 : buffer[i] = Of("body", i - body - 1)

(* The Content-Length of a request that is READY is that of its body, and  *)
(* is there exactly once; only an empty body may go without.  The body is  *)
(* what the caller was told was appended (kii_core.c:892-904, 1753, 1811). *)
LengthMatchesBody ==
  state = "READY" =>
    LET announced == {i \in 0..body - 1 : buffer[i].kind = "length"}
        sent == total - body - 2
    IN /\ sent = IF asked.body = NoBody THEN 0 ELSE asked.body
       /\ \A i \in announced : buffer[i].n = sent
       /\ \A i, j \in announced : i - j < HeaderSize["length"]
       /\ announced = {} => sent = 0

(* The additional headers are as many as the caller gave, in his order.    *)
(* Each key begins as he gave it: what may follow is the end of a longer   *)
(* one before it (kii_core.c:1629).                                        *)
KeysInTurn ==
  /\ Len(sentKeys) = Len(asked.keys)
  /\ \A i \in DOMAIN asked.keys :
       /\ Len(asked.keys[i]) <= Len(sentKeys[i])
       /\ SubSeq(sentKeys[i], 1, Len(asked.keys[i])) = asked.keys[i]

(* A request that is READY has the SDK's own headers and those its caller  *)
(* asked for, and no others: no header whose call failed is passed over,   *)
(* none is left over from a request before.                                *)
HeadersAsAsked ==
  state = "READY" =>
    LET kinds == {buffer[i].kind : i \in 0..body - 1} IN
    /\ DefaultKinds \subseteq kinds
    /\ kinds \cap (OptionalKinds \ {"encoding"}) = asked.headers \ {"encoding"}
    /\ "encoding" \in kinds => "encoding" \in asked.headers
    /\ "extra" \in kinds <=> asked.keys # <<>>
    /\ KeysInTurn

(* "If NULL provided, sdk not add Content-encoding header" (kii.h:163): if *)
(* an encoding is given, a request that is READY has the header.           *)
EncodingKept ==
  state = "READY" /\ "encoding" \in asked.headers =>
    \E i \in 0..body - 1 : buffer[i].kind = "encoding"
=============================================================================
