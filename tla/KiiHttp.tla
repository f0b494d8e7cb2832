------------------------------ MODULE KiiHttp ------------------------------
(***************************************************************************)
(* The HTTP client of kii-core/kii_core.c: kii_core_run and the machine of *)
(* prv_kii_http_execute under it, which a caller runs until kii_core_t is  *)
(* idle again, for one request after another on the same context.  The     *)
(* request and the response share one buffer, and every field of the       *)
(* context survives from one call to the next.                             *)
(*                                                                         *)
(* One action per state of the machine, that is one call of kii_core_run.  *)
(* A callback that answers AGAIN leaves everything as it is, apart from    *)
(* the buffer RecvWaits clears.  The cloud and its connections, one for    *)
(* each call, are modelled from what the client sends and reads.           *)
(***************************************************************************)
EXTENDS Integers

CONSTANTS
  BufferSize,                (* http_context.buffer_size                    *)
  KII_SOCKET_MAX_BUFF_SIZE,  (* bytes handed to one send or recv callback   *)
  RequestSizes,              (* bytes of the requests that were built       *)
  HTTP1_1_LEN,               (* bytes of "HTTP/1.1 "                        *)
  STATUS_LEN,                (* bytes up to the end of the status code      *)
  Replies,                   (* responses of the cloud                      *)
  MaxCalls,                  (* bound: calls in a behaviour                 *)
  MaxFaults                  (* bound: failures of callbacks and network    *)

(* head: bytes up to and including the empty line; announced: what         *)
(* kii_parse_content_length makes of them; http11: they begin with         *)
(* "HTTP/1.1 " and three digits, which read as code.                       *)
Reply == [head : Nat, body : Nat, announced : Nat, http11 : BOOLEAN, code : Nat]

ASSUME HttpAssumption ==
  /\ BufferSize \in Nat \ {0}
  /\ KII_SOCKET_MAX_BUFF_SIZE \in Nat \ {0}
  /\ RequestSizes \subseteq 1..BufferSize - 1
  /\ HTTP1_1_LEN \in Nat /\ STATUS_LEN \in Nat
  /\ HTTP1_1_LEN < STATUS_LEN
  /\ Replies \subseteq Reply
  /\ \A r \in Replies :
       /\ r.head > STATUS_LEN /\ r.code > 0
       /\ r.announced \in {0, r.body}  \* the cloud sends what it announces
  /\ MaxCalls \in Nat
  /\ MaxFaults \in Nat

VARIABLES
  state,     (* kii_core_t._state                                           *)
  http,      (* http_context: the machine, its counters and the descriptor  *)
  buffer,    (* http_context.buffer, what each byte belongs to              *)
  response,  (* response_code, response_body, _response_body_length         *)
  calls,     (* requests prepared so far                                    *)
  outcome,   (* what kii_core_run returned to the caller of each            *)
  conns,     (* the connection of each call, and the cloud's end of it      *)
  faults     (* failures so far                                             *)

vars == <<state, http, buffer, response, calls, outcome, conns, faults>>

Calls == 1..MaxCalls
NoReply == [head |-> 0, body |-> 0, announced |-> 0, http11 |-> FALSE, code |-> 0]

(* arrived: bytes of the reply that have reached, or will reach, the client *)
NoConn == [open |-> FALSE, asked |-> 0, got |-> 0, cloud |-> "none",
           reply |-> NoReply, arrived |-> 0]

AllNul == [i \in 0..BufferSize - 1 |-> "nul"]
Request(n) == [i \in 0..BufferSize - 1 |-> IF i < n THEN "request" ELSE "nul"]

(* A body position of 0 stands for NULL: a body follows a header.          *)
NULL == 0

Init ==
  /\ state = "IDLE"
  /\ http = [at |-> "IDLE", total |-> 0, sent |-> 0, received |-> 0,
             length |-> 0, scanned |-> FALSE, error |-> "NONE", sock |-> 0]
  /\ buffer = AllNul
  /\ response = [code |-> 0, body |-> NULL, length |-> 0]
  /\ calls = 0
  /\ outcome = [c \in Calls |-> "new"]
  /\ conns = [c \in Calls |-> NoConn]
  /\ faults = 0

Fault == faults < MaxFaults /\ faults' = faults + 1
Fine  == UNCHANGED faults

Least(m, n) == IF m <= n THEN m ELSE n

-----------------------------------------------------------------------------
(* Preparing a request: prv_kii_http_set_request_line, then headers and    *)
(* body, up to `_state = KII_STATE_READY`.                                 *)

(* "Correct position of initializing socket_state is under consideration": *)
(* a call that failed may have left the machine in RECV or in CLOSE.       *)
RequestLineKeepingState(n) == [http EXCEPT !.total = n]
RequestLine(n) == [http EXCEPT !.total = n, !.at = "IDLE"]

Prepare ==
  /\ state = "IDLE" /\ calls < MaxCalls
  /\ state' = "READY"
  /\ \E n \in RequestSizes : http' = RequestLine(n) /\ buffer' = Request(n)
  /\ calls' = calls + 1
  /\ outcome' = [outcome EXCEPT ![calls + 1] = "pending"]
  /\ UNCHANGED <<response, conns, faults>>

(* The request line does not fit, before anything but the buffer was       *)
(* touched, or something after it does not.                                *)
PrepareFails ==
  /\ state = "IDLE" /\ Fault
  /\ \/ buffer' = AllNul /\ UNCHANGED http
     \/ \E n \in RequestSizes : http' = RequestLine(n) /\ buffer' = Request(n)
  /\ UNCHANGED <<state, response, calls, outcome, conns>>

-----------------------------------------------------------------------------
(* kii_core_run                                                            *)

(* What the three results of prv_kii_http_execute make of the call.        *)
Finish(result) ==
  state' = "IDLE" /\ outcome' = [outcome EXCEPT ![calls] = result]
Again == UNCHANGED <<state, outcome>>

RunReady ==
  /\ state = "READY"
  /\ state' = "EXECUTE"
  /\ UNCHANGED <<http, buffer, response, calls, outcome, conns, faults>>

Executing(at) == state = "EXECUTE" /\ http.at = at

RewoundKeepingLength ==
  [http EXCEPT !.at = "CONNECT", !.sent = 0, !.received = 0,
               !.scanned = FALSE, !.error = "NONE"]
RewoundKeepingError ==
  [http EXCEPT !.at = "CONNECT", !.sent = 0, !.received = 0,
               !.length = 0, !.scanned = FALSE]
Rewound ==
  [http EXCEPT !.at = "CONNECT", !.sent = 0, !.received = 0, !.length = 0,
               !.scanned = FALSE, !.error = "NONE"]

ExecIdle ==
  /\ Executing("IDLE")
  /\ http' = Rewound /\ Again
  /\ UNCHANGED <<buffer, response, calls, conns, faults>>

(* A callback failed: back to IDLE, and the socket is nobody's any more.   *)
SocketError ==
  /\ http' = [http EXCEPT !.at = "IDLE", !.error = "SOCKET"]
  /\ Finish("failed")

ExecConnect ==
  /\ Executing("CONNECT")
  /\ \/ /\ http' = [http EXCEPT !.at = "SEND", !.sock = calls]
        /\ conns' = [conns EXCEPT ![calls] =
                       [NoConn EXCEPT !.open = TRUE, !.asked = http.total,
                                      !.cloud = "reading"]]
        /\ Again /\ Fine
     \/ SocketError /\ Fault /\ UNCHANGED conns
  /\ UNCHANGED <<buffer, response, calls>>

conn == conns[http.sock]
Lost == conn.cloud \in {"closed", "reset"}

(* Everything has been sent when sent bytes have.                          *)
AllSentChunk(sent) == sent >= Least(http.total, KII_SOCKET_MAX_BUFF_SIZE)
AllSent(sent) == sent = http.total

ChunkAlwaysWhole == KII_SOCKET_MAX_BUFF_SIZE
Chunk == Least(http.total - http.sent, KII_SOCKET_MAX_BUFF_SIZE)

ExecSend ==
  /\ Executing("SEND")
  /\ \/ /\ http' = [http EXCEPT !.sent = @ + Chunk,
                      !.at = IF AllSent(http.sent + Chunk) THEN "RECV" ELSE @]
        /\ conns' = IF Lost THEN conns
                    ELSE [conns EXCEPT ![http.sock].got = @ + Chunk]
        /\ Again /\ Fine
     \/ /\ SocketError /\ UNCHANGED conns
        /\ IF Lost THEN Fine ELSE Fault
  /\ UNCHANGED <<buffer, response, calls>>

-----------------------------------------------------------------------------
(* PRV_KII_SOCKET_STATE_RECV                                               *)

(* The buffer is cleared before the first byte of a response.              *)
ClearedNever == buffer
Cleared == IF http.received = 0 THEN AllNul ELSE buffer

(* The sizes one recv callback can answer with; 0 is the end of the stream *)
Readable ==
  LET size == Least(BufferSize - http.received, KII_SOCKET_MAX_BUFF_SIZE)
      left == conn.arrived - http.received
  IN IF left = 0 /\ conn.cloud = "closed" THEN {0} ELSE 1..Least(size, left)

(* http_context once n bytes were received, before it is decided whether   *)
(* they are all: the first time the empty line is seen, so is the length.  *)
Scanned(n) ==
  LET seen == ~http.scanned /\ conn.reply.head \in 1..n
      sized == seen /\ conn.reply.announced > 0
  IN [http EXCEPT !.received = n, !.scanned = @ \/ seen,
        !.length = IF sized THEN conn.reply.head + conn.reply.announced ELSE @]

(* All of an announced length is there, or nothing more will come.         *)
CompleteOnlySized(h, k) == h.length > 0 /\ h.received >= h.length
Complete(h, k) == (h.length > 0 /\ h.received >= h.length) \/ k = 0

OverflowsLate(n) == n > BufferSize
Overflows(n) == n >= BufferSize

(* recv answered with k bytes, and n have been received in all.            *)
Received(k) ==
  LET n == http.received + k IN
  /\ Fine
  /\ buffer' = [i \in 0..BufferSize - 1 |->
       IF i \in http.received..n - 1 THEN "response" ELSE Cleared[i]]
  /\ \/ /\ Overflows(n)
        /\ http' = [http EXCEPT !.received = n, !.error = "INSUFFICIENT_BUFFER"]
        /\ Finish("failed")
     \/ /\ ~Overflows(n)
        /\ http' = IF Complete(Scanned(n), k)
                   THEN [Scanned(n) EXCEPT !.at = "CLOSE"] ELSE Scanned(n)
        /\ Again

ExecRecv ==
  /\ Executing("RECV")
  /\ \/ \E k \in Readable : Received(k)
     \/ /\ SocketError /\ buffer' = Cleared
        /\ IF conn.cloud = "reset" /\ conn.arrived = http.received
           THEN Fine ELSE Fault
  /\ UNCHANGED <<response, calls, conns>>

(* The recv callback answers AGAIN: the first time, the request is gone    *)
(* from the buffer all the same.                                           *)
RecvWaits ==
  /\ Executing("RECV")
  /\ buffer' = Cleared
  /\ UNCHANGED <<state, http, response, calls, outcome, conns, faults>>

-----------------------------------------------------------------------------
(* PRV_KII_SOCKET_STATE_CLOSE                                              *)

(* The response does not say "HTTP/1.1 " and a code: the machine stays in  *)
(* CLOSE although its socket is closed.                                    *)
InvalidResponse(code) ==
  /\ http' = [http EXCEPT !.error = "INVALID_RESPONSE"]
  /\ response' = [response EXCEPT !.code = code]
  /\ Finish("failed")

(* The length is left as it was when there is no body.                     *)
Answer ==
  LET body == IF conn.reply.head \in 1..http.received THEN conn.reply.head ELSE NULL
  IN [code |-> conn.reply.code, body |-> body,
      length |-> IF body = NULL THEN response.length ELSE http.received - body]

(* strstr looks for "HTTP/1.1 " in all that was received; that a response  *)
(* has it anywhere but at its beginning is left out.                       *)
StatusKnown(n) == conn.reply.http11 /\ http.received >= n

StatusReadUnchecked == TRUE
StatusRead == StatusKnown(STATUS_LEN)

ClosedNever == conns
Closed == [conns EXCEPT ![http.sock].open = FALSE]

ExecClose ==
  /\ Executing("CLOSE")
  /\ \/ /\ conns' = Closed /\ Fine
        /\ \/ /\ ~StatusKnown(HTTP1_1_LEN) /\ ~StatusRead
              /\ InvalidResponse(response.code)
           \/ /\ StatusKnown(HTTP1_1_LEN) /\ ~StatusRead
              /\ InvalidResponse(0)
           \/ /\ StatusRead
              /\ response' = Answer
              /\ http' = [http EXCEPT !.at = "IDLE"]
              /\ Finish("ok")
     \/ /\ SocketError /\ Fault /\ UNCHANGED response
        /\ conns' \in {conns, Closed}
  /\ UNCHANGED <<buffer, calls>>

-----------------------------------------------------------------------------
(* The cloud, on the connection of any call, a failed one's too.           *)

OnlyConns == UNCHANGED <<state, http, buffer, response, calls, outcome>>

CloudAnswers(c) ==
  /\ conns[c].cloud = "reading" /\ conns[c].got = conns[c].asked
  /\ \E r \in Replies :
       conns' = [conns EXCEPT ![c].cloud = "answered", ![c].reply = r,
                              ![c].arrived = r.head + r.body]
  /\ OnlyConns /\ Fine

(* Requests are HTTP/1.0: a response is followed by the end of the stream. *)
CloudCloses(c) ==
  /\ conns[c].cloud = "answered"
  /\ conns' = [conns EXCEPT ![c].cloud = "closed"]
  /\ OnlyConns /\ Fine

(* The stream ends early, in order or not, at any byte not yet read.       *)
LoseConnection(c) ==
  /\ conns[c].open /\ conns[c].cloud \in {"reading", "answered"} /\ Fault
  /\ \E n \in 0..conns[c].arrived, how \in {"closed", "reset"} :
       /\ c = http.sock => n >= http.received
       /\ conns' = [conns EXCEPT ![c].cloud = how, ![c].arrived = n]
  /\ OnlyConns

-----------------------------------------------------------------------------
Run == \/ RunReady
       \/ ExecIdle \/ ExecConnect \/ ExecSend \/ ExecRecv \/ RecvWaits \/ ExecClose
Cloud == \E c \in Calls : CloudAnswers(c) \/ CloudCloses(c)

Next == Prepare \/ PrepareFails \/ Run \/ Cloud \/ \E c \in Calls : LoseConnection(c)

Spec == Init /\ [][Next]_vars

(* The caller runs until idle, callbacks do not answer AGAIN for ever, and *)
(* the cloud answers and closes.                                           *)
FairSpec == Spec /\ WF_vars(Run) /\ \A c \in Calls : WF_vars(CloudAnswers(c) \/ CloudCloses(c))

-----------------------------------------------------------------------------
(* Type invariant.                                                         *)
Machine == [at : {"IDLE", "CONNECT", "SEND", "RECV", "CLOSE"},
            total : 0..BufferSize - 1, sent : 0..BufferSize - 1,
            received : 0..BufferSize, length : Nat, scanned : BOOLEAN,
            error : {"NONE", "INVALID_RESPONSE", "INSUFFICIENT_BUFFER", "SOCKET"},
            sock : 0..MaxCalls]
Conns == [open : BOOLEAN, asked : Nat, got : Nat,
          cloud : {"none", "reading", "answered", "closed", "reset"},
          reply : Replies \cup {NoReply}, arrived : Nat]

TypeOK ==
  /\ state \in {"IDLE", "READY", "EXECUTE"}
  /\ http \in Machine
  /\ buffer \in [0..BufferSize - 1 -> {"nul", "request", "response"}]
  /\ response \in [code : Nat, body : 0..BufferSize, length : 0..BufferSize]
  /\ calls \in 0..MaxCalls
  /\ outcome \in [Calls -> {"new", "pending", "ok", "failed"}]
  /\ conns \in [Calls -> Conns]
  /\ faults \in 0..MaxFaults

(* A machine that sends, receives or closes does so on the open connection *)
(* of the call that runs: whatever state the previous call failed in, it   *)
(* never goes on with that call's socket nor closes one twice              *)
(* (kii_core.c:388-389).                                                   *)
UsesOwnConnection ==
  state = "EXECUTE" /\ http.at \in {"SEND", "RECV", "CLOSE"} =>
    http.sock = calls /\ conn.open

(* The client does not begin to read before the cloud has been handed all  *)
(* of the request, unless the connection has been lost (kii_core.c:204).   *)
WholeRequestSent ==
  state = "EXECUTE" /\ http.at \in {"RECV", "CLOSE"} =>
    Lost \/ conn.got = conn.asked

(* What strstr and the Content-Length parser are given is this response    *)
(* and a terminating NUL inside the buffer, none of the request that was   *)
(* in the same buffer before (kii_core.c:235-241, 253, 269-279).           *)
BufferHoldsResponse ==
  state = "EXECUTE" /\ (http.at = "CLOSE" \/ (http.at = "RECV" /\ http.received > 0)) =>
    /\ http.received < BufferSize
    /\ \A i \in 0..BufferSize - 1 :
         buffer[i] = IF i < http.received THEN "response" ELSE "nul"

(* A successful call stopped reading because the stream had ended, or it   *)
(* has the whole response; the length announced to an earlier call does    *)
(* not cut it short (kii_core.c:163-164, 268-282).                         *)
StopsAtTheEnd ==
  \A c \in Calls :
    c = calls /\ outcome[c] = "ok" =>
      \/ conns[c].cloud = "closed" /\ http.received = conns[c].arrived
      \/ http.received = conns[c].reply.head + conns[c].reply.body

(* Only a call that failed leaves its socket open (kii_core.c:178-186,     *)
(* 214-219, 243-248): success, and the failure to parse a response, do not.*)
OnlyFailuresLeak ==
  \A c \in Calls :
    conns[c].open => outcome[c] = "failed" \/ (c = calls /\ state = "EXECUTE")

(* http_error says of the last call whether kii_core_run failed, and is    *)
(* not left over from the call before (kii_core.c:165).                    *)
ErrorMatchesResult ==
  \A c \in Calls :
    c = calls /\ state = "IDLE" => (outcome[c] = "failed" <=> http.error # "NONE")

(* Over any sequence of calls, failures and late answers, a call is a      *)
(* RemoteCall.  response_code belongs to the last call.                    *)
Carried == [c \in Calls |-> conns[c].reply.code]
Given == [c \in Calls |-> IF outcome[c] # "ok" THEN 0
                          ELSE IF c = calls THEN response.code
                          ELSE conns[c].reply.code]
Cloudy == INSTANCE RemoteCall WITH
  Codes <- {r.code : r \in Replies}, carried <- Carried, given <- Given
ImplementsRemoteCall == Cloudy!Spec

(* kii_core_run brings every prepared request back to KII_STATE_IDLE: the  *)
(* loop `do kii_core_run while (state != KII_STATE_IDLE)` that every       *)
(* operation of kii/ runs, without a bound of its own, ends.               *)
Completes == (state # "IDLE") ~> (state = "IDLE")

(* "If content-length is not present, wait for Connnection is closed by    *)
(* server" (kii_core.c:274-276): a response that announced its length is   *)
(* not complete because the connection was closed before that.             *)
SizedResponsesWhole ==
  \A c \in Calls :
    c = calls /\ outcome[c] = "ok" /\ http.length > 0 => http.received >= http.length

-----------------------------------------------------------------------------
(* The inductive invariant behind the safety properties.                   *)

(* A machine is started with a request and in IDLE.                        *)
StartsIdle ==
  /\ state # "IDLE" => calls > 0 /\ http.total > 0
  /\ state = "READY" => http.at = "IDLE"
  /\ state = "EXECUTE" /\ http.at # "IDLE" => http.error = "NONE"

CallsInOrder ==
  \A c \in Calls :
    /\ c > calls => outcome[c] = "new" /\ conns[c] = NoConn
    /\ c < calls => outcome[c] \in {"ok", "failed"}
    /\ c = calls /\ state = "IDLE" => outcome[c] \in {"ok", "failed"}
    /\ c = calls /\ state # "IDLE" => outcome[c] = "pending"

(* A call that succeeded was answered, closed its socket and was given the *)
(* answer of the cloud.                                                    *)
SuccessAnswered ==
  \A c \in Calls : outcome[c] = "ok" =>
    /\ ~conns[c].open /\ conns[c].reply # NoReply
    /\ c = calls => response.code = conns[c].reply.code

Unconnected ==
  state = "READY" \/ (state = "EXECUTE" /\ http.at \in {"IDLE", "CONNECT"})

NotConnectedYet ==
  /\ Unconnected => conns[calls] = NoConn
  /\ state = "EXECUTE" /\ http.at \in {"CONNECT", "SEND"} =>
       http.received = 0 /\ http.length = 0
  /\ state = "EXECUTE" /\ http.at = "CONNECT" => http.sent = 0

CloudHonest ==
  \A c \in Calls :
    /\ conns[c].cloud \in {"none", "reading"} =>
         conns[c].reply = NoReply /\ conns[c].arrived = 0
    /\ conns[c].arrived <= conns[c].reply.head + conns[c].reply.body

CountsSent ==
  /\ state = "EXECUTE" /\ http.at \in {"SEND", "RECV", "CLOSE"} =>
       conn.asked = http.total /\ (Lost \/ conn.got = http.sent)
  /\ state = "EXECUTE" /\ http.at = "SEND" => http.sent < http.total
  /\ state = "EXECUTE" /\ http.at \in {"RECV", "CLOSE"} => http.sent = http.total

CountsReceived ==
  state = "EXECUTE" /\ http.at \in {"RECV", "CLOSE"} =>
    /\ http.received <= conn.arrived
    /\ http.length > 0 => http.length = conn.reply.head + conn.reply.body
    /\ http.at = "CLOSE" =>
         \/ http.length > 0 /\ http.received >= http.length
         \/ conn.cloud = "closed" /\ http.received = conn.arrived

IInv == /\ StartsIdle /\ CallsInOrder /\ SuccessAnswered
        /\ NotConnectedYet /\ CloudHonest /\ CountsSent /\ CountsReceived
        /\ UsesOwnConnection /\ BufferHoldsResponse /\ StopsAtTheEnd
        /\ OnlyFailuresLeak /\ ErrorMatchesResult
=============================================================================
