--------------------------- MODULE KiiHttpProofs ---------------------------
(***************************************************************************)
(* Proofs about the HTTP client, for every size of buffer, chunk, request  *)
(* and response, and any number of calls and failures.                     *)
(***************************************************************************)
EXTENDS KiiHttp, TLAPS

-----------------------------------------------------------------------------
(* Types.  That sent bytes do not run past the request is what CountsSent  *)
(* says, so the type invariant is inductive only together with IInv.       *)

(* Sizes and replies are what the assumption on the constants says.        *)
LEMMA ConstantTypes ==
  /\ BufferSize \in Nat /\ BufferSize > 0
  /\ KII_SOCKET_MAX_BUFF_SIZE \in Nat /\ KII_SOCKET_MAX_BUFF_SIZE > 0
  /\ MaxCalls \in Nat /\ MaxFaults \in Nat
  /\ HTTP1_1_LEN \in Nat /\ STATUS_LEN \in Nat
  /\ \A n \in RequestSizes : n \in Nat /\ 0 < n /\ n < BufferSize
<1>1. \A n \in RequestSizes : n \in 1..BufferSize - 1
  BY HttpAssumption
<1> QED
  BY <1>1, HttpAssumption

(* So are the fields of a reply, and of none.                              *)
LEMMA ReplyTypes ==
  ASSUME NEW r \in Replies \cup {NoReply}
  PROVE  r \in Reply /\ r.head \in Nat /\ r.body \in Nat
         /\ r.announced \in Nat /\ r.code \in Nat
<1>1. NoReply \in Reply
  BY DEF NoReply, Reply
<1>2. Replies \subseteq Reply
  BY HttpAssumption
<1> QED
  BY <1>1, <1>2 DEF Reply

(* An empty connection, and the buffer as it is cleared and as it is built *)
LEMMA BasicTypes ==
  /\ NoConn \in Conns
  /\ AllNul \in [0..BufferSize - 1 -> {"nul", "request", "response"}]
  /\ \A n \in RequestSizes :
       Request(n) \in [0..BufferSize - 1 -> {"nul", "request", "response"}]
BY DEF NoConn, Conns, AllNul, Request

(* What an empty connection says.                                          *)
LEMMA NoConnFields ==
  /\ ~NoConn.open /\ NoConn.got = 0 /\ NoConn.cloud = "none"
  /\ NoConn.reply = NoReply /\ NoConn.arrived = 0
  /\ NoReply.head = 0 /\ NoReply.body = 0 /\ NoReply.announced = 0
  /\ NoReply.code = 0 /\ NoReply.http11 = FALSE
BY DEF NoConn, NoReply

(* The fields of the context that a step may set.                          *)
LEMMA MachineFields ==
  ASSUME NEW h \in Machine
  PROVE  /\ h.total \in Nat /\ h.total < BufferSize
         /\ h.sent \in Nat /\ h.sent < BufferSize
         /\ h.received \in Nat /\ h.received <= BufferSize
         /\ h.length \in Nat /\ h.sock \in 0..MaxCalls
BY ConstantTypes DEF Machine

(* A step of the budget of failures stays within it.                       *)
LEMMA FaultTypes ==
  ASSUME TypeOK, Fault \/ Fine
  PROVE  faults' \in 0..MaxFaults
BY ConstantTypes DEF TypeOK, Fault, Fine

(* The initial state is well typed.                                        *)
LEMMA InitTypes == ASSUME Init PROVE TypeOK
BY ConstantTypes, BasicTypes DEF Init, TypeOK, Machine, NULL

(* Each step of the client and of the cloud keeps the types.               *)
LEMMA PrepareTypes == ASSUME TypeOK, Prepare PROVE TypeOK'
<1>1. PICK n \in RequestSizes : http' = RequestLine(n) /\ buffer' = Request(n)
  BY DEF Prepare
<1>2. n \in 0..BufferSize - 1
  BY ConstantTypes
<1>3. http' \in Machine
  BY <1>1, <1>2 DEF RequestLine, TypeOK, Machine
<1>4. calls' \in 0..MaxCalls /\ state' = "READY"
  BY ConstantTypes DEF Prepare, TypeOK
<1>5. outcome' \in [Calls -> {"new", "pending", "ok", "failed"}]
  BY DEF Prepare, TypeOK
<1>6. buffer' \in [0..BufferSize - 1 -> {"nul", "request", "response"}]
  BY <1>1, BasicTypes
<1> QED
  BY <1>3, <1>4, <1>5, <1>6 DEF Prepare, TypeOK

(* A request that could not be built.                                      *)
LEMMA PrepareFailsTypes == ASSUME TypeOK, PrepareFails PROVE TypeOK'
<1>1. CASE buffer' = AllNul /\ UNCHANGED http
  BY <1>1, BasicTypes, FaultTypes DEF TypeOK, PrepareFails
<1>2. CASE \E n \in RequestSizes : http' = RequestLine(n) /\ buffer' = Request(n)
  <2>1. PICK n \in RequestSizes : http' = RequestLine(n) /\ buffer' = Request(n)
    BY <1>2
  <2>2. n \in 0..BufferSize - 1
    BY ConstantTypes
  <2>3. http' \in Machine
    BY <2>1, <2>2 DEF RequestLine, TypeOK, Machine
  <2>4. buffer' \in [0..BufferSize - 1 -> {"nul", "request", "response"}]
    BY <2>1, BasicTypes
  <2> QED
    BY <2>3, <2>4, FaultTypes DEF TypeOK, PrepareFails
<1> QED
  BY <1>1, <1>2 DEF PrepareFails

(* Winding the machine back.                                               *)
LEMMA ExecIdleTypes == ASSUME TypeOK, ExecIdle PROVE TypeOK'
<1>1. 0 \in 0..BufferSize - 1 /\ 0 \in 0..BufferSize
  BY ConstantTypes
<1>2. http' \in Machine
  BY <1>1 DEF ExecIdle, Rewound, TypeOK, Machine
<1> QED
  BY <1>2 DEF TypeOK, ExecIdle, Again

(* A callback that failed.                                                 *)
LEMMA SocketErrorTypes ==
  ASSUME TypeOK, SocketError
  PROVE  /\ http' \in Machine /\ state' = "IDLE"
         /\ outcome' \in [Calls -> {"new", "pending", "ok", "failed"}]
BY DEF TypeOK, SocketError, Finish, Machine

(* Connecting.                                                             *)
LEMMA ExecConnectTypes == ASSUME TypeOK, ExecConnect PROVE TypeOK'
<1>1. CASE SocketError /\ Fault /\ UNCHANGED conns
  BY <1>1, SocketErrorTypes, FaultTypes DEF TypeOK, ExecConnect
<1>2. ASSUME ~(SocketError /\ Fault /\ UNCHANGED conns) PROVE TypeOK'
  <2>1. http' = [http EXCEPT !.at = "SEND", !.sock = calls] /\ Again /\ Fine
        /\ conns' = [conns EXCEPT ![calls] =
                       [NoConn EXCEPT !.open = TRUE, !.asked = http.total,
                                      !.cloud = "reading"]]
    BY <1>2 DEF ExecConnect
  <2>2. http' \in Machine
    BY <2>1 DEF TypeOK, Machine
  <2>3. [NoConn EXCEPT !.open = TRUE, !.asked = http.total, !.cloud = "reading"] \in Conns
    BY MachineFields DEF TypeOK, NoConn, Conns
  <2>4. conns' \in [Calls -> Conns]
    BY <2>1, <2>3 DEF TypeOK
  <2> QED
    BY <2>1, <2>2, <2>4, FaultTypes DEF TypeOK, ExecConnect, Again
<1> QED
  BY <1>1, <1>2

(* Sending a chunk: the count stays within the request.                    *)
LEMMA ExecSendTypes ==
  ASSUME TypeOK, CountsSent, UsesOwnConnection, ExecSend
  PROVE  TypeOK'
<1>1. CASE SocketError /\ UNCHANGED conns /\ (Fine \/ Fault)
  BY <1>1, SocketErrorTypes, FaultTypes DEF TypeOK, ExecSend
<1>2. CASE /\ http' = [http EXCEPT !.sent = @ + Chunk,
                      !.at = IF AllSent(http.sent + Chunk) THEN "RECV" ELSE @]
           /\ conns' = IF Lost THEN conns
                       ELSE [conns EXCEPT ![http.sock].got = @ + Chunk]
           /\ Again /\ Fine
  <2>1. http.sent < http.total /\ http.total \in Nat /\ http.sent \in Nat
        /\ http.total < BufferSize
    BY MachineFields DEF CountsSent, ExecSend, Executing, TypeOK
  <2>2. Chunk \in Nat /\ http.sent + Chunk <= http.total
    BY <2>1, ConstantTypes DEF Chunk, Least
  <2>3. http.sent + Chunk \in 0..BufferSize - 1
    BY <2>1, <2>2, ConstantTypes
  <2>4. http' \in Machine
    BY <1>2, <2>3 DEF TypeOK, Machine
  <2>5. conns' \in [Calls -> Conns]
    <3>1. CASE http.sock \in Calls
      <4> DEFINE k == conns[http.sock]
      <4>1. k \in Conns
        BY <3>1 DEF TypeOK
      <4>2. k.got + Chunk \in Nat
        BY <2>2, <4>1 DEF Conns
      <4>3. [k EXCEPT !.got = k.got + Chunk] \in Conns
        BY <4>1, <4>2 DEF Conns
      <4> QED
        BY <1>2, <4>3 DEF TypeOK
    <3>2. CASE http.sock \notin Calls
      BY <1>2, <3>2 DEF TypeOK
    <3> QED
      BY <3>1, <3>2
  <2> QED
    BY <1>2, <2>4, <2>5, FaultTypes DEF ExecSend, TypeOK, Again
<1> QED
  BY <1>1, <1>2 DEF ExecSend

(* What one recv callback can answer with fits the buffer.                 *)
LEMMA ReadableTypes ==
  ASSUME TypeOK, http.sock \in Calls, NEW k \in Readable
  PROVE  /\ k \in Nat /\ http.received + k <= BufferSize
         /\ \/ k = 0 /\ conn.arrived = http.received /\ conn.cloud = "closed"
            \/ k > 0 /\ http.received + k <= conn.arrived
<1>1. http.received \in Nat /\ http.received <= BufferSize /\ conn.arrived \in Nat
  BY MachineFields DEF TypeOK, conn, Conns
<1> DEFINE size == Least(BufferSize - http.received, KII_SOCKET_MAX_BUFF_SIZE)
           left == conn.arrived - http.received
<1>2. size \in Nat /\ size <= BufferSize - http.received /\ left \in Int
  BY <1>1, ConstantTypes DEF Least
<1>3. CASE left = 0 /\ conn.cloud = "closed"
  <2>1. k = 0
    BY <1>3 DEF Readable
  <2> QED
    BY <1>1, <1>3, <2>1
<1>4. CASE ~(left = 0 /\ conn.cloud = "closed")
  <2>1. k \in 1..Least(size, left)
    BY <1>4 DEF Readable
  <2>2. Least(size, left) \in Int /\ Least(size, left) <= size /\ Least(size, left) <= left
    BY <1>2 DEF Least
  <2>3. k \in Nat /\ k > 0 /\ k <= size /\ k <= left
    BY <1>2, <2>1, <2>2
  <2> HIDE DEF size
  <2> QED
    BY <1>1, <1>2, <2>3, ConstantTypes
<1> QED
  BY <1>3, <1>4

(* The current connection and its reply.                                   *)
LEMMA ConnTypes ==
  ASSUME TypeOK, http.sock \in Calls
  PROVE  /\ conn \in Conns /\ conn.reply \in Reply
         /\ conn.reply.head \in Nat /\ conn.reply.body \in Nat
         /\ conn.reply.announced \in Nat /\ conn.reply.code \in Nat
<1>1. conn \in Conns
  BY DEF TypeOK, conn
<1>2. conn.reply \in Replies \cup {NoReply}
  BY <1>1 DEF Conns
<1> QED
  BY <1>1, <1>2, ReplyTypes

(* The context after a recv.                                               *)
LEMMA ScannedTypes ==
  ASSUME TypeOK, http.sock \in Calls, NEW n \in 0..BufferSize
  PROVE  /\ Scanned(n) \in Machine
         /\ Scanned(n).received = n /\ Scanned(n).sock = http.sock
         /\ Scanned(n).at = http.at /\ Scanned(n).error = http.error
         /\ Scanned(n).total = http.total /\ Scanned(n).sent = http.sent
         /\ \/ Scanned(n).length = http.length
            \/ conn.reply.announced > 0
               /\ Scanned(n).length = conn.reply.head + conn.reply.announced
<1>1. conn.reply.head + conn.reply.announced \in Nat
  BY ConnTypes
<1> QED
  BY <1>1 DEF Scanned, TypeOK, Machine

(* Receiving: the count stays within the buffer.                           *)
LEMMA ExecRecvTypes == ASSUME TypeOK, http.sock \in Calls, ExecRecv PROVE TypeOK'
<1> DEFINE B == [0..BufferSize - 1 -> {"nul", "request", "response"}]
<1>1. Cleared \in B
  BY BasicTypes DEF TypeOK, Cleared
<1>2. CASE SocketError /\ buffer' = Cleared /\ (Fine \/ Fault)
  BY <1>1, <1>2, SocketErrorTypes, FaultTypes DEF TypeOK, ExecRecv
<1>3. ASSUME NEW k \in Readable, Received(k) PROVE TypeOK'
  <2> DEFINE n == http.received + k
  <2>1. n \in 0..BufferSize
    BY ReadableTypes, MachineFields, ConstantTypes DEF TypeOK
  <2>2. buffer' \in B /\ faults' \in 0..MaxFaults
    BY <1>1, <1>3, FaultTypes DEF Received
  <2>3. CASE /\ http' = [http EXCEPT !.received = n, !.error = "INSUFFICIENT_BUFFER"]
             /\ Finish("failed")
    <3>1. http' \in Machine
      BY <2>1, <2>3 DEF TypeOK, Machine
    <3> QED
      BY <2>2, <2>3, <3>1 DEF ExecRecv, TypeOK, Finish
  <2>4. CASE /\ http' = IF Complete(Scanned(n), k)
                        THEN [Scanned(n) EXCEPT !.at = "CLOSE"] ELSE Scanned(n)
             /\ Again
    <3>1. Scanned(n) \in Machine
      BY <2>1, ScannedTypes
    <3>2. http' \in Machine
      BY <2>4, <3>1 DEF Machine
    <3> QED
      BY <2>2, <2>4, <3>2 DEF ExecRecv, TypeOK, Again
  <2> QED
    BY <1>3, <2>3, <2>4 DEF Received
<1> QED
  BY <1>2, <1>3 DEF ExecRecv

(* Waiting for a response.                                                 *)
LEMMA RecvWaitsTypes == ASSUME TypeOK, RecvWaits PROVE TypeOK'
BY BasicTypes DEF TypeOK, RecvWaits, Cleared

(* Closing changes the current connection only.                            *)
LEMMA ClosedTypes ==
  ASSUME TypeOK
  PROVE  /\ Closed \in [Calls -> Conns]
         /\ \A c \in Calls : c # http.sock => Closed[c] = conns[c]
         /\ http.sock \in Calls => Closed[http.sock] = [conn EXCEPT !.open = FALSE]
BY ZenonT(30) DEF TypeOK, Closed, Conns, conn

(* The body and its length lie inside the buffer.                          *)
LEMMA AnswerTypes ==
  ASSUME TypeOK, http.sock \in Calls
  PROVE  /\ Answer \in [code : Nat, body : 0..BufferSize, length : 0..BufferSize]
         /\ Answer.code = conn.reply.code
<1>1. http.received \in Nat /\ http.received <= BufferSize
  BY MachineFields DEF TypeOK
<1>2. response.length \in 0..BufferSize
  BY DEF TypeOK
<1> DEFINE body == IF conn.reply.head \in 1..http.received
                   THEN conn.reply.head ELSE NULL
<1>3. body \in 0..BufferSize /\ (body # NULL => body <= http.received)
  BY <1>1, ConnTypes, ConstantTypes DEF NULL
<1>4. (IF body = NULL THEN response.length ELSE http.received - body) \in 0..BufferSize
  BY <1>1, <1>2, <1>3, ConstantTypes
<1> QED
  BY <1>3, <1>4, ConnTypes DEF Answer

(* Closing.                                                                *)
LEMMA ExecCloseTypes == ASSUME TypeOK, http.sock \in Calls, ExecClose PROVE TypeOK'
<1>1. conns' \in [Calls -> Conns] /\ faults' \in 0..MaxFaults
  BY ClosedTypes, FaultTypes DEF ExecClose, TypeOK
<1>2. CASE SocketError /\ UNCHANGED response
  BY <1>1, <1>2, SocketErrorTypes DEF ExecClose, TypeOK
<1>3. ASSUME NEW code \in Nat, InvalidResponse(code) PROVE TypeOK'
  <2>1. http' \in Machine /\ state' = "IDLE"
        /\ outcome' \in [Calls -> {"new", "pending", "ok", "failed"}]
    BY <1>3 DEF InvalidResponse, Finish, TypeOK, Machine
  <2>2. response' \in [code : Nat, body : 0..BufferSize, length : 0..BufferSize]
    BY <1>3 DEF InvalidResponse, TypeOK
  <2> QED
    BY <1>1, <2>1, <2>2 DEF ExecClose, TypeOK
<1>4. CASE response' = Answer /\ http' = [http EXCEPT !.at = "IDLE"] /\ Finish("ok")
  <2>1. http' \in Machine /\ state' = "IDLE"
        /\ outcome' \in [Calls -> {"new", "pending", "ok", "failed"}]
    BY <1>4 DEF Finish, TypeOK, Machine
  <2> QED
    BY <1>1, <1>4, <2>1, AnswerTypes DEF ExecClose, TypeOK
<1>5. response.code \in Nat
  BY DEF TypeOK
<1> QED
  BY <1>2, <1>3, <1>4, <1>5 DEF ExecClose

(* Steps of the cloud and of the network.                                  *)
LEMMA CloudTypes ==
  ASSUME TypeOK, NEW c \in Calls,
         CloudAnswers(c) \/ CloudCloses(c) \/ LoseConnection(c)
  PROVE  TypeOK'
<1>1. conns[c] \in Conns
  BY DEF TypeOK
<1>2. CASE CloudAnswers(c)
  <2>1. PICK r \in Replies :
          conns' = [conns EXCEPT ![c].cloud = "answered", ![c].reply = r,
                                 ![c].arrived = r.head + r.body]
    BY <1>2 DEF CloudAnswers
  <2>2. r.head + r.body \in Nat
    BY ReplyTypes
  <2>3. [conns[c] EXCEPT !.cloud = "answered", !.reply = r,
                         !.arrived = r.head + r.body] \in Conns
    BY <1>1, <2>2 DEF Conns
  <2>4. conns' \in [Calls -> Conns]
    BY <2>1, <2>3 DEF TypeOK
  <2> QED
    BY <1>2, <2>4 DEF CloudAnswers, OnlyConns, Fine, TypeOK
<1>3. CASE CloudCloses(c)
  <2>1. [conns[c] EXCEPT !.cloud = "closed"] \in Conns
    BY <1>1 DEF Conns
  <2> QED
    BY <1>3, <2>1 DEF CloudCloses, OnlyConns, Fine, TypeOK
<1>4. CASE LoseConnection(c)
  <2>1. PICK n \in 0..conns[c].arrived, how \in {"closed", "reset"} :
          conns' = [conns EXCEPT ![c].cloud = how, ![c].arrived = n]
    BY <1>4 DEF LoseConnection
  <2>0. n \in Nat
    BY <1>1 DEF Conns
  <2>2. [conns[c] EXCEPT !.cloud = how, !.arrived = n] \in Conns
    BY <1>1, <2>0 DEF Conns
  <2>3. conns' \in [Calls -> Conns]
    BY <2>1, <2>2 DEF TypeOK
  <2> QED
    BY <1>4, <2>3, FaultTypes DEF LoseConnection, OnlyConns, TypeOK
<1> QED
  BY <1>2, <1>3, <1>4

(* Every step keeps the types in a state of the inductive invariant.       *)
LEMMA NextTypes ==
  ASSUME TypeOK, IInv, [Next]_vars
  PROVE  TypeOK'
<1>1. CASE UNCHANGED vars
  BY <1>1 DEF vars, TypeOK
<1>2. state = "EXECUTE" /\ http.at \in {"SEND", "RECV", "CLOSE"} => http.sock \in Calls
  BY DEF IInv, StartsIdle, UsesOwnConnection, TypeOK, Calls
<1>3. CASE RunReady
  BY <1>3 DEF TypeOK, RunReady
<1> QED
  BY <1>1, <1>2, <1>3, PrepareTypes, PrepareFailsTypes, ExecIdleTypes, ExecConnectTypes,
     ExecSendTypes, ExecRecvTypes, RecvWaitsTypes, ExecCloseTypes, CloudTypes
     DEF Next, Run, Cloud, ExecRecv, ExecClose, Executing, IInv

-----------------------------------------------------------------------------
(* IInv is inductive.                                                      *)

(* The initial state satisfies it.                                         *)
LEMMA InitInvariant == ASSUME Init PROVE IInv
<1>1. state = "IDLE" /\ calls = 0
      /\ \A c \in Calls : c > 0 /\ outcome[c] = "new" /\ conns[c] = NoConn
  BY ConstantTypes DEF Init, Calls
<1>2. StartsIdle /\ NotConnectedYet /\ CountsSent /\ CountsReceived
      /\ UsesOwnConnection /\ BufferHoldsResponse
  BY <1>1 DEF StartsIdle, NotConnectedYet, Unconnected, CountsSent, CountsReceived,
     UsesOwnConnection, BufferHoldsResponse
<1>3. CallsInOrder /\ SuccessAnswered /\ StopsAtTheEnd /\ ErrorMatchesResult
  BY <1>1 DEF CallsInOrder, SuccessAnswered, StopsAtTheEnd, ErrorMatchesResult, Calls
<1>4. CloudHonest /\ OnlyFailuresLeak
  BY <1>1, NoConnFields DEF CloudHonest, OnlyFailuresLeak
<1> QED
  BY <1>2, <1>3, <1>4 DEF IInv

(* Calls that are over are left alone while one runs: what IInv says of    *)
(* results survives a step that changes neither them nor their connections *)
LEMMA GoesOn ==
  ASSUME TypeOK, IInv, state = "EXECUTE",
         UNCHANGED <<state, response, calls, outcome>>,
         \A c \in Calls : c # calls => conns'[c] = conns[c]
  PROVE  CallsInOrder' /\ SuccessAnswered' /\ StopsAtTheEnd' /\ OnlyFailuresLeak'
         /\ ErrorMatchesResult'
<1>1. calls \in 1..MaxCalls /\ outcome[calls] = "pending"
  BY ConstantTypes DEF TypeOK, IInv, StartsIdle, CallsInOrder, Calls
<1>2. CallsInOrder'
  BY <1>1 DEF IInv, CallsInOrder, Calls
<1>3. SuccessAnswered' /\ StopsAtTheEnd' /\ OnlyFailuresLeak' /\ ErrorMatchesResult'
  BY <1>1 DEF IInv, SuccessAnswered, StopsAtTheEnd, OnlyFailuresLeak, ErrorMatchesResult
<1> QED
  BY <1>2, <1>3

(* Whatever it leaves in the context and the buffer, a step that fails the *)
(* call and says so in http_error leaves a state to start from.            *)
LEMMA Fails ==
  ASSUME TypeOK, IInv, state = "EXECUTE",
         Finish("failed"), http'.error # "NONE", UNCHANGED calls,
         UNCHANGED conns \/ (http.at = "CLOSE" /\ conns' = Closed)
  PROVE  IInv'
<1>1. calls \in Calls /\ state' = "IDLE" /\ outcome' = [outcome EXCEPT ![calls] = "failed"]
  BY ConstantTypes DEF TypeOK, IInv, StartsIdle, Calls, Finish
<1>2. outcome' \in [Calls -> {"new", "pending", "ok", "failed"}] /\ outcome'[calls] = "failed"
      /\ \A c \in Calls : c # calls => outcome'[c] = outcome[c]
  BY <1>1 DEF TypeOK
<1>3. \A c \in Calls : /\ conns'[c].open => conns[c].open
                       /\ \A f \in {"cloud", "reply", "arrived"} :
                            conns'[c][f] = conns[c][f]
                       /\ c > calls => conns'[c] = conns[c]
  <2>1. CASE UNCHANGED conns
    BY <2>1
  <2>2. CASE http.at = "CLOSE" /\ conns' = Closed
    <3>1. http.sock = calls
      BY <2>2 DEF IInv, UsesOwnConnection
    <3>2. conns[calls] \in Conns
      BY <1>1 DEF TypeOK
    <3>3. /\ conns'[calls].open = FALSE
          /\ \A f \in {"cloud", "reply", "arrived"} : conns'[calls][f] = conns[calls][f]
      BY <1>1, <2>2, <3>1, <3>2, ClosedTypes DEF Conns, conn
    <3>4. \A c \in Calls : c # calls => conns'[c] = conns[c]
      BY <2>2, <3>1, ClosedTypes
    <3> QED
      BY <1>1, <3>3, <3>4, ConstantTypes DEF TypeOK, Calls
  <2> QED
    BY <2>1, <2>2
<1>4. StartsIdle' /\ NotConnectedYet' /\ CountsSent' /\ CountsReceived'
      /\ UsesOwnConnection' /\ BufferHoldsResponse'
  BY <1>1 DEF StartsIdle, NotConnectedYet, Unconnected, CountsSent, CountsReceived,
     UsesOwnConnection, BufferHoldsResponse
<1>5. CallsInOrder'
  BY <1>1, <1>2, <1>3 DEF IInv, CallsInOrder, Calls
<1>6. CloudHonest'
  BY <1>3 DEF IInv, CloudHonest
<1>7. SuccessAnswered'
  BY <1>1, <1>2, <1>3 DEF IInv, SuccessAnswered
<1>8. StopsAtTheEnd' /\ OnlyFailuresLeak' /\ ErrorMatchesResult'
  BY <1>1, <1>2, <1>3 DEF IInv, StopsAtTheEnd, OnlyFailuresLeak, ErrorMatchesResult
<1> QED
  BY <1>4, <1>5, <1>6, <1>7, <1>8 DEF IInv

(* A socket callback that failed.                                          *)
LEMMA SocketErrorInvariant ==
  ASSUME TypeOK, IInv, state = "EXECUTE", SocketError, UNCHANGED calls,
         UNCHANGED conns \/ (http.at = "CLOSE" /\ conns' = Closed)
  PROVE  IInv'
<1>1. http'.error = "SOCKET" /\ Finish("failed")
  BY DEF SocketError, TypeOK, Machine
<1> QED
  BY <1>1, Fails

(* A new call begins with a machine in IDLE and no connection.             *)
LEMMA PrepareInvariant == ASSUME TypeOK, IInv, Prepare PROVE IInv'
<1>1. /\ calls \in 0..MaxCalls /\ calls' = calls + 1 /\ calls' \in Calls
      /\ state = "IDLE" /\ state' = "READY"
      /\ outcome' = [outcome EXCEPT ![calls'] = "pending"]
      /\ UNCHANGED <<conns, response>>
  BY ConstantTypes DEF Prepare, TypeOK, Calls
<1>2. http'.at = "IDLE" /\ http'.total > 0
  BY ConstantTypes DEF Prepare, RequestLine, TypeOK, Machine
<1>3. outcome'[calls'] = "pending" /\ \A c \in Calls : c # calls' => outcome'[c] = outcome[c]
  BY <1>1 DEF TypeOK
<1>4. StartsIdle' /\ CountsSent' /\ CountsReceived'
      /\ UsesOwnConnection' /\ BufferHoldsResponse'
  BY <1>1, <1>2 DEF StartsIdle, CountsSent, CountsReceived, UsesOwnConnection,
     BufferHoldsResponse
<1>5. CallsInOrder'
  BY <1>1, <1>3 DEF IInv, CallsInOrder, Calls
<1>6. NotConnectedYet'
  BY <1>1 DEF IInv, NotConnectedYet, Unconnected, CallsInOrder, Calls
<1>7. CloudHonest'
  BY <1>1 DEF IInv, CloudHonest
<1>8. SuccessAnswered' /\ StopsAtTheEnd'
  BY <1>1, <1>3 DEF IInv, SuccessAnswered, StopsAtTheEnd
<1>9. conns[calls'].open = FALSE
  BY <1>1 DEF IInv, CallsInOrder, Calls, NoConn
<1>10. OnlyFailuresLeak' /\ ErrorMatchesResult'
  BY <1>1, <1>3, <1>9 DEF IInv, OnlyFailuresLeak, ErrorMatchesResult
<1> QED
  BY <1>4, <1>5, <1>6, <1>7, <1>8, <1>10 DEF IInv

(* A request that was not built leaves the result of the last call alone.  *)
LEMMA PrepareFailsInvariant == ASSUME TypeOK, IInv, PrepareFails PROVE IInv'
<1>1. state = "IDLE" /\ UNCHANGED <<state, response, calls, outcome, conns>>
  BY DEF PrepareFails
<1>2. http'.received = http.received /\ http'.error = http.error
  BY DEF PrepareFails, RequestLine, TypeOK, Machine
<1>3. StartsIdle' /\ NotConnectedYet' /\ CountsSent' /\ CountsReceived'
      /\ UsesOwnConnection' /\ BufferHoldsResponse'
  BY <1>1 DEF StartsIdle, NotConnectedYet, Unconnected, CountsSent, CountsReceived,
     UsesOwnConnection, BufferHoldsResponse
<1>4. CallsInOrder' /\ SuccessAnswered' /\ CloudHonest' /\ OnlyFailuresLeak'
  BY <1>1 DEF IInv, CallsInOrder, SuccessAnswered, CloudHonest, OnlyFailuresLeak
<1>5. StopsAtTheEnd' /\ ErrorMatchesResult'
  BY <1>1, <1>2 DEF IInv, StopsAtTheEnd, ErrorMatchesResult
<1> QED
  BY <1>3, <1>4, <1>5 DEF IInv

(* The first kii_core_run of a call.                                       *)
LEMMA RunReadyInvariant == ASSUME TypeOK, IInv, RunReady PROVE IInv'
<1>1. /\ state = "READY" /\ state' = "EXECUTE"
      /\ UNCHANGED <<http, buffer, response, calls, outcome, conns>>
  BY DEF RunReady
<1>2. StartsIdle' /\ NotConnectedYet' /\ CountsSent' /\ CountsReceived'
      /\ UsesOwnConnection' /\ BufferHoldsResponse'
  BY <1>1 DEF IInv, StartsIdle, NotConnectedYet, Unconnected, CountsSent,
     CountsReceived, UsesOwnConnection, BufferHoldsResponse
<1>3. CallsInOrder' /\ SuccessAnswered' /\ CloudHonest' /\ OnlyFailuresLeak'
  BY <1>1 DEF IInv, CallsInOrder, SuccessAnswered, CloudHonest, OnlyFailuresLeak
<1>4. StopsAtTheEnd' /\ ErrorMatchesResult'
  BY <1>1 DEF IInv, StopsAtTheEnd, ErrorMatchesResult
<1> QED
  BY <1>2, <1>3, <1>4 DEF IInv

(* The machine is wound back, whatever the last call left in it.           *)
LEMMA ExecIdleInvariant == ASSUME TypeOK, IInv, ExecIdle PROVE IInv'
<1>1. /\ state = "EXECUTE" /\ http.at = "IDLE"
      /\ UNCHANGED <<state, buffer, response, calls, outcome, conns>>
  BY DEF ExecIdle, Executing, Again
<1>2. /\ http'.at = "CONNECT" /\ http'.total = http.total /\ http'.error = "NONE"
      /\ http'.sent = 0 /\ http'.received = 0 /\ http'.length = 0
  BY DEF ExecIdle, Rewound, TypeOK, Machine
<1>3. StartsIdle' /\ NotConnectedYet' /\ CountsSent' /\ CountsReceived'
      /\ UsesOwnConnection' /\ BufferHoldsResponse'
  BY <1>1, <1>2 DEF IInv, StartsIdle, NotConnectedYet, Unconnected, CountsSent,
     CountsReceived, UsesOwnConnection, BufferHoldsResponse
<1>4. CloudHonest'
  BY <1>1 DEF IInv, CloudHonest
<1> QED
  BY <1>1, <1>3, <1>4, GoesOn DEF IInv

(* A connection of its own, or none.                                       *)
LEMMA ExecConnectInvariant == ASSUME TypeOK, IInv, ExecConnect PROVE IInv'
<1>1. CASE SocketError /\ Fault /\ UNCHANGED conns
  BY <1>1, SocketErrorInvariant DEF ExecConnect, Executing
<1> DEFINE new == [NoConn EXCEPT !.open = TRUE, !.asked = http.total,
                                 !.cloud = "reading"]
<1>2. CASE /\ http' = [http EXCEPT !.at = "SEND", !.sock = calls]
           /\ conns' = [conns EXCEPT ![calls] = new]
           /\ Again /\ Fine
  <2>1. /\ state = "EXECUTE" /\ http.at = "CONNECT" /\ calls \in Calls
        /\ UNCHANGED <<state, buffer, response, calls, outcome>>
    BY <1>2, ConstantTypes DEF ExecConnect, Executing, Again, IInv, StartsIdle, TypeOK, Calls
  <2>2. /\ http'.at = "SEND" /\ http'.sock = calls /\ http'.total = http.total
        /\ http'.error = http.error /\ http'.sent = 0
        /\ http'.received = 0 /\ http'.length = 0
    BY <1>2, <2>1 DEF TypeOK, Machine, IInv, NotConnectedYet
  <2>3. /\ new.open /\ new.asked = http.total /\ new.got = 0
        /\ new.cloud = "reading" /\ new.reply = NoReply /\ new.arrived = 0
    BY DEF NoConn
  <2>4. conns'[calls] = new /\ \A c \in Calls : c # calls => conns'[c] = conns[c]
    BY <1>2, <2>1 DEF TypeOK
  <2>5. StartsIdle' /\ NotConnectedYet' /\ UsesOwnConnection'
        /\ BufferHoldsResponse' /\ CountsReceived'
    BY <2>1, <2>2, <2>3, <2>4 DEF IInv, StartsIdle, NotConnectedYet, Unconnected,
       UsesOwnConnection, BufferHoldsResponse, CountsReceived, conn
  <2>6. CountsSent'
    BY <2>1, <2>2, <2>3, <2>4 DEF IInv, StartsIdle, CountsSent, Lost, conn
  <2>7. CloudHonest'
    <3> HIDE DEF new
    <3>1. \A c \in Calls : c = calls \/ conns'[c] = conns[c]
      BY <2>4
    <3>2. new.arrived <= new.reply.head + new.reply.body
      BY <2>3, NoConnFields
    <3> QED
      BY <2>3, <2>4, <3>1, <3>2 DEF IInv, CloudHonest
  <2> QED
    BY <2>1, <2>4, <2>5, <2>6, <2>7, GoesOn DEF IInv
<1> QED
  BY <1>1, <1>2 DEF ExecConnect

(* One more chunk of the request, as long as something of it is left.      *)
LEMMA ExecSendInvariant == ASSUME TypeOK, IInv, ExecSend PROVE IInv'
<1>0. /\ state = "EXECUTE" /\ http.at = "SEND" /\ calls \in Calls
      /\ UNCHANGED <<buffer, response, calls>>
      /\ http.sock = calls /\ conn.open /\ conn \in Conns
  BY ConstantTypes DEF ExecSend, Executing, IInv, StartsIdle, UsesOwnConnection,
     TypeOK, Calls, conn
<1>1. CASE SocketError /\ UNCHANGED conns
  BY <1>0, <1>1, SocketErrorInvariant
<1>2. CASE /\ http' = [http EXCEPT !.sent = @ + Chunk,
                      !.at = IF AllSent(http.sent + Chunk) THEN "RECV" ELSE @]
           /\ conns' = IF Lost THEN conns
                       ELSE [conns EXCEPT ![http.sock].got = @ + Chunk]
           /\ Again /\ Fine
  <2>1. http.sent < http.total /\ http.total \in Nat /\ http.sent \in Nat
    BY <1>0, MachineFields DEF IInv, CountsSent, TypeOK
  <2>2. Chunk \in Nat /\ http.sent + Chunk <= http.total
    BY <2>1, ConstantTypes DEF Chunk, Least
  <2>3. /\ http'.sent = http.sent + Chunk /\ http'.total = http.total
        /\ http'.at = IF http.sent + Chunk = http.total THEN "RECV" ELSE "SEND"
        /\ http'.error = http.error /\ http'.sock = http.sock
        /\ http'.received = 0 /\ http'.length = 0
    BY <1>0, <1>2 DEF AllSent, TypeOK, Machine, IInv, NotConnectedYet
  <2>4. /\ conns'[calls].got = IF Lost THEN conn.got ELSE conn.got + Chunk
        /\ \A f \in {"open", "asked", "cloud", "reply", "arrived"} :
             conns'[calls][f] = conn[f]
        /\ \A c \in Calls : c # calls => conns'[c] = conns[c]
    BY <1>0, <1>2 DEF TypeOK, Conns, conn
  <2>5. UNCHANGED state /\ UNCHANGED outcome
    BY <1>2 DEF Again
  <2>6. conn' = conns'[calls] /\ (Lost' <=> Lost)
    BY <1>0, <2>3, <2>4 DEF conn, Lost
  <2>7. StartsIdle' /\ NotConnectedYet' /\ UsesOwnConnection' /\ BufferHoldsResponse'
    BY <1>0, <2>3, <2>4, <2>5, <2>6 DEF IInv, StartsIdle, NotConnectedYet, Unconnected,
       UsesOwnConnection, BufferHoldsResponse
  <2>8. CountsSent'
    BY <1>0, <2>1, <2>2, <2>3, <2>4, <2>6 DEF IInv, CountsSent, Conns
  <2>9. CountsReceived'
    BY <1>0, <2>3, <2>4, <2>6 DEF CountsReceived, Conns
  <2>10. CloudHonest'
    BY <1>0, <2>4 DEF IInv, CloudHonest, conn
  <2> QED
    BY <1>0, <2>4, <2>5, <2>7, <2>8, <2>9, <2>10, GoesOn DEF IInv
<1> QED
  BY <1>1, <1>2 DEF ExecSend

(* The buffer is cleared and nothing else happens.                         *)
LEMMA RecvWaitsInvariant == ASSUME TypeOK, IInv, RecvWaits PROVE IInv'
<1>1. /\ state = "EXECUTE" /\ http.at = "RECV"
      /\ UNCHANGED <<state, http, response, calls, outcome, conns>>
      /\ http.received # 0 => UNCHANGED buffer
  BY DEF RecvWaits, Executing, Cleared
<1>2. StartsIdle' /\ NotConnectedYet' /\ CountsSent' /\ CountsReceived'
      /\ UsesOwnConnection' /\ CloudHonest'
  BY <1>1 DEF IInv, StartsIdle, NotConnectedYet, Unconnected, CountsSent,
     CountsReceived, UsesOwnConnection, CloudHonest, conn, Lost
<1>3. BufferHoldsResponse'
  BY <1>1 DEF IInv, BufferHoldsResponse
<1> QED
  BY <1>1, <1>2, <1>3, GoesOn DEF IInv

(* A response arrives behind what is there, up to its end or that of the   *)
(* stream.                                                                 *)
LEMMA ExecRecvInvariant == ASSUME TypeOK, IInv, ExecRecv PROVE IInv'
<1>0. /\ state = "EXECUTE" /\ http.at = "RECV" /\ calls \in Calls
      /\ UNCHANGED <<response, calls, conns>>
      /\ http.sock = calls /\ conn.open /\ conn \in Conns
  BY ConstantTypes DEF ExecRecv, Executing, IInv, StartsIdle, UsesOwnConnection,
     TypeOK, Calls, conn
<1>3. http.received \in Nat /\ conn.arrived \in Nat
  BY <1>0, MachineFields DEF TypeOK, Conns
<1>1. CASE SocketError
  BY <1>0, <1>1, SocketErrorInvariant
<1>2. ASSUME NEW k \in Readable, Received(k) PROVE IInv'
  <2> DEFINE n == http.received + k
  <2>1. /\ n \in 0..BufferSize /\ k \in Nat
        /\ \/ k = 0 /\ conn.arrived = http.received /\ conn.cloud = "closed"
           \/ k > 0 /\ n <= conn.arrived
    BY <1>0, <1>3, ReadableTypes, ConstantTypes
  <2>2. CASE /\ http' = [http EXCEPT !.received = n, !.error = "INSUFFICIENT_BUFFER"]
             /\ Finish("failed")
    <3>1. http'.error = "INSUFFICIENT_BUFFER"
      BY <2>2 DEF TypeOK, Machine
    <3> QED
      BY <1>0, <2>2, <3>1, Fails
  <2>3. CASE /\ ~Overflows(n)
             /\ http' = IF Complete(Scanned(n), k)
                        THEN [Scanned(n) EXCEPT !.at = "CLOSE"] ELSE Scanned(n)
             /\ Again
    <3>1. UNCHANGED state /\ UNCHANGED outcome /\ n < BufferSize
      BY <2>1, <2>3, ConstantTypes DEF Again, Overflows
    <3>2. /\ http'.received = n /\ http'.sock = calls /\ http'.error = http.error
          /\ http'.sent = http.sent /\ http'.total = http.total
          /\ http'.length = Scanned(n).length
          /\ http'.at \in {"RECV", "CLOSE"}
          /\ http'.at = "CLOSE" => Complete(Scanned(n), k)
      BY <1>0, <2>1, <2>3, ScannedTypes DEF Machine
    <3>3. conn' = conn /\ (Lost' <=> Lost)
      BY <1>0, <3>2 DEF conn, Lost
    <3>4. StartsIdle' /\ NotConnectedYet' /\ UsesOwnConnection' /\ CountsSent'
      BY <1>0, <3>1, <3>2, <3>3 DEF IInv, StartsIdle, NotConnectedYet, Unconnected,
         UsesOwnConnection, CountsSent
    <3>5. BufferHoldsResponse'
      <4>1. \A i \in 0..BufferSize - 1 :
              Cleared[i] = IF i < http.received THEN "response" ELSE "nul"
        BY <1>0, <1>3 DEF IInv, BufferHoldsResponse, Cleared, AllNul
      <4>2. buffer' = [i \in 0..BufferSize - 1 |->
              IF i \in http.received..n - 1 THEN "response" ELSE Cleared[i]]
        BY <1>2 DEF Received
      <4>3. \A i \in 0..BufferSize - 1 :
              buffer'[i] = IF i < n THEN "response" ELSE "nul"
        BY <1>3, <2>1, <4>1, <4>2, ConstantTypes
      <4> QED
        BY <3>1, <3>2, <4>3 DEF BufferHoldsResponse
    <3>6. http'.length > 0 => http'.length = conn.reply.head + conn.reply.body
      <4>1. conn.reply \in Replies => conn.reply.announced \in {0, conn.reply.body}
        BY HttpAssumption
      <4>2. conn.reply \in Replies \/ conn.reply.announced = 0
        BY <1>0, NoConnFields DEF Conns
      <4>3. Scanned(n).length = http.length
            \/ (conn.reply.announced > 0
                /\ Scanned(n).length = conn.reply.head + conn.reply.announced)
        BY <1>0, <2>1, ScannedTypes
      <4>4. http.length > 0 => http.length = conn.reply.head + conn.reply.body
        BY <1>0 DEF IInv, CountsReceived
      <4> QED
        BY <1>0, <3>2, <4>1, <4>2, <4>3, <4>4, ConnTypes
    <3>7. CountsReceived'
      <4>1. n <= conn.arrived
        BY <1>3, <2>1
      <4>2. Complete(Scanned(n), k) =>
              (http'.length > 0 /\ n >= http'.length)
              \/ (conn.cloud = "closed" /\ n = conn.arrived)
        BY <1>0, <1>3, <2>1, <3>2, ScannedTypes DEF Complete
      <4> QED
        BY <3>2, <3>3, <3>6, <4>1, <4>2 DEF CountsReceived
    <3>8. CloudHonest'
      BY <1>0 DEF IInv, CloudHonest
    <3> QED
      BY <1>0, <3>1, <3>4, <3>5, <3>7, <3>8, GoesOn DEF IInv
  <2> QED
    BY <1>2, <2>2, <2>3 DEF Received
<1> QED
  BY <1>1, <1>2 DEF ExecRecv

(* The call is over: with the answer of its own connection, or failed.     *)
LEMMA ExecCloseInvariant == ASSUME TypeOK, IInv, ExecClose PROVE IInv'
<1>0. /\ state = "EXECUTE" /\ http.at = "CLOSE" /\ calls \in Calls
      /\ UNCHANGED calls /\ http.sock = calls /\ conn \in Conns
      /\ UNCHANGED conns \/ conns' = Closed
  BY ConstantTypes DEF ExecClose, Executing, IInv, StartsIdle, UsesOwnConnection,
     TypeOK, Calls, conn
<1>1. CASE SocketError
  BY <1>0, <1>1, SocketErrorInvariant
<1>2. ASSUME NEW code, InvalidResponse(code) PROVE IInv'
  <2>1. http'.error = "INVALID_RESPONSE" /\ Finish("failed")
    BY <1>2 DEF InvalidResponse, TypeOK, Machine
  <2> QED
    BY <1>0, <2>1, Fails
<1>3. CASE /\ conns' = Closed /\ StatusRead /\ response' = Answer
           /\ http' = [http EXCEPT !.at = "IDLE"] /\ Finish("ok")
  <2>1. /\ state' = "IDLE" /\ outcome'[calls] = "ok"
        /\ \A c \in Calls : c # calls => outcome'[c] = outcome[c]
    BY <1>0, <1>3 DEF Finish, TypeOK
  <2>2. /\ http'.error = "NONE" /\ http'.received = http.received
        /\ http'.at = "IDLE"
    BY <1>0, <1>3 DEF TypeOK, Machine, IInv, StartsIdle
  <2>3. /\ conns'[calls].open = FALSE
        /\ \A f \in {"cloud", "reply", "arrived"} : conns'[calls][f] = conn[f]
        /\ \A c \in Calls : c # calls => conns'[c] = conns[c]
    BY <1>0, <1>3, ClosedTypes DEF Conns
  <2>4. StartsIdle' /\ NotConnectedYet' /\ CountsSent' /\ CountsReceived'
        /\ UsesOwnConnection' /\ BufferHoldsResponse'
    BY <2>1 DEF StartsIdle, NotConnectedYet, Unconnected, CountsSent, CountsReceived,
       UsesOwnConnection, BufferHoldsResponse
  <2>5. CallsInOrder'
    BY <1>0, <2>1, <2>3, ConstantTypes DEF IInv, CallsInOrder, Calls, TypeOK
  <2>6. CloudHonest'
    BY <1>0, <2>3 DEF IInv, CloudHonest, conn
  <2>7. SuccessAnswered'
    <3>1. conn.reply # NoReply
      BY <1>3, NoConnFields DEF StatusRead, StatusKnown
    <3>2. response'.code = conn.reply.code
      BY <1>0, <1>3, AnswerTypes
    <3>3. \A c \in Calls : outcome'[c] = "ok" /\ c # calls =>
            ~conns'[c].open /\ conns'[c].reply # NoReply
      BY <2>1, <2>3 DEF IInv, SuccessAnswered
    <3> QED
      BY <1>0, <2>3, <3>1, <3>2, <3>3 DEF SuccessAnswered
  <2>8. StopsAtTheEnd'
    <3>1. \/ conn.cloud = "closed" /\ http.received = conn.arrived
          \/ http.received = conn.reply.head + conn.reply.body
      <4>1. conn.arrived \in Nat /\ conn.reply.head + conn.reply.body \in Nat
        BY <1>0, ConnTypes DEF Conns
      <4>3. http.received \in Nat /\ http.length \in Nat
        BY MachineFields DEF TypeOK
      <4>2. conn.arrived <= conn.reply.head + conn.reply.body
        BY <1>0 DEF IInv, CloudHonest, conn
      <4> QED
        BY <1>0, <4>1, <4>2, <4>3 DEF IInv, CountsReceived
    <3> QED
      BY <1>0, <2>2, <2>3, <3>1 DEF StopsAtTheEnd
  <2>9. OnlyFailuresLeak' /\ ErrorMatchesResult'
    BY <1>0, <2>1, <2>2, <2>3 DEF IInv, OnlyFailuresLeak, ErrorMatchesResult
  <2> QED
    BY <2>4, <2>5, <2>6, <2>7, <2>8, <2>9 DEF IInv
<1> QED
  BY <1>1, <1>2, <1>3 DEF ExecClose

(* The cloud and the network never take back what was read.                *)
LEMMA CloudInvariant ==
  ASSUME TypeOK, IInv, NEW c \in Calls,
         CloudAnswers(c) \/ CloudCloses(c) \/ LoseConnection(c)
  PROVE  IInv'
<1>0. conns[c] \in Conns /\ UNCHANGED <<state, http, buffer, response, calls, outcome>>
  BY DEF TypeOK, CloudAnswers, CloudCloses, LoseConnection, OnlyConns
<1>1. conns[c].cloud \in {"reading", "answered"} /\ c <= calls
  <2>1. conns[c].cloud \in {"reading", "answered"}
    BY DEF CloudAnswers, CloudCloses, LoseConnection
  <2> QED
    BY <2>1, NoConnFields DEF IInv, CallsInOrder, TypeOK, Calls
<1>2. /\ \A d \in Calls : d # c => conns'[d] = conns[d]
      /\ \A f \in {"open", "asked", "got"} : conns'[c][f] = conns[c][f]
      /\ conns'[c].cloud \in {"answered", "closed", "reset"}
      /\ \/ /\ conns[c].cloud = "reading" /\ conns'[c].reply \in Replies
            /\ conns'[c].arrived = conns'[c].reply.head + conns'[c].reply.body
         \/ /\ conns[c].cloud = "answered" /\ conns'[c].cloud = "closed"
            /\ \A f \in {"reply", "arrived"} : conns'[c][f] = conns[c][f]
         \/ /\ conns[c].open /\ conns'[c].reply = conns[c].reply
            /\ conns'[c].arrived \in 0..conns[c].arrived
            /\ c = http.sock => conns'[c].arrived >= http.received
  <2>1. CASE CloudAnswers(c)
    <3>1. PICK r \in Replies :
            conns' = [conns EXCEPT ![c].cloud = "answered", ![c].reply = r,
                                   ![c].arrived = r.head + r.body]
      BY <2>1 DEF CloudAnswers
    <3>2. conns'[c] = [conns[c] EXCEPT !.cloud = "answered", !.reply = r,
                                       !.arrived = r.head + r.body]
          /\ \A d \in Calls : d # c => conns'[d] = conns[d]
      BY <3>1 DEF TypeOK
    <3> QED
      BY <1>0, <2>1, <3>2 DEF CloudAnswers, Conns
  <2>2. CASE CloudCloses(c)
    BY <1>0, <2>2 DEF CloudCloses, TypeOK, Conns
  <2>3. CASE LoseConnection(c)
    <3>1. PICK n \in 0..conns[c].arrived, how \in {"closed", "reset"} :
            /\ c = http.sock => n >= http.received
            /\ conns' = [conns EXCEPT ![c].cloud = how, ![c].arrived = n]
      BY <2>3 DEF LoseConnection
    <3>2. conns'[c] = [conns[c] EXCEPT !.cloud = how, !.arrived = n]
          /\ \A d \in Calls : d # c => conns'[d] = conns[d]
      BY <3>1 DEF TypeOK
    <3>3. /\ conns'[c].cloud = how /\ conns'[c].arrived = n
          /\ \A f \in {"open", "asked", "got", "reply"} : conns'[c][f] = conns[c][f]
      BY <1>0, <3>2 DEF Conns
    <3>4. conns[c].open
      BY <2>3 DEF LoseConnection
    <3> QED
      BY <3>1, <3>2, <3>3, <3>4
  <2> QED
    BY <2>1, <2>2, <2>3
<1>3. /\ conns[c].arrived \in Nat /\ conns'[c].arrived \in Nat
      /\ conns[c].reply.head + conns[c].reply.body \in Nat
      /\ conns'[c].reply.head + conns'[c].reply.body \in Nat
      /\ http.received \in Nat /\ http.length \in Nat
  <2>1. conns[c].arrived \in Nat /\ conns[c].reply \in Replies \cup {NoReply}
    BY <1>0 DEF Conns
  <2>2. conns'[c].reply \in Replies \cup {NoReply}
    BY <1>2, <2>1
  <2>3. /\ conns[c].reply.head + conns[c].reply.body \in Nat
        /\ conns'[c].reply.head + conns'[c].reply.body \in Nat
    BY <2>1, <2>2, ReplyTypes
  <2> QED
    BY <1>2, <2>1, <2>3, MachineFields DEF TypeOK
<1>4. conns[c].cloud = "reading" => conns[c].reply = NoReply /\ conns[c].arrived = 0
  BY DEF IInv, CloudHonest
<1>5. StartsIdle' /\ BufferHoldsResponse' /\ ErrorMatchesResult'
  BY <1>0 DEF IInv, StartsIdle, BufferHoldsResponse, ErrorMatchesResult
<1>6. CallsInOrder'
  BY <1>0, <1>1, <1>2 DEF IInv, CallsInOrder, TypeOK, Calls
<1>7. SuccessAnswered'
  BY <1>0, <1>2, <1>4 DEF IInv, SuccessAnswered
<1>8. NotConnectedYet'
  <2>1. Unconnected => calls \in Calls
    BY ConstantTypes DEF Unconnected, IInv, StartsIdle, TypeOK, Calls
  <2>2. Unconnected => c # calls
    BY <1>1, NoConnFields DEF IInv, NotConnectedYet
  <2> QED
    BY <1>0, <1>2, <2>1, <2>2 DEF IInv, NotConnectedYet, Unconnected
<1>9. CloudHonest'
  BY <1>0, <1>2, <1>3 DEF IInv, CloudHonest
<1>10. state = "EXECUTE" /\ http.at \in {"SEND", "RECV", "CLOSE"} => http.sock \in Calls
  BY ConstantTypes DEF IInv, StartsIdle, UsesOwnConnection, TypeOK, Calls
<1>11. ASSUME http.sock = c PROVE CountsSent' /\ UsesOwnConnection' /\ CountsReceived'
  <2>1. conn = conns[c] /\ conn' = conns'[c]
    BY <1>0, <1>11 DEF conn
  <2>2. CountsSent' /\ UsesOwnConnection'
    BY <1>0, <1>1, <1>2, <2>1 DEF IInv, CountsSent, UsesOwnConnection, Lost
  <2>3. CountsReceived'
    BY <1>0, <1>1, <1>2, <1>3, <1>4, <1>11, <2>1, NoConnFields
       DEF IInv, CountsReceived, CloudHonest
  <2> QED
    BY <2>2, <2>3
<1>12. ASSUME http.sock # c PROVE CountsSent' /\ UsesOwnConnection' /\ CountsReceived'
  <2>1. http.sock \in Calls => conn' = conn
    BY <1>0, <1>2, <1>12 DEF conn
  <2>2. CountsSent' /\ UsesOwnConnection' /\ CountsReceived'
    BY <1>0, <1>10, <2>1 DEF IInv, CountsSent, UsesOwnConnection, CountsReceived, Lost
  <2> QED
    BY <2>2
<1>13. StopsAtTheEnd'
  BY <1>0, <1>1, <1>2, <1>4 DEF IInv, StopsAtTheEnd, SuccessAnswered
<1>14. OnlyFailuresLeak'
  BY <1>0, <1>2 DEF IInv, OnlyFailuresLeak
<1> QED
  BY <1>5, <1>6, <1>7, <1>8, <1>9, <1>11, <1>12, <1>13, <1>14 DEF IInv

(* Every step keeps the invariant.                                         *)
LEMMA NextInvariant == ASSUME TypeOK, IInv, [Next]_vars PROVE IInv'
<1>1. CASE UNCHANGED vars
  BY <1>1 DEF vars, IInv, StartsIdle, CallsInOrder, SuccessAnswered, NotConnectedYet,
     Unconnected, CloudHonest, CountsSent, CountsReceived, UsesOwnConnection,
     BufferHoldsResponse, StopsAtTheEnd, OnlyFailuresLeak, ErrorMatchesResult, conn, Lost
<1>2. CASE Run
  BY <1>2, RunReadyInvariant, ExecIdleInvariant, ExecConnectInvariant,
     ExecSendInvariant, ExecRecvInvariant, RecvWaitsInvariant, ExecCloseInvariant DEF Run
<1> QED
  BY <1>1, <1>2, PrepareInvariant, PrepareFailsInvariant, CloudInvariant DEF Next, Cloud

-----------------------------------------------------------------------------
(* The theorems.                                                           *)

(* Types hold and IInv is an invariant of every behaviour: counters stay   *)
(* inside the buffer, and what a step of prv_kii_http_execute relies on is *)
(* what the steps and the calls before it left.                            *)
THEOREM InvariantCorrect == Spec => [](TypeOK /\ IInv)
<1>1. Init => TypeOK /\ IInv
  BY InitTypes, InitInvariant
<1>2. TypeOK /\ IInv /\ [Next]_vars => (TypeOK /\ IInv)'
  BY NextTypes, NextInvariant
<1> QED
  BY <1>1, <1>2, PTL DEF Spec

(* Every position and count of the HTTP client stays within the buffer and *)
(* within the request, in every call and after every failure.              *)
THEOREM TypeCorrect == Spec => []TypeOK
BY InvariantCorrect, PTL

(* A call never goes on with the socket of an earlier one, nor closes its  *)
(* own twice (kii_core.c:388-389).                                         *)
THEOREM UsesOwnConnectionCorrect == Spec => []UsesOwnConnection
<1>1. IInv => UsesOwnConnection
  BY DEF IInv
<1> QED
  BY <1>1, InvariantCorrect, PTL

(* What is parsed is the response and a NUL inside the buffer, whatever    *)
(* chunks it came in (kii_core.c:235-241, 253).                            *)
THEOREM BufferHoldsResponseCorrect == Spec => []BufferHoldsResponse
<1>1. IInv => BufferHoldsResponse
  BY DEF IInv
<1> QED
  BY <1>1, InvariantCorrect, PTL

(* The cloud has the whole request before the client reads: CountsSent     *)
(* says that the bytes counted are the bytes handed over.                  *)
THEOREM WholeRequestSentCorrect == Spec => []WholeRequestSent
<1>1. TypeOK /\ IInv => WholeRequestSent
  BY DEF IInv, CountsSent, WholeRequestSent
<1> QED
  BY <1>1, InvariantCorrect, PTL

(* A successful call read to the end of its response or of its stream.     *)
THEOREM StopsAtTheEndCorrect == Spec => []StopsAtTheEnd
<1>1. IInv => StopsAtTheEnd
  BY DEF IInv
<1> QED
  BY <1>1, InvariantCorrect, PTL

(* Sockets are lost by calls that failed and by no other.                  *)
THEOREM OnlyFailuresLeakCorrect == Spec => []OnlyFailuresLeak
<1>1. IInv => OnlyFailuresLeak
  BY DEF IInv
<1> QED
  BY <1>1, InvariantCorrect, PTL

(* http_error agrees with the result of the last call.                     *)
THEOREM ErrorMatchesResultCorrect == Spec => []ErrorMatchesResult
<1>1. IInv => ErrorMatchesResult
  BY DEF IInv
<1> QED
  BY <1>1, InvariantCorrect, PTL

-----------------------------------------------------------------------------
(* The client implements RemoteCall.                                       *)

(* In a reachable state, what a caller was given is what the cloud gave.   *)
LEMMA GivenIsCarried ==
  ASSUME IInv
  PROVE  Given = [c \in Calls |-> IF outcome[c] = "ok" THEN Carried[c] ELSE 0]
BY DEF IInv, SuccessAnswered, Given, Carried

(* Nothing the abstract call knows of has changed.                         *)
LEMMA Stutters ==
  ASSUME IInv, IInv', UNCHANGED outcome,
         \A c \in Calls : conns'[c].reply = conns[c].reply
  PROVE  UNCHANGED <<outcome, Carried, Given>>
<1>1. UNCHANGED Carried
  BY DEF Carried
<1>2. Given' = [c \in Calls |-> IF outcome'[c] = "ok" THEN Carried'[c] ELSE 0]
  BY DEF IInv, SuccessAnswered, Given, Carried
<1> QED
  BY <1>1, <1>2, GivenIsCarried

(* A failure of kii_core_run.                                              *)
LEMMA FailsAbstractly ==
  ASSUME TypeOK, IInv, IInv', state = "EXECUTE", Finish("failed"),
         \A c \in Calls : conns'[c].reply = conns[c].reply
  PROVE  Cloudy!Next
<1>1. calls \in Calls /\ outcome[calls] = "pending"
  BY ConstantTypes DEF TypeOK, IInv, StartsIdle, CallsInOrder, Calls
<1>2. outcome' = [outcome EXCEPT ![calls] = "failed"]
  BY DEF Finish
<1>3. UNCHANGED Carried
  BY DEF Carried
<1>4. Given' = [c \in Calls |-> IF outcome'[c] = "ok" THEN Carried'[c] ELSE 0]
  BY DEF IInv, SuccessAnswered, Given, Carried
<1>5. UNCHANGED Given
  BY <1>1, <1>2, <1>3, <1>4, GivenIsCarried DEF TypeOK
<1>6. Cloudy!Fail(calls)
  BY <1>1, <1>2, <1>3, <1>5 DEF Cloudy!Fail
<1> QED
  BY <1>1, <1>6 DEF Cloudy!Next, Cloudy!Calls, Calls

(* Success hands out the code of the call's own reply.                     *)
LEMMA SucceedsAbstractly ==
  ASSUME TypeOK, IInv, IInv', state = "EXECUTE", Finish("ok"), UNCHANGED calls,
         \A c \in Calls : conns'[c].reply = conns[c].reply
  PROVE  Cloudy!Next
<1>1. calls \in Calls /\ outcome[calls] = "pending"
  BY ConstantTypes DEF TypeOK, IInv, StartsIdle, CallsInOrder, Calls
<1>2. outcome' = [outcome EXCEPT ![calls] = "ok"] /\ outcome'[calls] = "ok"
  BY <1>1 DEF Finish, TypeOK
<1>3. UNCHANGED Carried
  BY DEF Carried
<1>4. Given' = [c \in Calls |-> IF outcome'[c] = "ok" THEN Carried'[c] ELSE 0]
  BY DEF IInv, SuccessAnswered, Given, Carried
<1>5. Given' = [Given EXCEPT ![calls] = Carried[calls]]
  BY <1>1, <1>2, <1>3, <1>4, GivenIsCarried DEF TypeOK
<1>6. Carried[calls] # 0
  <2>1. conns[calls].reply \in Replies
    BY <1>1, <1>2 DEF IInv, SuccessAnswered, TypeOK, Conns
  <2> QED
    BY <1>1, <2>1, HttpAssumption DEF Carried
<1>7. Cloudy!Succeed(calls)
  BY <1>1, <1>2, <1>3, <1>5, <1>6 DEF Cloudy!Succeed
<1> QED
  BY <1>1, <1>7 DEF Cloudy!Next, Cloudy!Calls, Calls

(* Preparing a request begins a call.                                      *)
LEMMA BeginsAbstractly ==
  ASSUME TypeOK, IInv, IInv', Prepare
  PROVE  Cloudy!Next
<1>1. calls' = calls + 1 /\ calls' \in Calls /\ calls \in Nat
      /\ state = "IDLE" /\ UNCHANGED conns
      /\ outcome' = [outcome EXCEPT ![calls'] = "pending"]
  BY ConstantTypes DEF Prepare, TypeOK, Calls
<1>2. outcome[calls'] = "new" /\ \A d \in Calls : outcome[d] # "pending"
      /\ (d < calls' => outcome[d] # "new")
  BY <1>1 DEF IInv, CallsInOrder, Calls
<1>3. UNCHANGED Carried
  BY <1>1 DEF Carried
<1>4. Given' = [c \in Calls |-> IF outcome'[c] = "ok" THEN Carried'[c] ELSE 0]
  BY DEF IInv, SuccessAnswered, Given, Carried
<1>5. UNCHANGED Given
  BY <1>1, <1>2, <1>3, <1>4, GivenIsCarried DEF TypeOK
<1>6. Cloudy!Begin(calls')
  BY <1>1, <1>2, <1>3, <1>5 DEF Cloudy!Begin, Cloudy!Calls, Calls
<1> QED
  BY <1>1, <1>6 DEF Cloudy!Next, Cloudy!Calls, Calls

(* The cloud carries a call out, if need be after it has failed.           *)
LEMMA CarriesOutAbstractly ==
  ASSUME TypeOK, IInv, IInv', NEW c \in Calls, CloudAnswers(c)
  PROVE  Cloudy!Next
<1>1. PICK r \in Replies :
        conns' = [conns EXCEPT ![c].cloud = "answered", ![c].reply = r,
                               ![c].arrived = r.head + r.body]
  BY DEF CloudAnswers
<1>2. UNCHANGED outcome /\ conns[c].cloud = "reading" /\ conns[c].reply = NoReply
  BY DEF CloudAnswers, OnlyConns, IInv, CloudHonest
<1>3. outcome[c] # "new" /\ outcome[c] # "ok"
  BY <1>2, NoConnFields DEF IInv, CallsInOrder, SuccessAnswered, TypeOK, Calls
<1>4. Carried' = [Carried EXCEPT ![c] = r.code]
  BY ZenonT(30), <1>1 DEF Carried, TypeOK, Conns
<1>5. Given' = [d \in Calls |-> IF outcome'[d] = "ok" THEN Carried'[d] ELSE 0]
  BY DEF IInv, SuccessAnswered, Given, Carried
<1>6. UNCHANGED Given
  BY <1>2, <1>3, <1>4, <1>5, GivenIsCarried DEF Carried
<1>7. Carried[c] = 0
  BY <1>2, NoConnFields DEF Carried
<1>8. Cloudy!CarryOut(c)
  BY <1>2, <1>3, <1>4, <1>6, <1>7 DEF Cloudy!CarryOut
<1> QED
  BY <1>8 DEF Cloudy!Next, Cloudy!Calls, Calls

(* A step of kii_core_run goes on, fails the call or completes it.         *)
LEMMA RunAbstractly ==
  ASSUME TypeOK, IInv, IInv', Run
  PROVE  Cloudy!Next \/ UNCHANGED <<outcome, Carried, Given>>
<1>1. state = "EXECUTE" => calls \in Calls
  BY ConstantTypes DEF TypeOK, IInv, StartsIdle, Calls
<1>2. CASE RunReady \/ ExecIdle \/ RecvWaits
  BY <1>2, Stutters DEF RunReady, ExecIdle, RecvWaits, Again
<1>3. CASE ExecConnect
  <2>1. \A c \in Calls : conns'[c].reply = conns[c].reply
    <3> DEFINE new == [NoConn EXCEPT !.open = TRUE, !.asked = http.total,
                                     !.cloud = "reading"]
    <3>1. new.reply = NoReply
      BY DEF NoConn
    <3>2. conns[calls] = NoConn
      BY <1>3 DEF ExecConnect, Executing, IInv, NotConnectedYet, Unconnected
    <3>3. UNCHANGED conns \/ conns' = [conns EXCEPT ![calls] = new]
      BY <1>3 DEF ExecConnect
    <3> HIDE DEF new
    <3> QED
      BY <3>1, <3>2, <3>3, NoConnFields DEF TypeOK
  <2>2. CASE UNCHANGED outcome
    BY <2>1, <2>2, Stutters
  <2>3. CASE Finish("failed")
    BY <1>3, <2>1, <2>3, FailsAbstractly DEF ExecConnect, Executing
  <2> QED
    BY <1>3, <2>2, <2>3 DEF ExecConnect, SocketError, Again
<1>4. CASE ExecSend
  <2>1. \A c \in Calls : conns'[c].reply = conns[c].reply
    <3>1. UNCHANGED conns \/ conns' = [conns EXCEPT ![http.sock].got = @ + Chunk]
      BY <1>4 DEF ExecSend
    <3>2. \A c \in Calls : conns[c] \in Conns
      BY DEF TypeOK
    <3>3. \A c \in Calls : conns'[c] = conns[c]
            \/ conns'[c] = [conns[c] EXCEPT !.got = @ + Chunk]
      BY <3>1 DEF TypeOK
    <3> QED
      BY <3>2, <3>3 DEF Conns
  <2>2. CASE UNCHANGED outcome
    BY <2>1, <2>2, Stutters
  <2>3. CASE Finish("failed")
    BY <1>4, <2>1, <2>3, FailsAbstractly DEF ExecSend, Executing
  <2> QED
    BY <1>4, <2>2, <2>3 DEF ExecSend, SocketError, Again
<1>5. CASE ExecRecv
  <2>1. \A c \in Calls : conns'[c].reply = conns[c].reply
    BY <1>5 DEF ExecRecv
  <2>2. CASE UNCHANGED outcome
    BY <2>1, <2>2, Stutters
  <2>3. CASE Finish("failed")
    BY <1>5, <2>1, <2>3, FailsAbstractly DEF ExecRecv, Executing
  <2> QED
    BY <1>5, <2>2, <2>3 DEF ExecRecv, Received, SocketError, Again
<1>6. CASE ExecClose
  <2>1. \A c \in Calls : conns'[c].reply = conns[c].reply
    <3>1. UNCHANGED conns \/ conns' = Closed
      BY <1>6 DEF ExecClose
    <3>2. \A c \in Calls : conns[c] \in Conns
      BY DEF TypeOK
    <3>3. \A c \in Calls : conns'[c] = conns[c]
            \/ conns'[c] = [conns[c] EXCEPT !.open = FALSE]
      BY <3>1, ClosedTypes DEF conn
    <3> QED
      BY <3>2, <3>3 DEF Conns
  <2>2. CASE Finish("failed")
    BY <1>6, <2>1, <2>2, FailsAbstractly DEF ExecClose, Executing
  <2>3. CASE Finish("ok")
    BY <1>6, <2>1, <2>3, SucceedsAbstractly DEF ExecClose, Executing
  <2> QED
    BY <1>6, <2>2, <2>3 DEF ExecClose, InvalidResponse, SocketError
<1> QED
  BY <1>2, <1>3, <1>4, <1>5, <1>6 DEF Run

(* Every step of the client is one of RemoteCall or none.                  *)
LEMMA NextAbstractly ==
  ASSUME TypeOK, IInv, IInv', [Next]_vars
  PROVE  Cloudy!Next \/ UNCHANGED <<outcome, Carried, Given>>
<1>1. CASE UNCHANGED vars
  BY <1>1, Stutters DEF vars
<1>2. CASE PrepareFails
  BY <1>2, Stutters DEF PrepareFails
<1>3. ASSUME NEW c \in Calls, CloudCloses(c) \/ LoseConnection(c)
      PROVE  UNCHANGED <<outcome, Carried, Given>>
  <2>1. UNCHANGED outcome /\ \A d \in Calls : conns'[d].reply = conns[d].reply
    <3>1. UNCHANGED outcome /\ \A d \in Calls : conns[d] \in Conns
      BY <1>3 DEF CloudCloses, LoseConnection, OnlyConns, TypeOK
    <3>2. CASE CloudCloses(c)
      BY <3>1, <3>2 DEF CloudCloses, TypeOK, Conns
    <3>3. CASE LoseConnection(c)
      <4>1. PICK n \in 0..conns[c].arrived, how \in {"closed", "reset"} :
              conns' = [conns EXCEPT ![c].cloud = how, ![c].arrived = n]
        BY <3>3 DEF LoseConnection
      <4>2. conns'[c] = [conns[c] EXCEPT !.cloud = how, !.arrived = n]
            /\ \A d \in Calls : d # c => conns'[d] = conns[d]
        BY <4>1 DEF TypeOK
      <4> QED
        BY <3>1, <4>2 DEF Conns
    <3> QED
      BY <1>3, <3>2, <3>3
  <2> QED
    BY <2>1, Stutters
<1> QED
  BY <1>1, <1>2, <1>3, BeginsAbstractly, RunAbstractly, CarriesOutAbstractly
     DEF Next, Cloud

(* Over any sequence of calls the client is at-most-once: a call that      *)
(* succeeds was carried out and returns the cloud's own status code for    *)
(* it, whatever failed, leaked or arrived late before.                     *)
THEOREM ImplementsRemoteCallCorrect == Spec => ImplementsRemoteCall
<1>1. Init => Cloudy!Init
  BY NoConnFields DEF Init, Cloudy!Init, Cloudy!Calls, Calls, Carried, Given
<1>2. TypeOK /\ IInv /\ (TypeOK /\ IInv)' /\ [Next]_vars
        => [Cloudy!Next]_<<outcome, Carried, Given>>
  BY NextAbstractly
<1> QED
  BY <1>1, <1>2, InvariantCorrect, PTL DEF Spec, ImplementsRemoteCall, Cloudy!Spec

(* What that promises a caller: the code it is given by a call that        *)
(* succeeds is the one the cloud gave to that very call, and the cloud     *)
(* carried it out.                                                         *)
SuccessIsOwn ==
  \A c \in Calls : outcome[c] = "ok" => Carried[c] # 0 /\ Given[c] = Carried[c]

(* A step of the abstract call changes neither code of one that succeeded. *)
LEMMA AbstractStepOwn ==
  ASSUME TypeOK, TypeOK', SuccessIsOwn, [Cloudy!Next]_<<outcome, Carried, Given>>
  PROVE  SuccessIsOwn'
<1> DEFINE carried == Carried
           given == Given
<1>1. /\ outcome \in [Calls -> {"new", "pending", "ok", "failed"}]
      /\ DOMAIN carried = Calls /\ DOMAIN given = Calls
  BY DEF TypeOK, Carried, Given
<1>2. \A c \in Calls : outcome[c] = "ok" => carried[c] # 0 /\ given[c] = carried[c]
  BY DEF SuccessIsOwn
<1>3. CASE UNCHANGED <<outcome, Carried, Given>>
  BY <1>2, <1>3 DEF SuccessIsOwn
<1>4. ASSUME NEW c \in Calls, Cloudy!Begin(c)
      PROVE  SuccessIsOwn'
  <2>1. outcome' = [outcome EXCEPT ![c] = "pending"] /\ carried' = carried /\ given' = given
    BY <1>4 DEF Cloudy!Begin
  <2> HIDE DEF carried, given
  <2>2. \A d \in Calls : outcome'[d] = "ok" => carried'[d] # 0 /\ given'[d] = carried'[d]
    BY <1>1, <1>2, <2>1
  <2> QED
    BY <2>2 DEF SuccessIsOwn, carried, given
<1>5. ASSUME NEW c \in Calls, Cloudy!CarryOut(c)
      PROVE  SuccessIsOwn'
  <2>1. /\ carried[c] = 0 /\ outcome' = outcome /\ given' = given
        /\ \E code : carried' = [carried EXCEPT ![c] = code]
    BY <1>5 DEF Cloudy!CarryOut
  <2> HIDE DEF carried, given
  <2>2. \A d \in Calls : outcome'[d] = "ok" => carried'[d] # 0 /\ given'[d] = carried'[d]
    BY <1>1, <1>2, <2>1
  <2> QED
    BY <2>2 DEF SuccessIsOwn, carried, given
<1>6. ASSUME NEW c \in Calls, Cloudy!Succeed(c)
      PROVE  SuccessIsOwn'
  <2>1. /\ carried[c] # 0 /\ carried' = carried
        /\ outcome' = [outcome EXCEPT ![c] = "ok"]
        /\ given' = [given EXCEPT ![c] = carried[c]]
    BY <1>6 DEF Cloudy!Succeed
  <2> HIDE DEF carried, given
  <2>2. \A d \in Calls : outcome'[d] = "ok" => carried'[d] # 0 /\ given'[d] = carried'[d]
    BY <1>1, <1>2, <2>1
  <2> QED
    BY <2>2 DEF SuccessIsOwn, carried, given
<1>7. ASSUME NEW c \in Calls, Cloudy!Fail(c)
      PROVE  SuccessIsOwn'
  <2>1. /\ outcome' = [outcome EXCEPT ![c] = "failed"] /\ carried' = carried /\ given' = given
    BY <1>7 DEF Cloudy!Fail
  <2> HIDE DEF carried, given
  <2>2. \A d \in Calls : outcome'[d] = "ok" => carried'[d] # 0 /\ given'[d] = carried'[d]
    BY <1>1, <1>2, <2>1
  <2> QED
    BY <2>2 DEF SuccessIsOwn, carried, given
<1> QED
  BY <1>3, <1>4, <1>5, <1>6, <1>7 DEF Cloudy!Next, Cloudy!Calls, Calls

(* A call that returns success was carried out by the cloud, and the       *)
(* response_code its caller reads is the answer to it and to no other      *)
(* (kii_core.c:157-391), however many calls failed or were answered late   *)
(* before.                                                                 *)
THEOREM SuccessIsOwnCorrect == Spec => []SuccessIsOwn
<1>1. Init => SuccessIsOwn
  BY DEF Init, SuccessIsOwn
<1>2. TypeOK /\ IInv /\ (TypeOK /\ IInv)' /\ SuccessIsOwn /\ [Next]_vars => SuccessIsOwn'
  BY NextAbstractly, AbstractStepOwn
<1> QED
  BY <1>1, <1>2, InvariantCorrect, PTL DEF Spec

-----------------------------------------------------------------------------
(* The loop around kii_core_run.                                           *)

(* The calls of kii_core_run that a caller still has to make, at most, if  *)
(* no callback answers AGAIN.                                              *)
Left ==
  IF state = "IDLE" THEN 0
  ELSE IF state = "READY" THEN 5 + BufferSize + http.total
  ELSE CASE http.at = "IDLE" -> 4 + BufferSize + http.total
         [] http.at = "CONNECT" -> 3 + BufferSize + http.total
         [] http.at = "SEND" -> 2 + BufferSize + (http.total - http.sent)
         [] http.at = "RECV" -> 2 + (BufferSize - http.received)
         [] http.at = "CLOSE" -> 1

(* They are no more than two buffers have bytes, and four.                 *)
LoopBounded == Left \in 0..4 + 2 * BufferSize

(* Every call of kii_core_run in which no callback answers AGAIN brings    *)
(* the loop nearer to its end, and nothing but another request takes it    *)
(* further away.                                                           *)
RunsShorten ==
  [][/\ Run => RecvWaits \/ Left' < Left
     /\ Prepare \/ Left' <= Left]_vars

(* The counts of bytes sent and received stay within the buffer.           *)
LEMMA LeftBounded == ASSUME TypeOK, IInv PROVE LoopBounded
<1> DEFINE b == BufferSize
           t == http.total
           s == http.sent
           r == http.received
<1>1. /\ b \in Nat /\ b > 0 /\ t \in Nat /\ t < b /\ s \in Nat /\ r \in Nat /\ r <= b
  BY ConstantTypes, MachineFields DEF TypeOK
<1>2. state = "EXECUTE" /\ http.at = "SEND" => s < t
  BY DEF IInv, CountsSent
<1>3. /\ state \in {"IDLE", "READY", "EXECUTE"}
      /\ http.at \in {"IDLE", "CONNECT", "SEND", "RECV", "CLOSE"}
  BY DEF TypeOK, Machine
<1>4. Left = IF state = "IDLE" THEN 0
             ELSE IF state = "READY" THEN 5 + b + t
             ELSE CASE http.at = "IDLE" -> 4 + b + t
                    [] http.at = "CONNECT" -> 3 + b + t
                    [] http.at = "SEND" -> 2 + b + (t - s)
                    [] http.at = "RECV" -> 2 + (b - r)
                    [] http.at = "CLOSE" -> 1
  BY DEF Left
<1> HIDE DEF b, t, s, r
<1>5. Left \in 0..4 + 2 * b
  BY <1>1, <1>2, <1>3, <1>4
<1> QED
  BY <1>5 DEF b, LoopBounded

(* A call that ends leaves nothing to do.                                  *)
LEMMA EndsShorter ==
  ASSUME TypeOK, IInv, state # "IDLE", state' = "IDLE"
  PROVE  Left' < Left
<1> DEFINE b == BufferSize
           t == http.total
           s == http.sent
           r == http.received
<1>1. /\ b \in Nat /\ b > 0 /\ t \in Nat /\ t < b /\ s \in Nat /\ r \in Nat /\ r <= b
  BY ConstantTypes, MachineFields DEF TypeOK
<1>2. state = "EXECUTE" /\ http.at = "SEND" => s < t
  BY DEF IInv, CountsSent
<1>3. /\ state \in {"READY", "EXECUTE"}
      /\ http.at \in {"IDLE", "CONNECT", "SEND", "RECV", "CLOSE"}
  BY DEF TypeOK, Machine
<1>4. Left' = 0
  BY DEF Left
<1>5. Left = IF state = "READY" THEN 5 + b + t
             ELSE CASE http.at = "IDLE" -> 4 + b + t
                    [] http.at = "CONNECT" -> 3 + b + t
                    [] http.at = "SEND" -> 2 + b + (t - s)
                    [] http.at = "RECV" -> 2 + (b - r)
                    [] http.at = "CLOSE" -> 1
  BY DEF Left
<1> HIDE DEF b, t, s, r
<1>6. Left > 0 /\ Left \in Int
  BY <1>1, <1>2, <1>3, <1>5
<1> QED
  BY <1>4, <1>6

(* Bytes that are received leave fewer to receive, and the end of the      *)
(* stream leaves only the socket to close.                                 *)
LEMMA ReceiveShorter ==
  ASSUME TypeOK, IInv, ExecRecv, state' # "IDLE"
  PROVE  Left' < Left
<1>1. PICK k \in Readable : Received(k)
  BY DEF ExecRecv, SocketError, Finish
<1> DEFINE b == BufferSize
           r == http.received
           n == r + k
<1>2. /\ b \in Nat /\ r \in Nat /\ r <= b /\ state = "EXECUTE" /\ http.at = "RECV"
  BY ConstantTypes, MachineFields DEF TypeOK, ExecRecv, Executing
<1>3. k \in Nat /\ (k = 0 \/ k >= 1)
  <2>1. conn.arrived \in Nat
    <3>1. http.sock \in Calls /\ conns[http.sock] \in Conns
      BY <1>2, MachineFields DEF IInv, UsesOwnConnection, StartsIdle, TypeOK, Calls
    <3> QED
      BY <3>1 DEF conn, Conns
  <2> QED
    BY <2>1, <1>2, ConstantTypes DEF Readable, Least
<1>4. /\ ~Overflows(n)
      /\ http' = IF Complete(Scanned(n), k)
                 THEN [Scanned(n) EXCEPT !.at = "CLOSE"] ELSE Scanned(n)
      /\ state' = state
  BY <1>1 DEF Received, Finish, Again
<1>5. Scanned(n).received = n /\ Scanned(n).at = "RECV" /\ DOMAIN Scanned(n) = DOMAIN http
  BY <1>2 DEF TypeOK, Machine, Scanned
<1>6. CASE Complete(Scanned(n), k)
  <2>1. http'.at = "CLOSE"
    <3>1. "at" \in DOMAIN Scanned(n)
      BY <1>5 DEF TypeOK, Machine
    <3> QED
      BY <1>4, <1>6, <3>1
  <2>2. Left' = 1
    BY <1>2, <1>4, <2>1 DEF Left
  <2>3. Left = 2 + (b - r)
    BY <1>2 DEF Left
  <2> HIDE DEF b, r
  <2> QED
    BY <1>2, <2>2, <2>3
<1>7. CASE ~Complete(Scanned(n), k)
  <2>1. http' = Scanned(n) /\ k # 0
    BY <1>4, <1>7 DEF Complete
  <2>2. http'.at = "RECV" /\ http'.received = n
    BY <1>5, <2>1
  <2>3. Left' = 2 + (b - n)
    BY <1>2, <1>4, <2>2 DEF Left
  <2>4. Left = 2 + (b - r)
    BY <1>2 DEF Left
  <2> HIDE DEF b, r
  <2> QED
    BY <1>2, <1>3, <2>1, <2>3, <2>4
<1> QED
  BY <1>6, <1>7

(* Each state of the machine is nearer to the end than the one before.     *)
LEMMA RunShorter ==
  ASSUME TypeOK, IInv, Run
  PROVE  RecvWaits \/ Left' < Left
<1> DEFINE b == BufferSize
           t == http.total
           s == http.sent
<1>1. b \in Nat /\ b > 0 /\ t \in Nat /\ t < b /\ s \in Nat
  BY ConstantTypes, MachineFields DEF TypeOK
<1>2. CASE RunReady
  <2>1. Left = 5 + b + t
    BY <1>2 DEF RunReady, Left
  <2>2. Left' = 4 + b + t
    BY <1>2 DEF RunReady, Left, IInv, StartsIdle
  <2> HIDE DEF b, t
  <2> QED
    BY <1>1, <2>1, <2>2
<1>3. CASE ExecIdle
  <2>1. Left = 4 + b + t
    BY <1>3 DEF ExecIdle, Executing, Left
  <2>2. Left' = 3 + b + t
    <3>1. http' \in Machine /\ http'.at = "CONNECT" /\ http'.total = t /\ state' = "EXECUTE"
      BY <1>3, ExecIdleTypes DEF ExecIdle, Executing, Again, Rewound, TypeOK, Machine
    <3> QED
      BY <3>1 DEF Left
  <2> HIDE DEF b, t
  <2> QED
    BY <1>1, <2>1, <2>2
<1>4. CASE ExecConnect
  <2>1. CASE state' = "IDLE"
    BY <1>4, <2>1, EndsShorter DEF ExecConnect, Executing
  <2>2. CASE state' # "IDLE"
    <3>1. Left = 3 + b + t
      BY <1>4 DEF ExecConnect, Executing, Left
    <3>2. Left' = 2 + b + (t - 0)
      <4>1. http' = [http EXCEPT !.at = "SEND", !.sock = calls] /\ state' = "EXECUTE"
        BY <1>4, <2>2 DEF ExecConnect, Executing, Again, SocketError, Finish
      <4>2. http.sent = 0
        BY <1>4 DEF IInv, NotConnectedYet, ExecConnect, Executing
      <4>3. http'.at = "SEND" /\ http'.total = t /\ http'.sent = 0
        BY <4>1, <4>2 DEF TypeOK, Machine
      <4> QED
        BY <4>1, <4>3 DEF Left
    <3> HIDE DEF b, t
    <3> QED
      BY <1>1, <3>1, <3>2
  <2> QED
    BY <2>1, <2>2
<1>5. CASE ExecSend
  <2>1. CASE state' = "IDLE"
    BY <1>5, <2>1, EndsShorter DEF ExecSend, Executing
  <2>2. CASE state' # "IDLE"
    <3>1. Left = 2 + b + (t - s) /\ s < t /\ http.received = 0
      BY <1>5 DEF ExecSend, Executing, Left, IInv, CountsSent, NotConnectedYet
    <3>2. Chunk \in Nat /\ Chunk >= 1 /\ Chunk <= t - s
      BY <1>1, <3>1, ConstantTypes DEF Chunk, Least
    <3>3. /\ http' = [http EXCEPT !.sent = @ + Chunk,
                        !.at = IF AllSent(http.sent + Chunk) THEN "RECV" ELSE @]
          /\ state' = "EXECUTE"
      BY <1>5, <2>2 DEF ExecSend, Executing, Again, SocketError, Finish
    <3>4. CASE AllSent(http.sent + Chunk)
      <4>1. http'.at = "RECV" /\ http'.received = 0
        BY <3>1, <3>3, <3>4 DEF TypeOK, Machine
      <4>2. Left' = 2 + (b - 0)
        BY <3>3, <4>1 DEF Left
      <4> HIDE DEF b, t, s
      <4> QED
        BY <1>1, <3>1, <4>2
    <3>5. CASE ~AllSent(http.sent + Chunk)
      <4>1. http'.at = "SEND" /\ http'.total = t /\ http'.sent = s + Chunk
        BY <1>5, <3>3, <3>5 DEF TypeOK, Machine, ExecSend, Executing
      <4>2. Left' = 2 + b + (t - (s + Chunk))
        BY <3>3, <4>1 DEF Left
      <4> HIDE DEF b, t, s
      <4> QED
        BY <1>1, <3>1, <3>2, <4>2
    <3> QED
      BY <3>4, <3>5
  <2> QED
    BY <2>1, <2>2
<1>6. CASE ExecRecv
  BY <1>6, EndsShorter, ReceiveShorter DEF ExecRecv, Executing
<1>7. CASE ExecClose
  <2>1. state' = "IDLE" /\ state # "IDLE"
    BY <1>7 DEF ExecClose, Executing, InvalidResponse, SocketError, Finish
  <2> QED
    BY <2>1, EndsShorter
<1> QED
  BY <1>2, <1>3, <1>4, <1>5, <1>6, <1>7 DEF Run

(* Nothing else makes a caller wait longer.                                *)
LEMMA OthersShorten ==
  ASSUME TypeOK, IInv, [Next]_vars, Left \in Int, Left' \in Int
  PROVE  Prepare \/ Left' <= Left
<1>1. Left \in Int /\ Left' \in Int
  OBVIOUS
<1>2. CASE UNCHANGED <<state, http>>
  <2>1. Left' = Left
    BY <1>2 DEF Left
  <2> QED
    BY <1>1, <2>1
<1>3. CASE Run
  <2>1. RecvWaits \/ Left' < Left
    BY <1>3, RunShorter
  <2>2. CASE RecvWaits
    BY <1>2, <2>2 DEF RecvWaits
  <2>3. CASE Left' < Left
    BY <1>1, <2>3
  <2> QED
    BY <2>1, <2>2, <2>3
<1>4. CASE PrepareFails
  <2>1. state = "IDLE" /\ state' = "IDLE"
    BY <1>4 DEF PrepareFails
  <2>2. Left = 0 /\ Left' = 0
    BY <2>1 DEF Left
  <2> QED
    BY <2>2
<1>5. CASE Cloud \/ \E c \in Calls : LoseConnection(c)
  <2>1. OnlyConns
    <3>1. CASE Cloud
      BY <3>1 DEF Cloud, CloudAnswers, CloudCloses
    <3>2. CASE \E c \in Calls : LoseConnection(c)
      BY <3>2 DEF LoseConnection
    <3> QED
      BY <1>5, <3>1, <3>2
  <2>2. UNCHANGED <<state, http>>
    BY <2>1 DEF OnlyConns
  <2> QED
    BY <1>2, <2>2
<1>6. CASE UNCHANGED vars
  BY <1>2, <1>6 DEF vars
<1> QED
  BY <1>3, <1>4, <1>5, <1>6 DEF Next

(* The loop `do kii_core_run while not IDLE` of every operation ends after *)
(* a number of calls that the size of its buffer bounds, unless a callback *)
(* answers AGAIN without end (kii_core.c:526-557, kii_object.c:33-38):     *)
(* what there is of Completes without fairness.                            *)
THEOREM LoopBoundCorrect == Spec => []LoopBounded /\ RunsShorten
<1>1. TypeOK /\ IInv /\ Left \in Int /\ (Left \in Int)' /\ [Next]_vars =>
        [/\ Run => RecvWaits \/ Left' < Left
         /\ Prepare \/ Left' <= Left]_vars
  BY RunShorter, OthersShorten
<1>2. TypeOK /\ IInv => LoopBounded
  BY LeftBounded
<1>3. LoopBounded => Left \in Int
  BY ConstantTypes DEF LoopBounded
<1> QED
  BY <1>1, <1>2, <1>3, InvariantCorrect, PTL DEF Spec, RunsShorten
=============================================================================
