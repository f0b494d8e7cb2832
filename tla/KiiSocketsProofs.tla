-------------------------- MODULE KiiSocketsProofs --------------------------
(***************************************************************************)
(* Proofs about KiiSockets: for any set of descriptors and any number of   *)
(* failures, the clients use and close their own descriptors, and what is  *)
(* lost is lost to failures.                                               *)
(***************************************************************************)
EXTENDS KiiSockets, FiniteSetTheorems, TLAPS

(* Whether a field holds a descriptor kiiMQTT_connect closes.              *)
LEMMA TypesOfFds ==
  /\ Fds \subseteq Nat
  /\ Closing \in Int /\ ~(Closing > 0)
  /\ \A s \in Fds \cup {0, Closing} : s \in Int
BY SocketsAssumption DEF Closing

-----------------------------------------------------------------------------
(* The invariant, action by action.                                        *)

(* What a connect does, on any port.                                       *)
LEMMA ConnectEffect ==
  ASSUME TypeOK, NEW c \in Clients, NEW fd \in Free, NEW ok \in BOOLEAN, Connect(c, fd, ok)
  PROVE  /\ fd \in Fds /\ owner[fd] = "free"
         /\ owner' = [owner EXCEPT ![fd] = c] \/ (~ok /\ owner' = owner)
         /\ ok => owner' = [owner EXCEPT ![fd] = c]
         /\ port = "ti" /\ ~ok => owner' = owner
         /\ sock' = IF ok THEN [sock EXCEPT ![c] = fd] ELSE sock
         /\ session' \in {"live", session}
         /\ ok /\ c = "http" /\ port \in {"linux", "gt202"} => session' = "live"
         /\ c = "mqtt" => session' = session
<1>1. fd \in Fds /\ owner[fd] = "free"
  BY DEF Free
<1>2. CASE port = "linux" /\ c = "http" /\ s_connect_cb(fd, ok)
  BY <1>1, <1>2 DEF s_connect_cb, Takes, Holds
<1>3. CASE port = "linux" /\ c = "mqtt" /\ mqtt_connect_cb(fd, ok)
  BY <1>1, <1>3 DEF mqtt_connect_cb, Takes, Holds
<1>4. CASE port = "ti" /\ connect_cb(c, fd, ok)
  BY <1>1, <1>4 DEF connect_cb, Takes, Holds
<1>5. CASE port = "gt202" /\ c = "http" /\ socket_connect_cb(fd, ok)
  BY <1>1, <1>5 DEF socket_connect_cb, Takes, Holds
<1>6. CASE port = "gt202" /\ c = "mqtt" /\ mqtt_socket_connect(fd, ok)
  BY <1>1, <1>6 DEF mqtt_socket_connect, Takes, Holds
<1> QED
  BY <1>2, <1>3, <1>4, <1>5, <1>6 DEF Connect

(* What a close does, on any port.                                         *)
LEMMA CloseEffect ==
  ASSUME TypeOK, NEW c \in Clients, Close(c)
  PROVE  /\ \/ owner' = [d \in Fds |-> IF d = sock[c] THEN "free" ELSE owner[d]]
            \/ owner' = owner /\ port = "gt202" /\ ~(sock[c] > 0)
         /\ \/ sock' = [sock EXCEPT ![c] = Closing]
            \/ sock' = sock /\ ~(c = "mqtt" /\ port # "gt202")
         /\ session' \in {"none", "freed", session}
         /\ c = "mqtt" => session' = session
<1>1. CASE port = "linux" /\ c = "http" /\ s_close_cb
  BY <1>1 DEF s_close_cb, Releases
<1>2. CASE port = "linux" /\ c = "mqtt" /\ mqtt_close_cb
  BY <1>2 DEF mqtt_close_cb, Releases, Holds
<1>3. CASE port = "ti" /\ close_cb(c)
  BY <1>3 DEF close_cb, Releases, Holds
<1>4. CASE port = "gt202" /\ c = "http" /\ socket_close_cb
  BY <1>4 DEF socket_close_cb, Releases
<1>5. CASE port = "gt202" /\ c = "mqtt" /\ mqtt_socket_close
  BY <1>5 DEF mqtt_socket_close, Releases
<1> QED
  BY <1>1, <1>2, <1>3, <1>4, <1>5 DEF Close

LEMMA InitIInv == Init => IInv
BY SocketsAssumption DEF Init, IInv, TypeOK, UsesOwnDescriptor, ClosesOwnDescriptor, UsesLiveSession,
   MqttHoldsOne, Uses, HttpUses, MqttUses, Opened, MustClose, Clients

LEMMA HttpConnectKeeps == IInv /\ HttpConnect => IInv'
<1> SUFFICES ASSUME IInv, HttpConnect PROVE IInv' OBVIOUS
<1>0. TypeOK /\ "http" \in Clients /\ UNCHANGED <<port, mqtt, pings>>
  BY DEF IInv, HttpConnect, Clients
<1>1. CASE \E fd \in Free : Connect("http", fd, TRUE) /\ http' = "transfer" /\ Fine
  <2>0. PICK fd \in Free : Connect("http", fd, TRUE) /\ http' = "transfer" /\ Fine
    BY <1>1
  <2>9. /\ fd \in Fds /\ owner[fd] = "free"
        /\ owner' = [owner EXCEPT ![fd] = "http"] /\ sock' = [sock EXCEPT !["http"] = fd]
        /\ session' \in {"live", session}
        /\ port \in {"linux", "gt202"} => session' = "live"
    BY <1>0, <2>0, ConnectEffect
  <2>1. TypeOK'
    BY <1>0, <2>0, <2>9, TypesOfFds, SocketsAssumption DEF IInv, TypeOK, UsesOwnDescriptor,
       ClosesOwnDescriptor, UsesLiveSession, MqttHoldsOne, Uses, HttpUses, MqttUses, Opened, MustClose,
       Clients, Fault, Fine, pings
  <2>2. UsesOwnDescriptor'
    BY <1>0, <2>0, <2>9, TypesOfFds, SocketsAssumption DEF IInv, TypeOK, UsesOwnDescriptor,
       ClosesOwnDescriptor, UsesLiveSession, MqttHoldsOne, Uses, HttpUses, MqttUses, Opened, MustClose,
       Clients, Fault, Fine, pings
  <2>3. ClosesOwnDescriptor'
    BY <1>0, <2>0, <2>9, TypesOfFds, SocketsAssumption DEF IInv, TypeOK, UsesOwnDescriptor,
       ClosesOwnDescriptor, UsesLiveSession, MqttHoldsOne, Uses, HttpUses, MqttUses, Opened, MustClose,
       Clients, Fault, Fine, pings
  <2>4. UsesLiveSession'
    BY <1>0, <2>0, <2>9, TypesOfFds, SocketsAssumption DEF IInv, TypeOK, UsesOwnDescriptor,
       ClosesOwnDescriptor, UsesLiveSession, MqttHoldsOne, Uses, HttpUses, MqttUses, Opened, MustClose,
       Clients, Fault, Fine, pings
  <2>5. MqttHoldsOne'
    BY <1>0, <2>0, <2>9, TypesOfFds, SocketsAssumption DEF IInv, TypeOK, UsesOwnDescriptor,
       ClosesOwnDescriptor, UsesLiveSession, MqttHoldsOne, Uses, HttpUses, MqttUses, Opened, MustClose,
       Clients, Fault, Fine, pings
  <2> QED
    BY <2>1, <2>2, <2>3, <2>4, <2>5 DEF IInv
<1>2. CASE \E fd \in Free : Connect("http", fd, FALSE) /\ UNCHANGED http /\ Fault
  <2>0. PICK fd \in Free : Connect("http", fd, FALSE) /\ UNCHANGED http /\ Fault
    BY <1>2
  <2>9. /\ fd \in Fds /\ owner[fd] = "free"
        /\ owner' = [owner EXCEPT ![fd] = "http"] \/ owner' = owner
        /\ sock' = sock /\ session' \in {"live", session}
    BY <1>0, <2>0, ConnectEffect
  <2>10. http = "idle"
    BY DEF HttpConnect
  <2>1. TypeOK'
    BY <1>0, <2>0, <2>9, <2>10, TypesOfFds, SocketsAssumption DEF IInv, TypeOK, UsesOwnDescriptor,
       ClosesOwnDescriptor, UsesLiveSession, MqttHoldsOne, Uses, HttpUses, MqttUses, Opened, MustClose,
       Clients, Fault, Fine, pings
  <2>2. UsesOwnDescriptor'
    BY <1>0, <2>0, <2>9, <2>10, TypesOfFds, SocketsAssumption DEF IInv, TypeOK, UsesOwnDescriptor,
       ClosesOwnDescriptor, UsesLiveSession, MqttHoldsOne, Uses, HttpUses, MqttUses, Opened, MustClose,
       Clients, Fault, Fine, pings
  <2>3. ClosesOwnDescriptor'
    BY <1>0, <2>0, <2>9, <2>10, TypesOfFds, SocketsAssumption DEF IInv, TypeOK, UsesOwnDescriptor,
       ClosesOwnDescriptor, UsesLiveSession, MqttHoldsOne, Uses, HttpUses, MqttUses, Opened, MustClose,
       Clients, Fault, Fine, pings
  <2>4. UsesLiveSession'
    BY <1>0, <2>0, <2>9, <2>10, TypesOfFds, SocketsAssumption DEF IInv, TypeOK, UsesOwnDescriptor,
       ClosesOwnDescriptor, UsesLiveSession, MqttHoldsOne, Uses, HttpUses, MqttUses, Opened, MustClose,
       Clients, Fault, Fine, pings
  <2>5. MqttHoldsOne'
    BY <1>0, <2>0, <2>9, <2>10, TypesOfFds, SocketsAssumption DEF IInv, TypeOK, UsesOwnDescriptor,
       ClosesOwnDescriptor, UsesLiveSession, MqttHoldsOne, Uses, HttpUses, MqttUses, Opened, MustClose,
       Clients, Fault, Fine, pings
  <2> QED
    BY <2>1, <2>2, <2>3, <2>4, <2>5 DEF IInv
<1>3. CASE NotOpened /\ UNCHANGED http
  <2>1. TypeOK'
    BY <1>0, <1>3, TypesOfFds, SocketsAssumption DEF NotOpened, IInv, TypeOK, UsesOwnDescriptor,
       ClosesOwnDescriptor, UsesLiveSession, MqttHoldsOne, Uses, HttpUses, MqttUses, Opened, MustClose,
       Clients, Fault, Fine, pings
  <2>2. UsesOwnDescriptor'
    BY <1>0, <1>3, TypesOfFds, SocketsAssumption DEF NotOpened, IInv, TypeOK, UsesOwnDescriptor,
       ClosesOwnDescriptor, UsesLiveSession, MqttHoldsOne, Uses, HttpUses, MqttUses, Opened, MustClose,
       Clients, Fault, Fine, pings
  <2>3. ClosesOwnDescriptor'
    BY <1>0, <1>3, TypesOfFds, SocketsAssumption DEF NotOpened, IInv, TypeOK, UsesOwnDescriptor,
       ClosesOwnDescriptor, UsesLiveSession, MqttHoldsOne, Uses, HttpUses, MqttUses, Opened, MustClose,
       Clients, Fault, Fine, pings
  <2>4. UsesLiveSession'
    BY <1>0, <1>3, TypesOfFds, SocketsAssumption DEF NotOpened, IInv, TypeOK, UsesOwnDescriptor,
       ClosesOwnDescriptor, UsesLiveSession, MqttHoldsOne, Uses, HttpUses, MqttUses, Opened, MustClose,
       Clients, Fault, Fine, pings
  <2>5. MqttHoldsOne'
    BY <1>0, <1>3, TypesOfFds, SocketsAssumption DEF NotOpened, IInv, TypeOK, UsesOwnDescriptor,
       ClosesOwnDescriptor, UsesLiveSession, MqttHoldsOne, Uses, HttpUses, MqttUses, Opened, MustClose,
       Clients, Fault, Fine, pings
  <2> QED
    BY <2>1, <2>2, <2>3, <2>4, <2>5 DEF IInv
<1> QED
  BY <1>1, <1>2, <1>3 DEF HttpConnect


LEMMA HttpReceivedKeeps == IInv /\ HttpReceived => IInv'
<1> SUFFICES ASSUME IInv, HttpReceived PROVE IInv' OBVIOUS
<1>1. TypeOK'
  BY TypesOfFds, SocketsAssumption DEF HttpReceived, IInv, TypeOK,
     UsesOwnDescriptor, ClosesOwnDescriptor, UsesLiveSession, MqttHoldsOne,
     Uses, HttpUses, MqttUses, Opened, MustClose, Clients, Fault, Fine, pings
<1>2. UsesOwnDescriptor'
  BY TypesOfFds, SocketsAssumption DEF HttpReceived, IInv, TypeOK,
     UsesOwnDescriptor, ClosesOwnDescriptor, UsesLiveSession, MqttHoldsOne,
     Uses, HttpUses, MqttUses, Opened, MustClose, Clients, Fault, Fine, pings
<1>3. ClosesOwnDescriptor'
  BY TypesOfFds, SocketsAssumption DEF HttpReceived, IInv, TypeOK,
     UsesOwnDescriptor, ClosesOwnDescriptor, UsesLiveSession, MqttHoldsOne,
     Uses, HttpUses, MqttUses, Opened, MustClose, Clients, Fault, Fine, pings
<1>4. UsesLiveSession'
  BY TypesOfFds, SocketsAssumption DEF HttpReceived, IInv, TypeOK,
     UsesOwnDescriptor, ClosesOwnDescriptor, UsesLiveSession, MqttHoldsOne,
     Uses, HttpUses, MqttUses, Opened, MustClose, Clients, Fault, Fine, pings
<1>5. MqttHoldsOne'
  BY TypesOfFds, SocketsAssumption DEF HttpReceived, IInv, TypeOK,
     UsesOwnDescriptor, ClosesOwnDescriptor, UsesLiveSession, MqttHoldsOne,
     Uses, HttpUses, MqttUses, Opened, MustClose, Clients, Fault, Fine, pings
<1> QED
  BY <1>1, <1>2, <1>3, <1>4, <1>5 DEF IInv

LEMMA HttpFailsKeeps == IInv /\ HttpFails => IInv'
<1> SUFFICES ASSUME IInv, HttpFails PROVE IInv' OBVIOUS
<1>1. TypeOK'
  BY TypesOfFds, SocketsAssumption DEF HttpFails, AfterFailure, FailedTransfer,
     Close, socket_close_cb, Releases, IInv, TypeOK, UsesOwnDescriptor,
     ClosesOwnDescriptor, UsesLiveSession, MqttHoldsOne, Uses, HttpUses,
     MqttUses, Opened, MustClose, Clients, Fault, Fine, pings
<1>2. UsesOwnDescriptor'
  BY TypesOfFds, SocketsAssumption DEF HttpFails, AfterFailure, FailedTransfer,
     Close, socket_close_cb, Releases, IInv, TypeOK, UsesOwnDescriptor,
     ClosesOwnDescriptor, UsesLiveSession, MqttHoldsOne, Uses, HttpUses,
     MqttUses, Opened, MustClose, Clients, Fault, Fine, pings
<1>3. ClosesOwnDescriptor'
  BY TypesOfFds, SocketsAssumption DEF HttpFails, AfterFailure, FailedTransfer,
     Close, socket_close_cb, Releases, IInv, TypeOK, UsesOwnDescriptor,
     ClosesOwnDescriptor, UsesLiveSession, MqttHoldsOne, Uses, HttpUses,
     MqttUses, Opened, MustClose, Clients, Fault, Fine, pings
<1>4. UsesLiveSession'
  BY TypesOfFds, SocketsAssumption DEF HttpFails, AfterFailure, FailedTransfer,
     Close, socket_close_cb, Releases, IInv, TypeOK, UsesOwnDescriptor,
     ClosesOwnDescriptor, UsesLiveSession, MqttHoldsOne, Uses, HttpUses,
     MqttUses, Opened, MustClose, Clients, Fault, Fine, pings
<1>5. MqttHoldsOne'
  BY TypesOfFds, SocketsAssumption DEF HttpFails, AfterFailure, FailedTransfer,
     Close, socket_close_cb, Releases, IInv, TypeOK, UsesOwnDescriptor,
     ClosesOwnDescriptor, UsesLiveSession, MqttHoldsOne, Uses, HttpUses,
     MqttUses, Opened, MustClose, Clients, Fault, Fine, pings
<1> QED
  BY <1>1, <1>2, <1>3, <1>4, <1>5 DEF IInv

LEMMA HttpCloseKeeps == IInv /\ HttpClose => IInv'
<1> SUFFICES ASSUME IInv, HttpClose PROVE IInv' OBVIOUS
<1>0. /\ TypeOK /\ "http" \in Clients /\ http = "close" /\ http' = "idle" /\ Close("http")
      /\ UNCHANGED <<port, mqtt, pings, faults>>
  BY DEF IInv, HttpClose, Clients
<1>9. /\ \/ owner' = [d \in Fds |-> IF d = sock["http"] THEN "free" ELSE owner[d]]
         \/ owner' = owner /\ port = "gt202" /\ ~(sock["http"] > 0)
      /\ \/ sock' = [sock EXCEPT !["http"] = Closing]
         \/ sock' = sock 
      /\ session' \in {"none", "freed", session}
  BY <1>0, CloseEffect
<1>6. sock'["mqtt"] = sock["mqtt"]
  BY <1>0, <1>9 DEF TypeOK, Clients
<1>7. ASSUME port # "gt202", Opened("mqtt") PROVE Opened("mqtt")'
  <2>1. sock["http"] \in Fds /\ owner[sock["http"]] = "http"
    BY <1>0, <1>7 DEF IInv, UsesOwnDescriptor, Uses, HttpUses, Opened, Clients
  <2>2. sock["mqtt"] \in Fds /\ sock["mqtt"] # sock["http"]
    BY <1>7, <2>1 DEF Opened
  <2> QED
    BY <1>6, <1>7, <1>9, <2>2 DEF Opened
<1>1. TypeOK'
  BY <1>0, <1>9, TypesOfFds, SocketsAssumption DEF IInv, TypeOK, UsesOwnDescriptor,
     ClosesOwnDescriptor, UsesLiveSession, MqttHoldsOne, Uses, HttpUses, MqttUses, Opened, MustClose,
     Clients, Fault, Fine, pings
<1>2. UsesOwnDescriptor'
  BY <1>0, <1>7 DEF IInv, UsesOwnDescriptor, Uses, HttpUses, MqttUses, Clients
<1>3. ClosesOwnDescriptor'
  BY <1>0, <1>6, <1>7 DEF IInv, ClosesOwnDescriptor, MustClose
<1>4. UsesLiveSession'
  BY <1>0, <1>9, TypesOfFds, SocketsAssumption DEF IInv, TypeOK, UsesOwnDescriptor,
     ClosesOwnDescriptor, UsesLiveSession, MqttHoldsOne, Uses, HttpUses, MqttUses, Opened, MustClose,
     Clients, Fault, Fine, pings
<1>5. MqttHoldsOne'
  BY <1>0, <1>9, TypesOfFds, SocketsAssumption DEF IInv, TypeOK, UsesOwnDescriptor,
     ClosesOwnDescriptor, UsesLiveSession, MqttHoldsOne, Uses, HttpUses, MqttUses, Opened, MustClose,
     Clients, Fault, Fine, pings
<1> QED
  BY <1>1, <1>2, <1>3, <1>4, <1>5 DEF IInv


LEMMA MqttCloseKeeps == IInv /\ MqttClose => IInv'
<1> SUFFICES ASSUME IInv, MqttClose PROVE IInv' OBVIOUS
<1>0. /\ TypeOK /\ "mqtt" \in Clients /\ mqtt = "close" /\ mqtt' = "open"
      /\ UNCHANGED <<port, http, pings, faults>>
  BY DEF IInv, MqttClose, Clients
<1>9. \/ /\ MustClose /\ session' = session
         /\ owner' = [d \in Fds |-> IF d = sock["mqtt"] THEN "free" ELSE owner[d]]
         /\ sock' = [sock EXCEPT !["mqtt"] = Closing]
      \/ ~MustClose /\ UNCHANGED <<owner, sock, session>>
  BY <1>0, CloseEffect DEF MqttClose, MustClose
<1>7. ASSUME port # "gt202", HttpUses PROVE Opened("http")'
  <2>1. sock["http"] \in Fds /\ owner[sock["http"]] = "http"
    BY <1>0, <1>7 DEF IInv, UsesOwnDescriptor, Uses, Opened, Clients
  <2>2. sock'["http"] = sock["http"]
    BY <1>0, <1>9 DEF TypeOK, Clients
  <2>3. MustClose => sock["mqtt"] # sock["http"]
    BY <1>0, <1>7, <2>1 DEF IInv, ClosesOwnDescriptor, Opened
  <2> QED
    BY <1>9, <2>1, <2>2, <2>3 DEF Opened
<1>1. TypeOK'
  BY <1>0, <1>9, TypesOfFds, SocketsAssumption DEF IInv, TypeOK, UsesOwnDescriptor,
     ClosesOwnDescriptor, UsesLiveSession, MqttHoldsOne, Uses, HttpUses, MqttUses, Opened, MustClose,
     Clients, Fault, Fine, pings
<1>2. UsesOwnDescriptor'
  BY <1>0, <1>7 DEF IInv, UsesOwnDescriptor, Uses, HttpUses, MqttUses, Clients
<1>3. ClosesOwnDescriptor'
  BY <1>0, <1>9, TypesOfFds, SocketsAssumption DEF IInv, TypeOK, UsesOwnDescriptor,
     ClosesOwnDescriptor, UsesLiveSession, MqttHoldsOne, Uses, HttpUses, MqttUses, Opened, MustClose,
     Clients, Fault, Fine, pings
<1>4. UsesLiveSession'
  BY <1>0, <1>9, TypesOfFds, SocketsAssumption DEF IInv, TypeOK, UsesOwnDescriptor,
     ClosesOwnDescriptor, UsesLiveSession, MqttHoldsOne, Uses, HttpUses, MqttUses, Opened, MustClose,
     Clients, Fault, Fine, pings
<1>5. MqttHoldsOne'
  BY <1>0, <1>9, TypesOfFds, SocketsAssumption DEF IInv, TypeOK, UsesOwnDescriptor,
     ClosesOwnDescriptor, UsesLiveSession, MqttHoldsOne, Uses, HttpUses, MqttUses, Opened, MustClose,
     Clients, Fault, Fine, pings
<1> QED
  BY <1>1, <1>2, <1>3, <1>4, <1>5 DEF IInv


LEMMA MqttConnectKeeps == IInv /\ MqttConnect => IInv'
<1> SUFFICES ASSUME IInv, MqttConnect PROVE IInv' OBVIOUS
<1>0. TypeOK /\ "mqtt" \in Clients /\ UNCHANGED <<port, http, pings>>
  BY DEF IInv, MqttConnect, Clients
<1>4. mqtt = "open"
  BY DEF MqttConnect
<1>1. CASE \E fd \in Free : Connect("mqtt", fd, TRUE) /\ mqtt' = "handshake" /\ Fine
  <2>0. PICK fd \in Free : Connect("mqtt", fd, TRUE) /\ mqtt' = "handshake" /\ Fine
    BY <1>1
  <2>9. /\ fd \in Fds /\ owner[fd] = "free"
        /\ owner' = [owner EXCEPT ![fd] = "mqtt"] /\ sock' = [sock EXCEPT !["mqtt"] = fd]
        /\ session' = session
    BY <1>0, <2>0, ConnectEffect
  <2>1. TypeOK'
    BY <1>0, <1>4, <2>0, <2>9, TypesOfFds, SocketsAssumption DEF IInv, TypeOK, UsesOwnDescriptor,
       ClosesOwnDescriptor, UsesLiveSession, MqttHoldsOne, Uses, HttpUses, MqttUses, Opened, MustClose,
       Clients, Fault, Fine, pings
  <2>2. UsesOwnDescriptor'
    BY <1>0, <1>4, <2>0, <2>9, TypesOfFds, SocketsAssumption DEF IInv, TypeOK, UsesOwnDescriptor,
       ClosesOwnDescriptor, UsesLiveSession, MqttHoldsOne, Uses, HttpUses, MqttUses, Opened, MustClose,
       Clients, Fault, Fine, pings
  <2>3. ClosesOwnDescriptor'
    BY <1>0, <1>4, <2>0, <2>9, TypesOfFds, SocketsAssumption DEF IInv, TypeOK, UsesOwnDescriptor,
       ClosesOwnDescriptor, UsesLiveSession, MqttHoldsOne, Uses, HttpUses, MqttUses, Opened, MustClose,
       Clients, Fault, Fine, pings
  <2>4. UsesLiveSession'
    BY <1>0, <1>4, <2>0, <2>9, TypesOfFds, SocketsAssumption DEF IInv, TypeOK, UsesOwnDescriptor,
       ClosesOwnDescriptor, UsesLiveSession, MqttHoldsOne, Uses, HttpUses, MqttUses, Opened, MustClose,
       Clients, Fault, Fine, pings
  <2>5. MqttHoldsOne'
    BY <1>0, <1>4, <2>0, <2>9, TypesOfFds, SocketsAssumption DEF IInv, TypeOK, UsesOwnDescriptor,
       ClosesOwnDescriptor, UsesLiveSession, MqttHoldsOne, Uses, HttpUses, MqttUses, Opened, MustClose,
       Clients, Fault, Fine, pings
  <2> QED
    BY <2>1, <2>2, <2>3, <2>4, <2>5 DEF IInv
<1>2. CASE \E fd \in Free : Connect("mqtt", fd, FALSE) /\ mqtt' = "close" /\ Fault
  <2>0. PICK fd \in Free : Connect("mqtt", fd, FALSE) /\ mqtt' = "close" /\ Fault
    BY <1>2
  <2>9. /\ fd \in Fds /\ owner[fd] = "free"
        /\ owner' = [owner EXCEPT ![fd] = "mqtt"] \/ owner' = owner
        /\ port = "ti" => owner' = owner
        /\ sock' = sock /\ session' = session
    BY <1>0, <2>0, ConnectEffect
  <2>1. TypeOK'
    BY <1>0, <1>4, <2>0, <2>9, TypesOfFds, SocketsAssumption DEF IInv, TypeOK, UsesOwnDescriptor,
       ClosesOwnDescriptor, UsesLiveSession, MqttHoldsOne, Uses, HttpUses, MqttUses, Opened, MustClose,
       Clients, Fault, Fine, pings
  <2>2. UsesOwnDescriptor'
    BY <1>0, <1>4, <2>0, <2>9, TypesOfFds, SocketsAssumption DEF IInv, TypeOK, UsesOwnDescriptor,
       ClosesOwnDescriptor, UsesLiveSession, MqttHoldsOne, Uses, HttpUses, MqttUses, Opened, MustClose,
       Clients, Fault, Fine, pings
  <2>3. ClosesOwnDescriptor'
    BY <1>0, <1>4, <2>0, <2>9, TypesOfFds, SocketsAssumption DEF IInv, TypeOK, UsesOwnDescriptor,
       ClosesOwnDescriptor, UsesLiveSession, MqttHoldsOne, Uses, HttpUses, MqttUses, Opened, MustClose,
       Clients, Fault, Fine, pings
  <2>4. UsesLiveSession'
    BY <1>0, <1>4, <2>0, <2>9, TypesOfFds, SocketsAssumption DEF IInv, TypeOK, UsesOwnDescriptor,
       ClosesOwnDescriptor, UsesLiveSession, MqttHoldsOne, Uses, HttpUses, MqttUses, Opened, MustClose,
       Clients, Fault, Fine, pings
  <2>5. MqttHoldsOne'
    BY <1>0, <1>4, <2>0, <2>9, TypesOfFds, SocketsAssumption DEF IInv, TypeOK, UsesOwnDescriptor,
       ClosesOwnDescriptor, UsesLiveSession, MqttHoldsOne, Uses, HttpUses, MqttUses, Opened, MustClose,
       Clients, Fault, Fine, pings
  <2> QED
    BY <2>1, <2>2, <2>3, <2>4, <2>5 DEF IInv
<1>3. CASE NotOpened /\ mqtt' = "close"
  <2>1. TypeOK'
    BY <1>0, <1>4, <1>3, TypesOfFds, SocketsAssumption DEF NotOpened, IInv, TypeOK, UsesOwnDescriptor,
       ClosesOwnDescriptor, UsesLiveSession, MqttHoldsOne, Uses, HttpUses, MqttUses, Opened, MustClose,
       Clients, Fault, Fine, pings
  <2>2. UsesOwnDescriptor'
    BY <1>0, <1>4, <1>3, TypesOfFds, SocketsAssumption DEF NotOpened, IInv, TypeOK, UsesOwnDescriptor,
       ClosesOwnDescriptor, UsesLiveSession, MqttHoldsOne, Uses, HttpUses, MqttUses, Opened, MustClose,
       Clients, Fault, Fine, pings
  <2>3. ClosesOwnDescriptor'
    BY <1>0, <1>4, <1>3, TypesOfFds, SocketsAssumption DEF NotOpened, IInv, TypeOK, UsesOwnDescriptor,
       ClosesOwnDescriptor, UsesLiveSession, MqttHoldsOne, Uses, HttpUses, MqttUses, Opened, MustClose,
       Clients, Fault, Fine, pings
  <2>4. UsesLiveSession'
    BY <1>0, <1>4, <1>3, TypesOfFds, SocketsAssumption DEF NotOpened, IInv, TypeOK, UsesOwnDescriptor,
       ClosesOwnDescriptor, UsesLiveSession, MqttHoldsOne, Uses, HttpUses, MqttUses, Opened, MustClose,
       Clients, Fault, Fine, pings
  <2>5. MqttHoldsOne'
    BY <1>0, <1>4, <1>3, TypesOfFds, SocketsAssumption DEF NotOpened, IInv, TypeOK, UsesOwnDescriptor,
       ClosesOwnDescriptor, UsesLiveSession, MqttHoldsOne, Uses, HttpUses, MqttUses, Opened, MustClose,
       Clients, Fault, Fine, pings
  <2> QED
    BY <2>1, <2>2, <2>3, <2>4, <2>5 DEF IInv
<1> QED
  BY <1>1, <1>2, <1>3 DEF MqttConnect


LEMMA MqttAcceptedKeeps == IInv /\ MqttAccepted => IInv'
<1> SUFFICES ASSUME IInv, MqttAccepted PROVE IInv' OBVIOUS
<1>1. TypeOK'
  BY TypesOfFds, SocketsAssumption DEF MqttAccepted, IInv, TypeOK,
     UsesOwnDescriptor, ClosesOwnDescriptor, UsesLiveSession, MqttHoldsOne,
     Uses, HttpUses, MqttUses, Opened, MustClose, Clients, Fault, Fine, pings
<1>2. UsesOwnDescriptor'
  BY TypesOfFds, SocketsAssumption DEF MqttAccepted, IInv, TypeOK,
     UsesOwnDescriptor, ClosesOwnDescriptor, UsesLiveSession, MqttHoldsOne,
     Uses, HttpUses, MqttUses, Opened, MustClose, Clients, Fault, Fine, pings
<1>3. ClosesOwnDescriptor'
  BY TypesOfFds, SocketsAssumption DEF MqttAccepted, IInv, TypeOK,
     UsesOwnDescriptor, ClosesOwnDescriptor, UsesLiveSession, MqttHoldsOne,
     Uses, HttpUses, MqttUses, Opened, MustClose, Clients, Fault, Fine, pings
<1>4. UsesLiveSession'
  BY TypesOfFds, SocketsAssumption DEF MqttAccepted, IInv, TypeOK,
     UsesOwnDescriptor, ClosesOwnDescriptor, UsesLiveSession, MqttHoldsOne,
     Uses, HttpUses, MqttUses, Opened, MustClose, Clients, Fault, Fine, pings
<1>5. MqttHoldsOne'
  BY TypesOfFds, SocketsAssumption DEF MqttAccepted, IInv, TypeOK,
     UsesOwnDescriptor, ClosesOwnDescriptor, UsesLiveSession, MqttHoldsOne,
     Uses, HttpUses, MqttUses, Opened, MustClose, Clients, Fault, Fine, pings
<1> QED
  BY <1>1, <1>2, <1>3, <1>4, <1>5 DEF IInv

LEMMA MqttFailsKeeps == IInv /\ MqttFails => IInv'
<1> SUFFICES ASSUME IInv, MqttFails PROVE IInv' OBVIOUS
<1>1. TypeOK'
  BY TypesOfFds, SocketsAssumption DEF MqttFails, FailedTransfer, Close,
     mqtt_socket_close, Releases, IInv, TypeOK, UsesOwnDescriptor,
     ClosesOwnDescriptor, UsesLiveSession, MqttHoldsOne, Uses, HttpUses,
     MqttUses, Opened, MustClose, Clients, Fault, Fine, pings
<1>2. UsesOwnDescriptor'
  BY TypesOfFds, SocketsAssumption DEF MqttFails, FailedTransfer, Close,
     mqtt_socket_close, Releases, IInv, TypeOK, UsesOwnDescriptor,
     ClosesOwnDescriptor, UsesLiveSession, MqttHoldsOne, Uses, HttpUses,
     MqttUses, Opened, MustClose, Clients, Fault, Fine, pings
<1>3. ClosesOwnDescriptor'
  BY TypesOfFds, SocketsAssumption DEF MqttFails, FailedTransfer, Close,
     mqtt_socket_close, Releases, IInv, TypeOK, UsesOwnDescriptor,
     ClosesOwnDescriptor, UsesLiveSession, MqttHoldsOne, Uses, HttpUses,
     MqttUses, Opened, MustClose, Clients, Fault, Fine, pings
<1>4. UsesLiveSession'
  BY TypesOfFds, SocketsAssumption DEF MqttFails, FailedTransfer, Close,
     mqtt_socket_close, Releases, IInv, TypeOK, UsesOwnDescriptor,
     ClosesOwnDescriptor, UsesLiveSession, MqttHoldsOne, Uses, HttpUses,
     MqttUses, Opened, MustClose, Clients, Fault, Fine, pings
<1>5. MqttHoldsOne'
  BY TypesOfFds, SocketsAssumption DEF MqttFails, FailedTransfer, Close,
     mqtt_socket_close, Releases, IInv, TypeOK, UsesOwnDescriptor,
     ClosesOwnDescriptor, UsesLiveSession, MqttHoldsOne, Uses, HttpUses,
     MqttUses, Opened, MustClose, Clients, Fault, Fine, pings
<1> QED
  BY <1>1, <1>2, <1>3, <1>4, <1>5 DEF IInv

LEMMA MqttClearsKeeps == IInv /\ MqttClears => IInv'
<1> SUFFICES ASSUME IInv, MqttClears PROVE IInv' OBVIOUS
<1>1. TypeOK'
  BY TypesOfFds, SocketsAssumption DEF MqttClears, IInv, TypeOK,
     UsesOwnDescriptor, ClosesOwnDescriptor, UsesLiveSession, MqttHoldsOne,
     Uses, HttpUses, MqttUses, Opened, MustClose, Clients, Fault, Fine, pings
<1>2. UsesOwnDescriptor'
  BY TypesOfFds, SocketsAssumption DEF MqttClears, IInv, TypeOK,
     UsesOwnDescriptor, ClosesOwnDescriptor, UsesLiveSession, MqttHoldsOne,
     Uses, HttpUses, MqttUses, Opened, MustClose, Clients, Fault, Fine, pings
<1>3. ClosesOwnDescriptor'
  BY TypesOfFds, SocketsAssumption DEF MqttClears, IInv, TypeOK,
     UsesOwnDescriptor, ClosesOwnDescriptor, UsesLiveSession, MqttHoldsOne,
     Uses, HttpUses, MqttUses, Opened, MustClose, Clients, Fault, Fine, pings
<1>4. UsesLiveSession'
  BY TypesOfFds, SocketsAssumption DEF MqttClears, IInv, TypeOK,
     UsesOwnDescriptor, ClosesOwnDescriptor, UsesLiveSession, MqttHoldsOne,
     Uses, HttpUses, MqttUses, Opened, MustClose, Clients, Fault, Fine, pings
<1>5. MqttHoldsOne'
  BY TypesOfFds, SocketsAssumption DEF MqttClears, IInv, TypeOK,
     UsesOwnDescriptor, ClosesOwnDescriptor, UsesLiveSession, MqttHoldsOne,
     Uses, HttpUses, MqttUses, Opened, MustClose, Clients, Fault, Fine, pings
<1> QED
  BY <1>1, <1>2, <1>3, <1>4, <1>5 DEF IInv

LEMMA PingCheckKeeps == IInv /\ PingCheck => IInv'
<1> SUFFICES ASSUME IInv, PingCheck PROVE IInv' OBVIOUS
<1>1. TypeOK'
  BY TypesOfFds, SocketsAssumption DEF PingCheck, _mqtt_connected, IInv, TypeOK,
     UsesOwnDescriptor, ClosesOwnDescriptor, UsesLiveSession, MqttHoldsOne,
     Uses, HttpUses, MqttUses, Opened, MustClose, Clients, Fault, Fine, pings
<1>2. UsesOwnDescriptor'
  BY TypesOfFds, SocketsAssumption DEF PingCheck, _mqtt_connected, IInv, TypeOK,
     UsesOwnDescriptor, ClosesOwnDescriptor, UsesLiveSession, MqttHoldsOne,
     Uses, HttpUses, MqttUses, Opened, MustClose, Clients, Fault, Fine, pings
<1>3. ClosesOwnDescriptor'
  BY TypesOfFds, SocketsAssumption DEF PingCheck, _mqtt_connected, IInv, TypeOK,
     UsesOwnDescriptor, ClosesOwnDescriptor, UsesLiveSession, MqttHoldsOne,
     Uses, HttpUses, MqttUses, Opened, MustClose, Clients, Fault, Fine, pings
<1>4. UsesLiveSession'
  BY TypesOfFds, SocketsAssumption DEF PingCheck, _mqtt_connected, IInv, TypeOK,
     UsesOwnDescriptor, ClosesOwnDescriptor, UsesLiveSession, MqttHoldsOne,
     Uses, HttpUses, MqttUses, Opened, MustClose, Clients, Fault, Fine, pings
<1>5. MqttHoldsOne'
  BY TypesOfFds, SocketsAssumption DEF PingCheck, _mqtt_connected, IInv, TypeOK,
     UsesOwnDescriptor, ClosesOwnDescriptor, UsesLiveSession, MqttHoldsOne,
     Uses, HttpUses, MqttUses, Opened, MustClose, Clients, Fault, Fine, pings
<1> QED
  BY <1>1, <1>2, <1>3, <1>4, <1>5 DEF IInv

LEMMA PingLoadKeeps == IInv /\ PingLoad => IInv'
<1> SUFFICES ASSUME IInv, PingLoad PROVE IInv' OBVIOUS
<1>1. TypeOK'
  BY TypesOfFds, SocketsAssumption DEF PingLoad, IInv, TypeOK,
     UsesOwnDescriptor, ClosesOwnDescriptor, UsesLiveSession, MqttHoldsOne,
     Uses, HttpUses, MqttUses, Opened, MustClose, Clients, Fault, Fine, pings
<1>2. UsesOwnDescriptor'
  BY TypesOfFds, SocketsAssumption DEF PingLoad, IInv, TypeOK,
     UsesOwnDescriptor, ClosesOwnDescriptor, UsesLiveSession, MqttHoldsOne,
     Uses, HttpUses, MqttUses, Opened, MustClose, Clients, Fault, Fine, pings
<1>3. ClosesOwnDescriptor'
  BY TypesOfFds, SocketsAssumption DEF PingLoad, IInv, TypeOK,
     UsesOwnDescriptor, ClosesOwnDescriptor, UsesLiveSession, MqttHoldsOne,
     Uses, HttpUses, MqttUses, Opened, MustClose, Clients, Fault, Fine, pings
<1>4. UsesLiveSession'
  BY TypesOfFds, SocketsAssumption DEF PingLoad, IInv, TypeOK,
     UsesOwnDescriptor, ClosesOwnDescriptor, UsesLiveSession, MqttHoldsOne,
     Uses, HttpUses, MqttUses, Opened, MustClose, Clients, Fault, Fine, pings
<1>5. MqttHoldsOne'
  BY TypesOfFds, SocketsAssumption DEF PingLoad, IInv, TypeOK,
     UsesOwnDescriptor, ClosesOwnDescriptor, UsesLiveSession, MqttHoldsOne,
     Uses, HttpUses, MqttUses, Opened, MustClose, Clients, Fault, Fine, pings
<1> QED
  BY <1>1, <1>2, <1>3, <1>4, <1>5 DEF IInv

LEMMA PingSendKeeps == IInv /\ PingSend => IInv'
<1> SUFFICES ASSUME IInv, PingSend PROVE IInv' OBVIOUS
<1>1. TypeOK'
  <2>1. astray' \in 0..MaxFaults + 1
    BY SocketsAssumption DEF PingSend, GoesAstray, IInv, TypeOK
  <2>2. faults' \in 0..MaxFaults
    BY SocketsAssumption DEF PingSend, IInv, TypeOK, Fault, Fine
  <2>3. owner' \in [Fds -> Clients \cup {"free"}] /\ sock' = sock /\ session' = session
    BY DEF PingSend, FailedTransfer, Close, mqtt_socket_close, Releases, IInv, TypeOK, Clients
  <2> QED
    BY <2>1, <2>2, <2>3 DEF PingSend, IInv, TypeOK
<1>2. UsesOwnDescriptor'
  BY TypesOfFds, SocketsAssumption DEF PingSend, FailedTransfer, Close,
     mqtt_socket_close, Releases, Free, IInv, TypeOK, UsesOwnDescriptor,
     ClosesOwnDescriptor, UsesLiveSession, MqttHoldsOne, Uses, HttpUses,
     MqttUses, Opened, MustClose, Clients, Fault, Fine, pings
<1>3. ClosesOwnDescriptor'
  BY TypesOfFds, SocketsAssumption DEF PingSend, FailedTransfer, Close,
     mqtt_socket_close, Releases, Free, IInv, TypeOK, UsesOwnDescriptor,
     ClosesOwnDescriptor, UsesLiveSession, MqttHoldsOne, Uses, HttpUses,
     MqttUses, Opened, MustClose, Clients, Fault, Fine, pings
<1>4. UsesLiveSession'
  BY TypesOfFds, SocketsAssumption DEF PingSend, FailedTransfer, Close,
     mqtt_socket_close, Releases, Free, IInv, TypeOK, UsesOwnDescriptor,
     ClosesOwnDescriptor, UsesLiveSession, MqttHoldsOne, Uses, HttpUses,
     MqttUses, Opened, MustClose, Clients, Fault, Fine, pings
<1>5. MqttHoldsOne'
  BY TypesOfFds, SocketsAssumption DEF PingSend, FailedTransfer, Close,
     mqtt_socket_close, Releases, Free, IInv, TypeOK, UsesOwnDescriptor,
     ClosesOwnDescriptor, UsesLiveSession, MqttHoldsOne, Uses, HttpUses,
     MqttUses, Opened, MustClose, Clients, Fault, Fine, pings
<1> QED
  BY <1>1, <1>2, <1>3, <1>4, <1>5 DEF IInv

LEMMA StepKeeps == IInv /\ [Next]_vars => IInv'
<1>1. IInv /\ Next => IInv'
  BY HttpConnectKeeps, HttpReceivedKeeps, HttpFailsKeeps, HttpCloseKeeps, MqttCloseKeeps,
     MqttConnectKeeps, MqttAcceptedKeeps, MqttFailsKeeps, MqttClearsKeeps, PingCheckKeeps,
     PingLoadKeeps, PingSendKeeps DEF Next, HttpClient, ReceiveTask, PingTask
<1>2. IInv /\ UNCHANGED vars => IInv'
  BY DEF vars, pings, IInv, TypeOK, UsesOwnDescriptor, ClosesOwnDescriptor, UsesLiveSession,
     MqttHoldsOne, Uses, HttpUses, MqttUses, Opened, MustClose, Clients
<1> QED
  BY <1>1, <1>2

-----------------------------------------------------------------------------
(* The processes stay within what they can reach: IInv is inductive, for   *)
(* any set of descriptors, with or without 0, and any number of failures.  *)
THEOREM InvariantCorrect == Spec => []IInv
BY InitIInv, StepKeeps, PTL DEF Spec

(* Types (kii_socket_callback.h:23-38).                                    *)
THEOREM TypeCorrect == Spec => []TypeOK
<1>1. IInv => TypeOK
  BY DEF IInv
<1> QED
  BY <1>1, InvariantCorrect, PTL

(* No client works on a connection that took over its descriptor           *)
(* (kii_mqtt.c:54-67, kii_core.c:286-291).                                 *)
THEOREM UsesOwnDescriptorCorrect == Spec => []UsesOwnDescriptor
<1>1. IInv => UsesOwnDescriptor
  BY DEF IInv
<1> QED
  BY <1>1, InvariantCorrect, PTL

(* kiiMQTT_connect closes only what the receive task opened                *)
(* (kii_mqtt.c:54-61).                                                     *)
THEOREM ClosesOwnDescriptorCorrect == Spec => []ClosesOwnDescriptor
<1>1. IInv => ClosesOwnDescriptor
  BY DEF IInv
<1> QED
  BY <1>1, InvariantCorrect, PTL

(* TLS objects are not used after they were freed                          *)
(* (kii_core_secure_socket.c:167-175).                                     *)
THEOREM UsesLiveSessionCorrect == Spec => []UsesLiveSession
<1>1. IInv => UsesLiveSession
  BY DEF IInv
<1> QED
  BY <1>1, InvariantCorrect, PTL

(* On the CC3200 the push receiver holds one connection at most            *)
(* (TI/CC3200/wlan_station/kii/kii_socket_impl.c:27-30).                   *)
THEOREM MqttHoldsOneCorrect == Spec => []MqttHoldsOne
<1>1. IInv => MqttHoldsOne
  BY DEF IInv
<1> QED
  BY <1>1, InvariantCorrect, PTL

-----------------------------------------------------------------------------
(* Who frees a descriptor.                                                 *)

FreedByOwner ==
  \A fd \in Fds : port # "gt202" /\ owner'[fd] = "free" =>
    /\ owner[fd] = "http" => http' # http
    /\ owner[fd] = "mqtt" => mqtt' # mqtt

LEMMA FreeingStep == IInv /\ [Next]_vars => FreedByOwner
<1> SUFFICES ASSUME IInv, [Next]_vars PROVE FreedByOwner OBVIOUS
<1>0. TypeOK /\ "http" \in Clients /\ "mqtt" \in Clients
  BY DEF IInv, Clients
<1>1. CASE HttpConnect
  <2>1. ASSUME NEW fd \in Free, NEW ok \in BOOLEAN, Connect("http", fd, ok) PROVE FreedByOwner
    BY <1>0, <2>1, ConnectEffect DEF FreedByOwner, TypeOK, Clients
  <2> QED
    BY <1>1, <2>1 DEF HttpConnect, NotOpened, FreedByOwner
<1>2. CASE MqttConnect
  <2>1. ASSUME NEW fd \in Free, NEW ok \in BOOLEAN, Connect("mqtt", fd, ok) PROVE FreedByOwner
    BY <1>0, <2>1, ConnectEffect DEF FreedByOwner, TypeOK, Clients
  <2> QED
    BY <1>2, <2>1 DEF MqttConnect, NotOpened, FreedByOwner
<1>3. CASE HttpClose
  <2>1. http = "close" /\ http' = "idle" /\ Close("http")
    BY <1>3 DEF HttpClose
  <2>2. port # "gt202" => owner[sock["http"]] = "http"
    BY <2>1 DEF IInv, UsesOwnDescriptor, Uses, HttpUses, Opened, Clients
  <2> QED
    BY <1>0, <2>1, <2>2, CloseEffect DEF FreedByOwner
<1>4. CASE MqttClose
  <2>1. mqtt = "close" /\ mqtt' = "open" /\ IF MustClose THEN Close("mqtt") ELSE UNCHANGED owner
    BY <1>4 DEF MqttClose
  <2>2. port # "gt202" /\ MustClose => owner[sock["mqtt"]] = "mqtt"
    BY <2>1 DEF IInv, ClosesOwnDescriptor, Opened
  <2> QED
    BY <1>0, <2>1, <2>2, CloseEffect DEF FreedByOwner
<1>5. CASE HttpFails
  BY <1>5 DEF HttpFails, FailedTransfer, FreedByOwner
<1>6. CASE MqttFails
  BY <1>6 DEF MqttFails, FailedTransfer, FreedByOwner
<1>7. CASE PingSend
  BY <1>7 DEF PingSend, FailedTransfer, FreedByOwner
<1>8. CASE HttpReceived \/ MqttAccepted \/ MqttClears \/ PingCheck \/ PingLoad
  BY <1>8 DEF HttpReceived, MqttAccepted, MqttClears, PingCheck, PingLoad, FreedByOwner
<1>9. CASE UNCHANGED vars
  BY <1>9 DEF vars, FreedByOwner
<1> QED
  BY <1>1, <1>2, <1>3, <1>4, <1>5, <1>6, <1>7, <1>8, <1>9
     DEF Next, HttpClient, ReceiveTask, PingTask

(* A descriptor is freed by the client that opened it                      *)
(* (Linux/kii_socket_impl.c:95-104, kii_core_secure_socket.c:150-177).     *)
THEOREM OnlyOwnerClosesCorrect == Spec => OnlyOwnerCloses
<1>1. IInv /\ [Next]_vars =>
        [\A fd \in Fds : port # "gt202" /\ owner'[fd] = "free" =>
           /\ owner[fd] = "http" => http' # http
           /\ owner[fd] = "mqtt" => mqtt' # mqtt]_vars
  BY FreeingStep DEF FreedByOwner
<1> QED
  BY <1>1, InvariantCorrect, PTL DEF Spec, OnlyOwnerCloses

-----------------------------------------------------------------------------
(* What is lost.                                                           *)

LEMMA OrphansFinite == IsFiniteSet(Orphans) /\ Cardinality(Orphans) \in Nat
<1>1. Orphans \in SUBSET Fds
  BY DEF Orphans
<1> QED
  BY <1>1, SocketsAssumption, FS_Subset, FS_CardinalityType

LEMMA OrphanIs ==
  ASSUME NEW fd \in Fds
  PROVE  fd \in Orphans <=>
           /\ \/ owner[fd] = "http" /\ ~(HttpUses /\ sock["http"] = fd)
              \/ owner[fd] = "mqtt" /\ ~(MqttUses /\ sock["mqtt"] = fd)
           /\ ~(port = "gt202" /\ fd = 0)
BY DEF Orphans, Uses, Clients

LEMMA OrphanNext ==
  ASSUME NEW fd \in Fds
  PROVE  fd \in Orphans' <=>
           /\ \/ owner'[fd] = "http" /\ ~(HttpUses' /\ sock'["http"] = fd)
              \/ owner'[fd] = "mqtt" /\ ~(MqttUses' /\ sock'["mqtt"] = fd)
           /\ ~(port' = "gt202" /\ fd = 0)
BY DEF Orphans, Uses, Clients

(* A step that loses nothing, and one that loses a descriptor to a failure.*)
LEMMA NothingLost ==
  ASSUME LeaksNeedFailures, faults \in Nat, faults' \in Nat, faults' >= faults,
         Orphans' \subseteq Orphans
  PROVE  LeaksNeedFailures'
<1>1. Cardinality(Orphans') <= Cardinality(Orphans) /\ Cardinality(Orphans') \in Nat
  BY OrphansFinite, FS_Subset, FS_CardinalityType
<1> QED
  BY <1>1, OrphansFinite DEF LeaksNeedFailures

LEMMA OneLost ==
  ASSUME LeaksNeedFailures, faults \in Nat, faults' = faults + 1, NEW x,
         Orphans' \subseteq Orphans \cup {x}
  PROVE  LeaksNeedFailures'
<1>1. /\ IsFiniteSet(Orphans \cup {x}) /\ Cardinality(Orphans \cup {x}) \in Nat
      /\ Cardinality(Orphans \cup {x}) <= Cardinality(Orphans) + 1
  BY OrphansFinite, FS_AddElement, FS_CardinalityType
<1>2. Cardinality(Orphans') <= Cardinality(Orphans \cup {x}) /\ Cardinality(Orphans') \in Nat
  BY <1>1, FS_Subset, FS_CardinalityType
<1> QED
  BY <1>1, <1>2, OrphansFinite DEF LeaksNeedFailures

LEMMA LosingStep == IInv /\ LeaksNeedFailures /\ [Next]_vars => LeaksNeedFailures'
<1> SUFFICES ASSUME IInv, LeaksNeedFailures, [Next]_vars PROVE LeaksNeedFailures' OBVIOUS
<1>0. TypeOK /\ "http" \in Clients /\ "mqtt" \in Clients /\ faults \in Nat
  BY SocketsAssumption DEF IInv, TypeOK, Clients
<1>1. CASE HttpConnect
  <2>0. http = "idle" /\ UNCHANGED <<port, mqtt>>
    BY <1>1 DEF HttpConnect
  <2>1. ASSUME NEW fd \in Free, Connect("http", fd, TRUE), http' = "transfer", Fine
        PROVE  LeaksNeedFailures'
    <3>0. /\ fd \in Fds /\ owner' = [owner EXCEPT ![fd] = "http"]
          /\ sock' = [sock EXCEPT !["http"] = fd]
      BY <1>0, <2>1, ConnectEffect
    <3>1. ASSUME NEW d \in Orphans' PROVE d \in Orphans
      <4>1. d \in Fds
        BY DEF Orphans
      <4>2. d # fd /\ owner'[d] = owner[d] /\ sock'["mqtt"] = sock["mqtt"]
        BY <1>0, <2>1, <3>0, <4>1, OrphanNext DEF TypeOK, HttpUses, Clients
      <4> QED
        BY <2>0, <4>1, <4>2, OrphanIs, OrphanNext DEF HttpUses, MqttUses
    <3> QED
      BY <1>0, <2>1, <3>1, NothingLost DEF Fine
  <2>2. ASSUME NEW fd \in Free, Connect("http", fd, FALSE), UNCHANGED http, Fault
        PROVE  LeaksNeedFailures'
    <3>1. Orphans' \subseteq Orphans \cup {fd}
      BY <1>0, <2>0, <2>2, ConnectEffect DEF Orphans, Uses, HttpUses, MqttUses, TypeOK, Clients
    <3> QED
      BY <1>0, <2>2, <3>1, OneLost DEF Fault
  <2>3. ASSUME NotOpened, UNCHANGED http PROVE LeaksNeedFailures'
    <3>1. Orphans' \subseteq Orphans
      BY <2>0, <2>3 DEF NotOpened, Orphans, Uses, HttpUses, MqttUses
    <3> QED
      BY <1>0, <2>3, <3>1, NothingLost DEF NotOpened, Fault, Fine
  <2> QED
    BY <1>1, <2>1, <2>2, <2>3 DEF HttpConnect
<1>2. CASE MqttConnect
  <2>0. mqtt = "open" /\ UNCHANGED <<port, http>>
    BY <1>2 DEF MqttConnect
  <2>1. ASSUME NEW fd \in Free, Connect("mqtt", fd, TRUE), mqtt' = "handshake", Fine
        PROVE  LeaksNeedFailures'
    <3>0. /\ fd \in Fds /\ owner' = [owner EXCEPT ![fd] = "mqtt"]
          /\ sock' = [sock EXCEPT !["mqtt"] = fd]
      BY <1>0, <2>1, ConnectEffect
    <3>1. ASSUME NEW d \in Orphans' PROVE d \in Orphans
      <4>1. d \in Fds
        BY DEF Orphans
      <4>2. d # fd /\ owner'[d] = owner[d] /\ sock'["http"] = sock["http"]
        BY <1>0, <2>1, <3>0, <4>1, OrphanNext DEF TypeOK, MqttUses, Clients
      <4> QED
        BY <2>0, <4>1, <4>2, OrphanIs, OrphanNext DEF HttpUses, MqttUses
    <3> QED
      BY <1>0, <2>1, <3>1, NothingLost DEF Fine
  <2>2. ASSUME NEW fd \in Free, Connect("mqtt", fd, FALSE), mqtt' = "close", Fault
        PROVE  LeaksNeedFailures'
    <3>0. /\ fd \in Fds /\ sock' = sock
          /\ owner' = [owner EXCEPT ![fd] = "mqtt"] \/ owner' = owner
      BY <1>0, <2>2, ConnectEffect
    <3>1. ASSUME NEW d \in Orphans', d # fd PROVE d \in Orphans
      <4>1. d \in Fds
        BY DEF Orphans
      <4>2. owner'[d] = owner[d]
        BY <1>0, <3>0, <3>1, <4>1 DEF TypeOK
      <4> QED
        BY <2>0, <2>2, <3>0, <4>1, <4>2, OrphanIs, OrphanNext DEF HttpUses, MqttUses
    <3> QED
      BY <1>0, <2>2, <3>1, OneLost DEF Fault
  <2>3. ASSUME NotOpened, mqtt' = "close" PROVE LeaksNeedFailures'
    <3>1. Orphans' \subseteq Orphans
      BY <2>0, <2>3 DEF NotOpened, Orphans, Uses, HttpUses, MqttUses
    <3> QED
      BY <1>0, <2>3, <3>1, NothingLost DEF NotOpened, Fault, Fine
  <2> QED
    BY <1>2, <2>1, <2>2, <2>3 DEF MqttConnect
<1>3. CASE HttpFails
  <2>0. /\ http = "transfer" /\ http' = "idle" /\ UNCHANGED <<port, mqtt>> /\ Fault
        /\ (Close("http") /\ port = "gt202") \/ UNCHANGED <<owner, sock>>
    BY <1>3 DEF HttpFails, FailedTransfer, AfterFailure
  <2>1. Orphans' \subseteq Orphans \cup {sock["http"]}
    BY <1>0, <2>0 DEF Orphans, Uses, HttpUses, MqttUses, TypeOK, Clients, Close, socket_close_cb, Releases
  <2> QED
    BY <1>0, <2>0, <2>1, OneLost DEF Fault
<1>4. CASE MqttFails
  <2>0. /\ mqtt \in {"handshake", "subscribed"} /\ mqtt' \in {"close", "failed"}
        /\ UNCHANGED <<port, http>> /\ Fault
        /\ (Close("mqtt") /\ port = "gt202") \/ UNCHANGED <<owner, sock>>
    BY <1>4 DEF MqttFails, FailedTransfer
  <2>1. Orphans' \subseteq Orphans \cup {sock["mqtt"]}
    BY <1>0, <2>0 DEF Orphans, Uses, HttpUses, MqttUses, TypeOK, Clients, Close, mqtt_socket_close, Releases
  <2> QED
    BY <1>0, <2>0, <2>1, OneLost DEF Fault
<1>5. CASE HttpClose
  <2>0. http = "close" /\ http' = "idle" /\ Close("http") /\ UNCHANGED <<port, mqtt, faults>>
    BY <1>5 DEF HttpClose
  <2>2. /\ \/ owner' = [d \in Fds |-> IF d = sock["http"] THEN "free" ELSE owner[d]]
           \/ owner' = owner /\ port = "gt202" /\ ~(sock["http"] > 0)
        /\ sock'["mqtt"] = sock["mqtt"]
    BY <1>0, <2>0, CloseEffect DEF TypeOK, Clients
  <2>1. ASSUME NEW d \in Orphans' PROVE d \in Orphans
    <3>1. d \in Fds /\ (d = sock["http"] => port # "gt202" \/ d # 0)
      BY <2>0, OrphanNext DEF Orphans
    <3>2. owner'[d] = owner[d] /\ (owner[d] = "http" => d # sock["http"])
      <4>1. CASE owner' = [e \in Fds |-> IF e = sock["http"] THEN "free" ELSE owner[e]]
        BY <3>1, <4>1, OrphanNext
      <4>2. CASE owner' = owner /\ port = "gt202" /\ ~(sock["http"] > 0)
        BY <3>1, <4>2, TypesOfFds
      <4> QED
        BY <2>2, <4>1, <4>2
    <3> QED
      BY <2>0, <2>2, <3>1, <3>2, OrphanIs, OrphanNext DEF MqttUses
  <2> QED
    BY <1>0, <2>0, <2>1, NothingLost
<1>6. CASE MqttClose
  <2>0. /\ mqtt = "close" /\ mqtt' = "open" /\ UNCHANGED <<port, http, faults>>
        /\ IF MustClose THEN Close("mqtt") ELSE UNCHANGED <<owner, sock>>
    BY <1>6 DEF MqttClose
  <2>1. Orphans' \subseteq Orphans
    BY <1>0, <2>0 DEF Orphans, Uses, HttpUses, MqttUses, TypeOK, Clients, MustClose, Close,
       mqtt_close_cb, close_cb, Releases, Holds
  <2> QED
    BY <1>0, <2>0, <2>1, NothingLost
<1>7. CASE PingSend
  <2>0. /\ UNCHANGED <<port, http, mqtt>> /\ (Fault \/ Fine)
        /\ (Close("mqtt") /\ port = "gt202") \/ UNCHANGED <<owner, sock>>
    BY <1>7 DEF PingSend, FailedTransfer
  <2>2. sock' = sock /\ \A d \in Fds : owner'[d] \in {"free", owner[d]}
    BY <1>0, <2>0 DEF Close, mqtt_socket_close, Releases, Clients
  <2>1. ASSUME NEW d \in Orphans' PROVE d \in Orphans
    <3>1. d \in Fds
      BY DEF Orphans
    <3>2. owner'[d] = owner[d]
      BY <2>2, <3>1, OrphanNext
    <3>3. port' = port /\ (HttpUses' <=> HttpUses) /\ (MqttUses' <=> MqttUses)
      BY <2>0 DEF HttpUses, MqttUses
    <3> QED
      BY <2>2, <3>1, <3>2, <3>3, OrphanIs, OrphanNext
  <2> QED
    BY <1>0, <2>0, <2>1, NothingLost DEF Fault, Fine
<1>8. CASE HttpReceived \/ MqttAccepted \/ MqttClears \/ PingCheck \/ PingLoad \/ UNCHANGED vars
  <2>1. Orphans' \subseteq Orphans /\ UNCHANGED faults
    BY <1>8 DEF HttpReceived, MqttAccepted, MqttClears, PingCheck, PingLoad, vars, pings,
       Orphans, Uses, HttpUses, MqttUses
  <2> QED
    BY <1>0, <2>1, NothingLost
<1> QED
  BY <1>1, <1>2, <1>3, <1>4, <1>5, <1>6, <1>7, <1>8 DEF Next, HttpClient, ReceiveTask, PingTask

(* No descriptor is lost without a failure, and no failure loses two       *)
(* (Linux/kii_socket_impl.c:51, kii_core.c:287-291, kii_mqtt.c:54).        *)
THEOREM LeaksNeedFailuresCorrect == Spec => []LeaksNeedFailures
<1>1. Init => LeaksNeedFailures
  <2>1. Init => Orphans = {} /\ faults = 0
    BY DEF Init, Orphans, Clients
  <2> QED
    BY <2>1, FS_EmptySet DEF LeaksNeedFailures
<1> QED
  BY <1>1, LosingStep, InvariantCorrect, PTL DEF Spec

-----------------------------------------------------------------------------
(* Pings astray.  A lost push connection may send one astray until it is   *)
(* closed, a ping with a descriptor of the past may until it is sent.      *)

(* What the descriptor 0 of a push connection, which nobody closes, is.    *)
ZeroKept ==
  sock["mqtt"] = 0 /\ (_mqtt_connected \/ ping # "idle") =>
    0 \in Fds /\ owner[0] = "mqtt"

LEMMA StrayIs ==
  StrayPingsFollowFailures <=>
    (port # "gt202" => astray + (IF Lost THEN 1 ELSE 0) + (IF Stale THEN 1 ELSE 0) <= faults /\ ZeroKept)
BY DEF StrayPingsFollowFailures, ZeroKept

(* A step that takes no ping nearer to the HTTP client.                    *)
LEMMA NothingAstray ==
  ASSUME StrayPingsFollowFailures, TypeOK, port # "gt202", port' = port, astray' = astray,
         faults' \in Nat, faults' >= faults,
         Lost' => Lost \/ faults' = faults + 1, Stale' => Stale, ZeroKept'
  PROVE  StrayPingsFollowFailures'
<1>1. astray \in Nat /\ faults \in Nat
  BY SocketsAssumption DEF TypeOK
<1>2. astray + (IF Lost THEN 1 ELSE 0) + (IF Stale THEN 1 ELSE 0) <= faults
  BY StrayIs
<1>3. astray' + (IF Lost' THEN 1 ELSE 0) + (IF Stale' THEN 1 ELSE 0) <= faults'
  BY <1>1, <1>2
<1> QED
  BY <1>3 DEF StrayPingsFollowFailures, ZeroKept

LEMMA StrayStep ==
  IInv /\ StrayPingsFollowFailures /\ [Next]_vars => StrayPingsFollowFailures'
<1> SUFFICES ASSUME IInv, StrayPingsFollowFailures, [Next]_vars PROVE StrayPingsFollowFailures'
  OBVIOUS
<1>12. port' = port
  <2>1. HttpClient => port' = port
    BY Zenon DEF HttpClient, HttpConnect, HttpReceived, HttpFails, HttpClose
  <2>2. ReceiveTask => port' = port
    BY Zenon DEF ReceiveTask, MqttClose, MqttConnect, MqttAccepted, MqttFails, MqttClears
  <2>3. PingTask => port' = port
    BY Zenon DEF PingTask, PingCheck, PingLoad, PingSend
  <2>4. UNCHANGED vars => port' = port
    BY DEF vars
  <2> QED
    BY <2>1, <2>2, <2>3, <2>4 DEF Next
<1> SUFFICES ASSUME port # "gt202", port' = port PROVE StrayPingsFollowFailures'
  BY <1>12 DEF StrayPingsFollowFailures
<1>0. /\ TypeOK /\ "http" \in Clients /\ "mqtt" \in Clients /\ ZeroKept
      /\ astray \in Nat /\ faults \in Nat
  BY SocketsAssumption, StrayIs DEF IInv, TypeOK, Clients
<1>1. CASE HttpConnect
  <2>0. UNCHANGED <<mqtt, pings>> /\ UNCHANGED <<ping, pingSock, astray>> /\ (Fault \/ Fine)
    BY <1>1 DEF HttpConnect, NotOpened, pings
  <2>1. /\ sock'["mqtt"] = sock["mqtt"]
        /\ \A d \in Fds : owner'[d] = owner[d] \/ owner[d] = "free"
    <3>1. ASSUME NEW fd \in Free, NEW ok \in BOOLEAN, Connect("http", fd, ok)
          PROVE  /\ sock'["mqtt"] = sock["mqtt"]
                 /\ \A d \in Fds : owner'[d] = owner[d] \/ owner[d] = "free"
      <4>1. /\ fd \in Fds /\ owner[fd] = "free"
            /\ owner' = [owner EXCEPT ![fd] = "http"] \/ owner' = owner
            /\ sock' = IF ok THEN [sock EXCEPT !["http"] = fd] ELSE sock
        BY <1>0, <3>1, ConnectEffect
      <4>2. sock'["mqtt"] = sock["mqtt"]
        BY <1>0, <4>1 DEF TypeOK, Clients
      <4>3. \A d \in Fds : owner'[d] = owner[d] \/ owner[d] = "free"
        BY <1>0, <4>1 DEF TypeOK
      <4> QED
        BY <4>2, <4>3
    <3> QED
      BY <1>1, <3>1 DEF HttpConnect, NotOpened
  <2>2. (Lost' => Lost) /\ (Stale' => Stale)
    BY <2>0, <2>1 DEF Lost, Stale, MustClose
  <2>3. ZeroKept'
    BY <1>0, <2>0, <2>1 DEF ZeroKept, _mqtt_connected
  <2> QED
    BY <1>0, <2>0, <2>2, <2>3, NothingAstray DEF Fault, Fine
<1>2. CASE HttpClose
  <2>0. /\ http = "close" /\ Close("http") /\ UNCHANGED <<mqtt, faults>>
        /\ UNCHANGED <<ping, pingSock, astray>>
    BY <1>2 DEF HttpClose, pings
  <2>1. owner[sock["http"]] = "http"
    BY <2>0 DEF IInv, UsesOwnDescriptor, Uses, HttpUses, Opened, Clients
  <2>2. /\ sock'["mqtt"] = sock["mqtt"]
        /\ owner' = [d \in Fds |-> IF d = sock["http"] THEN "free" ELSE owner[d]]
    BY <1>0, <2>0, CloseEffect DEF TypeOK, Clients
  <2>3. \A d \in Fds : owner[d] = "mqtt" => owner'[d] = "mqtt"
    BY <2>1, <2>2
  <2>4. (Lost' => Lost) /\ (Stale' => Stale)
    BY <2>0, <2>2, <2>3 DEF Lost, Stale, MustClose
  <2>5. ZeroKept'
    BY <1>0, <2>0, <2>2, <2>3 DEF ZeroKept, _mqtt_connected
  <2> QED
    BY <1>0, <2>0, <2>4, <2>5, NothingAstray
<1>3. CASE MqttClose
  <2>0. /\ mqtt = "close" /\ mqtt' = "open" /\ UNCHANGED <<faults, astray, ping, pingSock>>
        /\ IF MustClose THEN Close("mqtt") ELSE UNCHANGED <<owner, sock, session>>
    BY <1>3 DEF MqttClose, pings
  <2>1. ~Lost'
    BY <2>0 DEF Lost
  <2>2. CASE MustClose
    <3>1. Lost
      BY <2>0, <2>2 DEF Lost
    <3>2. sock'["mqtt"] # 0
      BY <1>0, <2>0, <2>2, CloseEffect DEF TypeOK, Clients, Closing
    <3>3. astray' + (IF Lost' THEN 1 ELSE 0) + (IF Stale' THEN 1 ELSE 0) <= faults'
      BY <1>0, <2>0, <2>1, <3>1, StrayIs
    <3> QED
      BY <3>2, <3>3 DEF StrayPingsFollowFailures
  <2>3. CASE ~MustClose
    <3>1. (Stale' => Stale) /\ ZeroKept'
      BY <1>0, <2>0, <2>3 DEF Stale, ZeroKept, _mqtt_connected
    <3> QED
      BY <1>0, <2>0, <2>1, <3>1, NothingAstray
  <2> QED
    BY <2>2, <2>3
<1>4. CASE MqttConnect
  <2>0. mqtt = "open" /\ UNCHANGED <<ping, pingSock, astray>> /\ (Fault \/ Fine)
    BY <1>4 DEF MqttConnect, NotOpened, pings
  <2>9. ~MustClose
    BY <2>0 DEF IInv, ClosesOwnDescriptor
  <2>1. ASSUME NEW fd \in Free, Connect("mqtt", fd, TRUE), mqtt' = "handshake"
        PROVE  (Lost' => Lost) /\ (Stale' => Stale) /\ ZeroKept'
    <3>1. /\ fd \in Fds /\ owner' = [owner EXCEPT ![fd] = "mqtt"]
          /\ sock' = [sock EXCEPT !["mqtt"] = fd]
      BY <1>0, <2>1, ConnectEffect
    <3>2. sock'["mqtt"] = fd /\ owner'[fd] = "mqtt"
      BY <1>0, <3>1 DEF TypeOK, Clients
    <3>3. \A d \in Fds : owner[d] = "mqtt" => owner'[d] = "mqtt"
      BY <1>0, <3>1 DEF TypeOK
    <3> QED
      BY <2>0, <2>1, <3>1, <3>2, <3>3 DEF Lost, Stale, ZeroKept
  <2>2. ASSUME mqtt' = "close", sock' = sock,
               \A d \in Fds : owner[d] = "mqtt" => owner'[d] = "mqtt"
        PROVE  (Lost' => Lost) /\ (Stale' => Stale) /\ ZeroKept'
    BY <1>0, <2>0, <2>2, <2>9 DEF Lost, Stale, MustClose, ZeroKept, _mqtt_connected
  <2>3. ASSUME NEW fd \in Free, Connect("mqtt", fd, FALSE)
        PROVE  sock' = sock /\ \A d \in Fds : owner[d] = "mqtt" => owner'[d] = "mqtt"
    BY <1>0, <2>3, ConnectEffect DEF TypeOK
  <2>4. (Lost' => Lost) /\ (Stale' => Stale) /\ ZeroKept'
    BY <1>4, <2>1, <2>2, <2>3 DEF MqttConnect, NotOpened
  <2> QED
    BY <1>0, <2>0, <2>4, NothingAstray DEF Fault, Fine
<1>5. CASE MqttAccepted
  <2>0. /\ mqtt = "handshake" /\ mqtt' = "subscribed"
        /\ UNCHANGED <<owner, sock, faults, ping, pingSock, astray>>
    BY <1>5 DEF MqttAccepted, pings
  <2>1. sock["mqtt"] \in Fds /\ owner[sock["mqtt"]] = "mqtt"
    BY <2>0 DEF IInv, UsesOwnDescriptor, Uses, MqttUses, Opened, Clients
  <2>2. (Lost' => Lost) /\ (Stale' => Stale) /\ ZeroKept'
    BY <2>0, <2>1 DEF Lost, Stale, ZeroKept
  <2> QED
    BY <1>0, <2>0, <2>2, NothingAstray
<1>6. CASE MqttFails
  <2>2. UNCHANGED <<owner, sock, ping, pingSock, astray>>
    BY <1>6 DEF MqttFails, FailedTransfer, pings
  <2>3. /\ faults' = faults + 1
        /\ \/ mqtt = "handshake" /\ mqtt' = "close"
           \/ mqtt = "subscribed" /\ mqtt' = "failed"
    BY <1>6 DEF MqttFails, Fault
  <2>0. /\ UNCHANGED <<owner, sock, ping, pingSock, astray>> /\ faults' = faults + 1
        /\ _mqtt_connected' => _mqtt_connected
    BY <2>2, <2>3 DEF _mqtt_connected
  <2>1. (Stale' => Stale) /\ ZeroKept'
    BY <1>0, <2>0 DEF Stale, ZeroKept
  <2> QED
    BY <1>0, <2>0, <2>1, NothingAstray
<1>7. CASE MqttClears
  <2>0. /\ mqtt = "failed" /\ mqtt' = "close"
        /\ UNCHANGED <<owner, sock, faults, ping, pingSock, astray>>
    BY <1>7 DEF MqttClears, pings
  <2>1. (Lost' => Lost) /\ (Stale' => Stale) /\ ZeroKept'
    BY <1>0, <2>0 DEF Lost, Stale, MustClose, ZeroKept, _mqtt_connected
  <2> QED
    BY <1>0, <2>0, <2>1, NothingAstray
<1>8. CASE PingCheck
  <2>0. /\ _mqtt_connected /\ ping' = "checked"
        /\ UNCHANGED <<owner, sock, mqtt, faults, astray>>
    BY <1>8 DEF PingCheck
  <2>1. (Lost' => Lost) /\ (Stale' => Stale) /\ ZeroKept'
    BY <1>0, <2>0 DEF Lost, Stale, MustClose, ZeroKept, _mqtt_connected
  <2> QED
    BY <1>0, <2>0, <2>1, NothingAstray
<1>9. CASE PingLoad
  <2>0. /\ ping = "checked" /\ ping' = "loaded" /\ pingSock' = sock["mqtt"]
        /\ UNCHANGED <<owner, sock, mqtt, faults, astray>>
    BY <1>9 DEF PingLoad
  <2>1. sock["mqtt"] \in Fds => owner[sock["mqtt"]] = "mqtt"
    <3>1. CASE mqtt \in {"handshake", "subscribed"}
      BY <3>1 DEF IInv, UsesOwnDescriptor, Uses, MqttUses, Opened, Clients
    <3>2. CASE mqtt \in {"close", "failed"} /\ MustClose
      BY <3>2 DEF IInv, ClosesOwnDescriptor, Opened
    <3>3. CASE ~MustClose
      <4>2. ~(sock["mqtt"] > 0)
        BY <3>3 DEF MustClose
      <4>1. sock["mqtt"] \in Fds => sock["mqtt"] = 0
        <5>1. \A n \in Nat : n > 0 \/ n = 0
          OBVIOUS
        <5> QED
          BY <4>2, <5>1, TypesOfFds
      <4> QED
        BY <1>0, <2>0, <4>1 DEF ZeroKept
    <3>4. mqtt = "open" => ~MustClose
      BY DEF IInv, ClosesOwnDescriptor
    <3> QED
      BY <1>0, <3>1, <3>2, <3>3, <3>4 DEF TypeOK
  <2>2. (Lost' => Lost) /\ ~Stale' /\ ZeroKept'
    BY <1>0, <2>0, <2>1 DEF Lost, Stale, MustClose, ZeroKept, _mqtt_connected
  <2> QED
    BY <1>0, <2>0, <2>2, NothingAstray
<1>10. CASE PingSend
  <2>0. /\ ping = "loaded" /\ ping' = "idle" /\ UNCHANGED <<owner, sock, mqtt, pingSock>>
        /\ faults' \in Nat /\ faults' >= faults
        /\ astray' = astray \/ (GoesAstray /\ astray' = astray + 1)
    BY <1>0, <1>10 DEF PingSend, FailedTransfer, Fault, Fine
  <2>1. (Lost' => Lost) /\ ~Stale' /\ ZeroKept'
    BY <1>0, <2>0 DEF Lost, Stale, MustClose, ZeroKept, _mqtt_connected
  <2>2. CASE astray' = astray
    BY <1>0, <2>0, <2>1, <2>2, NothingAstray
  <2>3. CASE GoesAstray /\ astray' = astray + 1
    <3>1. Stale
      BY <2>0, <2>3 DEF Stale, GoesAstray
    <3>2. astray' + (IF Lost' THEN 1 ELSE 0) + (IF Stale' THEN 1 ELSE 0) <= faults'
      BY <1>0, <2>0, <2>1, <2>3, <3>1, StrayIs
    <3> QED
      BY <2>1, <3>2 DEF StrayPingsFollowFailures, ZeroKept
  <2> QED
    BY <2>0, <2>2, <2>3
<1>11. CASE HttpReceived \/ HttpFails \/ UNCHANGED vars
  <2>0. UNCHANGED <<owner, sock, mqtt, ping, pingSock, astray>> /\ (Fault \/ Fine)
    BY <1>11 DEF HttpReceived, HttpFails, FailedTransfer, Fine, vars, pings
  <2>1. (Lost' => Lost) /\ (Stale' => Stale) /\ ZeroKept'
    BY <1>0, <2>0 DEF Lost, Stale, MustClose, ZeroKept, _mqtt_connected
  <2> QED
    BY <1>0, <2>0, <2>1, NothingAstray DEF Fault, Fine
<1> QED
  BY <1>1, <1>2, <1>3, <1>4, <1>5, <1>6, <1>7, <1>8, <1>9, <1>10, <1>11
     DEF Next, HttpClient, ReceiveTask, PingTask

(* No more pings than failures land in a connection of the HTTP client, on *)
(* any number of descriptors and over any number of reconnections, where   *)
(* the port writes -1 over what it closed (kii_push.c:497-515,             *)
(* kii_mqtt.c:54-67, Linux/kii_socket_impl.c:60-102).                      *)
THEOREM StrayPingsNeedFailuresCorrect == Spec => []StrayPingsNeedFailures
<1>1. Init => StrayPingsFollowFailures
  BY SocketsAssumption DEF Init, StrayPingsFollowFailures, Lost, Stale, MustClose, _mqtt_connected, Clients
<1>2. IInv /\ StrayPingsFollowFailures => StrayPingsNeedFailures
  <2>1. ASSUME IInv, StrayPingsFollowFailures, port # "gt202" PROVE astray <= faults
    <3>1. astray \in Nat /\ faults \in Nat
      BY <2>1, SocketsAssumption DEF IInv, TypeOK
    <3> QED
      BY <2>1, <3>1, StrayIs
  <2> QED
    BY <2>1 DEF StrayPingsNeedFailures
<1> QED
  BY <1>1, <1>2, StrayStep, InvariantCorrect, PTL DEF Spec
=============================================================================
