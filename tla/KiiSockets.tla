----------------------------- MODULE KiiSockets -----------------------------
(***************************************************************************)
(* The sockets of a device: the descriptors that the callbacks of a port   *)
(* open and close for the HTTP client (kii_core.c) and, in the same        *)
(* process, for the push receiver and its ping task (kii_push.c,           *)
(* kii_mqtt.c).  A descriptor that is closed may come back, as another     *)
(* connection, from the next socket() of either.                           *)
(*                                                                         *)
(* Ports: "linux" (TLS for HTTP, plain TCP for MQTT), "ti" (CC3200; the    *)
(* callbacks of WinnerMicro are the same) and "gt202", which keeps its     *)
(* descriptors in a context_t of its own and leaves                        *)
(* kii_socket_context_t.socket at the 0 of the memset.                     *)
(***************************************************************************)
EXTENDS Integers, FiniteSets

CONSTANTS
  Fds,       (* descriptors of the process; 0 may be one of them            *)
  Ports,     (* the ports looked at                                         *)
  MaxFaults  (* bound: failures of the network                              *)

ASSUME SocketsAssumption ==
  /\ Fds \subseteq Nat /\ IsFiniteSet(Fds)
  /\ Ports \subseteq {"linux", "ti", "gt202"}
  /\ MaxFaults \in Nat

VARIABLES
  port,     (* the port of this device                                      *)
  owner,    (* of each descriptor: the client that opened it, or "free"     *)
  sock,     (* of each client: the descriptor its context holds             *)
  session,  (* the TLS objects the HTTP context points at                   *)
  http,     (* the HTTP client, as prv_kii_http_execute sees it             *)
  mqtt,     (* the receive task in kiiMQTT_connect and beyond it            *)
  ping,     (* the ping task                                                *)
  pingSock, (* the descriptor its send callback has loaded                  *)
  astray,   (* pings sent into a connection of the HTTP client              *)
  faults    (* failures so far                                              *)

pings == <<ping, pingSock, astray>>
vars == <<port, owner, sock, session, http, mqtt, pings, faults>>

Clients == {"http", "mqtt"}
Closing == 0 - 1  (* what close_cb writes over a descriptor                 *)

Init ==
  /\ port \in Ports
  /\ owner = [fd \in Fds |-> "free"]
  /\ sock = [c \in Clients |-> 0]
  /\ session = "none"
  /\ http = "idle" /\ mqtt = "close" /\ ping = "idle"
  /\ pingSock = 0 /\ astray = 0
  /\ faults = 0

Fault == faults < MaxFaults /\ faults' = faults + 1
Fine == UNCHANGED faults

-----------------------------------------------------------------------------
(* The callbacks.                                                          *)

Free == {fd \in Fds : owner[fd] = "free"}
Takes(c, fd) == owner' = [owner EXCEPT ![fd] = c]
Holds(c, fd) == sock' = [sock EXCEPT ![c] = fd]
Releases(fd) == owner' = [d \in Fds |-> IF d = fd THEN "free" ELSE owner[d]]

(* No address, or no descriptor left: nothing was opened.                  *)
NotOpened ==
  /\ Fault \/ (Free = {} /\ Fine)
  /\ UNCHANGED <<owner, sock, session>>

(* Linux, plain TCP: a descriptor that did not connect stays open.         *)
mqtt_connect_cb(fd, ok) ==
  /\ Takes("mqtt", fd)
  /\ IF ok THEN Holds("mqtt", fd) ELSE UNCHANGED sock
  /\ UNCHANGED session

mqtt_close_cb ==
  /\ Releases(sock["mqtt"]) /\ Holds("mqtt", Closing)
  /\ UNCHANGED session

(* Linux, TLS: the same, and the objects of a failed handshake are lost.   *)
s_connect_cb(fd, ok) ==
  /\ Takes("http", fd)
  /\ IF ok THEN Holds("http", fd) /\ session' = "live" ELSE UNCHANGED <<sock, session>>

(* The descriptor is closed and the session freed whatever SSL_shutdown    *)
(* said, but the context forgets the session only if that was well.        *)
s_close_cbEarly ==
  /\ UNCHANGED sock
  /\ \/ Releases(sock["http"]) /\ session' = "none"
     \/ UNCHANGED owner /\ session' = "freed"
s_close_cb ==
  /\ Releases(sock["http"]) /\ UNCHANGED sock
  /\ session' \in {"none", "freed"}

(* CC3200: a descriptor that did not connect is closed.                    *)
connect_cb(c, fd, ok) ==
  /\ IF ok THEN Takes(c, fd) /\ Holds(c, fd) ELSE UNCHANGED <<owner, sock>>
  /\ UNCHANGED session

close_cbKeeping(c) ==
  /\ Releases(sock[c]) /\ UNCHANGED <<sock, session>>
close_cb(c) ==
  /\ Releases(sock[c]) /\ Holds(c, Closing)
  /\ UNCHANGED session

(* gt202: connects like Linux; closes without forgetting, and whenever a   *)
(* send or a receive fails.                                                *)
socket_connect_cb(fd, ok) ==
  /\ Takes("http", fd)
  /\ IF ok THEN Holds("http", fd) /\ session' = "live" ELSE UNCHANGED <<sock, session>>

socket_close_cb ==
  /\ IF sock["http"] > 0 THEN Releases(sock["http"]) ELSE UNCHANGED owner
  /\ session' = "freed"
  /\ UNCHANGED sock

mqtt_socket_connect(fd, ok) ==
  /\ Takes("mqtt", fd)
  /\ IF ok THEN Holds("mqtt", fd) ELSE UNCHANGED sock
  /\ UNCHANGED session

mqtt_socket_close ==
  /\ IF sock["mqtt"] > 0 THEN Releases(sock["mqtt"]) ELSE UNCHANGED owner
  /\ UNCHANGED <<sock, session>>

Connect(c, fd, ok) ==
  \/ port = "linux" /\ c = "http" /\ s_connect_cb(fd, ok)
  \/ port = "linux" /\ c = "mqtt" /\ mqtt_connect_cb(fd, ok)
  \/ port = "ti" /\ connect_cb(c, fd, ok)
  \/ port = "gt202" /\ c = "http" /\ socket_connect_cb(fd, ok)
  \/ port = "gt202" /\ c = "mqtt" /\ mqtt_socket_connect(fd, ok)

Close(c) ==
  \/ port = "linux" /\ c = "http" /\ s_close_cb
  \/ port = "linux" /\ c = "mqtt" /\ mqtt_close_cb
  \/ port = "ti" /\ close_cb(c)
  \/ port = "gt202" /\ c = "http" /\ socket_close_cb
  \/ port = "gt202" /\ c = "mqtt" /\ mqtt_socket_close

(* What a send or a receive that fails does before it says so.             *)
FailedTransfer(c) ==
  IF port = "gt202" THEN Close(c) ELSE UNCHANGED <<owner, sock, session>>

-----------------------------------------------------------------------------
(* The HTTP client.  Whatever fails, the next call begins with a connect.  *)

AfterFailureClosing == "close"
AfterFailure == "idle"

HttpConnect ==
  /\ http = "idle"
  /\ \/ /\ \E fd \in Free : Connect("http", fd, TRUE)
        /\ http' = "transfer" /\ Fine
     \/ /\ \E fd \in Free : Connect("http", fd, FALSE)
        /\ UNCHANGED http /\ Fault
     \/ NotOpened /\ UNCHANGED http
  /\ UNCHANGED <<port, mqtt, pings>>

HttpReceived ==
  /\ http = "transfer" /\ http' = "close"
  /\ UNCHANGED <<port, owner, sock, session, mqtt, pings, faults>>

(* A send or a receive fails, or a response does not fit the buffer, which *)
(* no callback hears of.                                                   *)
HttpFails ==
  /\ http = "transfer" /\ http' = AfterFailure
  /\ Fault
  /\ FailedTransfer("http") \/ UNCHANGED <<owner, sock, session>>
  /\ UNCHANGED <<port, mqtt, pings>>

(* A close that failed is a failed call all the same.                      *)
HttpClose ==
  /\ http = "close" /\ http' = "idle"
  /\ Close("http")
  /\ UNCHANGED <<port, mqtt, pings, faults>>

-----------------------------------------------------------------------------
(* The receive task.  "handshake" lasts until the broker has accepted the  *)
(* CONNECT, which is when _mqtt_connected is set; SUBSCRIBE and all that   *)
(* follows is "subscribed".  A failure there is noticed, "failed", a step  *)
(* before the flag is cleared (kii_push.c:497-515).                        *)

(* Mutant: the flag is set before there is a connection.                   *)
_mqtt_connectedEarly == mqtt # "close"
_mqtt_connected == mqtt \in {"subscribed", "failed"}

MustClose == port # "gt202" /\ sock["mqtt"] > 0

MqttClose ==
  /\ mqtt = "close" /\ mqtt' = "open"
  /\ IF MustClose THEN Close("mqtt") ELSE UNCHANGED <<owner, sock, session>>
  /\ UNCHANGED <<port, http, pings, faults>>

MqttConnect ==
  /\ mqtt = "open"
  /\ \/ /\ \E fd \in Free : Connect("mqtt", fd, TRUE)
        /\ mqtt' = "handshake" /\ Fine
     \/ /\ \E fd \in Free : Connect("mqtt", fd, FALSE)
        /\ mqtt' = "close" /\ Fault
     \/ NotOpened /\ mqtt' = "close"
  /\ UNCHANGED <<port, http, pings>>

MqttAccepted ==
  /\ mqtt = "handshake" /\ mqtt' = "subscribed"
  /\ UNCHANGED <<port, owner, sock, session, http, pings, faults>>

(* A send or a receive fails, or an answer is not the one expected.        *)
MqttFails ==
  /\ \/ mqtt = "handshake" /\ mqtt' = "close"
     \/ mqtt = "subscribed" /\ mqtt' = "failed"
  /\ Fault
  /\ FailedTransfer("mqtt") \/ UNCHANGED <<owner, sock, session>>
  /\ UNCHANGED <<port, http, pings>>

MqttClears ==
  /\ mqtt = "failed" /\ mqtt' = "close"
  /\ UNCHANGED <<port, owner, sock, session, http, pings, faults>>

-----------------------------------------------------------------------------
(* The ping task: it looks at the flag, loads the descriptor and sends,    *)
(* with the other task anywhere by then.                                   *)

PingCheck ==
  /\ ping = "idle" /\ _mqtt_connected
  /\ ping' = "checked"
  /\ UNCHANGED <<port, owner, sock, session, http, mqtt, pingSock, astray, faults>>

PingLoad ==
  /\ ping = "checked" /\ ping' = "loaded"
  /\ pingSock' = sock["mqtt"]
  /\ UNCHANGED <<port, owner, sock, session, http, mqtt, astray, faults>>

(* Pings astray are counted up to the bound of the failures and one more.  *)
GoesAstray == pingSock \in Fds /\ owner[pingSock] = "http" /\ astray <= MaxFaults

PingSend ==
  /\ ping = "loaded" /\ ping' = "idle"
  /\ \/ /\ pingSock \in Fds \ Free
        /\ astray' = IF GoesAstray THEN astray + 1 ELSE astray
        /\ UNCHANGED <<owner, sock, session>> /\ Fine
     \/ /\ IF pingSock \in Fds \ Free THEN Fault ELSE Fine
        /\ FailedTransfer("mqtt") /\ UNCHANGED astray
  /\ UNCHANGED <<port, http, mqtt, pingSock>>

HttpClient == HttpConnect \/ HttpReceived \/ HttpFails \/ HttpClose
ReceiveTask == MqttClose \/ MqttConnect \/ MqttAccepted \/ MqttFails \/ MqttClears
PingTask == PingCheck \/ PingLoad \/ PingSend

Next == HttpClient \/ ReceiveTask \/ PingTask
Spec == Init /\ [][Next]_vars

-----------------------------------------------------------------------------
TypeOK ==
  /\ port \in Ports
  /\ owner \in [Fds -> Clients \cup {"free"}]
  /\ sock \in [Clients -> Fds \cup {0, Closing}]
  /\ session \in {"none", "live", "freed"}
  /\ http \in {"idle", "transfer", "close"}
  /\ mqtt \in {"close", "open", "handshake", "subscribed", "failed"}
  /\ ping \in {"idle", "checked", "loaded"}
  /\ pingSock \in Fds \cup {0, Closing}
  /\ astray \in 0..MaxFaults + 1
  /\ faults \in 0..MaxFaults

HttpUses == http \in {"transfer", "close"}
MqttUses == mqtt \in {"handshake", "subscribed"}
Uses(c) == (c = "http" /\ HttpUses) \/ (c = "mqtt" /\ MqttUses)
Opened(c) == sock[c] \in Fds /\ owner[sock[c]] = c

(* A client sends on, receives from and closes the connection it opened,   *)
(* never one that took over its descriptor; except on gt202, where another *)
(* task's failed send closes it (kii_mqtt_socket.c:102).                   *)
UsesOwnDescriptor ==
  port # "gt202" => \A c \in Clients : Uses(c) => Opened(c)

(* What kiiMQTT_connect closes is still the receive task's, because the    *)
(* ports write -1 over a descriptor they closed                            *)
(* (Linux/kii_socket_impl.c:102, kii_mqtt.c:54-61).                        *)
ClosesOwnDescriptor ==
  port # "gt202" =>
    /\ mqtt \in {"close", "failed"} /\ MustClose => Opened("mqtt")
    /\ mqtt = "open" => ~MustClose

(* Only the client that opened a connection ends it: a descriptor is freed *)
(* by a step of its owner (Linux/kii_socket_impl.c:95-104,                 *)
(* kii_core_secure_socket.c:150-177).                                      *)
OnlyOwnerCloses ==
  [][\A fd \in Fds : port # "gt202" /\ owner'[fd] = "free" =>
       /\ owner[fd] = "http" => http' # http
       /\ owner[fd] = "mqtt" => mqtt' # mqtt]_vars

(* TLS objects are used only between the handshake that made them and the  *)
(* first attempt to close them, though s_close_cb leaves its context       *)
(* pointing at freed ones when the shutdown was not clean                  *)
(* (kii_core_secure_socket.c:167-175).                                     *)
UsesLiveSession ==
  port \in {"linux", "gt202"} /\ HttpUses => session = "live"

(* Descriptors that are open and in no client's use; but for 0 on gt202,   *)
(* which no callback closes (gt202_kii_adapter.c:140).                     *)
Orphans ==
  {fd \in Fds : /\ \E c \in Clients : owner[fd] = c /\ ~(Uses(c) /\ sock[c] = fd)
                /\ ~(port = "gt202" /\ fd = 0)}

(* Every descriptor that is lost was lost to a failure, and each failure   *)
(* loses at most one: a connect that fails (Linux/kii_socket_impl.c:51),   *)
(* an HTTP transfer that fails, which no close follows                     *)
(* (kii_core.c:287-291), a push connection that fails and is not closed    *)
(* before the next because it is descriptor 0, or any on gt202             *)
(* (kii_mqtt.c:54).                                                        *)
LeaksNeedFailures == Cardinality(Orphans) <= faults

(* A ping whose descriptor was loaded before the push connection was lost  *)
(* may land in the HTTP connection that has the number now; each needs a   *)
(* failure of its own, for the descriptor is -1 after the close and the    *)
(* flag is down until the next connection; but for gt202                   *)
(* (kii_push.c:497-515, kii_mqtt.c:54-67, Linux/kii_socket_impl.c:60-102). *)
StrayPingsNeedFailures == port # "gt202" => astray <= faults

(* Where a failed connect closes, the push receiver holds one connection   *)
(* at most, however often it reconnects; but for descriptor 0              *)
(* (TI/CC3200/wlan_station/kii/kii_socket_impl.c:27-30).                   *)
MqttHoldsOne ==
  port = "ti" =>
    \A fd \in Fds \ {0} : owner[fd] = "mqtt" => sock["mqtt"] = fd

(* A push connection that is lost and still to be closed, and a ping that  *)
(* has loaded a descriptor that is not the receive task's any more: each   *)
(* may send one ping astray.                                               *)
Lost == MustClose /\ mqtt \in {"close", "failed"}
Stale == ping = "loaded" /\ pingSock \in Fds /\ owner[pingSock] # "mqtt"

StrayPingsFollowFailures ==
  port # "gt202" =>
    /\ astray + (IF Lost THEN 1 ELSE 0) + (IF Stale THEN 1 ELSE 0) <= faults
    /\ sock["mqtt"] = 0 /\ (_mqtt_connected \/ ping # "idle") =>
         0 \in Fds /\ owner[0] = "mqtt"

(* What holds of every state the processes reach together.                 *)
IInv ==
  /\ TypeOK
  /\ UsesOwnDescriptor
  /\ ClosesOwnDescriptor
  /\ UsesLiveSession
  /\ MqttHoldsOne
=============================================================================
