# A model of the Kii Thing SDK Embedded

TLA+ modules, TLC configurations and TLAPS proofs for this repository: the push
receiver, the HTTP client, the request builder, the operations of the kii layer,
the parsers that decide where a message ends, and the sockets of its ports.
Paths below are relative to `src/`.

## The system

The SDK is C89 without dynamic memory. An application owns a `kii_t`, which
embeds a `kii_core_t`, their buffers and the callbacks of a port (sockets, task
creation, delay). Everything else is in these parts.

| Part | State | Operations | Interacts with |
|---|---|---|---|
| Request builder, `kii-core/kii_core.c` | `http_context.buffer`, `total_send_size`, `_body_position`, `_content_length`, `_state` | `kii_core_register_thing` ... `kii_core_api_call_end`: request line, headers, body | leaves a READY context to `kii_core_run` |
| HTTP client, `kii-core/kii_core.c` | `_state`, `_socket_state`, `_sent_size`, `_received_size`, `_response_length`, `response_code`, `response_body` | `kii_core_run`, one socket callback per call | socket callbacks; shares the buffer with the builder |
| Content-Length parser, `kii-core/kii_cl_parser.c` | none | `kii_parse_content_length` | called by the HTTP client on what has arrived |
| API layer, `kii/kii_object.c`, `kii_thing.c`, `kii_push.c`, `kii_server_code.c`, `kii_call.c` | results copied out of the response | prepare, `do kii_core_run while not IDLE`, judge the status code, parse JSON | the core; JSON library |
| Push receiver, `kii/kii_push.c` | `pushState`, endpoint, `_mqtt_connected`, `mqtt_socket_context`, `mqtt_buffer` | `kiiPush_recvMsgTask`, `kiiPush_pingReqTask`, `kii_push_start_routine` | the core (install, endpoint), MQTT client, the application's callback |
| MQTT client, `kii/kii_mqtt.c` | the above, passed in | connect, subscribe, pingReq, decode, encode | socket callbacks |
| Ports: `Linux/`, `TI/`, `WinnerMicro/`, `MTK/`, `gt202/`, `INTEL/` | descriptors, TLS objects | connect, send, recv, close; task create and exit | called by both clients |
| JSON: `lib/jsmn`, the `kii_json` submodule (absent) | none | parse | API layer |
| Examples and board demos | menus | | the API layer |

What is hard in it:

- *Two unsynchronised tasks.* The ping task reads `_mqtt_connected` and a socket
  that the receive task clears, closes and reopens.
- *Streams.* A receive returns any part of what was asked; two packets may arrive
  as one; a receive may fail inside a packet.
- *State kept between calls.* One context serves every call. Positions, lengths,
  the socket state, the error and the buffer outlive a call and its failure.
- *One buffer* holds the request and then the response; headers are inserted
  into it in front of a body that may already be there.
- *Partial failure.* Each of some fifteen steps of an operation can be the first
  not to fit; a request can fail after the cloud carried it out.
- *Retries.* A caller told that an operation failed calls it again, and the
  first request may have been carried out, or be carried out later.
- *Descriptors.* Both clients take them from one process and give them back on
  some failures only; one that is closed comes back as another connection.
- *Recovery.* Credentials expire, connections die half-open, and the task must
  find its way back from wherever that left it.

`PROJECT.json` lists every hazard with its line and the properties for it.

## Modules

| Module | Models |
|---|---|
| `MqttWire` | packets from the broker as bytes that know their packet and place |
| `PushChannel` | abstract: a lossy, ordered, at-most-once channel of messages |
| `KiiPush` | both push tasks, the MQTT client, the broker, a failing network |
| `MCKiiPush`, `KiiPushProofs`, `KiiPushStreamProofs` | TLC instance; proofs: the tasks and the session, the stream of packets and the refinement |
| `RemoteCall` | abstract: a call carried out at most once, success means done |
| `KiiHttp` | `kii_core_run` and `prv_kii_http_execute`, the cloud, connections |
| `MCKiiHttp`, `KiiHttpProofs` | TLC instance; proofs, the refinement among them |
| `KiiRequest` | every `kii_core_*` operation that builds a request |
| `MCKiiRequest`, `KiiRequestProofs`, `KiiRequestContentProofs` | TLC instance; proofs: bounds and order, contents |
| `KiiApi` | every operation of `kii/`: prepare, run, judge, read; one task or two on a `kii_t` |
| `MCKiiApi`, `KiiApiProofs` | TLC instances; proofs |
| `KiiParsers` | `kii_parse_content_length`, `kiiMQTT_encode`, `kiiMQTT_decode` |
| `MCKiiParsers`, `KiiParsersProofs` | TLC instance, the inputs; proofs of both functions |
| `KiiSockets` | the descriptors of a device that its HTTP client, receive task and ping task share, on three ports |
| `MCKiiSockets`, `KiiSocketsProofs` | TLC instance; proofs |

`KiiPush` and `KiiHttp` each implement an abstract module (`INSTANCE`, the
abstract `Spec` as a property). Definitions whose name ends in what went wrong
(`RestLostSigned`, `FitsExactly`, `SetHeaderUnchecked`, ...) are variants with a
plausible bug: no specification uses them, they show that each property can fail.

### KiiPush

`pc` is where `kiiPush_recvMsgTask` is, `rx` the locals of
`kiiPush_receivePushNotification`, `link` the TCP connection behind
`mqtt_socket_context.socket` with the broker's session. A step of a task ends
where the other task or the network can notice: at each socket callback.

| Actions | Code |
|---|---|
| `Install`, `RetrieveEndpoint` | `kii_push.c:28-165`; each HTTP call is one step here |
| `CloseSocket`, `OpenSocket`, `SendConnect`, `RecvConnack` | `kiiMQTT_connect` |
| `SendSubscribe`, `RecvSuback` | `kiiMQTT_subscribe` |
| `RecvFixedHeader`, `RecvTopicHeader`, `RecvRest` | `kiiPush_receivePushNotification` |
| `PingCheck`, `PingLoad`, `PingSend`, `PingDelay` | `kiiPush_pingReqTask`; the send callback loads the descriptor before it sends |
| `Broker*`, `LoseLink`, `ExpireEndpoint` | external: from what the SDK sends and how it reads the answers |

`ExpireEndpoint` is the broker's: the code reads X-MQTT-TTL and does not act on it.
`RestLost` keeps the `size_t` that becomes -1 when a receive fails
(`kii_push.c:384`): the completeness test passes and the callback gets a torn
message.

### KiiHttp

`http` holds the fields of `kii_http_context_t`, `buffer` says of each byte
whether it is a NUL, of the request or of the response, `conns` has a
connection per call. `Prepare` and `PrepareFails` abstract the builder to the
size of the request; `Run` is one call of `kii_core_run`, one disjunct per case
of `_socket_state` and outcome of its callback. A reply has the sizes of its head
and body, the length it announces, its code, and whether it begins with
`HTTP/1.1 `; the code looks for that text anywhere in what it received.

### KiiRequest

An operation is the list, in `todo`, of the calls it makes of
`prv_kii_http_set_request_line`, `_set_header` and `_append_body`; each is a
step (`SetRequestLine`, `SetHeader`, `SetExtraHeader`, `SetEncoding`,
`AppendBody`). A byte of the buffer knows the kind of text it belongs to and,
in a body, its number; values and formatting are left out. Between
`ApiCallStart` and `ApiCallEnd` the caller appends body and headers in any order,
whatever the calls return. Three oddities of the code are kept: a Content-Encoding
is added before the result of the request line is looked at and its own result
is dropped (`SetEncoding`, `Fails`); the key buffer of `kii_core_api_call` is
not cleared between headers (`Over`); the length of a missing thing type is
taken (`RegisterThingWithoutType`). `Run` is what `kii_core_run` leaves
behind: a buffer with the request or a response, and every position as it was.

A request line has two sizes, the one that is tested, with the app host, and the
one that is written, which has the normalizer host if there is one
(`kii_core.c:369-384`). Nothing relates them: a line may be shorter than tested,
or run past the buffer. In the second case the model keeps the positions, which
are then outside, and says nothing of the bytes behind the buffer; it takes the
program to survive that.
The model keeps to the documented order, prepare then run; no operation of the
code enforces it.

### KiiApi

An operation is a record: the codes it takes for success, what it reads of the
response, and what it asks the cloud to keep or forget. `task` holds where each
task is in its operation (`run`, `check`, `judge`), `core` the state of the
context and whose request is in it, `conn` the request on the connection.
What `KiiHttp` does step by step is `RunSend` (up to the last byte sent) and
`RunReceive` here; `Run*` and `Check` are the loop `do kii_core_run while not
IDLE`, which looks only at the last result. `late` are requests given up on that
the cloud may carry out at any time after.

The code's habits are kept: `strlen(response_body)` before the test for NULL
(`TakeLength` ends the program); fields copied straight into `author` while the
answer is parsed (`AuthorRead`); `_response_body_length` left as it was by a
response without an end of its head (`Answer`); 409 taken for success by what
makes something, but 404 not by what removes it (`Accepts`). An invalid response
fails like any other; that it leaves `response_code` at 0 is not kept, since a
failed operation does not judge it. The JSON reader is external: it succeeds on
a whole answer; that a field is missing from one, or that it has too many tokens,
is not told apart from a torn one. `kii_api_call` makes the context READY whatever
it was doing, where the code refuses (`kii_core.c:1793`); with one task the context
is idle then, and the run with two leaves that operation out.

With `Tasks = {"app", "recv"}` the receive task's install and endpoint calls run
on the application's context. Preparing and reading are one step each there, so
that less can go wrong than in the program.

### KiiParsers

Three pure functions over enumerated inputs; a behaviour is one input. The name
of the header, the limits of the search, the radix and the number of bytes are
constants, small enough that every side of each limit is reached. Properties
compare with the input from which the text was made. Three oddities are kept and
stated: a length of 0 lets the search run on into the next header
(`ZeroReadsOnlyNearby`, which is proved; harmless, as the call then waits for a length or for the
close), leading zeros use up the search, and a name that only begins with
`content-length` counts (`check` compares fourteen characters and no colon).

### KiiSockets

`owner` says who opened each descriptor, `sock` what each client's context names,
`http` and `mqtt` are the two clients reduced to where they connect, use and
close, `pingSock` the descriptor a ping has loaded, `astray` counts the pings that
were sent into a connection of the HTTP client. `port` chooses the
callbacks: `linux` (`s_connect_cb`, `s_close_cb`, `mqtt_connect_cb`, ...), `ti`
(`connect_cb`, `close_cb`; WinnerMicro's do the same) and `gt202`
(`socket_connect_cb`, ...). A descriptor that is freed may be taken by the other
client at once. Three facts of the code shape the properties:
`kiiMQTT_connect` takes descriptor 0 for none; gt202 never sets
`socket_context.socket`, so that `kiiMQTT_connect` never closes there; and its
failed sends close whatever the context names, whichever task is sending. The
calls of the receive task on the HTTP context are not told apart from the
application's (that is `KiiApiShared`).

## Runs

| Run | Question and bounds |
|---|---|
| `KiiPush` | Safety and refinement under every interleaving. 2 messages, of 6 bytes (2 + 2 + a loop of two) and of 9, which does not fit the buffer of 8; 2 failures anywhere; 2 rounds of the ping task. Two failures are enough to fail inside a packet and again while recovering, or to strand a ping across a reconnection. |
| `KiiPushLive` | Under fairness, the receiver recovers and messages arrive. The same, with 1 message. |
| `KiiPushTorn` | Expected violation: a torn message reaches the callback. |
| `KiiHttp` | Safety and refinement over two calls, so that everything the first can leave meets the second. Buffer 9, chunks of 4, requests of 3 (one chunk) and 6 (two), four replies: sized, unsized, too long, not HTTP/1.1; 2 failures. Under fairness, `do kii_core_run while not IDLE` ends. |
| `KiiHttpCut` | Expected violation: a response cut short of its Content-Length is a success. |
| `KiiRequest` | No half-built, stale or disordered request becomes READY. Buffer of 21; request lines of every size from 1 to 21, so that each call of each operation is the first not to fit in some behaviour; two more, tested with 3 bytes and written with 2 and, past the buffer, with 23; bodies of 2 bytes a piece, or none (the proofs have all sizes); up to two additional headers, with keys of one and of two letters. The number of operations is not bounded. |
| `KiiRequestEncoding` | Expected violation: a given encoding is missing from a READY request. |
| `KiiRequestLine` | Expected violation: a line with a longer normalizer host is written past the buffer. |
| `KiiApi` | What an operation returns, and what it leaves, is true of its own answer and of the cloud; retries succeed. One task, one operation of each kind (the others differ in name), any number of calls; 2 failures: enough to lose an answer and fail once more while trying again, or to cut the head of a response after one that was whole; bodies of two lengths, two accounts. |
| `KiiApiShared` | Expected violation, without any failure: with the receive task on the same `kii_t`, an operation returns 0 for a request that was never sent. |
| `KiiParsers` | Parsers against definitions. Up to two header lines out of 42 (three ways to write the name, ten numbers with zeros before, inside and after, a longer name, near misses), three bodies, one of them like a header; names of 2 letters, a search of 6, 3 figures; remaining lengths up to the first of 5 bytes, radix 6, limit 3. |
| `KiiSockets` | Who uses, closes and loses which descriptor, and where a ping of the past may land. Three ports, 4 descriptors (0 among them) and 4 failures, so that a device runs out of descriptors. |

Deadlock is not checked: calls, messages, failures and ping rounds are bounded,
so a behaviour may be at its end, and a program that dereferenced NULL stops.

The main properties, each beside its definition with the lines it is about:

- Push: `ConnectedMeansAcknowledged`, `ReadyMeansSubscribed`,
  `AtMostOneStrayPing` (the race is real and bounded), `FramingKept`,
  `NoSilentLoss`, `NeverOverwritesSocket`, `ImplementsPushChannel`, `Recovers`,
  `MessagesArrive`.
- HTTP: `UsesOwnConnection`, `WholeRequestSent`, `BufferHoldsResponse`,
  `StopsAtTheEnd`, `OnlyFailuresLeak`, `ErrorMatchesResult`,
  `ImplementsRemoteCall`, `Completes`.
- Builder: `OnlyLineOverruns`, `InOrder`, `WholeRequest`, `LengthMatchesBody`, `HeadersAsAsked`.
- Kii layer: `OwnAnswer`, `SubscriptionsFollow`, `NormalizerOnlyForUploads`,
  `MixedOnlyByFailure`, `CrashOnlyOnCutHead`, `OwnLength`, `RetriesSucceed`.
- Parsers: `ContentLengthRight`, `RemainingLengthRight`.
- Sockets: `UsesOwnDescriptor`, `OnlyOwnerCloses`, `UsesLiveSession`,
  `LeaksNeedFailures`, `StrayPingsNeedFailures` (a ping with a descriptor of the
  past can land in an HTTP connection, once for each failure; but for gt202).

### Fairness

`KiiPushLive`: weak fairness of each task (a preemptive scheduler runs every
task that is not blocked, and the callbacks block for a bounded time) and of the
broker's answers. Nothing is assumed of publications, failures or the expiry of
credentials. A model that bounds failures says "once failures stop".

`KiiHttp` (for `Completes`): weak fairness of `Run`, because the caller loops on it, and of
the cloud's answer and close on each connection. That `RecvWaits` is a part of
`Run` that may not be taken for ever is the assumption that a callback does not
answer AGAIN without end; a port whose `recv` has no timeout (the TLS port) needs
the cloud to close, which HTTP/1.0 makes it do.

`KiiApi` (for `RetriesSucceed`): weak fairness of each task's steps, of the
cloud's answer, and of `Retry`, which is an assumption about the caller: told -1
of something it wants to make, it calls that again. Nothing makes the cloud carry
out a request that was given up on.

## Proofs

Checked by tlapm for every value of the constants that the named assumptions
(`WireAssumption`, `PushAssumption`, `HttpAssumption`, `RequestAssumption`,
`ApiAssumption`, `ParsersAssumption`, `SocketsAssumption`) allow. TLC evaluates those on every run.

- **`KiiPushProofs`**: `TypeCorrect`, `InvariantCorrect` and from it
  `ConnectedMeansAcknowledged`, `AtMostOneStrayPing`, `ReadyMeansSubscribed`,
  `NeverOverwritesSocket`. None of them is inductive: that a task in READY has
  a subscribed broker depends on the bytes under way being true to the session
  (`AnswersTruthful`), the flag and the socket on the place of the task
  (`FlagTracksTask`, `SocketTracksTask`), and at most one stray ping on the ping
  task being past its send once one strayed (`StraysSpent`).
- **`KiiPushStreamProofs`**: first `ImplementsPushChannel`. The abstract channel's
  step for `RecvRest` needs the message to be newer than all that was received,
  so `ChannelInv` says that the first byte of a message comes after every byte of
  an older one (`OldestFirst`) and that what is received, or is being read from
  its first byte on, is older than all first bytes that follow. A packet of which
  the loop lost the beginning is no message of the abstract channel: its bytes
  may be of any age, and nothing is claimed of them. `OnceInOrderCorrect` states
  in plain words what follows from the refinement: the callback is given
  published messages only, in the order of publication, none twice. Then
  `FramingKept` and `NoSilentLoss`: `StreamInv` gives
  the bytes under way their shape: each is followed by the rest of its packet and
  these by the first byte of another (`Framed`), CONNACK and SUBACK come before
  what is published (`AnswersInTurn`), and a broker that holds the connection
  has written whole packets (`BrokerWrites`). Then a reader that is inside a
  packet finds its next byte first (`ReaderInPlace`). `AsksInTurn`, that a
  connection is asked for its subscription once, is why no second SUBACK comes
  among the messages, and `KeptForSuback` why `NoSilentLoss` holds at the moment
  the loop becomes READY.
- **`KiiHttpProofs`**: types and `IInv` together (that sent bytes stay within
  the request is what `CountsSent` says), six safety properties, and
  `ImplementsRemoteCallCorrect`: the initial state maps to the abstract one and
  each step to a step or a stutter. A failed call that the cloud still carries
  out later is what the abstract `CarryOut` allows after `Fail`. From the
  refinement follows `SuccessIsOwnCorrect`: a call that succeeds returns the code
  that the cloud gave to that very call, which it carried out.
  `LoopBoundCorrect` is what there is of `Completes` without fairness. `Left`
  counts the calls of `kii_core_run` that a caller still has to make: never more
  than twice the buffer and four, fewer after each call in which no callback
  answers AGAIN, and no more after any other step but the next request.
- **`KiiRequestProofs`**: `TypeCorrect`, `OnlyLineOverrunsCorrect` and
  `InOrderCorrect`. It is not true that nothing is written past the buffer, as
  `KiiRequestLine` shows, and no assumption makes it so. What is proved is that
  only a request line is, one with a host longer than the one tested, and that
  its operation fails with nothing inserted or appended behind it. That rests on
  the call after every request line being a header (`HeaderFollows`), which then
  finds no room, and on the positions staying behind the buffer only where no
  request is being built (`NothingAfter`). The invariant adds the form
  of `todo` (one request line, first; after a failure at most an encoding) and
  that `_content_length` counts bytes in the buffer while a request is being
  built: without it, adding a piece to it could exceed the buffer.
- **`KiiRequestContentProofs`**: `WholeRequest`, `LengthMatchesBody` and
  `HeadersAsAsked`. They are about the request once it is READY, so the invariant
  `ContentInv` has to say, at every step before, that what is in the buffer and
  what the calls left in `todo` will write add up to what was asked: the calls
  are headers, then the empty line, then the body in pieces that follow one
  another (`Layout`); the kinds of headers written and left are those wanted, and
  a Content-Length is left at most once and only if none is written (`Plan`).
  An operation that will dereference NULL never gets to its body (`Doomed`), and
  one whose line overran the buffer is left out of the sum (`Overrun`): it fails.
  The keys of additional headers have an invariant of their own (`KeysInv`): those
  sent and those left are the caller's, in turn, and each key sent begins as he
  gave it, since its copy begins the key buffer anew and only its end is older.
  That every operation begins with such a list is proved one operation at a time,
  and that every step keeps the sum, one step at a time. A Content-Encoding may
  be missing from it, and nothing else: that is what `KiiRequestEncoding` is about.
- **`KiiApiProofs`**: `TypeCorrect` for any number of tasks, and for one task
  (`Alone`, without which they are false, as `KiiApiShared` shows) six
  properties. Behind them is that the context is the task's own: idle between
  operations, holding its request while it runs (`OwnContext`), its request on
  the connection (`OwnConnection`), its answer in `response` once the loop ended
  well (`ResponseIsAnswer`); and that nothing the cloud still has to do undoes a
  success (`EffectLasts`).
- **`KiiSocketsProofs`**: `UsesOwnDescriptor`, `ClosesOwnDescriptor`,
  `OnlyOwnerCloses`, `UsesLiveSession`, `MqttHoldsOne`, together inductive;
  `LeaksNeedFailures`, by the cardinality of the orphans: each step adds at most
  one, and only one that fails adds any; and `StrayPingsNeedFailures`. For the last,
  `StrayPingsFollowFailures` charges one failure with each ping that strayed, with
  a lost connection that is still to be closed, and with a descriptor loaded from a
  connection that is closed by now: a failure makes the second, the close makes
  the third of it, the send the first. It needs that descriptor 0, which no
  reconnect closes, stays the receive task's.
- **`KiiParsersProofs`**: `ContentLengthRight`, `ZeroReadsOnlyNearby` and
  `RemainingLengthRight`, for names and values of any length, any number of
  headers and any body. The induction theorems of the library take an operator,
  which no prover here can instantiate, so every induction is over a set of
  numbers instead (`Strong`, `Simple`: a set that holds a number when it holds
  all smaller ones holds all numbers). Each recursion takes two steps: that the
  function it defines exists (`EncodeExists`, `WeightExists`, `LinesExist`,
  `WalkExists`, `SumExists`: without that its equation says nothing), then what
  it does (`EncodeUnrolls`, `RenderedLaid`, `ParseSteps`, `SameNumber`). The
  codec rests on left-over quotients: after k bytes the number divided by the
  radix k times is left. The Content-Length parser rests on the lines of the
  text (`Laid`): from the beginning of one it comes to the beginning of the next
  (`SkipsLine`), since no name or figure is a carriage return; a line counts if
  and only if its name begins with that of the length (`ChecksName`), since a
  shorter name runs into a colon. That names hold neither is assumed of what the
  cloud sends.

Every safety property that a passing run checks is a theorem, and so are both
refinements. Theorems that no run lists are `MqttHoldsOne`, `ZeroReadsOnlyNearby`,
and, stated beside their proofs, `OnceInOrder`, `SuccessIsOwn` and `LoopBounded`
with `RunsShorten`. Only model-checked are `Recovers`, `MessagesArrive`,
`Completes` and `RetriesSucceed`: liveness under fairness, which needs ENABLED.
The violations that five runs expect are TLC's as well.

## What disagrees with its documentation

Five runs expect a violation. `PROJECT.json` quotes, for each, the line of a
header or comment and the line of code: torn push messages, truncated responses,
a lost Content-Encoding, a request line written past the buffer, and operations that
share a `kii_t` with the receive task.

Three more need no run: a header key shorter than the one before it goes out with
that one's tail (`kii_core.c:1629`: `bc` and `a` are sent as `bc` and `ac`; `Over`,
and the exception in `KeysInTurn`); registering without a type, which `kii_core.h:536` allows,
takes the length of NULL (`kii_core.c:897`; `RegisterThingWithoutType`), and a
download without an end of its head returns an earlier call's length
(`kii_core.c:330`; the exception in `OwnLength`).

## Plan

Done: 1. push receiver; 2. HTTP client; 3. request builder; 4. kii layer, and two
tasks on one context; 5. parsers; 6. sockets of the ports.

Proved: every safety property and refinement of 1 to 6. Liveness stays with TLC.

Not modelled, and not planned: the JSON library (third-party, or absent), the MTK
port (connections are objects of its library; its `kii_push.c` is an older copy),
paths and local arrays that values are formatted into, logging, the custom HTTP
callbacks of `kii_core.c:470-523`, gtest, example programs, board start-up code.
