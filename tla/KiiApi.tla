------------------------------- MODULE KiiApi -------------------------------
(***************************************************************************)
(* The operations of kii/: kii_thing.c, kii_object.c, kii_server_code.c,   *)
(* kii_call.c and, of kii_push.c, the calls to the cloud.  Each prepares a *)
(* request in the kii_core_t it is given, runs kii_core_run until the      *)
(* context is idle again, judges response_code, and reads response_body,   *)
(* which is a pointer into the buffer that held the request.               *)
(*                                                                         *)
(* Several tasks may make these calls on one context: the receive task of  *)
(* kii_push_start_routine installs and fetches endpoints on the kii_t of   *)
(* the application.  Nothing locks it.                                     *)
(*                                                                         *)
(* What kii_core_run does is KiiHttp's, with its steps up to the last byte *)
(* sent in one, and those from there in another.                           *)
(***************************************************************************)
EXTENDS Integers

CONSTANTS
  Tasks,      (* the tasks that share the kii_t                             *)
  Does,       (* the operations each of them calls                          *)
  Accounts,   (* things it may authenticate as or register                  *)
  Lengths,    (* bytes of a body that is not empty                          *)
  MaxFaults   (* bound: failures of callbacks, network and cloud            *)

(* What the cloud keeps of the operations that make or undo something.     *)
Things == {"bucket subscription", "topic subscription", "topic"}

-----------------------------------------------------------------------------
(* The operations: what each takes for success, reads of a response, and   *)
(* asks the cloud to keep or to forget.                                    *)

Operation(name) == [name |-> name, accepts |-> "2xx", reads |-> "nothing",
                    adds |-> {}, removes |-> {}, normalized |-> FALSE]

kii_thing_authenticate == [Operation("authenticate") EXCEPT !.reads = "author"]
kii_thing_register     == [Operation("register") EXCEPT !.reads = "author"]
kii_thing_upload_state == [Operation("upload_state") EXCEPT !.normalized = TRUE]
kii_thing_patch_state  == [Operation("patch_state") EXCEPT !.normalized = TRUE]

kii_object_create                == [Operation("create") EXCEPT !.reads = "field"]
kii_object_create_with_id        == Operation("create_with_id")
kii_object_patch                 == Operation("patch")
kii_object_replace               == Operation("replace")
kii_object_delete                == Operation("delete")
kii_object_get                   == Operation("get")
kii_object_upload_body_at_once   == Operation("upload_body_at_once")
kii_object_init_upload_body      == [Operation("init_upload") EXCEPT !.reads = "field"]
kii_object_upload_body           == Operation("upload_body")
kii_object_commit_upload         == Operation("commit_upload")
kii_object_download_body_at_once == [Operation("download") EXCEPT !.reads = "length"]
kii_object_download_body         == [Operation("download_range") EXCEPT !.reads = "range"]

kii_push_subscribe_bucket ==
  [Operation("subscribe_bucket") EXCEPT !.accepts = "created", !.adds = {"bucket subscription"}]
kii_push_unsubscribe_bucket ==
  [Operation("unsubscribe_bucket") EXCEPT !.removes = {"bucket subscription"}]
kii_push_subscribe_topic ==
  [Operation("subscribe_topic") EXCEPT !.accepts = "created", !.adds = {"topic subscription"}]
kii_push_unsubscribe_topic ==
  [Operation("unsubscribe_topic") EXCEPT !.removes = {"topic subscription"}]
kii_push_create_topic ==
  [Operation("create_topic") EXCEPT !.accepts = "created", !.adds = {"topic"}]
kii_push_delete_topic ==
  [Operation("delete_topic") EXCEPT !.removes = {"topic"}]

kiiPush_install          == [Operation("install") EXCEPT !.reads = "field"]
kiiPush_retrieveEndpoint == [Operation("endpoint") EXCEPT !.reads = "field"]
kii_server_code_execute  == Operation("server_code")
kii_api_call             == [Operation("call") EXCEPT !.accepts = "any"]

PushOperations == {kiiPush_install, kiiPush_retrieveEndpoint}
AppOperations == {
  kii_thing_authenticate, kii_thing_register, kii_thing_upload_state,
  kii_thing_patch_state, kii_object_create, kii_object_create_with_id,
  kii_object_patch, kii_object_replace, kii_object_delete, kii_object_get,
  kii_object_upload_body_at_once, kii_object_init_upload_body,
  kii_object_upload_body, kii_object_commit_upload,
  kii_object_download_body_at_once, kii_object_download_body,
  kii_push_subscribe_bucket, kii_push_unsubscribe_bucket,
  kii_push_subscribe_topic, kii_push_unsubscribe_topic, kii_push_create_topic,
  kii_push_delete_topic, kii_server_code_execute, kii_api_call}
Operations == AppOperations \cup PushOperations

ASSUME ApiAssumption ==
  /\ Does \in [Tasks -> SUBSET Operations]
  /\ Lengths \subseteq Nat \ {0}
  /\ MaxFaults \in Nat
  /\ "none" \notin Accounts /\ "none" \notin Tasks

VARIABLES
  task,        (* each task: where it is in which operation, and its result *)
  core,        (* _state, _socket_state and what the buffer holds           *)
  conn,        (* the request on the connection, and the cloud's reply      *)
  response,    (* response_code, response_body and _response_body_length    *)
  author,      (* kii_core_t.author: author_id and access_token             *)
  normalizer,  (* http_context.normalizer_host is not NULL                  *)
  has,         (* of Things, what the cloud keeps                           *)
  late,        (* requests given up on that the cloud may still carry out   *)
  faults       (* failures so far                                           *)

vars == <<task, core, conn, response, author, normalizer, has, late, faults>>

(* code 0: the cloud has not answered.  A body is a pointer to text, to a  *)
(* text whose end did not arrive, to "", or NULL: no empty line arrived.   *)
NoReply == [code |-> 0, body |-> "NULL", length |-> 0, ranged |-> FALSE]
NoRequest == [task |-> "none", op |-> Operation("none"), normalized |-> FALSE]
Fields == {"id", "token"}
NoConn == [request |-> NoRequest, normalized |-> FALSE, reply |-> NoReply]

Idle == [pc |-> "idle", op |-> Operation("none"), account |-> "none", clean |-> TRUE,
         err |-> "OK", answer |-> NoReply, result |-> "none", out |-> 0]

Init ==
  /\ task = [t \in Tasks |-> Idle]
  /\ core = [state |-> "IDLE", sock |-> "IDLE", request |-> NoRequest, holds |-> "nothing"]
  /\ conn = NoConn
  /\ response = NoReply
  /\ author = [f \in Fields |-> "none"]
  /\ normalizer = FALSE
  /\ has = {}
  /\ late = {}
  /\ faults = 0

Fault == faults < MaxFaults /\ faults' = faults + 1
Fine  == UNCHANGED faults

(* A request that was sent and will not be answered any more.              *)
Effect(op) == [adds |-> op.adds, removes |-> op.removes]
Abandoned ==
  IF core.sock = "RECV" /\ conn.reply.code = 0
  THEN {Effect(conn.request.op)} \ {Effect(Operation("none"))} ELSE {}

-----------------------------------------------------------------------------
(* An operation returns.  Those that take a normalizer host clear it.      *)
ClearedNever(op) == normalizer
Cleared(op) == IF op.normalized THEN FALSE ELSE normalizer

Return(t, result, out) ==
  /\ task' = [task EXCEPT ![t].pc = "idle", ![t].result = result, ![t].out = out]
  /\ normalizer' = Cleared(task[t].op)

(* The operation is called: its request goes into the buffer, whatever the *)
(* context is doing, and _state becomes READY; or something does not fit.  *)
(* Writing the request is one step here (KiiRequest has its calls), and    *)
(* READY for kii_api_call too, although it is refused by a context that is *)
(* not idle (kii_core.c:1793): that only matters with two tasks, of which  *)
(* neither makes that call here.                                           *)
Called(t, op, account) ==
  [Idle EXCEPT !.pc = "run", !.op = op, !.account = account,
     !.clean = \A e \in late \cup Abandoned : e.adds \cap op.removes = {} /\ e.removes \cap op.adds = {}]

Prepare(t, op, account, given) ==
  /\ task[t].pc = "idle"
  /\ task' = [task EXCEPT ![t] = Called(t, op, account)]
  /\ normalizer' = (normalizer \/ given)
  /\ core' = [state |-> "READY", sock |-> "IDLE", holds |-> "request",
              request |-> [task |-> t, op |-> op, normalized |-> normalizer \/ given]]
  /\ late' = late \cup Abandoned /\ conn' = NoConn
  /\ UNCHANGED <<response, author, has, faults>>

(* A line that does not fit leaves the machine as it was, which matters if *)
(* another task is running it; anything later finds it reset already.      *)
PrepareFails(t, op) ==
  /\ task[t].pc = "idle" /\ Fault
  /\ task' = [task EXCEPT ![t] = [Called(t, op, "none") EXCEPT !.pc = "idle", !.result = "-1"]]
  /\ normalizer' = Cleared(op)
  /\ \E line \in BOOLEAN :
       LET reset == line \/ core.state = "IDLE" IN
       /\ core' = IF reset
                  THEN [core EXCEPT !.sock = "IDLE", !.request = NoRequest, !.holds = "nothing"]
                  ELSE [core EXCEPT !.holds = "nothing"]
       /\ late' = IF reset THEN late \cup Abandoned ELSE late
       /\ conn' = IF reset THEN NoConn ELSE conn
  /\ UNCHANGED <<response, author, has>>

Call(t) ==
  \E op \in Does[t] :
    \/ \E account \in IF op.reads = "author" THEN Accounts ELSE {"none"},
          given \in IF op.normalized THEN BOOLEAN ELSE {FALSE} :
         Prepare(t, op, account, given)
    \/ PrepareFails(t, op)

-----------------------------------------------------------------------------
(* do core_err = kii_core_run(); while (kii_core_get_state() != IDLE)      *)

Ran(t, err) == task' = [task EXCEPT ![t].pc = "check", ![t].err = err]

RunReady(t) ==
  /\ task[t].pc = "run" /\ core.state = "READY"
  /\ core' = [core EXCEPT !.state = "EXECUTE"]
  /\ Ran(t, "OK")
  /\ UNCHANGED <<conn, response, author, normalizer, has, late, faults>>

Running(t, sock) == task[t].pc = "run" /\ core.state = "EXECUTE" /\ core.sock = sock

(* The connection is made to the host that normalizer_host is now.         *)
RunSend(t) ==
  /\ Running(t, "IDLE")
  /\ core' = [core EXCEPT !.sock = "RECV"]
  /\ conn' = [request |-> core.request, normalized |-> normalizer, reply |-> NoReply]
  /\ Ran(t, "OK")
  /\ UNCHANGED <<response, author, normalizer, has, late, faults>>

(* The length is left as it was when there is no body.                     *)
AnswerUnchecked == [conn.reply EXCEPT !.length = IF conn.reply.body = "NULL" THEN -1 ELSE @]
Answer == [conn.reply EXCEPT !.length = IF conn.reply.body = "NULL" THEN response.length ELSE @]

RunReceive(t) ==
  /\ Running(t, "RECV") /\ conn.reply.code # 0
  /\ core' = [state |-> "IDLE", sock |-> "IDLE", request |-> NoRequest, holds |-> "response"]
  /\ response' = Answer /\ conn' = NoConn
  /\ Ran(t, "OK")
  /\ UNCHANGED <<author, normalizer, has, late, faults>>

(* KIIE_FAIL of a context that is idle, or because a callback failed: the  *)
(* machine may stay in RECV.                                               *)
StoppedNever == core
Stopped == [core EXCEPT !.state = "IDLE"]

RunFails(t) ==
  /\ task[t].pc = "run" /\ core.state \in {"IDLE", "EXECUTE"}
  /\ IF core.state = "IDLE" THEN Fine ELSE Fault
  /\ core' = Stopped
  /\ Ran(t, "FAIL")
  /\ UNCHANGED <<conn, response, author, normalizer, has, late>>

(* The result of the last kii_core_run is what is looked at.               *)
FailedNever(t) == FALSE
Failed(t) == task[t].err # "OK"

Check(t) ==
  /\ task[t].pc = "check"
  /\ \/ /\ core.state # "IDLE"
        /\ task' = [task EXCEPT ![t].pc = "run"]
        /\ UNCHANGED normalizer
     \/ /\ core.state = "IDLE" /\ Failed(t)
        /\ Return(t, "-1", 0)
     \/ /\ core.state = "IDLE" /\ ~Failed(t)
        /\ task' = [task EXCEPT ![t].pc = "judge"]
        /\ UNCHANGED normalizer
  /\ UNCHANGED <<core, conn, response, author, has, late, faults>>

-----------------------------------------------------------------------------
(* Judging response_code and reading response_body.                        *)

AcceptsAll(op, code) == TRUE
AcceptsOnlyNew(op, code) ==
  \/ op.accepts = "any"
  \/ op.accepts = "2xx" /\ code \in 200..299
  \/ op.accepts = "created" /\ code = 204
Accepts(op, code) ==
  \/ op.accepts = "any"
  \/ op.accepts = "2xx" /\ code \in 200..299
  \/ op.accepts = "created" /\ code \in {204, 409}

(* KIIPUSH_RETRIEVE_ENDPOINT_RETRY                                         *)
Rejected(op, code) ==
  IF op = kiiPush_retrieveEndpoint /\ code = 503 THEN "RETRY" ELSE "-1"

(* The JSON reader finds what it looks for in a whole answer, its own: the *)
(* fields of one operation are not in the answer to another.  Before it    *)
(* fails it may have copied fields it had found.  A whole answer without a *)
(* field, or with more tokens than there is room for, would fail like one  *)
(* that was cut short, and is left out.                                    *)
Readable(t) ==
  core.holds = "response" /\ response.body = "text" /\ task[t].answer.code # 0

Copied(t, fields) ==
  [f \in Fields |-> IF f \in fields THEN task[t].account ELSE author[f]]

AuthorReadUnchecked(t) ==
  \E fields \in SUBSET Fields :
    author' = Copied(t, fields) /\ Return(t, "0", 0)
AuthorRead(t) ==
  \/ Readable(t) /\ author' = Copied(t, Fields) /\ Return(t, "0", 0)
  \/ ~Readable(t) /\ \E fields \in SUBSET Fields : author' = Copied(t, fields)
               /\ Return(t, "-1", 0)

JudgeRest == UNCHANGED <<core, conn, response, has, late, faults>>
Judging(t, reads) ==
  /\ task[t].pc = "judge" /\ Accepts(task[t].op, response.code)
  /\ task[t].op.reads \in reads
  /\ JudgeRest

Reject(t) ==
  /\ task[t].pc = "judge" /\ ~Accepts(task[t].op, response.code)
  /\ Return(t, Rejected(task[t].op, response.code), 0)
  /\ UNCHANGED author /\ JudgeRest

Accept(t) ==
  /\ Judging(t, {"nothing"})
  /\ Return(t, "0", 0) /\ UNCHANGED author

(* buf_size = strlen(response_body), and then it is compared with NULL.    *)
TakeLength(t) ==
  /\ Judging(t, {"field", "author"}) /\ response.body = "NULL"
  /\ task' = [task EXCEPT ![t].pc = "crashed"]
  /\ UNCHANGED <<author, normalizer>>

ReadField(t) ==
  /\ Judging(t, {"field"}) /\ response.body # "NULL"
  /\ Return(t, IF Readable(t) THEN "0" ELSE "-1", 0) /\ UNCHANGED author

ReadAuthor(t) ==
  /\ Judging(t, {"author"}) /\ response.body # "NULL"
  /\ AuthorRead(t)

(* strstr looks for the range in all of the buffer.                        *)
ReadLength(t) ==
  /\ Judging(t, {"length", "range"})
  /\ IF task[t].op.reads = "range" /\ ~(core.holds = "response" /\ response.ranged)
     THEN Return(t, "-1", 0)
     ELSE Return(t, "0", response.length)
  /\ UNCHANGED author

Judge(t) == \/ Reject(t) \/ Accept(t) \/ TakeLength(t)
            \/ ReadField(t) \/ ReadAuthor(t) \/ ReadLength(t)

-----------------------------------------------------------------------------
(* The cloud.  It tells what is there already from what it makes, and what *)
(* is not there from what it removes.                                      *)

Codes(op) ==
  IF op.adds # {} THEN IF op.adds \subseteq has THEN {409} ELSE {204}
  ELSE IF op.removes # {} THEN IF op.removes \subseteq has THEN {204} ELSE {404}
  ELSE {200, 404}

CarriedOut(e) == (has \cup e.adds) \ e.removes

(* The reply the client will read, whole or cut in its body or its head.    *)
Replied(reply) ==
  /\ conn' = [conn EXCEPT !.reply = reply]
  /\ task' = [t \in Tasks |-> IF t = conn.request.task
                THEN [task[t] EXCEPT !.answer = reply] ELSE task[t]]
  /\ UNCHANGED <<core, response, author, normalizer, late>>

(* Its range is in the head of the reply to one who asked for one, or not. *)
Ranged == IF conn.request.op.reads = "range" THEN BOOLEAN ELSE {FALSE}

Full(code, length, ranged) ==
  IF code = 200 THEN [code |-> code, body |-> "text", length |-> length, ranged |-> ranged]
  ELSE [code |-> code, body |-> "empty", length |-> 0, ranged |-> FALSE]
Torn(code, length, ranged) ==
  [code |-> code, body |-> "torn", length |-> length, ranged |-> ranged]
Headless(code, ranged) ==
  [code |-> code, body |-> "NULL", length |-> 0, ranged |-> ranged]

Waiting == core.sock = "RECV" /\ conn.reply.code = 0

CloudAnswers ==
  /\ Waiting
  /\ has' = CarriedOut(Effect(conn.request.op))
  /\ \E code \in Codes(conn.request.op), length \in Lengths, ranged \in Ranged :
       \/ Fine /\ Replied(Full(code, length, ranged))
       \/ Fault /\ Replied(Torn(code, length, ranged))
       \/ Fault /\ Replied(Headless(code, ranged))

CloudUnavailable ==
  /\ Waiting /\ Fault
  /\ Replied(Full(503, 0, FALSE))
  /\ UNCHANGED has

CloudCatchesUp ==
  /\ \E e \in late : late' = late \ {e} /\ has' = CarriedOut(e)
  /\ UNCHANGED <<task, core, conn, response, author, normalizer, faults>>

-----------------------------------------------------------------------------
Run(t) == RunReady(t) \/ RunSend(t) \/ RunReceive(t) \/ RunFails(t)
Step(t) == Run(t) \/ Check(t) \/ Judge(t)
Cloud == CloudAnswers \/ CloudUnavailable \/ CloudCatchesUp

(* A task that takes a length of NULL takes the program with it.           *)
Crashed == \E t \in Tasks : task[t].pc = "crashed"

Next == ~Crashed /\ ((\E t \in Tasks : Call(t) \/ Step(t)) \/ Cloud)

Spec == Init /\ [][Next]_vars

(* A caller that is told -1 of an operation that makes something, and does *)
(* not turn to another operation for ever, calls it again.                 *)
Retry(t) ==
  /\ ~Crashed
  /\ task[t].result = "-1" /\ task[t].op.adds # {}
  /\ Prepare(t, task[t].op, "none", FALSE)

(* Tasks run, the cloud answers, and a caller that failed tries again.     *)
FairSpec ==
  /\ Spec
  /\ \A t \in Tasks : WF_vars(~Crashed /\ Step(t)) /\ WF_vars(Retry(t))
  /\ WF_vars(~Crashed /\ CloudAnswers)

-----------------------------------------------------------------------------
(* Type invariant.                                                         *)
AllOps == Operations \cup {Operation("none")}
Reply == [code : Nat, body : {"NULL", "empty", "torn", "text"},
          length : Lengths \cup {0}, ranged : BOOLEAN]
Request == [task : Tasks \cup {"none"}, op : AllOps, normalized : BOOLEAN]
Named == Accounts \cup {"none"}

Task == [pc : {"idle", "run", "check", "judge", "crashed"}, op : AllOps,
         account : Named, clean : BOOLEAN, err : {"OK", "FAIL"}, answer : Reply,
         result : {"none", "0", "-1", "RETRY"}, out : Lengths \cup {0}]
Core == [state : {"IDLE", "READY", "EXECUTE"}, sock : {"IDLE", "RECV"},
         request : Request, holds : {"nothing", "request", "response"}]
Conn == [request : Request, normalized : BOOLEAN, reply : Reply]
Effects == [adds : SUBSET Things, removes : SUBSET Things]

TypeOK ==
  /\ task \in [Tasks -> Task]
  /\ core \in Core
  /\ conn \in Conn
  /\ response \in Reply
  /\ author \in [Fields -> Named]
  /\ normalizer \in BOOLEAN
  /\ has \in SUBSET Things
  /\ late \in SUBSET Effects
  /\ faults \in 0..MaxFaults

(* An operation that returns 0 was answered by the cloud, that very call,  *)
(* with a code the operation takes for success: it has judged no answer of *)
(* an earlier call and nobody else's (kii_push.c:178-187 and every other   *)
(* operation).                                                             *)
OwnAnswer ==
  \A t \in Tasks : task[t].result = "0" =>
    /\ task[t].answer.code # 0
    /\ Accepts(task[t].op, task[t].answer.code)

(* A subscription or topic is there after 0 was returned for making it, and *)
(* is not after 0 was returned for removing it, failures and lost answers  *)
(* before that or not, unless the opposite was given up on earlier and the *)
(* cloud still had it to carry out (kii_push.c:167-318).                   *)
SubscriptionsFollow ==
  \A t \in Tasks : task[t].result = "0" /\ task[t].clean =>
    /\ task[t].op.adds \subseteq has
    /\ task[t].op.removes \cap has = {}

(* Only uploads of a state are sent to the normalizer, whichever way an    *)
(* earlier upload ended (kii_thing.c:196, 242), and what is written in     *)
(* their request line is the host they are sent to (kii_core.c:169-175,    *)
(* 375-384).                                                               *)
NormalizerOnlyForUploads ==
  core.sock = "RECV" =>
    /\ conn.normalized => conn.request.op.normalized
    /\ conn.normalized = conn.request.normalized

(* author_id and access_token are of two accounts only if an operation     *)
(* that replaces them returned -1: its fields are copied straight into the *)
(* context, and some may be before the JSON reader fails                   *)
(* (kii_thing.c:70-86, 132-148).                                           *)
MixedOnlyByFailure ==
  [][author' # author =>
       \E t \in Tasks :
         /\ task'[t].op.reads = "author"
         /\ task'[t].result = "0" => author' = [f \in Fields |-> task'[t].account]
         /\ task'[t].answer.code \in 200..299]_vars

(* strlen(NULL) is taken only of a success whose connection was lost       *)
(* before the empty line (kii_object.c:45, 344; kii_thing.c:63, 125;       *)
(* kii_push.c:59, 118).                                                    *)
CrashOnlyOnCutHead ==
  \A t \in Tasks : task[t].pc = "crashed" =>
    task[t].answer.code \in 200..299 /\ task[t].answer.body = "NULL"

(* The length a download returns is that of its own body, unless the       *)
(* connection was lost before the empty line, when it is whatever an       *)
(* earlier call left (kii_object.c:539, 617; kii_core.c:330-333).          *)
OwnLength ==
  \A t \in Tasks :
    task[t].result = "0" /\ task[t].op.reads \in {"length", "range"} =>
      task[t].out = task[t].answer.length \/ task[t].answer.body = "NULL"

(* Making something can be tried again until it works: a call that was     *)
(* carried out although it failed does not make the next one fail for ever *)
(* (kii_push.c:185, 235, 284).                                             *)
RetriesSucceed ==
  \A t \in Tasks : \A op \in {o \in Does[t] : o.adds # {}} :
    task[t].op = op /\ task[t].result = "-1" ~> task[t].op # op \/ task[t].result = "0"

-----------------------------------------------------------------------------
(* The inductive invariant, of a context that one task uses.               *)
Alone == \E t \in Tasks : Tasks = {t}

(* Between operations the context is idle; inside one it is run until it   *)
(* is, and the request in it is the task's own.                            *)
OwnContext ==
  \A t \in Tasks :
    /\ task[t].pc \in {"idle", "judge", "crashed"} => core.state = "IDLE"
    /\ task[t].pc = "run" => core.state # "IDLE"
    /\ task[t].pc = "check" /\ task[t].err # "OK" => core.state = "IDLE"
    /\ task[t].pc # "idle" => task[t].result = "none"
    /\ core.state # "IDLE" /\ core.sock = "IDLE" =>
         /\ core.request.task = t /\ core.request.op = task[t].op
         /\ core.request.normalized = normalizer
         /\ task[t].answer = NoReply
    /\ core.state = "READY" => core.sock = "IDLE"

(* What is on the connection is the last operation's, and was not read.    *)
OwnConnection ==
  core.sock = "RECV" =>
    \A t \in Tasks :
      /\ conn.request.task = t /\ conn.request.op = task[t].op
      /\ conn.reply = task[t].answer
      /\ conn.normalized = conn.request.normalized
      /\ conn.normalized => task[t].op.normalized
      /\ task[t].result # "0" /\ task[t].pc \notin {"judge", "crashed"}

(* A task that found the context idle and no error has its own answer.     *)
HasAnswer(t) ==
  \/ task[t].pc \in {"judge", "crashed"}
  \/ task[t].pc = "check" /\ core.state = "IDLE" /\ task[t].err = "OK"
ResponseIsAnswer ==
  \A t \in Tasks : HasAnswer(t) =>
    /\ core.sock = "IDLE"
    /\ task[t].answer.code # 0
    /\ response.code = task[t].answer.code /\ response.body = task[t].answer.body
    /\ response.length = task[t].answer.length \/ response.body = "NULL"

NormalizerOwn ==
  /\ normalizer => \A t \in Tasks : task[t].op.normalized /\ task[t].pc # "idle"

(* A cloud that answered has done what it was asked, and what it still may *)
(* do does not undo it.                                                    *)
EffectLasts ==
  \A t \in Tasks : task[t].clean =>
    /\ \A e \in late : e.adds \cap task[t].op.removes = {}
                      /\ e.removes \cap task[t].op.adds = {}
    /\ task[t].answer.code \notin {0, 503} =>
         task[t].op.adds \subseteq has /\ task[t].op.removes \cap has = {}

IInv == /\ OwnContext /\ OwnConnection /\ ResponseIsAnswer /\ NormalizerOwn
        /\ EffectLasts
        /\ OwnAnswer /\ SubscriptionsFollow /\ NormalizerOnlyForUploads
        /\ CrashOnlyOnCutHead /\ OwnLength
=============================================================================
