---------------------------- MODULE KiiApiProofs ----------------------------
(***************************************************************************)
(* Proofs about KiiApi: types for any number of tasks, and the safety of   *)
(* the operations for one task at a time, which is what the SDK asks for   *)
(* ("APIs are not reentrant", kii-core/README.md:46).                      *)
(***************************************************************************)
EXTENDS KiiApi, TLAPS

(* No operation makes what it removes; one that judges no code makes and   *)
(* removes nothing; one that reads a text wants a 2xx.                     *)
Sensible(op) ==
  /\ op.accepts \in {"2xx", "created", "any"}
  /\ op.reads \in {"nothing", "field", "author", "length", "range"}
  /\ op.adds \subseteq Things /\ op.removes \subseteq Things
  /\ op.normalized \in BOOLEAN
  /\ op.adds \cap op.removes = {}
  /\ op.accepts = "any" => op.adds = {} /\ op.removes = {}
  /\ op.reads \in {"field", "author"} => op.accepts = "2xx" /\ ~op.normalized

LEMMA OpsSensible == \A op \in AllOps : Sensible(op)
<1>1. Sensible(kii_thing_authenticate)
  BY DEF Sensible, Things, Operation, kii_thing_authenticate
<1>2. Sensible(kii_thing_register)
  BY DEF Sensible, Things, Operation, kii_thing_register
<1>3. Sensible(kii_thing_upload_state)
  BY DEF Sensible, Things, Operation, kii_thing_upload_state
<1>4. Sensible(kii_thing_patch_state)
  BY DEF Sensible, Things, Operation, kii_thing_patch_state
<1>5. Sensible(kii_object_create)
  BY DEF Sensible, Things, Operation, kii_object_create
<1>6. Sensible(kii_object_create_with_id)
  BY DEF Sensible, Things, Operation, kii_object_create_with_id
<1>7. Sensible(kii_object_patch)
  BY DEF Sensible, Things, Operation, kii_object_patch
<1>8. Sensible(kii_object_replace)
  BY DEF Sensible, Things, Operation, kii_object_replace
<1>9. Sensible(kii_object_delete)
  BY DEF Sensible, Things, Operation, kii_object_delete
<1>10. Sensible(kii_object_get)
  BY DEF Sensible, Things, Operation, kii_object_get
<1>11. Sensible(kii_object_upload_body_at_once)
  BY DEF Sensible, Things, Operation, kii_object_upload_body_at_once
<1>12. Sensible(kii_object_init_upload_body)
  BY DEF Sensible, Things, Operation, kii_object_init_upload_body
<1>13. Sensible(kii_object_upload_body)
  BY DEF Sensible, Things, Operation, kii_object_upload_body
<1>14. Sensible(kii_object_commit_upload)
  BY DEF Sensible, Things, Operation, kii_object_commit_upload
<1>15. Sensible(kii_object_download_body_at_once)
  BY DEF Sensible, Things, Operation, kii_object_download_body_at_once
<1>16. Sensible(kii_object_download_body)
  BY DEF Sensible, Things, Operation, kii_object_download_body
<1>17. Sensible(kii_push_subscribe_bucket)
  BY DEF Sensible, Things, Operation, kii_push_subscribe_bucket
<1>18. Sensible(kii_push_unsubscribe_bucket)
  BY DEF Sensible, Things, Operation, kii_push_unsubscribe_bucket
<1>19. Sensible(kii_push_subscribe_topic)
  BY DEF Sensible, Things, Operation, kii_push_subscribe_topic
<1>20. Sensible(kii_push_unsubscribe_topic)
  BY DEF Sensible, Things, Operation, kii_push_unsubscribe_topic
<1>21. Sensible(kii_push_create_topic)
  BY DEF Sensible, Things, Operation, kii_push_create_topic
<1>22. Sensible(kii_push_delete_topic)
  BY DEF Sensible, Things, Operation, kii_push_delete_topic
<1>23. Sensible(kiiPush_install)
  BY DEF Sensible, Things, Operation, kiiPush_install
<1>24. Sensible(kiiPush_retrieveEndpoint)
  BY DEF Sensible, Things, Operation, kiiPush_retrieveEndpoint
<1>25. Sensible(kii_server_code_execute)
  BY DEF Sensible, Things, Operation, kii_server_code_execute
<1>26. Sensible(kii_api_call)
  BY DEF Sensible, Things, Operation, kii_api_call
<1>27. Sensible(Operation("none"))
  BY DEF Sensible, Things, Operation
<1> QED
  BY <1>1, <1>2, <1>3, <1>4, <1>5, <1>6, <1>7, <1>8, <1>9, <1>10, <1>11, <1>12, <1>13, <1>14, <1>15, <1>16, <1>17, <1>18, <1>19, <1>20, <1>21, <1>22, <1>23, <1>24, <1>25, <1>26, <1>27
     DEF AllOps, Operations, AppOperations, PushOperations
-----------------------------------------------------------------------------
(* Types.                                                                  *)

LEMMA OpsOfTasks ==
  ASSUME NEW t \in Tasks, NEW op \in Does[t]
  PROVE  op \in AllOps
BY ApiAssumption DEF AllOps

LEMMA EffectType ==
  ASSUME NEW op \in AllOps
  PROVE  Effect(op) \in Effects
BY OpsSensible DEF Effect, Effects, Sensible

LEMMA NoneTypes ==
  /\ NoReply \in Reply /\ NoRequest \in Request /\ NoConn \in Conn /\ Idle \in Task
<1>1. Operation("none") \in AllOps
  BY DEF AllOps
<1>2. NoReply \in Reply /\ NoRequest \in Request
  BY <1>1 DEF NoReply, Reply, NoRequest, Request
<1> QED
  BY <1>1, <1>2 DEF NoConn, Conn, Idle, Task, Named

LEMMA InitType == Init => TypeOK
<1> SUFFICES ASSUME Init PROVE TypeOK
  OBVIOUS
<1>1. task \in [Tasks -> Task]
  BY NoneTypes DEF Init
<1>2. core \in Core
  BY NoneTypes DEF Init, Core
<1>3. author \in [Fields -> Named]
  BY DEF Init, Named
<1>4. has \in SUBSET Things /\ late \in SUBSET Effects /\ faults \in 0..MaxFaults
  BY ApiAssumption DEF Init
<1> QED
  BY <1>1, <1>2, <1>3, <1>4, NoneTypes DEF Init, TypeOK

LEMMA AbandonedType ==
  ASSUME TypeOK
  PROVE  Abandoned \in SUBSET Effects
BY EffectType DEF TypeOK, Abandoned, Conn, Request

(* A task's record with some of its fields set.                            *)
LEMMA TaskChanges ==
  ASSUME NEW r \in Task
  PROVE  /\ \A pc \in {"run", "check", "judge", "crashed"} : [r EXCEPT !.pc = pc] \in Task
         /\ \A err \in {"OK", "FAIL"} : [r EXCEPT !.pc = "check", !.err = err] \in Task
         /\ \A result \in {"0", "-1", "RETRY"}, out \in Lengths \cup {0} :
              [r EXCEPT !.pc = "idle", !.result = result, !.out = out] \in Task
         /\ \A reply \in Reply : [r EXCEPT !.answer = reply] \in Task
BY DEF Task

LEMMA ReturnType ==
  ASSUME TypeOK, NEW t \in Tasks, NEW result \in {"0", "-1", "RETRY"},
         NEW out \in Lengths \cup {0}, Return(t, result, out)
  PROVE  task' \in [Tasks -> Task] /\ normalizer' \in BOOLEAN
<1>1. task' = [task EXCEPT ![t] = [task[t] EXCEPT !.pc = "idle", !.result = result, !.out = out]]
  BY DEF Return, TypeOK
<1>2. task' \in [Tasks -> Task]
  BY <1>1, TaskChanges DEF TypeOK
<1>3. task[t].op.normalized \in BOOLEAN
  BY OpsSensible DEF TypeOK, Task, Sensible
<1> QED
  BY <1>2, <1>3 DEF Return, Cleared, TypeOK

LEMMA CalledType ==
  ASSUME TypeOK, NEW t \in Tasks, NEW op \in AllOps, NEW account \in Named
  PROVE  Called(t, op, account) \in Task
BY NoneTypes DEF Called, Idle, Task

LEMMA CallType ==
  ASSUME TypeOK, NEW t \in Tasks, Call(t)
  PROVE  TypeOK'
<1>1. ASSUME NEW op \in Does[t], NEW account \in Named, NEW given \in BOOLEAN,
             Prepare(t, op, account, given)
      PROVE  TypeOK'
  <2>1. op \in AllOps /\ Called(t, op, account) \in Task
    BY OpsOfTasks, CalledType
  <2>2. core' \in Core
    BY <1>1, <2>1 DEF Prepare, Core, Request, TypeOK
  <2> QED
    BY <1>1, <2>1, <2>2, AbandonedType, NoneTypes DEF Prepare, TypeOK
<1>2. ASSUME NEW op \in Does[t], PrepareFails(t, op)
      PROVE  TypeOK'
  <2>1. op \in AllOps /\ Called(t, op, "none") \in Task
    BY OpsOfTasks, CalledType DEF Named
  <2>2. [Called(t, op, "none") EXCEPT !.pc = "idle", !.result = "-1"] \in Task
    BY <2>1 DEF Task
  <2>3. core' \in Core
    BY <1>2, NoneTypes DEF PrepareFails, Core, TypeOK
  <2>4. normalizer' \in BOOLEAN
    BY <1>2, <2>1, OpsSensible DEF PrepareFails, Cleared, TypeOK, Sensible
  <2>5. faults' \in 0..MaxFaults
    BY <1>2, ApiAssumption DEF PrepareFails, Fault, TypeOK
  <2> QED
    BY <1>2, <2>2, <2>3, <2>4, <2>5, AbandonedType, NoneTypes DEF PrepareFails, TypeOK
<1> QED
  BY <1>1, <1>2 DEF Call, Named

LEMMA RanType ==
  ASSUME TypeOK, NEW t \in Tasks, NEW err \in {"OK", "FAIL"}, Ran(t, err)
  PROVE  task' \in [Tasks -> Task]
<1>1. task' = [task EXCEPT ![t] = [task[t] EXCEPT !.pc = "check", !.err = err]]
  BY DEF Ran, TypeOK
<1> QED
  BY <1>1, TaskChanges DEF TypeOK

LEMMA RunType ==
  ASSUME TypeOK, NEW t \in Tasks, Run(t)
  PROVE  TypeOK'
<1>1. CASE RunReady(t)
  BY <1>1, RanType DEF RunReady, TypeOK, Core
<1>2. CASE RunSend(t)
  <2>1. core' \in Core /\ conn' \in Conn
    BY <1>2, NoneTypes DEF RunSend, TypeOK, Core, Conn
  <2> QED
    BY <1>2, <2>1, RanType DEF RunSend, TypeOK
<1>3. CASE RunReceive(t)
  <2>1. core' \in Core /\ conn' \in Conn
    BY <1>3, NoneTypes DEF RunReceive, Core
  <2>2. response' \in Reply
    BY <1>3 DEF RunReceive, Answer, TypeOK, Conn, Reply
  <2> QED
    BY <1>3, <2>1, <2>2, RanType DEF RunReceive, TypeOK
<1>4. CASE RunFails(t)
  <2>1. core' \in Core
    BY <1>4 DEF RunFails, Stopped, TypeOK, Core
  <2>2. faults' \in 0..MaxFaults
    BY <1>4, ApiAssumption DEF RunFails, Fault, Fine, TypeOK
  <2> QED
    BY <1>4, <2>1, <2>2, RanType DEF RunFails, TypeOK
<1> QED
  BY <1>1, <1>2, <1>3, <1>4 DEF Run

LEMMA CheckType ==
  ASSUME TypeOK, NEW t \in Tasks, Check(t)
  PROVE  TypeOK'
<1>1. task' \in [Tasks -> Task] /\ normalizer' \in BOOLEAN
  <2>1. ASSUME NEW pc \in {"run", "judge"}, task' = [task EXCEPT ![t].pc = pc]
        PROVE  task' \in [Tasks -> Task]
    <3>1. task' = [task EXCEPT ![t] = [task[t] EXCEPT !.pc = pc]]
      BY <2>1 DEF TypeOK
    <3> QED
      BY <3>1, TaskChanges DEF TypeOK
  <2>2. CASE Return(t, "-1", 0)
    BY <2>2, ReturnType
  <2> QED
    BY <2>1, <2>2 DEF Check, TypeOK
<1> QED
  BY <1>1 DEF Check, TypeOK

LEMMA JudgeType ==
  ASSUME TypeOK, NEW t \in Tasks, Judge(t)
  PROVE  TypeOK'
<1>1. ASSUME NEW fields \in SUBSET Fields
      PROVE  Copied(t, fields) \in [Fields -> Named]
  BY DEF Copied, TypeOK, Task
<1>2. UNCHANGED <<core, conn, response, has, late, faults>>
  BY DEF Judge, Reject, Accept, TakeLength, ReadField, ReadAuthor, ReadLength,
         Judging, JudgeRest
<1>3. CASE TakeLength(t)
  <2>1. task' = [task EXCEPT ![t] = [task[t] EXCEPT !.pc = "crashed"]]
    BY <1>3 DEF TakeLength, TypeOK
  <2>2. task' \in [Tasks -> Task]
    BY <2>1, TaskChanges DEF TypeOK
  <2> QED
    BY <1>2, <1>3, <2>2 DEF TakeLength, TypeOK
<1>4. CASE ReadAuthor(t)
  <2>1. author' \in [Fields -> Named]
    BY <1>1, <1>4 DEF ReadAuthor, AuthorRead
  <2>2. task' \in [Tasks -> Task] /\ normalizer' \in BOOLEAN
    BY <1>4, ReturnType DEF ReadAuthor, AuthorRead
  <2> QED
    BY <1>2, <2>1, <2>2 DEF TypeOK
<1>5. CASE Reject(t) \/ Accept(t) \/ ReadField(t) \/ ReadLength(t)
  <2>1. \E result \in {"0", "-1", "RETRY"}, out \in Lengths \cup {0} : Return(t, result, out)
    BY <1>5 DEF Reject, Accept, ReadField, ReadLength, Rejected, TypeOK, Reply
  <2>2. task' \in [Tasks -> Task] /\ normalizer' \in BOOLEAN
    BY <2>1, ReturnType
  <2> QED
    BY <1>2, <1>5, <2>2 DEF Reject, Accept, ReadField, ReadLength, TypeOK
<1> QED
  BY <1>3, <1>4, <1>5 DEF Judge

LEMMA CarriedOutType ==
  ASSUME TypeOK, NEW e \in Effects
  PROVE  CarriedOut(e) \in SUBSET Things
BY DEF CarriedOut, TypeOK, Effects

LEMMA RepliedType ==
  ASSUME TypeOK, NEW reply \in Reply, Replied(reply),
         has' \in SUBSET Things, faults' \in 0..MaxFaults
  PROVE  TypeOK'
<1>1. conn' \in Conn
  BY DEF Replied, TypeOK, Conn
<1>2. task' \in [Tasks -> Task]
  BY TaskChanges DEF Replied, TypeOK
<1> QED
  BY <1>1, <1>2 DEF Replied, TypeOK

LEMMA RepliesTyped ==
  ASSUME NEW code \in Nat, NEW length \in Lengths, NEW ranged \in BOOLEAN
  PROVE  /\ Full(code, length, ranged) \in Reply
         /\ Torn(code, length, ranged) \in Reply
         /\ Headless(code, ranged) \in Reply
BY DEF Full, Torn, Headless, Reply

LEMMA CloudType ==
  ASSUME TypeOK, Cloud
  PROVE  TypeOK'
<1>1. CASE CloudAnswers
  <2>1. has' \in SUBSET Things
    BY <1>1, EffectType, CarriedOutType DEF CloudAnswers, TypeOK, Conn, Request
  <2>2. PICK code \in Codes(conn.request.op), length \in Lengths, ranged \in Ranged :
          \/ Fine /\ Replied(Full(code, length, ranged))
          \/ Fault /\ Replied(Torn(code, length, ranged))
          \/ Fault /\ Replied(Headless(code, ranged))
    BY <1>1 DEF CloudAnswers
  <2>3. code \in Nat
    BY DEF Codes
  <2>4. ranged \in BOOLEAN
    BY DEF Ranged
  <2>5. faults' \in 0..MaxFaults
    BY <2>2, ApiAssumption DEF Fine, Fault, TypeOK
  <2> QED
    BY <2>1, <2>2, <2>3, <2>4, <2>5, RepliesTyped, RepliedType
<1>2. CASE CloudUnavailable
  <2>1. faults' \in 0..MaxFaults
    BY <1>2, ApiAssumption DEF CloudUnavailable, Fault, TypeOK
  <2>2. has' \in SUBSET Things
    BY <1>2 DEF CloudUnavailable, TypeOK
  <2>3. Full(503, 0, FALSE) \in Reply
    BY DEF Full, Reply
  <2> QED
    BY <1>2, <2>1, <2>2, <2>3, RepliedType DEF CloudUnavailable
<1>3. CASE CloudCatchesUp
  BY <1>3, CarriedOutType DEF CloudCatchesUp, TypeOK
<1> QED
  BY <1>1, <1>2, <1>3 DEF Cloud

(* Types, for any number of tasks that share the context.                  *)
THEOREM TypeCorrect == Spec => []TypeOK
<1>1. TypeOK /\ [Next]_vars => TypeOK'
  <2>1. ASSUME TypeOK, UNCHANGED vars PROVE TypeOK'
    BY <2>1 DEF vars, TypeOK
  <2>2. ASSUME TypeOK, Next PROVE TypeOK'
    BY <2>2, CallType, RunType, CheckType, JudgeType, CloudType DEF Next, Step
  <2> QED
    BY <2>1, <2>2
<1> QED
  BY <1>1, InitType, PTL DEF Spec
-----------------------------------------------------------------------------
(* The inductive invariant, for a context that one task uses.              *)

LEMMA OneTask ==
  ASSUME Alone, NEW t \in Tasks
  PROVE  \A u \in Tasks : u = t
BY DEF Alone

(* What the run checks and does not need a step of its own.                *)
Core5 == OwnContext /\ OwnConnection /\ ResponseIsAnswer /\ NormalizerOwn /\ EffectLasts
Results == OwnAnswer /\ CrashOnlyOnCutHead /\ OwnLength

LEMMA Follow ==
  ASSUME Alone, TypeOK, Core5, Results
  PROVE  SubscriptionsFollow /\ NormalizerOnlyForUploads
<1>1. ASSUME NEW t \in Tasks, task[t].result = "0", task[t].clean
      PROVE  task[t].op.adds \subseteq has /\ task[t].op.removes \cap has = {}
  <2>1. Sensible(task[t].op)
    BY OpsSensible DEF TypeOK, Task
  <2>2. task[t].answer.code # 0 /\ Accepts(task[t].op, task[t].answer.code)
    BY <1>1 DEF Results, OwnAnswer
  <2>3. CASE task[t].op.accepts = "any"
    BY <2>1, <2>3 DEF Sensible
  <2>4. CASE task[t].op.accepts # "any"
    <3>1. task[t].answer.code # 503
      <4>1. CASE task[t].op.accepts = "2xx"
        BY <2>2, <4>1 DEF Accepts
      <4>2. CASE task[t].op.accepts = "created"
        BY <2>2, <4>2 DEF Accepts
      <4> QED
        BY <2>1, <2>4, <4>1, <4>2 DEF Sensible
    <3> QED
      BY <1>1, <2>2, <3>1 DEF Core5, EffectLasts
  <2> QED
    BY <2>3, <2>4
<1>2. SubscriptionsFollow
  BY <1>1 DEF SubscriptionsFollow
<1>3. NormalizerOnlyForUploads
  <2> SUFFICES ASSUME core.sock = "RECV"
               PROVE  /\ conn.normalized => conn.request.op.normalized
                      /\ conn.normalized = conn.request.normalized
    BY DEF NormalizerOnlyForUploads
  <2>1. PICK t \in Tasks : TRUE
    BY DEF Alone
  <2> QED
    BY <2>1 DEF Core5, OwnConnection
<1> QED
  BY <1>2, <1>3

LEMMA InitCore ==
  ASSUME Init
  PROVE  Core5 /\ Results
<1>1. \A t \in Tasks : task[t] = Idle
  BY DEF Init
<1> USE <1>1 DEF Init, Idle, Operation, NoReply
<1>2. OwnContext /\ OwnConnection
  BY DEF OwnContext, OwnConnection
<1>3. ResponseIsAnswer /\ NormalizerOwn /\ EffectLasts
  BY DEF ResponseIsAnswer, HasAnswer, NormalizerOwn, EffectLasts
<1>4. Results
  BY DEF Results, OwnAnswer, CrashOnlyOnCutHead, OwnLength
<1> QED
  BY <1>2, <1>3, <1>4 DEF Core5

(* What a call leaves behind, whether it could prepare its request or not. *)
Begun(t, op) ==
  /\ task'[t].op = op /\ task'[t].answer = NoReply
  /\ task'[t].clean =>
       \A e \in late \cup Abandoned :
         e.adds \cap op.removes = {} /\ e.removes \cap op.adds = {}
  /\ late' = late \cup Abandoned
  /\ core'.sock = "IDLE"
  /\ normalizer' => op.normalized
  /\ \/ /\ task'[t].pc = "run" /\ task'[t].result = "none" /\ task'[t].err = "OK"
        /\ core'.state = "READY" /\ core'.request.task = t
        /\ core'.request.op = op /\ core'.request.normalized = normalizer'
     \/ /\ task'[t].pc = "idle" /\ task'[t].result = "-1"
        /\ core'.state = "IDLE" /\ ~normalizer'

(* An operation that was called, or could not be.                          *)
LEMMA CallKeeps ==
  ASSUME Alone, TypeOK, Core5, Results, NEW t \in Tasks, Call(t)
  PROVE  Core5' /\ Results'
<1>0. (\A u \in Tasks : u = t) /\ task \in [Tasks -> Task]
  BY OneTask DEF TypeOK
<1>1. task[t].pc = "idle" /\ ~normalizer /\ core.state = "IDLE"
  BY DEF Call, Prepare, PrepareFails, Core5, NormalizerOwn, OwnContext, TypeOK
<1>3. PICK op \in Does[t] : Begun(t, op)
  <2>1. ASSUME NEW op \in Does[t], NEW account, NEW given \in BOOLEAN,
               given => op.normalized, Prepare(t, op, account, given)
        PROVE  Begun(t, op)
    <3>1. task'[t] = Called(t, op, account)
      BY <1>0, <2>1 DEF Prepare
    <3>2. /\ task'[t].pc = "run" /\ task'[t].result = "none" /\ task'[t].err = "OK"
          /\ task'[t].op = op /\ task'[t].answer = NoReply
      BY <3>1 DEF Called, Idle
    <3>3. task'[t].clean =>
            \A e \in late \cup Abandoned :
              e.adds \cap op.removes = {} /\ e.removes \cap op.adds = {}
      BY <3>1 DEF Called, Idle
    <3> QED
      BY <1>1, <2>1, <3>2, <3>3 DEF Begun, Prepare
  <2>2. ASSUME NEW op \in Does[t], PrepareFails(t, op)
        PROVE  Begun(t, op)
    <3>1. task'[t] = [Called(t, op, "none") EXCEPT !.pc = "idle", !.result = "-1"]
      BY <1>0, <2>2 DEF PrepareFails
    <3>2. /\ task'[t].pc = "idle" /\ task'[t].result = "-1"
          /\ task'[t].op = op /\ task'[t].answer = NoReply
      BY <3>1 DEF Called, Idle
    <3>3. task'[t].clean =>
            \A e \in late \cup Abandoned :
              e.adds \cap op.removes = {} /\ e.removes \cap op.adds = {}
      BY <3>1 DEF Called, Idle
    <3> QED
      BY <1>1, <2>2, <3>2, <3>3 DEF Begun, PrepareFails, Cleared, TypeOK, Core
  <2> QED
    BY <2>1, <2>2 DEF Call
<1>5. OwnContext' /\ OwnConnection'
  BY <1>0, <1>3 DEF Begun, OwnContext, OwnConnection
<1>6. ResponseIsAnswer' /\ NormalizerOwn'
  BY <1>0, <1>3 DEF Begun, ResponseIsAnswer, HasAnswer, NormalizerOwn
<1>7. EffectLasts'
  BY <1>0, <1>3 DEF Begun, EffectLasts, NoReply
<1>8. Results'
  BY <1>0, <1>3 DEF Begun, Results, OwnAnswer, CrashOnlyOnCutHead, OwnLength
<1> QED
  BY <1>5, <1>6, <1>7, <1>8 DEF Core5
(* One call of kii_core_run.                                               *)
LEMMA RunKeeps ==
  ASSUME Alone, TypeOK, Core5, Results, NEW t \in Tasks, Run(t)
  PROVE  Core5' /\ Results'
<1>0. \A u \in Tasks : u = t
  BY OneTask
<1>1. PICK err \in {"OK", "FAIL"} : Ran(t, err)
  BY DEF Run, RunReady, RunSend, RunReceive, RunFails
<1>2. /\ task'[t].pc = "check" /\ task'[t].err = err
      /\ task'[t].op = task[t].op /\ task'[t].answer = task[t].answer
      /\ task'[t].result = task[t].result /\ task'[t].clean = task[t].clean
      /\ task'[t].out = task[t].out
  BY <1>1 DEF Ran, TypeOK, Task
<1>3. /\ task[t].pc = "run" /\ core.state # "IDLE" /\ task[t].result = "none"
      /\ UNCHANGED <<normalizer, has, late>>
  <2>1. task[t].pc = "run" /\ UNCHANGED normalizer /\ UNCHANGED has /\ UNCHANGED late
    BY DEF Run, RunReady, RunSend, RunReceive, RunFails, Running
  <2> QED
    BY <2>1 DEF Core5, OwnContext
<1>4. EffectLasts' /\ NormalizerOwn' /\ Results'
  BY <1>0, <1>2, <1>3 DEF Core5, EffectLasts, NormalizerOwn,
     Results, OwnAnswer, CrashOnlyOnCutHead, OwnLength
<1>5. CASE RunReady(t)
  <2>1. core'.state = "EXECUTE" /\ core'.sock = core.sock /\ core'.request = core.request
    BY <1>5 DEF RunReady, TypeOK, Core
  <2>2. core.sock = "IDLE"
    BY <1>5 DEF RunReady, Core5, OwnContext
  <2>5. err = "OK"
    BY <1>2, <1>5 DEF RunReady, Ran, TypeOK, Task
  <2>3. OwnContext'
    BY <1>0, <1>2, <1>3, <2>1, <2>2, <2>5 DEF Core5, OwnContext
  <2>4. OwnConnection' /\ ResponseIsAnswer'
    BY <1>0, <1>2, <2>1, <2>2 DEF OwnConnection, ResponseIsAnswer, HasAnswer
  <2> QED
    BY <1>4, <2>3, <2>4 DEF Core5
<1>6. CASE RunSend(t)
  <2>1. core'.state = "EXECUTE" /\ core'.sock = "RECV"
    BY <1>6 DEF RunSend, Running, TypeOK, Core
  <2>2. conn' = [request |-> core.request, normalized |-> normalizer, reply |-> NoReply]
    BY <1>6 DEF RunSend
  <2>3. /\ core.request.task = t /\ core.request.op = task[t].op
        /\ core.request.normalized = normalizer /\ task[t].answer = NoReply
    BY <1>6 DEF RunSend, Running, Core5, OwnContext
  <2>4. normalizer => task[t].op.normalized
    BY DEF Core5, NormalizerOwn
  <2>7. err = "OK"
    BY <1>2, <1>6 DEF RunSend, Ran, TypeOK, Task
  <2>5. OwnContext' /\ ResponseIsAnswer'
    BY <1>0, <1>2, <1>3, <2>1, <2>7 DEF OwnContext, ResponseIsAnswer, HasAnswer
  <2>6. OwnConnection'
    BY <1>0, <1>2, <1>3, <2>2, <2>3, <2>4 DEF OwnConnection
  <2> QED
    BY <1>4, <2>5, <2>6 DEF Core5
<1>7. CASE RunReceive(t)
  <2>1. core'.state = "IDLE" /\ core'.sock = "IDLE" /\ response' = Answer
    BY <1>7 DEF RunReceive
  <2>2. conn.reply = task[t].answer /\ conn.reply.code # 0
    BY <1>7 DEF RunReceive, Running, Core5, OwnConnection
  <2>3. /\ response'.code = task[t].answer.code /\ response'.body = task[t].answer.body
        /\ response'.length = task[t].answer.length \/ response'.body = "NULL"
    BY <2>1, <2>2 DEF Answer, TypeOK, Conn, Reply
  <2>4. OwnContext' /\ OwnConnection' /\ ResponseIsAnswer'
    BY <1>0, <1>2, <1>3, <2>1, <2>2, <2>3
       DEF OwnContext, OwnConnection, ResponseIsAnswer, HasAnswer
  <2> QED
    BY <1>4, <2>4 DEF Core5
<1>8. CASE RunFails(t)
  <2>1. core'.state = "IDLE" /\ core'.sock = core.sock /\ UNCHANGED conn
    BY <1>8 DEF RunFails, Stopped, TypeOK, Core
  <2>2. err = "FAIL"
    BY <1>0, <1>2, <1>8 DEF RunFails, Ran, TypeOK, Task
  <2>3. OwnContext' /\ OwnConnection' /\ ResponseIsAnswer'
    BY <1>0, <1>2, <1>3, <2>1, <2>2
       DEF Core5, OwnContext, OwnConnection, ResponseIsAnswer, HasAnswer
  <2> QED
    BY <1>4, <2>3 DEF Core5
<1> QED
  BY <1>5, <1>6, <1>7, <1>8 DEF Run

(* The operation returns: what of it is left to show is about its result.  *)
LEMMA ReturnKeeps ==
  ASSUME Alone, TypeOK, Core5, Results, NEW t \in Tasks,
         NEW result \in {"0", "-1", "RETRY"}, NEW out, Return(t, result, out),
         core.state = "IDLE", UNCHANGED <<core, conn, response, has, late>>,
         result = "0" => /\ core.sock = "IDLE"
                         /\ task[t].answer.code # 0
                         /\ Accepts(task[t].op, task[t].answer.code)
                         /\ task[t].op.reads \in {"length", "range"} =>
                              out = task[t].answer.length \/ task[t].answer.body = "NULL"
  PROVE  Core5' /\ Results'
<1>0. \A u \in Tasks : u = t
  BY OneTask
<1>1. /\ task'[t].pc = "idle" /\ task'[t].result = result /\ task'[t].out = out
      /\ task'[t].op = task[t].op /\ task'[t].answer = task[t].answer
      /\ task'[t].clean = task[t].clean
  BY DEF Return, TypeOK, Task
<1>2. ~normalizer'
  BY <1>0 DEF Return, Cleared, Core5, NormalizerOwn, TypeOK
<1>3. OwnContext' /\ OwnConnection' /\ ResponseIsAnswer'
  BY <1>0, <1>1 DEF Core5, OwnContext, OwnConnection, ResponseIsAnswer, HasAnswer
<1>4. NormalizerOwn' /\ EffectLasts'
  BY <1>0, <1>1, <1>2 DEF Core5, NormalizerOwn, EffectLasts
<1>5. Results'
  BY <1>0, <1>1 DEF Results, OwnAnswer, CrashOnlyOnCutHead, OwnLength
<1> QED
  BY <1>3, <1>4, <1>5 DEF Core5

LEMMA CheckKeeps ==
  ASSUME Alone, TypeOK, Core5, Results, NEW t \in Tasks, Check(t)
  PROVE  Core5' /\ Results'
<1>0. \A u \in Tasks : u = t
  BY OneTask
<1>1. ASSUME NEW pc \in {"run", "judge"}, task' = [task EXCEPT ![t].pc = pc],
             UNCHANGED normalizer,
             pc = "run" => core.state # "IDLE",
             pc = "judge" => core.state = "IDLE" /\ task[t].err = "OK"
      PROVE  Core5' /\ Results'
  <2>1. /\ task'[t].pc = pc /\ task'[t].op = task[t].op /\ task'[t].answer = task[t].answer
        /\ task'[t].result = task[t].result /\ task'[t].clean = task[t].clean
        /\ task'[t].out = task[t].out /\ task'[t].err = task[t].err
    BY <1>1 DEF TypeOK, Task
  <2>2. task[t].pc = "check" /\ UNCHANGED <<core, conn, response, has, late>>
    BY DEF Check
  <2>3. pc = "judge" => core.sock = "IDLE"
    BY <1>1, <2>2 DEF Core5, ResponseIsAnswer, HasAnswer
  <2>4. OwnContext' /\ OwnConnection' /\ ResponseIsAnswer'
    BY <1>0, <1>1, <2>1, <2>2, <2>3
       DEF Core5, OwnContext, OwnConnection, ResponseIsAnswer, HasAnswer
  <2>5. NormalizerOwn' /\ EffectLasts' /\ Results'
    BY SMTT(30), <1>0, <1>1, <2>1, <2>2
       DEF Core5, NormalizerOwn, EffectLasts, Results, OwnAnswer, CrashOnlyOnCutHead, OwnLength
  <2> QED
    BY <2>4, <2>5 DEF Core5
<1>2. CASE core.state = "IDLE" /\ Failed(t) /\ Return(t, "-1", 0)
  BY <1>2, ReturnKeeps DEF Check
<1>3. Failed(t) \/ task[t].err = "OK"
  BY DEF Failed
<1> QED
  BY <1>1, <1>2, <1>3 DEF Check

LEMMA JudgeKeeps ==
  ASSUME Alone, TypeOK, Core5, Results, NEW t \in Tasks, Judge(t)
  PROVE  Core5' /\ Results'
<1>0. \A u \in Tasks : u = t
  BY OneTask
<1>1. /\ task[t].pc = "judge" /\ core.state = "IDLE"
      /\ UNCHANGED <<core, conn, response, has, late>>
  BY DEF Judge, Reject, Accept, TakeLength, ReadField, ReadAuthor, ReadLength,
         Judging, JudgeRest, Core5, OwnContext
<1>2. /\ core.sock = "IDLE" /\ task[t].answer.code # 0
      /\ response.code = task[t].answer.code /\ response.body = task[t].answer.body
      /\ response.length = task[t].answer.length \/ response.body = "NULL"
  BY <1>1 DEF Core5, ResponseIsAnswer, HasAnswer
<1>3. CASE TakeLength(t)
  <2>1. task' = [task EXCEPT ![t].pc = "crashed"] /\ UNCHANGED normalizer
    BY <1>3 DEF TakeLength
  <2>2. /\ task'[t].pc = "crashed" /\ task'[t].op = task[t].op
        /\ task'[t].answer = task[t].answer /\ task'[t].result = task[t].result
        /\ task'[t].clean = task[t].clean /\ task'[t].out = task[t].out
    BY <2>1 DEF TypeOK, Task
  <2>3. task[t].answer.code \in 200..299 /\ task[t].answer.body = "NULL"
    <3>1. Sensible(task[t].op)
      BY OpsSensible DEF TypeOK, Task
    <3> QED
      BY <1>2, <1>3, <3>1 DEF TakeLength, Judging, Accepts, Sensible
  <2>4. OwnContext' /\ OwnConnection' /\ ResponseIsAnswer'
    BY <1>0, <1>1, <1>2, <2>2
       DEF Core5, OwnContext, OwnConnection, ResponseIsAnswer, HasAnswer
  <2>5. NormalizerOwn' /\ EffectLasts' /\ Results'
    BY SMTT(30), <1>0, <1>1, <2>1, <2>2, <2>3
       DEF Core5, NormalizerOwn, EffectLasts, Results, OwnAnswer, CrashOnlyOnCutHead, OwnLength
  <2> QED
    BY <2>4, <2>5 DEF Core5
<1>4. CASE Reject(t)
  <2>1. PICK result \in {"-1", "RETRY"} : Return(t, result, 0)
    BY <1>4 DEF Reject, Rejected
  <2> QED
    BY <1>1, <2>1, ReturnKeeps
<1>5. CASE Accept(t)
  BY <1>1, <1>2, <1>5, ReturnKeeps DEF Accept, Judging
<1>6. CASE ReadField(t)
  BY <1>1, <1>2, <1>6, ReturnKeeps DEF ReadField, Judging
<1>7. CASE ReadAuthor(t)
  BY <1>1, <1>2, <1>7, ReturnKeeps DEF ReadAuthor, AuthorRead, Judging
<1>8. CASE ReadLength(t)
  <2>1. CASE Return(t, "-1", 0)
    BY <1>1, <2>1, ReturnKeeps
  <2>2. CASE Return(t, "0", response.length)
    BY <1>1, <1>2, <1>8, <2>2, ReturnKeeps DEF ReadLength, Judging
  <2> QED
    BY <1>8, <2>1, <2>2 DEF ReadLength
<1> QED
  BY <1>3, <1>4, <1>5, <1>6, <1>7, <1>8 DEF Judge
(* The cloud answers the request on the connection, late or in time, or    *)
(* does what was given up on.                                              *)
LEMMA RepliedKeeps ==
  ASSUME Alone, TypeOK, Core5, Results, NEW t \in Tasks,
         Waiting, NEW reply, Replied(reply),
         reply.code \notin {0, 503} =>
           task[t].op.adds \subseteq has' /\ task[t].op.removes \cap has' = {}
  PROVE  Core5' /\ Results'
<1>0. \A u \in Tasks : u = t
  BY OneTask
<1>1. /\ core.sock = "RECV" /\ conn.request.task = t
      /\ conn'.reply = reply /\ conn'.request = conn.request
      /\ conn'.normalized = conn.normalized
      /\ UNCHANGED <<core, response, author, normalizer, late>>
  BY DEF Waiting, Replied, Core5, OwnConnection, TypeOK, Conn
<1>2. /\ task'[t].answer = reply /\ task'[t].pc = task[t].pc
      /\ task'[t].op = task[t].op /\ task'[t].err = task[t].err
      /\ task'[t].result = task[t].result /\ task'[t].clean = task[t].clean
      /\ task'[t].out = task[t].out
  BY <1>1 DEF Replied, TypeOK, Task
<1>3. task[t].result # "0" /\ task[t].pc \notin {"judge", "crashed"}
  BY <1>1 DEF Core5, OwnConnection
<1>4. OwnContext' /\ OwnConnection' /\ ResponseIsAnswer'
  BY <1>0, <1>1, <1>2, <1>3
     DEF Core5, OwnContext, OwnConnection, ResponseIsAnswer, HasAnswer
<1>5. NormalizerOwn' /\ EffectLasts'
  BY <1>0, <1>1, <1>2 DEF Core5, NormalizerOwn, EffectLasts
<1>6. Results'
  BY <1>0, <1>2, <1>3 DEF Results, OwnAnswer, CrashOnlyOnCutHead, OwnLength
<1> QED
  BY <1>4, <1>5, <1>6 DEF Core5

LEMMA CloudKeeps ==
  ASSUME Alone, TypeOK, Core5, Results, Cloud
  PROVE  Core5' /\ Results'
<1>1. PICK t \in Tasks : TRUE
  BY DEF Alone
<1>0. \A u \in Tasks : u = t
  BY <1>1, OneTask
<1>2. CASE CloudAnswers
  <2>1. PICK reply : Replied(reply)
    BY <1>2 DEF CloudAnswers
  <2>2. conn.request.op = task[t].op /\ Waiting
    BY <1>2 DEF CloudAnswers, Waiting, Core5, OwnConnection
  <2>3. task[t].op.adds \cap task[t].op.removes = {}
    BY OpsSensible DEF TypeOK, Task, Sensible
  <2>4. task[t].op.adds \subseteq has' /\ task[t].op.removes \cap has' = {}
    BY <1>2, <2>2, <2>3 DEF CloudAnswers, CarriedOut, Effect
  <2> QED
    BY <2>1, <2>2, <2>4, RepliedKeeps
<1>3. CASE CloudUnavailable
  <2>1. Full(503, 0, FALSE).code = 503
    BY DEF Full
  <2>2. PICK reply : reply.code = 503 /\ Replied(reply) /\ Waiting
    BY <1>3, <2>1 DEF CloudUnavailable
  <2> QED
    BY <2>2, RepliedKeeps
<1>4. CASE CloudCatchesUp
  <2>1. PICK e \in late : late' = late \ {e} /\ has' = CarriedOut(e)
    BY <1>4 DEF CloudCatchesUp
  <2>2. UNCHANGED <<task, core, conn, response, normalizer>>
    BY <1>4 DEF CloudCatchesUp
  <2>3. EffectLasts'
    BY <1>0, <2>1, <2>2 DEF Core5, EffectLasts, CarriedOut
  <2>4. OwnContext' /\ OwnConnection' /\ ResponseIsAnswer' /\ NormalizerOwn'
    BY <2>2 DEF Core5, OwnContext, OwnConnection, ResponseIsAnswer, HasAnswer, NormalizerOwn
  <2> QED
    BY <2>2, <2>3, <2>4 DEF Core5, Results, OwnAnswer, CrashOnlyOnCutHead, OwnLength
<1> QED
  BY <1>2, <1>3, <1>4 DEF Cloud

LEMMA NextKeeps ==
  ASSUME Alone, TypeOK, Core5, Results, [Next]_vars
  PROVE  Core5' /\ Results'
<1>1. CASE UNCHANGED vars
  BY <1>1 DEF vars, Core5, OwnContext, OwnConnection, ResponseIsAnswer, HasAnswer,
     NormalizerOwn, EffectLasts, Results, OwnAnswer, CrashOnlyOnCutHead, OwnLength
<1>2. CASE Next
  BY <1>2, CallKeeps, RunKeeps, CheckKeeps, JudgeKeeps, CloudKeeps DEF Next, Step
<1> QED
  BY <1>1, <1>2

(* With one task at a time on the context, every operation's state, result *)
(* and effect on the cloud belong together.                                *)
THEOREM InvariantCorrect == Alone => (Spec => []IInv)
<1> SUFFICES ASSUME Alone PROVE Spec => []IInv
  OBVIOUS
<1>1. Init => Core5 /\ Results
  BY InitCore
<1>2. TypeOK /\ Core5 /\ Results /\ [Next]_vars => (Core5 /\ Results)'
  BY NextKeeps
<1>3. TypeOK /\ Core5 /\ Results => IInv
  BY Follow DEF IInv, Core5, Results
<1> QED
  BY <1>1, <1>2, <1>3, TypeCorrect, PTL DEF Spec

(* An operation returns 0 only on an answer of the cloud to that very      *)
(* call, whatever calls failed before it.                                  *)
THEOREM OwnAnswerCorrect == Alone => (Spec => []OwnAnswer)
<1> SUFFICES ASSUME Alone PROVE Spec => []OwnAnswer
  OBVIOUS
<1>1. IInv => OwnAnswer
  BY DEF IInv
<1> QED
  BY <1>1, InvariantCorrect, PTL

(* What was made is there and what was removed is not, after 0 was         *)
(* returned for it, over any history of failures and lost answers.         *)
THEOREM SubscriptionsFollowCorrect == Alone => (Spec => []SubscriptionsFollow)
<1> SUFFICES ASSUME Alone PROVE Spec => []SubscriptionsFollow
  OBVIOUS
<1>1. IInv => SubscriptionsFollow
  BY DEF IInv
<1> QED
  BY <1>1, InvariantCorrect, PTL

(* Only uploads of a state go to the normalizer.                           *)
THEOREM NormalizerOnlyForUploadsCorrect == Alone => (Spec => []NormalizerOnlyForUploads)
<1> SUFFICES ASSUME Alone PROVE Spec => []NormalizerOnlyForUploads
  OBVIOUS
<1>1. IInv => NormalizerOnlyForUploads
  BY DEF IInv
<1> QED
  BY <1>1, InvariantCorrect, PTL

(* The length of NULL is taken only of a reply that lost its head.         *)
THEOREM CrashOnlyOnCutHeadCorrect == Alone => (Spec => []CrashOnlyOnCutHead)
<1> SUFFICES ASSUME Alone PROVE Spec => []CrashOnlyOnCutHead
  OBVIOUS
<1>1. IInv => CrashOnlyOnCutHead
  BY DEF IInv
<1> QED
  BY <1>1, InvariantCorrect, PTL

(* A download returns the length of its own body, unless the reply lost    *)
(* its head.                                                               *)
THEOREM OwnLengthCorrect == Alone => (Spec => []OwnLength)
<1> SUFFICES ASSUME Alone PROVE Spec => []OwnLength
  OBVIOUS
<1>1. IInv => OwnLength
  BY DEF IInv
<1> QED
  BY <1>1, InvariantCorrect, PTL
(* Only reading an answer to an authentication or registration changes the *)
(* author, and only one that returns -1 may leave two accounts in it.      *)
LEMMA AuthorChanges ==
  ASSUME Alone, TypeOK, Core5, [Next]_vars, author' # author
  PROVE  \E t \in Tasks :
           /\ task'[t].op.reads = "author"
           /\ task'[t].result = "0" => author' = [f \in Fields |-> task'[t].account]
           /\ task'[t].answer.code \in 200..299
<1>1. PICK t \in Tasks : ReadAuthor(t)
  <2>1. Next
    BY DEF vars
  <2>2. ~Cloud
    BY DEF Cloud, CloudAnswers, CloudUnavailable, CloudCatchesUp, Replied
  <2>3. \A t \in Tasks : ~Call(t)
    BY DEF Call, Prepare, PrepareFails
  <2>4. \A t \in Tasks : ~Run(t) /\ ~Check(t)
    BY DEF Run, RunReady, RunSend, RunReceive, RunFails, Check
  <2>5. \A t \in Tasks : Judge(t) => ReadAuthor(t)
    BY DEF Judge, Reject, Accept, TakeLength, ReadField, ReadLength
  <2> QED
    BY <2>1, <2>2, <2>3, <2>4, <2>5 DEF Next, Step
<1>2. PICK result \in {"0", "-1"}, fields \in SUBSET Fields :
        /\ Return(t, result, 0) /\ author' = Copied(t, fields)
        /\ result = "0" => fields = Fields
  BY <1>1 DEF ReadAuthor, AuthorRead
<1>3. /\ task'[t].op = task[t].op /\ task'[t].answer = task[t].answer
      /\ task'[t].account = task[t].account /\ task'[t].result = result
  BY <1>2 DEF Return, TypeOK, Task
<1>4. /\ task[t].op.reads = "author" /\ task[t].pc = "judge"
      /\ Accepts(task[t].op, response.code)
  BY <1>1 DEF ReadAuthor, Judging
<1>5. response.code = task[t].answer.code
  BY <1>4 DEF Core5, ResponseIsAnswer, HasAnswer
<1>6. task[t].answer.code \in 200..299
  <2>1. Sensible(task[t].op)
    BY OpsSensible DEF TypeOK, Task
  <2> QED
    BY <1>4, <1>5, <2>1 DEF Accepts, Sensible
<1>7. result = "0" => author' = [f \in Fields |-> task[t].account]
  BY <1>2 DEF Copied
<1> QED
  BY <1>3, <1>4, <1>6, <1>7

(* The fields of the author are those of one account, unless an operation  *)
(* that replaces them returned -1.                                         *)
THEOREM MixedOnlyByFailureCorrect == Alone => (Spec => MixedOnlyByFailure)
<1> SUFFICES ASSUME Alone PROVE Spec => MixedOnlyByFailure
  OBVIOUS
<1> DEFINE Change ==
      author' # author =>
        \E t \in Tasks :
          /\ task'[t].op.reads = "author"
          /\ task'[t].result = "0" => author' = [f \in Fields |-> task'[t].account]
          /\ task'[t].answer.code \in 200..299
<1>1. TypeOK /\ Core5 /\ [Next]_vars => [Change]_vars
  BY AuthorChanges
<1>2. IInv => Core5
  BY DEF IInv, Core5
<1> QED
  BY <1>1, <1>2, TypeCorrect, InvariantCorrect, PTL DEF Spec, MixedOnlyByFailure
=============================================================================
