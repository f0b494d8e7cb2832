----------------------------- MODULE MCKiiApi ------------------------------
(* Small instances of KiiApi for TLC.                                      *)
EXTENDS KiiApi

MCLengths == {1, 2}

(* One task, with one operation of each kind: the others differ from one of *)
(* these in nothing but their name and the thing they make or remove.      *)
AloneDoes == [t \in Tasks |-> {
  kii_thing_authenticate, kii_thing_upload_state, kii_object_create,
  kii_object_get, kii_object_download_body_at_once, kii_object_download_body,
  kii_push_subscribe_bucket, kii_push_unsubscribe_bucket,
  kiiPush_retrieveEndpoint, kii_api_call}]

(* The receive task of kii_push_start_routine, and the application with    *)
(* every operation that judges its response_code.                          *)
SharedDoes == [t \in Tasks |->
  IF t = "recv" THEN PushOperations ELSE AppOperations \ {kii_api_call}]
=============================================================================
