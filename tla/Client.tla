-------------------------------- MODULE Client --------------------------------
(***************************************************************************)
(* clients.go: what the caller of a Client gets for what came back over     *)
(* HTTP.  A call that has an answer to decode and a call that has none      *)
(* treat a reply differently, and callers tell two kinds of errors apart:   *)
(* an *ErrorResponse, which the service sent, and any other.               *)
(***************************************************************************)
EXTENDS Naturals

UnknownResource == "com.amazonaws.swf.base.model#UnknownResourceFault"
StreamNotFound == "ResourceNotFoundException"

(* A reply: the status code, 0 if none came, and the body, which may not be *)
(* JSON.  Of the JSON, the __type of a fault or the status of an object.    *)
Reply(code, json, field) == [code |-> code, json |-> json, field |-> field]

(* What a call returns: its error, and the type of the fault or the status  *)
(* that was decoded.                                                       *)
Result(err, field) == [err |-> err, field |-> field]
Other == Result("other", "")

(* The replies that no call should get: none in time, the error page of a   *)
(* proxy, a fault that is no answer to the question, a body cut short.      *)
NoReply == Reply(0, FALSE, "")
ErrorPage == Reply(500, FALSE, "")
Throttled == Reply(400, TRUE, "ThrottlingException")
CutShort == Reply(200, FALSE, "")
BadReplies == {NoReply, ErrorPage, Throttled, CutShort}

-----------------------------------------------------------------------------
prepareAndExecuteRequest(reply) == reply.code # 0

(* A reply other than 200 is decoded into an ErrorResponse, whatever it is. *)
Refusal(reply) == IF reply.json THEN Result("fault", reply.field) ELSE Other

(* Without an answer to decode the body of a 200 is not read.               *)
swfReqNoResponse_AnyStatus(reply) ==
    IF prepareAndExecuteRequest(reply) THEN Result("nil", "") ELSE Other
swfReqNoResponse(reply) ==
    IF ~prepareAndExecuteRequest(reply) THEN Other
    ELSE IF reply.code # 200 THEN Refusal(reply)
    ELSE Result("nil", "")

swfReqWithResponse(reply) ==
    IF ~prepareAndExecuteRequest(reply) THEN Other
    ELSE IF reply.code # 200 THEN Refusal(reply)
    ELSE IF reply.json THEN Result("nil", reply.field) ELSE Other

kinesisReqNoResponse(reply) ==
    IF ~prepareAndExecuteRequest(reply) THEN Other
    ELSE IF reply.code # 200 THEN Refusal(reply)
    ELSE Result("nil", "")

kinesisReqWithResponse(reply) ==
    IF ~prepareAndExecuteRequest(reply) THEN Other
    ELSE IF reply.code # 200 THEN Refusal(reply)
    ELSE IF reply.json THEN Result("nil", reply.field) ELSE Other
=============================================================================
