------------------------------ MODULE Exchange ------------------------------
(***************************************************************************)
(* The proxy's handling of HTTP exchanges: several run at once, each in    *)
(* its own connection task, and share the broadcast their events go to.    *)
(*                                                                         *)
(*   src/src/proxy/service.rs   proxy, should_report, error responses      *)
(*   src/src/proxy/exchange.rs  process, build_upstream_request,           *)
(*                              track_request, process_response,           *)
(*                              track_response                             *)
(*                                                                         *)
(* An action runs from one await to the next. The bodies that go on after  *)
(* their head event are seen here as the events their reporter tasks       *)
(* publish; BodyPipeline has the detail.                                   *)
(***************************************************************************)
EXTENDS Naturals, Sequences

CONSTANTS
  Exchanges,  (* exchange ids                                              *)
  MaxChunks   (* bound on the BodyData events of an exchange that do not   *)
              (* end a body                                                *)

ASSUME ExchangesAssumption == MaxChunks \in Nat

Directions == {"Request", "Response"}

VARIABLES
  pc,            (* where Exchange::process is                             *)
  shouldReport,  (* Exchange.should_report, read once at the start         *)
  answer,        (* what the client got: "relayed", or the error's x-cause *)
  reason,        (* why an InternalError or RequestError was answered      *)
  contacted,     (* the request was handed to the upstream client          *)
  body,          (* the reporter task of each direction                    *)
  chunks,        (* BodyData events that did not end a body, counted       *)
  watched,       (* a monitor has been there since the exchange began      *)
  listening,     (* the broadcast has a receiver                           *)
  log            (* history: the events published of each exchange         *)

vars == <<pc, shouldReport, answer, reason, contacted, body, chunks, watched,
          listening, log>>

BodyStates == {"none", "open", "failed", "flushed", "closed"}

Causes == {"ConnectFailed", "ConnectionError", "RequestError", "InternalError"}

Init ==
  /\ pc = [e \in Exchanges |-> "idle"]
  /\ shouldReport = [e \in Exchanges |-> FALSE]
  /\ answer = [e \in Exchanges |-> "none"]
  /\ reason = [e \in Exchanges |-> "none"]
  /\ contacted = [e \in Exchanges |-> FALSE]
  /\ body = [e \in Exchanges |-> [d \in Directions |-> "none"]]
  /\ chunks = [e \in Exchanges |-> 0]
  /\ watched = [e \in Exchanges |-> FALSE]
  /\ listening \in BOOLEAN
  /\ log = [e \in Exchanges |-> <<>>]

-----------------------------------------------------------------------------
Message(d, t) == [direction |-> d, type |-> t]

(* Publisher::send: it fails when the broadcast has no receiver.           *)
Published(e, d, t) ==
  listening /\ log' = [log EXCEPT ![e] = Append(@, Message(d, t))]

Goto(e, from, to) == pc[e] = from /\ pc' = [pc EXCEPT ![e] = to]

(* error_http_response and the end of process().                           *)
Answer(e, cause, why) ==
  /\ pc' = [pc EXCEPT ![e] = "done"]
  /\ answer' = [answer EXCEPT ![e] = cause]
  /\ reason' = [reason EXCEPT ![e] = why]

Unanswered == UNCHANGED <<answer, reason>>

-----------------------------------------------------------------------------
(* Service::proxy and Exchange::new: a request arrives.                    *)
Accept(e) ==
  /\ Goto(e, "idle", "build")
  /\ shouldReport' = [shouldReport EXCEPT ![e] = listening]
  /\ watched' = [watched EXCEPT ![e] = listening]
  /\ Unanswered
  /\ UNCHANGED <<contacted, body, chunks, listening, log>>

(* transform_request_parts: the uri or a header cannot be built.           *)
BuildFails(e) ==
  /\ pc[e] = "build"
  /\ Answer(e, "InternalError", "build")
  /\ UNCHANGED <<shouldReport, contacted, body, chunks, watched, listening, log>>

(* transform_request_parts succeeds; without a monitor the body is handed  *)
(* on as it is, otherwise track_request starts to collect it.              *)
Build(e) ==
  /\ pc[e] = "build"
  /\ pc' = [pc EXCEPT ![e] = IF shouldReport[e] THEN "collect_request"
                             ELSE "upstream"]
  /\ contacted' = [contacted EXCEPT ![e] = ~shouldReport[e]]
  /\ Unanswered
  /\ UNCHANGED <<shouldReport, body, chunks, watched, listening, log>>

(* collect_ready_data of the request fails: 400 if a hyper error is in the *)
(* chain of causes, 502 otherwise.                                         *)
CollectRequestFails(e) ==
  /\ pc[e] = "collect_request"
  /\ \E cause \in {"RequestError", "InternalError"} :
       Answer(e, cause, "request_body")
  /\ UNCHANGED <<shouldReport, contacted, body, chunks, watched, listening, log>>

CollectRequest(e) ==
  /\ Goto(e, "collect_request", "send_request")
  /\ Unanswered
  /\ UNCHANGED <<shouldReport, contacted, body, chunks, watched, listening, log>>

(* Fault: the result of publishing the Request event is ignored.           *)
SendRequestUnchecked(e) ==
  /\ Goto(e, "send_request", "upstream")
  /\ \/ Published(e, "Request", "Request")
     \/ ~listening /\ UNCHANGED log
  /\ contacted' = [contacted EXCEPT ![e] = TRUE]
  /\ Unanswered
  /\ UNCHANGED <<shouldReport, body, chunks, watched, listening>>

(* track_request: publish the Request event; then tracked_body, with a     *)
(* reporter task if some of the body is still to come; then the request    *)
(* goes to the upstream client. Spawning that task cannot fail: the result *)
(* spawn_instrumented_on returns is Ok in either of its two forms.         *)
SendRequest(e) ==
  /\ Goto(e, "send_request", "upstream")
  /\ Published(e, "Request", "Request")
  /\ \E more \in {"none", "open"} :
       body' = [body EXCEPT ![e]["Request"] = more]
  /\ contacted' = [contacted EXCEPT ![e] = TRUE]
  /\ Unanswered
  /\ UNCHANGED <<shouldReport, chunks, watched, listening>>

(* No receiver is left: the error is not a hyper one, so 502 InternalError.*)
SendRequestFails(e) ==
  /\ pc[e] = "send_request" /\ ~listening
  /\ Answer(e, "InternalError", "no_listener")
  /\ UNCHANGED <<shouldReport, contacted, body, chunks, watched, listening, log>>

-----------------------------------------------------------------------------
(* client.request(...).await: there is no timeout.                         *)

UpstreamResponds(e) ==
  /\ Goto(e, "upstream", "transform_response")
  /\ Unanswered
  /\ UNCHANGED <<shouldReport, contacted, body, chunks, watched, listening, log>>

(* client_error_response, hyper_errors::classify: no connection, a request *)
(* hyper blames on its user (its body failed, say), or anything else.      *)
UpstreamFails(e, cause) ==
  /\ pc[e] = "upstream"
  /\ cause \in {"ConnectFailed", "RequestError", "ConnectionError"}
  /\ Answer(e, cause, "upstream")
  /\ UNCHANGED <<shouldReport, contacted, body, chunks, watched, listening, log>>

-----------------------------------------------------------------------------
(* process_response, up to the first await.                                *)
TransformResponse(e) ==
  /\ pc[e] = "transform_response"
  /\ IF shouldReport[e]
     THEN pc' = [pc EXCEPT ![e] = "collect_response"] /\ Unanswered
     ELSE Answer(e, "relayed", "none")
  /\ UNCHANGED <<shouldReport, contacted, body, chunks, watched, listening, log>>

TransformResponseFails(e) ==
  /\ pc[e] = "transform_response"
  /\ Answer(e, "InternalError", "build")
  /\ UNCHANGED <<shouldReport, contacted, body, chunks, watched, listening, log>>

(* Fault: the reporter task of the response body is spawned before the     *)
(* Response event is published.                                            *)
CollectResponseSpawnsEarly(e) ==
  /\ Goto(e, "collect_response", "send_response")
  /\ body' = [body EXCEPT ![e]["Response"] = "open"]
  /\ Unanswered
  /\ UNCHANGED <<shouldReport, contacted, chunks, watched, listening, log>>

CollectResponse(e) ==
  /\ Goto(e, "collect_response", "send_response")
  /\ Unanswered
  /\ UNCHANGED <<shouldReport, contacted, body, chunks, watched, listening, log>>

(* Fault: the Response event is published before its body is collected.    *)
CollectResponseFailsAfterEvent(e) ==
  /\ pc[e] = "collect_response"
  /\ Published(e, "Response", "Response")
  /\ Answer(e, "InternalError", "response_body")
  /\ UNCHANGED <<shouldReport, contacted, body, chunks, watched, listening>>

(* collect_ready_data of the response fails: 502.                          *)
CollectResponseFails(e) ==
  /\ pc[e] = "collect_response"
  /\ Answer(e, "InternalError", "response_body")
  /\ UNCHANGED <<shouldReport, contacted, body, chunks, watched, listening, log>>

(* track_response: publish the Response event, tracked_body, answer; the   *)
(* reporter task is spawned as in SendRequest.                             *)
SendResponse(e) ==
  /\ pc[e] = "send_response"
  /\ Published(e, "Response", "Response")
  /\ \E more \in {"none", "open"} :
       body' = [body EXCEPT ![e]["Response"] = more]
  /\ Answer(e, "relayed", "none")
  /\ UNCHANGED <<shouldReport, contacted, chunks, watched, listening>>

SendResponseFails(e) ==
  /\ pc[e] = "send_response" /\ ~listening
  /\ Answer(e, "InternalError", "no_listener")
  /\ UNCHANGED <<shouldReport, contacted, body, chunks, watched, listening, log>>

(* The client's connection closes: hyper drops the service future at the   *)
(* await it is in.                                                         *)
Cancel(e) ==
  /\ pc[e] \in {"collect_request", "upstream", "collect_response"}
  /\ pc' = [pc EXCEPT ![e] = "cancelled"]
  /\ Unanswered
  /\ UNCHANGED <<shouldReport, contacted, body, chunks, watched, listening, log>>

-----------------------------------------------------------------------------
(* The reporter task of a body: see BodyPipeline. A publication that finds *)
(* no receiver ends the task.                                              *)

BodyStep(e, d, from, to, t) ==
  /\ body[e][d] \in from
  /\ \/ /\ Published(e, d, t)
        /\ body' = [body EXCEPT ![e][d] = to]
     \/ /\ ~listening
        /\ body' = [body EXCEPT ![e][d] = "closed"]
        /\ UNCHANGED log
  /\ Unanswered
  /\ UNCHANGED <<pc, shouldReport, contacted, watched, listening>>

(* The flush timer. It may still be armed for data from before an error,   *)
(* but no data comes after one to arm it again.                            *)
BodyChunk(e, d) ==
  /\ chunks[e] < MaxChunks
  /\ chunks' = [chunks EXCEPT ![e] = @ + 1]
  /\ \/ BodyStep(e, d, {"open"}, "open", "BodyData")
     \/ BodyStep(e, d, {"failed"}, "flushed", "BodyData")

(* Fault: the reporter's loop ends with the error it reports.              *)
BodyErrorReturns(e, d) ==
  /\ BodyStep(e, d, {"open"}, "closed", "Error")
  /\ UNCHANGED chunks

BodyError(e, d) ==
  /\ BodyStep(e, d, {"open"}, "failed", "Error")
  /\ UNCHANGED chunks

BodyEnd(e, d) ==
  /\ BodyStep(e, d, {"open", "failed", "flushed"}, "closed", "BodyEnd")
  /\ UNCHANGED chunks

-----------------------------------------------------------------------------
(* The last monitor leaves, or the first one comes.                        *)
Listen ==
  /\ listening' = ~listening
  /\ watched' = [e \in Exchanges |-> watched[e] /\ ~listening]
  /\ Unanswered
  /\ UNCHANGED <<pc, shouldReport, contacted, body, chunks, log>>

Request(e) ==
  \/ Build(e) \/ BuildFails(e) \/ CollectRequest(e) \/ CollectRequestFails(e)
  \/ SendRequest(e) \/ SendRequestFails(e)

Response(e) ==
  \/ TransformResponse(e) \/ TransformResponseFails(e)
  \/ CollectResponse(e) \/ CollectResponseFails(e)
  \/ SendResponse(e) \/ SendResponseFails(e)

Upstream(e) ==
  \/ UpstreamResponds(e)
  \/ \E cause \in Causes : UpstreamFails(e, cause)

Report(e) ==
  \E d \in Directions : BodyChunk(e, d) \/ BodyError(e, d) \/ BodyEnd(e, d)

Next ==
  \/ \E e \in Exchanges :
       Accept(e) \/ Request(e) \/ Upstream(e) \/ Response(e) \/ Cancel(e)
         \/ Report(e)
  \/ Listen

Spec == Init /\ [][Next]_vars

-----------------------------------------------------------------------------
TypeOK ==
  /\ pc \in [Exchanges -> {"idle", "build", "collect_request", "send_request",
                           "upstream", "transform_response",
                           "collect_response", "send_response", "done",
                           "cancelled"}]
  /\ shouldReport \in [Exchanges -> BOOLEAN]
  /\ answer \in [Exchanges -> {"none", "relayed"} \cup Causes]
  /\ reason \in [Exchanges -> {"none", "build", "request_body", "no_listener",
                               "upstream", "response_body"}]
  /\ contacted \in [Exchanges -> BOOLEAN]
  /\ body \in [Exchanges -> [Directions -> BodyStates]]
  /\ chunks \in [Exchanges -> 0..MaxChunks]
  /\ watched \in [Exchanges -> BOOLEAN]
  /\ listening \in BOOLEAN
  /\ log \in [Exchanges ->
              Seq([direction : Directions,
                   type : {"Request", "Response", "BodyData", "BodyEnd", "Error"}])]

Shown(e, t) == \E i \in 1..Len(log[e]) : log[e][i].type = t

(* However exchanges, reporter tasks and monitors interleave, the events   *)
(* of an exchange come in an order the UI's reducer can fold: its Request  *)
(* event first, each head event once, and body data and errors of a        *)
(* direction only after the head event of that direction.                  *)
HeadFirst ==
  \A e \in Exchanges : \A j \in 1..Len(log[e]) :
    LET before   == {log[e][i] : i \in 1..(j - 1)}
        m        == log[e][j]
        request  == Message("Request", "Request")
        response == Message("Response", "Response")
    IN /\ m # request => request \in before
       /\ m \in {request, response} => m \notin before
       /\ m.direction = "Response" /\ m # response => response \in before

(* An exchange that is to be reported never reaches the upstream before    *)
(* its Request event is out (track_request publishes, then forwards).      *)
SeenBeforeSent ==
  \A e \in Exchanges : shouldReport[e] /\ contacted[e] => Shown(e, "Request")

(* Monitor and client agree: for a reported exchange, the Response event   *)
(* is out if the upstream's response was given to the client, and if it is *)
(* out the client is not given a response made up by the proxy.            *)
MonitorAgrees ==
  \A e \in Exchanges :
    /\ shouldReport[e] /\ answer[e] = "relayed" => Shown(e, "Response")
    /\ Shown(e, "Response") => answer[e] = "relayed"

(* A monitor sees an exchange whole or not at all. One that comes after    *)
(* the exchange has begun is shown nothing of it, neither its response nor *)
(* its bodies; one that was there from its beginning is shown the end of a *)
(* body exactly when its reporter is done, however the body went.          *)
SeenWhole ==
  \A e \in Exchanges :
    /\ ~shouldReport[e] => log[e] = <<>>
    /\ watched[e] =>
         \A d \in Directions :
           body[e][d] = "closed"
             <=> \E i \in 1..Len(log[e]) : log[e][i] = Message(d, "BodyEnd")

(* README.md:3 "It sits transparently between your services and their      *)
(* upstreams": a monitor that leaves does not change what the client gets. *)
MonitorsDoNotInterfere == \A e \in Exchanges : reason[e] # "no_listener"

(* ui/src/state/types.ts:56-59: an upstream that cannot be reached is "a   *)
(* transport failure" that "populates `error`", which only an Error event  *)
(* does: a monitor that was there all along is sent one.                   *)
UpstreamFailureShown ==
  \A e \in Exchanges :
    watched[e] /\ answer[e] \in {"ConnectFailed", "ConnectionError"}
      => Shown(e, "Error")
=============================================================================
