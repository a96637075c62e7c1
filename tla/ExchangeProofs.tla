---------------------------- MODULE ExchangeProofs ---------------------------
(***************************************************************************)
(* Proofs about Exchange: the order of an exchange's events, and that      *)
(* monitor, client and upstream are told the same story, for any number of *)
(* exchanges and events.                                                   *)
(***************************************************************************)
EXTENDS Exchange, TLAPS

Types == {"Request", "Response", "BodyData", "BodyEnd", "Error"}
Messages == [direction : Directions, type : Types]

request == Message("Request", "Request")
response == Message("Response", "Response")

(* m is one of the events of l.                                            *)
Has(l, m) == \E i \in 1..Len(l) : l[i] = m

(* HeadFirst of one log, and what it says of the last message when that is *)
(* appended.                                                               *)
Ordered(l) ==
  \A j \in 1..Len(l) :
    LET before == {l[i] : i \in 1..(j - 1)}
    IN /\ l[j] # request => request \in before
       /\ l[j] \in {request, response} => l[j] \notin before
       /\ l[j].direction = "Response" /\ l[j] # response => response \in before

(* m may be published after the events of l.                               *)
MayFollow(l, m) ==
  /\ m # request => Has(l, request)
  /\ m \in {request, response} => ~Has(l, m)
  /\ m.direction = "Response" /\ m # response => Has(l, response)

(* A message of a head event's type is that head event.                    *)
HeadsOnly(l) ==
  \A i \in 1..Len(l) :
    l[i].type \in {"Request", "Response"} => l[i].direction = l[i].type

BeforeRequest == {"idle", "build", "collect_request", "send_request"}
BeforeAnswer == BeforeRequest \cup
  {"upstream", "transform_response", "collect_response", "send_response"}

(* How far process() is tells what the monitor, the upstream and the       *)
(* client have been given.                                                 *)
Coherent(e) ==
  /\ Ordered(log[e]) /\ HeadsOnly(log[e])
  /\ log[e] # <<>> => Has(log[e], request)
  /\ \A d \in Directions : body[e][d] # "none" => Has(log[e], Message(d, d))
  /\ pc[e] \in BeforeRequest => log[e] = <<>> /\ ~contacted[e]
  /\ pc[e] \in BeforeAnswer => ~Has(log[e], response) /\ answer[e] = "none"
  /\ pc[e] \in BeforeAnswer \ BeforeRequest => contacted[e]
  /\ pc[e] \in {"collect_request", "send_request", "collect_response",
                "send_response"} => shouldReport[e]
  /\ shouldReport[e] /\ contacted[e] => Has(log[e], request)
  /\ shouldReport[e] /\ answer[e] = "relayed" => Has(log[e], response)
  /\ Has(log[e], response) => answer[e] = "relayed"

(* The inductive invariant.                                                *)
Inv == TypeOK /\ \A e \in Exchanges : Coherent(e)

-----------------------------------------------------------------------------
(* Sequences: what an appended message changes.                            *)

(* A longer log has what it had and the message.                           *)
LEMMA AppendHas ==
  ASSUME NEW l \in Seq(Messages), NEW m \in Messages, NEW n
  PROVE  Has(Append(l, m), n) <=> Has(l, n) \/ m = n
<1>1. /\ Len(Append(l, m)) = Len(l) + 1 /\ Len(l) \in Nat
      /\ Append(l, m)[Len(l) + 1] = m
      /\ \A i \in 1..Len(l) : Append(l, m)[i] = l[i]
  OBVIOUS
<1>2. ASSUME Has(Append(l, m), n) PROVE Has(l, n) \/ m = n
  <2>1. PICK i \in 1..(Len(l) + 1) : Append(l, m)[i] = n
    BY <1>1, <1>2 DEF Has
  <2> QED
    BY <1>1, <2>1 DEF Has
<1>3. ASSUME Has(l, n) \/ m = n PROVE Has(Append(l, m), n)
  BY <1>1, <1>3 DEF Has
<1> QED
  BY <1>2, <1>3

(* A message that may follow keeps a log in order.                         *)
LEMMA AppendOrdered ==
  ASSUME NEW l \in Seq(Messages), NEW m \in Messages, Ordered(l), HeadsOnly(l),
         MayFollow(l, m),
         m.type \in {"Request", "Response"} => m.direction = m.type
  PROVE  Ordered(Append(l, m)) /\ HeadsOnly(Append(l, m))
<1> DEFINE a == Append(l, m)
<1>1. /\ Len(a) = Len(l) + 1 /\ Len(l) \in Nat
      /\ a[Len(l) + 1] = m
      /\ \A i \in 1..Len(l) : a[i] = l[i]
  OBVIOUS
<1>2. HeadsOnly(a)
  BY <1>1 DEF HeadsOnly
<1>3. ASSUME NEW j \in 1..Len(l)
      PROVE  {a[i] : i \in 1..(j - 1)} = {l[i] : i \in 1..(j - 1)} /\ a[j] = l[j]
  <2>1. \A i \in 1..(j - 1) : a[i] = l[i]
    BY <1>1
  <2> QED
    BY <1>1, <2>1
<1>4. \A n : n \in {a[i] : i \in 1..(Len(l) + 1 - 1)} <=> Has(l, n)
  BY <1>1 DEF Has
<1> HIDE DEF a
<1>5. Ordered(a)
  <2> SUFFICES ASSUME NEW j \in 1..Len(a)
               PROVE  LET before == {a[i] : i \in 1..(j - 1)}
                      IN /\ a[j] # request => request \in before
                         /\ a[j] \in {request, response} => a[j] \notin before
                         /\ a[j].direction = "Response" /\ a[j] # response
                              => response \in before
    BY DEF Ordered
  <2>1. CASE j \in 1..Len(l)
    BY <1>3, <2>1 DEF Ordered
  <2>2. CASE j = Len(l) + 1
    BY <1>1, <1>4, <2>2 DEF MayFollow
  <2> QED
    BY <1>1, <2>1, <2>2
<1> QED
  BY <1>2, <1>5 DEF a

-----------------------------------------------------------------------------
(* TypeOK. An action of an exchange touches only that exchange's entries.  *)

(* The event of an exchange is one.                                        *)
LEMMA MessageType ==
  ASSUME NEW d \in Directions, NEW t \in Types
  PROVE  Message(d, t) \in Messages
BY DEF Message, Messages

(* Publishing adds one event to the log of one exchange.                   *)
LEMMA PublishedType ==
  ASSUME TypeOK, NEW e \in Exchanges, NEW d \in Directions, NEW t \in Types,
         Published(e, d, t)
  PROVE  /\ log' \in [Exchanges -> Seq(Messages)]
         /\ log'[e] = Append(log[e], Message(d, t))
         /\ \A f \in Exchanges \ {e} : log'[f] = log[f]
<1>1. log \in [Exchanges -> Seq(Messages)]
  BY DEF TypeOK, Messages, Types
<1>2. Append(log[e], Message(d, t)) \in Seq(Messages)
  BY <1>1, MessageType
<1>3. log' = [log EXCEPT ![e] = Append(log[e], Message(d, t))]
  BY DEF Published
<1> QED
  BY <1>1, <1>2, <1>3

(* Setting the state of one body leaves the others alone.                  *)
LEMMA SetBody ==
  ASSUME TypeOK, NEW e \in Exchanges, NEW d \in Directions,
         NEW v \in BodyStates,
         body' = [body EXCEPT ![e][d] = v]
  PROVE  /\ body' \in [Exchanges -> [Directions -> BodyStates]]
         /\ body'[e][d] = v
         /\ \A c \in Directions \ {d} : body'[e][c] = body[e][c]
         /\ \A f \in Exchanges \ {e} : body'[f] = body[f]
<1> DEFINE B == [Directions -> BodyStates]
           b == [body[e] EXCEPT ![d] = v]
<1>1. body \in [Exchanges -> B]
  BY DEF TypeOK
<1>2. b \in B /\ b[d] = v /\ \A c \in Directions \ {d} : b[c] = body[e][c]
  BY <1>1
<1>3. body' = [body EXCEPT ![e] = b]
  OBVIOUS
<1> HIDE DEF B, b
<1>4. body' \in [Exchanges -> B] /\ body'[e] = b
      /\ \A f \in Exchanges \ {e} : body'[f] = body[f]
  BY <1>1, <1>2, <1>3
<1> QED
  BY <1>2, <1>4 DEF B

(* Accepting a request and sending it on keep the types.                   *)
LEMMA RequestType ==
  ASSUME TypeOK, NEW e \in Exchanges, Accept(e) \/ Request(e)
  PROVE  TypeOK'
<1>1. CASE Accept(e)
  BY <1>1 DEF Accept, Goto, Unanswered, TypeOK
<1>2. CASE Build(e) \/ CollectRequest(e)
  BY <1>2 DEF Build, CollectRequest, Goto, Unanswered, TypeOK
<1>3. CASE BuildFails(e) \/ CollectRequestFails(e) \/ SendRequestFails(e)
  <2>1. PICK cause \in Causes,
             why \in {"build", "request_body", "no_listener"} :
          Answer(e, cause, why)
    BY <1>3 DEF BuildFails, CollectRequestFails, SendRequestFails, Causes
  <2>2. UNCHANGED <<shouldReport, contacted, body, chunks, watched, listening, log>>
    BY <1>3 DEF BuildFails, CollectRequestFails, SendRequestFails
  <2> QED
    BY <2>1, <2>2 DEF Answer, TypeOK
<1>4. CASE SendRequest(e)
  <2>1. log' \in [Exchanges -> Seq(Messages)]
    BY <1>4, PublishedType DEF SendRequest, Directions, Types
  <2>2. body' \in [Exchanges -> [Directions -> BodyStates]]
    BY <1>4, SetBody DEF SendRequest, Directions, BodyStates
  <2> QED
    BY <1>4, <2>1, <2>2 DEF SendRequest, Goto, Unanswered, TypeOK, Messages,
                            Types
<1> QED
  BY <1>1, <1>2, <1>3, <1>4 DEF Request

(* The answer, and a client that leaves, keep the types.                   *)
LEMMA ResponseType ==
  ASSUME TypeOK, NEW e \in Exchanges, Upstream(e) \/ Response(e) \/ Cancel(e)
  PROVE  TypeOK'
<1>1. CASE UpstreamResponds(e) \/ CollectResponse(e) \/ Cancel(e)
  BY <1>1 DEF UpstreamResponds, CollectResponse, Cancel, Goto, Unanswered, TypeOK
<1>2. CASE \E cause \in Causes : UpstreamFails(e, cause)
  <2>1. PICK cause \in Causes : UpstreamFails(e, cause)
    BY <1>2
  <2> QED
    BY <2>1 DEF UpstreamFails, Answer, TypeOK
<1>3. CASE TransformResponse(e)
  <2>1. CASE shouldReport[e]
    BY <1>3, <2>1 DEF TransformResponse, Unanswered, TypeOK
  <2>2. CASE ~shouldReport[e]
    BY <1>3, <2>2 DEF TransformResponse, Answer, TypeOK
  <2> QED
    BY <2>1, <2>2
<1>4. CASE TransformResponseFails(e) \/ CollectResponseFails(e)
             \/ SendResponseFails(e)
  BY <1>4 DEF TransformResponseFails, CollectResponseFails, SendResponseFails,
              Answer, Causes, TypeOK
<1>5. CASE SendResponse(e)
  <2>1. log' \in [Exchanges -> Seq(Messages)]
    BY <1>5, PublishedType DEF SendResponse, Directions, Types
  <2>2. body' \in [Exchanges -> [Directions -> BodyStates]]
    BY <1>5, SetBody DEF SendResponse, Directions, BodyStates
  <2> QED
    BY <1>5, <2>1, <2>2 DEF SendResponse, Answer, Causes, TypeOK, Messages, Types
<1> QED
  BY <1>1, <1>2, <1>3, <1>4, <1>5 DEF Upstream, Response

(* A step of a body's reporter keeps the types.                            *)
LEMMA BodyStepType ==
  ASSUME TypeOK, NEW e \in Exchanges, NEW d \in Directions, NEW from,
         NEW to \in {"open", "failed", "flushed", "closed"},
         NEW t \in {"BodyData", "BodyEnd", "Error"}, BodyStep(e, d, from, to, t),
         chunks' \in [Exchanges -> 0..MaxChunks]
  PROVE  TypeOK'
<1>1. log' \in [Exchanges -> Seq(Messages)]
  <2>1. CASE Published(e, d, t)
    BY <2>1, PublishedType DEF Types
  <2>2. CASE UNCHANGED log
    BY <2>2 DEF TypeOK, Messages, Types
  <2> QED
    BY <2>1, <2>2 DEF BodyStep
<1>2. body' \in [Exchanges -> [Directions -> BodyStates]]
  BY SetBody DEF BodyStep, BodyStates
<1> QED
  BY <1>1, <1>2 DEF BodyStep, Unanswered, TypeOK, Messages, Types

(* Every report about an exchange keeps the types.                         *)
LEMMA ReportType ==
  ASSUME TypeOK, NEW e \in Exchanges, Report(e)
  PROVE  TypeOK'
<1>1. PICK d \in Directions : BodyChunk(e, d) \/ BodyError(e, d) \/ BodyEnd(e, d)
  BY DEF Report
<1>2. chunks' \in [Exchanges -> 0..MaxChunks]
  <2>1. CASE BodyChunk(e, d)
    <3>1. chunks[e] + 1 \in 0..MaxChunks
      BY <2>1, ExchangesAssumption DEF BodyChunk, TypeOK
    <3> QED
      BY <2>1, <3>1 DEF BodyChunk, TypeOK
  <2>2. CASE UNCHANGED chunks
    BY <2>2 DEF TypeOK
  <2> QED
    BY <1>1, <2>1, <2>2 DEF BodyError, BodyEnd
<1> QED
  BY <1>1, <1>2, BodyStepType DEF BodyChunk, BodyError, BodyEnd

(* Monitors that come and go keep the types.                               *)
LEMMA ListenType ==
  ASSUME TypeOK, Listen
  PROVE  TypeOK'
BY DEF TypeOK, Listen, Unanswered

(* Every variable of Exchange keeps its type, in particular the log holds  *)
(* messages only.                                                          *)
LEMMA TypeCorrect == Spec => []TypeOK
<1>1. Init => TypeOK
  BY ExchangesAssumption DEF Init, TypeOK, Directions, BodyStates
<1>2. TypeOK /\ [Next]_vars => TypeOK'
  <2> SUFFICES ASSUME TypeOK, [Next]_vars PROVE TypeOK'
    OBVIOUS
  <2>1. CASE UNCHANGED vars
    BY <2>1 DEF vars, TypeOK
  <2> QED
    BY <2>1, RequestType, ResponseType, ReportType, ListenType DEF Next
<1> QED
  BY <1>1, <1>2, PTL DEF Spec

-----------------------------------------------------------------------------
(* Coherent. What an action leaves alone of another exchange stays so.     *)

(* An exchange that a step does not touch stays coherent.                  *)
LEMMA Untouched ==
  ASSUME NEW e \in Exchanges, Coherent(e),
         pc'[e] = pc[e], shouldReport'[e] = shouldReport[e],
         answer'[e] = answer[e], contacted'[e] = contacted[e],
         body'[e] = body[e], log'[e] = log[e]
  PROVE  Coherent(e)'
BY DEF Coherent

(* An action that publishes nothing and starts no reporter task.           *)
LEMMA QuietStep ==
  ASSUME TypeOK, NEW e \in Exchanges, Coherent(e), UNCHANGED <<body, log>>,
         Accept(e) \/ Build(e) \/ BuildFails(e) \/ CollectRequest(e)
           \/ CollectRequestFails(e) \/ SendRequestFails(e)
           \/ UpstreamResponds(e) \/ (\E cause \in Causes : UpstreamFails(e, cause))
           \/ TransformResponse(e) \/ TransformResponseFails(e)
           \/ CollectResponse(e) \/ CollectResponseFails(e)
           \/ SendResponseFails(e) \/ Cancel(e)
  PROVE  /\ Coherent(e)'
         /\ \A f \in Exchanges \ {e} :
              /\ pc'[f] = pc[f] /\ shouldReport'[f] = shouldReport[f]
              /\ answer'[f] = answer[f] /\ contacted'[f] = contacted[f]
<1> USE DEF BeforeRequest, BeforeAnswer
<1>1. /\ body'[e] = body[e] /\ log'[e] = log[e]
      /\ \A n : Has(<<>>, n) = FALSE
  BY DEF Has
<1>2. CASE Accept(e)
  BY <1>1, <1>2 DEF Accept, Goto, Unanswered, TypeOK, Coherent
<1>3. CASE Build(e)
  BY <1>1, <1>3 DEF Build, Unanswered, TypeOK, Coherent
<1>4. CASE BuildFails(e) \/ CollectRequestFails(e) \/ SendRequestFails(e)
  BY <1>1, <1>4 DEF BuildFails, CollectRequestFails, SendRequestFails, Answer,
                    TypeOK, Coherent
<1>5. CASE CollectRequest(e) \/ UpstreamResponds(e) \/ CollectResponse(e)
             \/ Cancel(e)
  BY <1>1, <1>5 DEF CollectRequest, UpstreamResponds, CollectResponse, Cancel,
                    Goto, Unanswered, TypeOK, Coherent
<1>6. CASE \E cause \in Causes : UpstreamFails(e, cause)
  <2>1. PICK cause \in Causes : UpstreamFails(e, cause)
    BY <1>6
  <2> QED
    BY <1>1, <2>1 DEF UpstreamFails, Answer, TypeOK, Coherent
<1>7. CASE TransformResponse(e)
  <2>1. CASE shouldReport[e]
    BY <1>1, <1>7, <2>1 DEF TransformResponse, Unanswered, TypeOK, Coherent
  <2>2. CASE ~shouldReport[e]
    BY <1>1, <1>7, <2>2 DEF TransformResponse, Answer, TypeOK, Coherent
  <2> QED
    BY <2>1, <2>2
<1>8. CASE TransformResponseFails(e) \/ CollectResponseFails(e)
             \/ SendResponseFails(e)
  BY <1>1, <1>8 DEF TransformResponseFails, CollectResponseFails,
                    SendResponseFails, Answer, TypeOK, Coherent
<1> QED
  BY <1>2, <1>3, <1>4, <1>5, <1>6, <1>7, <1>8

(* The Request event is the first of its exchange.                         *)
LEMMA SendRequestCoherent ==
  ASSUME TypeOK, NEW e \in Exchanges, Coherent(e), SendRequest(e)
  PROVE  Coherent(e)'
<1> USE DEF BeforeRequest, BeforeAnswer
<1>1. /\ pc[e] = "send_request" /\ pc'[e] = "upstream" /\ contacted'[e]
      /\ answer'[e] = answer[e] /\ shouldReport'[e] = shouldReport[e]
  BY DEF SendRequest, Goto, Unanswered, TypeOK
<1>2. /\ log[e] \in Seq(Messages)
      /\ log'[e] = Append(log[e], request)
  BY PublishedType
     DEF SendRequest, request, Directions, Types, TypeOK, Messages
<1>3. /\ request \in Messages /\ request # response
      /\ request.type = "Request" /\ request.direction = "Request"
  BY DEF request, response, Message, Messages, Directions, Types
<1>4. MayFollow(log[e], request)
  BY <1>1, <1>3 DEF MayFollow, Has, Coherent
<1>5. Ordered(log'[e]) /\ HeadsOnly(log'[e])
  BY <1>2, <1>3, <1>4, AppendOrdered DEF Coherent
<1>6. Has(log'[e], request) /\ ~Has(log'[e], response)
  <2>1. ~Has(log[e], response)
    BY <1>1 DEF Coherent
  <2>2. /\ Has(log'[e], request) <=> Has(log[e], request) \/ request = request
        /\ Has(log'[e], response) <=> Has(log[e], response) \/ request = response
    BY <1>2, <1>3, AppendHas
  <2> QED
    BY <1>3, <2>1, <2>2
<1>7. body'[e]["Response"] = body[e]["Response"]
  BY SetBody DEF SendRequest, Directions, BodyStates
<1>8. body[e]["Response"] = "none"
  BY <1>1 DEF Coherent, TypeOK, Directions, response
<1>9. \A d \in Directions : body'[e][d] # "none" => Has(log'[e], Message(d, d))
  BY <1>6, <1>7, <1>8 DEF Directions, request
<1> QED
  BY <1>1, <1>5, <1>6, <1>9 DEF Coherent

(* The Response event is published once, with the answer that relays it.   *)
LEMMA SendResponseCoherent ==
  ASSUME TypeOK, NEW e \in Exchanges, Coherent(e), SendResponse(e)
  PROVE  Coherent(e)'
<1> USE DEF BeforeRequest, BeforeAnswer
<1>1. /\ pc[e] = "send_response" /\ pc'[e] = "done" /\ contacted'[e] = contacted[e]
      /\ answer'[e] = "relayed" /\ shouldReport'[e] = shouldReport[e]
  BY DEF SendResponse, Answer, TypeOK
<1>2. /\ log[e] \in Seq(Messages)
      /\ log'[e] = Append(log[e], response)
  BY PublishedType
     DEF SendResponse, response, Directions, Types, TypeOK, Messages
<1>3. /\ response \in Messages /\ request # response
      /\ response.type = "Response" /\ response.direction = "Response"
  BY DEF request, response, Message, Messages, Directions, Types
<1>4. Has(log[e], request) /\ ~Has(log[e], response)
  BY <1>1 DEF Coherent
<1>5. MayFollow(log[e], response)
  BY <1>3, <1>4 DEF MayFollow
<1>6. Ordered(log'[e]) /\ HeadsOnly(log'[e])
  BY <1>2, <1>3, <1>5, AppendOrdered DEF Coherent
<1>7. Has(log'[e], request) /\ Has(log'[e], response)
  BY <1>2, <1>3, <1>4, AppendHas
<1>8. \A d \in Directions : body'[e][d] # "none" => Has(log'[e], Message(d, d))
  BY <1>7 DEF Directions, request, response
<1> QED
  BY <1>1, <1>6, <1>7, <1>8 DEF Coherent

(* A reporter task runs only after the head event of its direction.        *)
LEMMA BodyStepCoherent ==
  ASSUME TypeOK, NEW e \in Exchanges, Coherent(e), NEW d \in Directions,
         NEW from \in SUBSET {"open", "failed", "flushed"},
         NEW to \in {"open", "failed", "flushed", "closed"},
         NEW t \in {"BodyData", "BodyEnd", "Error"}, BodyStep(e, d, from, to, t)
  PROVE  Coherent(e)' /\ \A f \in Exchanges \ {e} : log'[f] = log[f]
                                                 /\ body'[f] = body[f]
<1>1. UNCHANGED <<pc, answer, contacted, shouldReport>>
  BY DEF BodyStep, Unanswered
<1>2. Has(log[e], Message(d, d)) /\ log[e] # <<>>
  BY DEF BodyStep, Coherent, Has
<1>3. Has(log[e], request)
  BY <1>2 DEF Coherent
<1>4. \A c \in Directions :
        body'[e][c] # "none" => Has(log[e], Message(c, c))
  BY <1>2, SetBody DEF BodyStep, BodyStates, Coherent
<1>5. \A f \in Exchanges \ {e} : body'[f] = body[f]
  BY SetBody DEF BodyStep, BodyStates
<1>6. CASE UNCHANGED log
  BY <1>1, <1>4, <1>5, <1>6 DEF Coherent
<1>7. CASE Published(e, d, t)
  <2> DEFINE m == Message(d, t)
  <2>1. /\ log[e] \in Seq(Messages) /\ log'[e] = Append(log[e], m)
        /\ \A f \in Exchanges \ {e} : log'[f] = log[f]
        /\ m \in Messages
    <3>1. log[e] \in Seq(Messages)
      BY DEF TypeOK, Messages, Types
    <3>2. t \in Types
      BY DEF Types
    <3> QED
      BY <1>7, <3>1, <3>2, PublishedType, MessageType
  <2>2. m # request /\ m # response /\ m.type = t /\ m.direction = d
    BY DEF Message, request, response
  <2> HIDE DEF m
  <2>3. MayFollow(log[e], m)
    BY <1>2, <1>3, <2>2 DEF MayFollow, response, Directions
  <2>4. Ordered(log'[e]) /\ HeadsOnly(log'[e])
    BY <2>1, <2>2, <2>3, AppendOrdered DEF Coherent
  <2>5. \A n : Has(log[e], n) => Has(log'[e], n)
    BY <2>1, AppendHas
  <2>6. Has(log'[e], response) <=> Has(log[e], response)
    BY <2>1, <2>2, AppendHas
  <2>7. log'[e] # <<>>
    BY <2>1
  <2>8. pc[e] \notin BeforeRequest
    BY <1>2 DEF Coherent
  <2>9. \A c \in Directions :
          body'[e][c] # "none" => Has(log'[e], Message(c, c))
    BY <1>4, <2>5
  <2> QED
    BY <1>1, <1>3, <1>5, <2>1, <2>4, <2>5, <2>6, <2>8, <2>9 DEF Coherent
<1> QED
  BY <1>6, <1>7 DEF BodyStep

-----------------------------------------------------------------------------
(* Every step keeps every exchange coherent.                               *)
LEMMA StepCoherent ==
  ASSUME TypeOK, \A e \in Exchanges : Coherent(e), Next
  PROVE  \A f \in Exchanges : Coherent(f)'
<1> SUFFICES ASSUME NEW f \in Exchanges PROVE Coherent(f)'
  OBVIOUS
<1>1. CASE Listen
  BY <1>1, Untouched DEF Listen, Unanswered
<1>2. CASE \E e \in Exchanges :
             Accept(e) \/ Request(e) \/ Upstream(e) \/ Response(e) \/ Cancel(e)
  <2>1. PICK e \in Exchanges :
          Accept(e) \/ Request(e) \/ Upstream(e) \/ Response(e) \/ Cancel(e)
    BY <1>2
  <2>2. CASE SendRequest(e)
    <3>1. CASE f = e
      BY <2>2, <3>1, SendRequestCoherent
    <3>2. CASE f # e
      <4>1. log'[f] = log[f] /\ body'[f] = body[f]
        BY <2>2, <3>2, PublishedType, SetBody
           DEF SendRequest, Directions, Types, BodyStates
      <4> QED
        BY <2>2, <3>2, <4>1, Untouched DEF SendRequest, Goto, Unanswered, TypeOK
    <3> QED
      BY <3>1, <3>2
  <2>3. CASE SendResponse(e)
    <3>1. CASE f = e
      BY <2>3, <3>1, SendResponseCoherent
    <3>2. CASE f # e
      <4>1. log'[f] = log[f] /\ body'[f] = body[f]
        BY <2>3, <3>2, PublishedType, SetBody
           DEF SendResponse, Directions, Types, BodyStates
      <4> QED
        BY <2>3, <3>2, <4>1, Untouched DEF SendResponse, Answer, TypeOK
    <3> QED
      BY <3>1, <3>2
  <2>4. CASE ~SendRequest(e) /\ ~SendResponse(e)
    <3>1. UNCHANGED <<body, log>>
      BY <2>1, <2>4
         DEF Accept, Request, Build, BuildFails, CollectRequest,
             CollectRequestFails, SendRequestFails, Upstream, UpstreamResponds,
             UpstreamFails, Response, TransformResponse, TransformResponseFails,
             CollectResponse, CollectResponseFails, SendResponseFails, Cancel
    <3>2. /\ Coherent(e)'
          /\ \A g \in Exchanges \ {e} :
               /\ pc'[g] = pc[g] /\ shouldReport'[g] = shouldReport[g]
               /\ answer'[g] = answer[g] /\ contacted'[g] = contacted[g]
      BY <2>1, <2>4, <3>1, QuietStep DEF Request, Upstream, Response
    <3> QED
      BY <3>1, <3>2, Untouched
  <2> QED
    BY <2>2, <2>3, <2>4
<1>3. CASE \E e \in Exchanges : Report(e)
  <2>1. PICK e \in Exchanges : Report(e)
    BY <1>3
  <2>2. PICK d \in Directions : BodyChunk(e, d) \/ BodyError(e, d) \/ BodyEnd(e, d)
    BY <2>1 DEF Report
  <2>3. UNCHANGED <<pc, shouldReport, answer, contacted>>
    BY <2>2 DEF BodyChunk, BodyError, BodyEnd, BodyStep, Unanswered
  <2>4. Coherent(e)' /\ \A g \in Exchanges \ {e} : log'[g] = log[g]
                                                /\ body'[g] = body[g]
    BY <2>2, BodyStepCoherent DEF BodyChunk, BodyError, BodyEnd
  <2> QED
    BY <2>3, <2>4, Untouched
<1> QED
  BY <1>1, <1>2, <1>3 DEF Next

(* The invariant always holds.                                             *)
LEMMA Invariance == Spec => []Inv
<1>1. Init => \A e \in Exchanges : Coherent(e)
  <2> SUFFICES ASSUME Init, NEW e \in Exchanges PROVE Coherent(e)
    OBVIOUS
  <2>1. log[e] = <<>> /\ pc[e] = "idle" /\ answer[e] = "none" /\ ~contacted[e]
        /\ \A d \in Directions : body[e][d] = "none"
    BY DEF Init
  <2>2. Ordered(<<>>) /\ HeadsOnly(<<>>) /\ \A n : ~Has(<<>>, n)
    BY DEF Ordered, HeadsOnly, Has
  <2> QED
    BY <2>1, <2>2 DEF Coherent, BeforeRequest, BeforeAnswer
<1>2. TypeOK /\ (\A e \in Exchanges : Coherent(e)) /\ [Next]_vars
        => (\A e \in Exchanges : Coherent(e))'
  <2> SUFFICES ASSUME TypeOK, \A e \in Exchanges : Coherent(e), [Next]_vars
               PROVE  \A e \in Exchanges : Coherent(e)'
    OBVIOUS
  <2>1. CASE UNCHANGED vars
    BY <2>1, Untouched DEF vars
  <2> QED
    BY <2>1, StepCoherent
<1> QED
  BY <1>1, <1>2, TypeCorrect, PTL DEF Spec, Inv

-----------------------------------------------------------------------------
(* What a monitor that was there from the beginning of an exchange, or     *)
(* that came too late for it, is shown.                                    *)
Whole(e) ==
  /\ watched[e] => listening /\ shouldReport[e]
  /\ ~shouldReport[e] => log[e] = <<>>
  /\ watched[e] => \A d \in Directions :
       body[e][d] = "closed" <=> Has(log[e], Message(d, "BodyEnd"))

(* A step of which an exchange notices nothing.                            *)
LEMMA WholeUntouched ==
  ASSUME NEW e \in Exchanges, Whole(e), listening' = listening,
         watched'[e] = watched[e], shouldReport'[e] = shouldReport[e],
         body'[e] = body[e], log'[e] = log[e]
  PROVE  Whole(e)'
BY DEF Whole

(* Whether a monitor watches is settled when the exchange begins, before   *)
(* anything of it is published.                                            *)
LEMMA AcceptWhole ==
  ASSUME TypeOK, NEW e \in Exchanges, Coherent(e), Accept(e)
  PROVE  Whole(e)'
<1>1. log[e] = <<>> /\ log'[e] = <<>> /\ body'[e] = body[e]
  BY DEF Accept, Goto, Coherent, BeforeRequest
<1>2. \A n : ~Has(<<>>, n)
  BY DEF Has
<1>3. \A d \in Directions : body[e][d] = "none"
  BY <1>1, <1>2 DEF Coherent
<1>4. watched'[e] = listening /\ shouldReport'[e] = listening
      /\ listening' = listening
  BY DEF Accept, TypeOK
<1> QED
  BY <1>1, <1>2, <1>3, <1>4 DEF Whole

(* A head event ends no body, and finds that of its direction not begun.   *)
LEMMA HeadWhole ==
  ASSUME TypeOK, NEW e \in Exchanges, Coherent(e), Whole(e),
         SendRequest(e) \/ SendResponse(e)
  PROVE  Whole(e)'
<1>1. PICK d \in Directions, more \in {"none", "open"} :
        /\ Published(e, d, d)
        /\ body' = [body EXCEPT ![e][d] = more]
        /\ ~Has(log[e], Message(d, d))
  <2>1. CASE SendRequest(e)
    <3>1. pc[e] = "send_request"
      BY <2>1 DEF SendRequest, Goto
    <3>2. ~Has(log[e], request)
      BY <3>1 DEF Coherent, BeforeRequest, Has
    <3> QED
      BY <2>1, <3>2 DEF SendRequest, Directions, request
  <2>2. CASE SendResponse(e)
    <3>1. ~Has(log[e], response)
      BY <2>2 DEF SendResponse, Coherent, BeforeAnswer
    <3> QED
      BY <2>2, <3>1 DEF SendResponse, Directions, response
  <2> QED
    BY <2>1, <2>2
<1>2. /\ shouldReport[e]
      /\ UNCHANGED <<watched, listening, shouldReport>>
  BY DEF SendRequest, SendResponse, Goto, Coherent
<1>3. /\ log[e] \in Seq(Messages) /\ Message(d, d) \in Messages
      /\ log'[e] = Append(log[e], Message(d, d))
  <2>1. d \in Types
    BY DEF Directions, Types
  <2>2. log[e] \in Seq(Messages)
    BY DEF TypeOK, Messages, Types
  <2> QED
    BY <1>1, <2>1, <2>2, PublishedType, MessageType
<1>4. \A c \in Directions :
        Has(log'[e], Message(c, "BodyEnd")) <=> Has(log[e], Message(c, "BodyEnd"))
  BY <1>3, AppendHas DEF Message, Directions
<1>5. \A c \in Directions : body'[e][c] = "closed" <=> body[e][c] = "closed"
  <2>1. body[e][d] = "none"
    BY <1>1 DEF Coherent
  <2> QED
    BY <1>1, <2>1, SetBody DEF BodyStates
<1> QED
  BY <1>2, <1>4, <1>5 DEF Whole

(* The reporter of a body that is watched closes with a BodyEnd.           *)
LEMMA BodyStepWhole ==
  ASSUME TypeOK, NEW e \in Exchanges, Coherent(e), Whole(e), NEW d \in Directions,
         NEW from \in SUBSET {"open", "failed", "flushed"},
         NEW to \in {"open", "failed", "flushed", "closed"},
         NEW t \in {"BodyData", "BodyEnd", "Error"}, BodyStep(e, d, from, to, t),
         to = "closed" <=> t = "BodyEnd"
  PROVE  Whole(e)'
<1>1. UNCHANGED <<watched, listening, shouldReport>>
  BY DEF BodyStep
<1>2. shouldReport[e]
  <2>1. log[e] # <<>>
    BY DEF BodyStep, Coherent, Has
  <2> QED
    BY <2>1 DEF Whole
<1>3. CASE ~listening
  BY <1>1, <1>2, <1>3 DEF Whole
<1>4. CASE Published(e, d, t) /\ body' = [body EXCEPT ![e][d] = to]
  <2>1. /\ log[e] \in Seq(Messages) /\ Message(d, t) \in Messages
        /\ log'[e] = Append(log[e], Message(d, t))
    <3>1. t \in Types
      BY DEF Types
    <3>2. log[e] \in Seq(Messages)
      BY DEF TypeOK, Messages, Types
    <3> QED
      BY <1>4, <3>1, <3>2, PublishedType, MessageType
  <2>2. \A c \in Directions :
          Has(log'[e], Message(c, "BodyEnd"))
            <=> Has(log[e], Message(c, "BodyEnd")) \/ (c = d /\ t = "BodyEnd")
    BY <2>1, AppendHas DEF Message
  <2>3. body[e][d] # "closed"
    BY DEF BodyStep
  <2>4. \A c \in Directions :
          body'[e][c] = "closed"
            <=> body[e][c] = "closed" \/ (c = d /\ t = "BodyEnd")
    <3>1. /\ body'[e][d] = to
          /\ \A c \in Directions \ {d} : body'[e][c] = body[e][c]
      <4>1. to \in BodyStates
        BY DEF BodyStates
      <4> QED
        BY <1>4, <4>1, SetBody
    <3> QED
      BY <2>3, <3>1
  <2> QED
    BY <1>1, <1>2, <2>2, <2>4 DEF Whole
<1> QED
  BY <1>3, <1>4 DEF BodyStep

(* Every step keeps what is shown of every exchange whole.                 *)
LEMMA StepWhole ==
  ASSUME TypeOK, \A e \in Exchanges : Coherent(e) /\ Whole(e), Next
  PROVE  \A f \in Exchanges : Whole(f)'
<1> SUFFICES ASSUME NEW f \in Exchanges PROVE Whole(f)'
  OBVIOUS
<1>1. CASE Listen
  BY <1>1 DEF Listen, Whole
<1>2. CASE \E e \in Exchanges : Accept(e)
  <2>1. PICK e \in Exchanges : Accept(e)
    BY <1>2
  <2>2. CASE f # e
    BY <2>1, <2>2, WholeUntouched DEF Accept, TypeOK
  <2> QED
    BY <2>1, <2>2, AcceptWhole
<1>3. CASE \E e \in Exchanges : SendRequest(e) \/ SendResponse(e)
  <2>1. PICK e \in Exchanges : SendRequest(e) \/ SendResponse(e)
    BY <1>3
  <2>2. CASE f # e
    <3>1. log'[f] = log[f] /\ body'[f] = body[f]
      BY <2>1, <2>2, PublishedType, SetBody
         DEF SendRequest, SendResponse, Directions, Types, BodyStates
    <3> QED
      BY <2>1, <3>1, WholeUntouched DEF SendRequest, SendResponse
  <2> QED
    BY <2>1, <2>2, HeadWhole
<1>4. CASE \E e \in Exchanges : Report(e)
  <2>1. PICK e \in Exchanges, d \in Directions :
          BodyChunk(e, d) \/ BodyError(e, d) \/ BodyEnd(e, d)
    BY <1>4 DEF Report
  <2>2. Whole(e)'
    BY <2>1, BodyStepWhole DEF BodyChunk, BodyError, BodyEnd
  <2>3. \A g \in Exchanges \ {e} : log'[g] = log[g] /\ body'[g] = body[g]
    BY <2>1, BodyStepCoherent DEF BodyChunk, BodyError, BodyEnd
  <2>4. UNCHANGED <<watched, listening, shouldReport>>
    BY <2>1 DEF BodyChunk, BodyError, BodyEnd, BodyStep
  <2> QED
    BY <2>2, <2>3, <2>4, WholeUntouched
<1>5. CASE UNCHANGED <<watched, listening, shouldReport, body, log>>
  BY <1>5, WholeUntouched
<1> QED
  BY <1>1, <1>2, <1>3, <1>4, <1>5
     DEF Next, Request, Build, BuildFails, CollectRequest,
         CollectRequestFails, SendRequestFails, Upstream, UpstreamResponds,
         UpstreamFails, Response, TransformResponse, TransformResponseFails,
         CollectResponse, CollectResponseFails, SendResponseFails, Cancel

-----------------------------------------------------------------------------
(* However exchanges, reporter tasks and monitors interleave, the Request  *)
(* event of an exchange comes first, each head event once, and the events  *)
(* of a response body after the Response event (track_request and          *)
(* track_response publish before tracked_body spawns the reporter).        *)
THEOREM HeadFirstHolds == Spec => []HeadFirst
<1>1. Inv => HeadFirst
  BY DEF Inv, Coherent, HeadFirst, Ordered, request, response
<1> QED
  BY <1>1, Invariance, PTL

(* A reported exchange is not handed to the upstream client before its     *)
(* Request event is out.                                                   *)
THEOREM SeenBeforeSentHolds == Spec => []SeenBeforeSent
<1>1. Inv => SeenBeforeSent
  BY DEF Inv, Coherent, SeenBeforeSent, Has, Shown, request, Message
<1> QED
  BY <1>1, Invariance, PTL

(* Monitor and client agree on whether the upstream's response was         *)
(* relayed: the client never gets a made-up answer after the Response      *)
(* event, nor a reported response without one.                             *)
THEOREM MonitorAgreesHolds == Spec => []MonitorAgrees
<1>1. Inv => MonitorAgrees
  <2> SUFFICES ASSUME Inv, NEW e \in Exchanges
               PROVE  Shown(e, "Response") <=> Has(log[e], response)
    BY DEF Inv, Coherent, MonitorAgrees
  <2>1. HeadsOnly(log[e]) /\ log[e] \in Seq(Messages)
    BY DEF Inv, Coherent, TypeOK, Messages, Types
  <2>2. ASSUME NEW i \in 1..Len(log[e])
        PROVE  log[e][i].type = "Response" <=> log[e][i] = response
    <3>1. log[e][i] \in Messages
      BY <2>1
    <3> QED
      BY <2>1, <3>1 DEF HeadsOnly, response, Message, Messages
  <2> QED
    BY <2>2 DEF Shown, Has
<1> QED
  BY <1>1, Invariance, PTL

(* should_report is read once, and the reporter's loop goes on after an    *)
(* error: a monitor that came too late is shown nothing of the exchange,   *)
(* one that watched it is shown the end of every body whose reporter is    *)
(* done, and of no other.                                                  *)
THEOREM SeenWholeHolds == Spec => []SeenWhole
<1>1. Init => \A e \in Exchanges : Whole(e)
  BY DEF Init, Whole
<1>2. Inv /\ (\A e \in Exchanges : Whole(e)) /\ [Next]_vars
        => (\A e \in Exchanges : Whole(e))'
  <2> SUFFICES ASSUME Inv, \A e \in Exchanges : Whole(e), [Next]_vars
               PROVE  \A e \in Exchanges : Whole(e)'
    OBVIOUS
  <2>1. CASE UNCHANGED vars
    BY <2>1, WholeUntouched DEF vars
  <2> QED
    BY <2>1, StepWhole DEF Inv
<1>3. (\A e \in Exchanges : Whole(e)) => SeenWhole
  BY DEF Whole, SeenWhole, Has
<1> QED
  BY <1>1, <1>2, <1>3, Invariance, PTL DEF Spec
=============================================================================
