---------------------------- MODULE BodyPipeline ----------------------------
(***************************************************************************)
(* One direction (request or response) of one tracked HTTP body: from the  *)
(* hyper body the proxy receives, through the prefetch that feeds the      *)
(* Request/Response event, to the stream the peer reads, with the reporter *)
(* task that copies the rest of the body to the event broadcast.           *)
(*                                                                         *)
(*   src/src/proxy/body.rs       collect_ready_data, PrefetchedParts,      *)
(*                               BodyStreamWrapper                         *)
(*   src/src/proxy/reporting.rs  BufferedDataCollector,                    *)
(*                               BufferedDataReporter                      *)
(*   src/src/proxy/exchange.rs   track_request / track_response,           *)
(*                               tracked_body                              *)
(*                                                                         *)
(* Three actors interleave: the handler and then the connection task that  *)
(* polls the forwarded body, the spawned reporter task, and the monitors   *)
(* that subscribe to and leave the broadcast at any time.                  *)
(*                                                                         *)
(* A byte is named by its position in the body (1, 2, ...), so a payload   *)
(* is the sequence of positions it carries: losing, repeating or           *)
(* reordering a byte shows.                                                *)
(***************************************************************************)
EXTENDS Naturals, Sequences

CONSTANTS
  FrameSizes,  (* sizes a data frame can have                              *)
  MaxBytes,    (* bound on the data bytes of a body                        *)
  ReadyCap,    (* ready_chunks(32): frames one prefetch may take           *)
  ChannelCap   (* MPSC_BUFFER_SIZE: capacity of the collector's channel    *)

ASSUME ConstantsAssumption ==
  /\ FrameSizes \subseteq Nat \ {0}
  /\ MaxBytes \in Nat
  /\ ReadyCap \in Nat \ {0}
  /\ ChannelCap \in Nat \ {0}

VARIABLES
  (* The body as the peer sends it.                                        *)
  source,     (* "open", "trailed" (trailers sent), "closed" (EOF or error)*)
  read,       (* data bytes the source has yielded                         *)
  yielded,    (* history: the frames and errors it has yielded             *)
  (* Peekable<BodyStream>: the item peeked at and the Fuse's done flag.    *)
  peeked,
  fused,
  (* The handler, then the task that polls the forwarded body.             *)
  pc,         (* where it is                                               *)
  failure,    (* why the tracked body was not built                        *)
  frames,     (* PrefetchedParts.frames not yet forwarded                  *)
  content,    (* BodyContent.data of the prefetch                          *)
  rest,       (* PrefetchedParts.rest is Some                              *)
  (* BodyStreamWrapper: WrapperPollState and reporter.                     *)
  held,       (* poll_result waiting for the reporting call                *)
  dispatch,   (* how far dispatch_future has got                           *)
  collector,  (* reporter is Some                                          *)
  delivered,  (* history: what the reader of the body has received         *)
  (* Shared by collector and reporter task.                                *)
  buffer,     (* body_buffer                                               *)
  channel,    (* the mpsc channel                                          *)
  (* BufferedDataReporter.                                                 *)
  reporter,   (* "none", "running", "ok", "err"                            *)
  pending,    (* data_pending: the flush timer is armed                    *)
  trailers,   (* trailers received and not yet reported                    *)
  total,      (* total_bytes                                               *)
  (* The broadcast.                                                        *)
  listening,  (* the broadcast has a receiver                              *)
  log         (* history: events of this direction that were published     *)

sourceVars  == <<source, read, yielded, peeked, fused>>
handlerVars == <<pc, failure, frames, content, rest>>
wrapperVars == <<held, dispatch, collector, delivered>>
sharedVars  == <<buffer, channel>>
taskVars    == <<reporter, pending, trailers, total>>
vars == <<sourceVars, handlerVars, wrapperVars, sharedVars, taskVars,
          listening, log>>

-----------------------------------------------------------------------------
(* Items of a BodyStream: data frames, trailer frames, errors and the end. *)

ItemTypes == {"data", "trailers", "error", "eof", "none"}
Item == [type : ItemTypes, bytes : Seq(Nat)]

Mark(t) == [type |-> t, bytes |-> <<>>]
NoItem  == Mark("none")
Eof     == Mark("eof")

(* The frame of n bytes that continues the body.                           *)
DataFrame(n) == [type |-> "data", bytes |-> [i \in 1..n |-> read + i]]

(* What the source can answer to a poll that does not return Pending.      *)
Available ==
  CASE source = "open" ->
         {DataFrame(n) : n \in {m \in FrameSizes : read + m <= MaxBytes}}
           \cup {Mark("trailers"), Mark("error"), Eof}
    [] source = "trailed" -> {Mark("error"), Eof}
    [] source = "closed"  -> {Eof}

(* The source answers with item.                                           *)
Yield(item) ==
  /\ item \in Available
  /\ source' = CASE item.type = "data"     -> "open"
                 [] item.type = "trailers" -> "trailed"
                 [] OTHER                  -> "closed"
  /\ read' = read + Len(item.bytes)
  /\ yielded' = IF item = Eof THEN yielded ELSE Append(yielded, item)

(* Peekable::poll_next: the peeked item first, then the fused source.      *)
PollRest(item) ==
  IF peeked # NoItem
  THEN /\ item = peeked
       /\ peeked' = NoItem
       /\ UNCHANGED <<source, read, yielded, fused>>
  ELSE /\ Yield(item)
       /\ fused' = (fused \/ item = Eof)
       /\ UNCHANGED peeked

-----------------------------------------------------------------------------
(* Events on the broadcast. InitialBody is the body of the Request or      *)
(* Response event; an absent content is an empty payload.                  *)

Event == [type : {"NoBody", "NotRead", "Data", "BodyData", "Error"},
          offset : Nat, payload : Seq(Nat), trailers : BOOLEAN,
          at_end : BOOLEAN, total : Nat]

(* Fault: a body of which a part was read counts as complete.              *)
HeadEventAtEnd(found, hasTrailers) ==
  [type     |-> CASE found = "NoBody"   -> "NoBody"
                  [] found = "NoneRead" -> "NotRead"
                  [] OTHER              -> "Data",
   offset   |-> 0,
   payload  |-> content,
   trailers |-> hasTrailers,
   at_end   |-> found \in {"Partial", "Complete"},
   total    |-> Len(content)]

HeadEvent(found, hasTrailers) ==
  [type     |-> CASE found = "NoBody"   -> "NoBody"
                  [] found = "NoneRead" -> "NotRead"
                  [] OTHER              -> "Data",
   offset   |-> 0,
   payload  |-> content,
   trailers |-> hasTrailers,
   at_end   |-> found = "Complete",
   total    |-> Len(content)]

(* Fault: the offset is counted back from a total not yet advanced.        *)
BodyDataEventBadOffset(at_end) ==
  [type |-> "BodyData", offset |-> total - Len(buffer), payload |-> buffer,
   trailers |-> trailers, at_end |-> at_end, total |-> total]

(* Fault: the final event says the end and leaves the buffer's bytes out.  *)
BodyDataEventEmptyEnd(at_end) ==
  [type     |-> "BodyData",
   offset   |-> total,
   payload  |-> IF at_end THEN <<>> ELSE buffer,
   trailers |-> trailers,
   at_end   |-> at_end,
   total    |-> IF at_end THEN total ELSE total + Len(buffer)]

BodyDataEvent(at_end) ==
  [type     |-> "BodyData",
   offset   |-> total,
   payload  |-> buffer,
   trailers |-> trailers,
   at_end   |-> at_end,
   total    |-> total + Len(buffer)]

ErrorEvent ==
  [type |-> "Error", offset |-> 0, payload |-> <<>>, trailers |-> FALSE,
   at_end |-> FALSE, total |-> 0]

-----------------------------------------------------------------------------
Init ==
  /\ source = "open" /\ read = 0 /\ yielded = <<>>
  /\ peeked = NoItem /\ fused = FALSE
  /\ pc = "collect" /\ failure = "none"
  /\ frames = <<>> /\ content = <<>> /\ rest = TRUE
  /\ held = NoItem /\ dispatch = "idle" /\ collector = FALSE
  /\ delivered = <<>>
  /\ buffer = <<>> /\ channel = <<>>
  /\ reporter = "none" /\ pending = FALSE /\ trailers = FALSE /\ total = 0
  /\ listening = TRUE     \* should_report was true when the exchange began
  /\ log = <<>>

-----------------------------------------------------------------------------
(* collect_ready_data                                                      *)

(* is_end_stream(): the body is known to be empty without polling it.      *)
EmptyBody ==
  /\ pc = "collect" /\ frames = <<>> /\ source = "open"
  /\ source' = "closed" /\ fused' = TRUE
  /\ rest' = FALSE
  /\ pc' = "NoBody"
  /\ UNCHANGED <<read, yielded, peeked, failure, frames, content>>
  /\ UNCHANGED <<wrapperVars, sharedVars, taskVars, listening, log>>

(* ready_chunks: one more item is ready. The chunk ends when it is full;   *)
(* copy_from_frames copies the bytes of its data frames.                   *)
CollectItem ==
  /\ pc = "collect"
  /\ \E item \in Available \ {Eof} :
       /\ PollRest(item)
       /\ frames' = Append(frames, item)
       /\ content' = content \o item.bytes
  /\ pc' = IF Len(frames') = ReadyCap THEN "peek" ELSE "collect"
  /\ UNCHANGED <<failure, rest>>
  /\ UNCHANGED <<wrapperVars, sharedVars, taskVars, listening, log>>

(* ready_chunks: the source ends. With an empty chunk next() is None.      *)
CollectEnd ==
  /\ pc = "collect"
  /\ PollRest(Eof)
  /\ pc' = "peek"
  /\ UNCHANGED <<failure, frames, content, rest>>
  /\ UNCHANGED <<wrapperVars, sharedVars, taskVars, listening, log>>

(* The source is Pending: a chunk with items is returned at once, an empty *)
(* one when PEEK_DURATION has passed.                                      *)
CollectStop ==
  /\ pc = "collect"
  /\ pc' = "peek"
  /\ UNCHANGED <<failure, frames, content, rest>>
  /\ UNCHANGED <<sourceVars, wrapperVars, sharedVars, taskVars, listening, log>>

(* Fault: asks BodyStream's is_end_stream(), which is always false.        *)
NeverTerminated == FALSE

(* rest.is_terminated(), after the peek.                                   *)
Terminated == fused' /\ peeked' = NoItem

HasError(s) == \E i \in 1..Len(s) : s[i].type = "error"

(* The zero-timeout peek at the rest, and the match on what was found. An  *)
(* empty chunk is a timeout (Err) unless the source had already ended.     *)
Peek ==
  /\ pc = "peek"
  /\ \/ UNCHANGED sourceVars                                   \* Pending
     \/ \E item \in Available :
          /\ Yield(item)
          /\ peeked' = IF item = Eof THEN NoItem ELSE item
          /\ fused' = (fused \/ item = Eof)
  /\ LET found == CASE frames # <<>> -> "frames"
                    [] frames = <<>> /\ fused -> "none"
                    [] OTHER -> "timeout"
     IN \/ /\ found \in {"none", "timeout"} /\ Terminated
           /\ pc' = "NoBody" /\ rest' = FALSE
           /\ UNCHANGED failure
        \/ /\ found = "timeout" /\ ~Terminated
           /\ pc' = "NoneRead"
           /\ UNCHANGED <<rest, failure>>
        \/ /\ found = "none" /\ ~Terminated
           /\ pc' = "failed" /\ failure' = "invalid_state"
           /\ UNCHANGED rest
        \/ /\ found = "frames" /\ HasError(frames)
           /\ pc' = "failed" /\ failure' = "body_error"
           /\ UNCHANGED rest
        \/ /\ found = "frames" /\ ~HasError(frames)
           /\ pc' = IF Terminated THEN "Complete" ELSE "Partial"
           /\ rest' = ~Terminated
           /\ UNCHANGED failure
  /\ UNCHANGED <<frames, content>>
  /\ UNCHANGED <<wrapperVars, sharedVars, taskVars, listening, log>>

-----------------------------------------------------------------------------
(* PrefetchedParts::data_bytes, the prev_bytes of create_buffered.          *)
PrevBytesIgnored == 0
PrevBytes == Len(content)

(* track_request / track_response: publish the head event, then build the  *)
(* tracked body. No receiver left on the broadcast is an error (`?`) and   *)
(* the body is dropped. With a rest to read, the reporter task is spawned  *)
(* and the rest is wrapped (tracked_body, assemble, create_buffered).      *)

Found == {"NoBody", "NoneRead", "Partial", "Complete"}

Track ==
  /\ pc \in Found
  /\ IF listening
     THEN /\ log' = Append(log, HeadEvent(pc,
                      \E i \in 1..Len(frames) : frames[i].type = "trailers"))
          /\ pc' = "forward"
          /\ reporter' = IF rest THEN "running" ELSE "none"
          /\ collector' = rest
          /\ total' = PrevBytes
          /\ UNCHANGED failure
     ELSE /\ pc' = "failed" /\ failure' = "no_listener"
          /\ UNCHANGED <<log, reporter, collector, total>>
  /\ UNCHANGED <<frames, content, rest, held, dispatch, delivered, pending,
                 trailers>>
  /\ UNCHANGED <<sourceVars, sharedVars, listening>>

-----------------------------------------------------------------------------
(* The body as its reader polls it: frame_stream(frames), then the wrapped *)
(* rest (BodyStreamWrapper::poll_next).                                    *)

ForwardPrefetched ==
  /\ pc = "forward" /\ frames # <<>>
  /\ delivered' = Append(delivered, Head(frames))
  /\ frames' = Tail(frames)
  /\ UNCHANGED <<pc, failure, content, rest, held, dispatch, collector>>
  /\ UNCHANGED <<sourceVars, sharedVars, taskVars, listening, log>>

(* The prefetched frames were the whole body.                              *)
ForwardEnd ==
  /\ pc = "forward" /\ frames = <<>> /\ ~rest
  /\ pc' = "done"
  /\ UNCHANGED <<failure, frames, content, rest>>
  /\ UNCHANGED <<sourceVars, wrapperVars, sharedVars, taskVars, listening, log>>

(* poll_next returns item: the reader has it, or knows that the body ended *)
(* and drops the wrapper.                                                  *)
Return(item) ==
  /\ held' = NoItem /\ dispatch' = "idle"
  /\ delivered' = IF item = Eof THEN delivered ELSE Append(delivered, item)
  /\ pc' = IF item = Eof THEN "done" ELSE pc

(* state is None: poll the source, then start the reporting call if there  *)
(* still is a reporter.                                                    *)
PollSource ==
  /\ pc = "forward" /\ frames = <<>> /\ rest /\ held = NoItem
  /\ \E item \in Available \cup ({peeked} \ {NoItem}) :
       /\ PollRest(item)
       /\ IF collector
          THEN /\ held' = item /\ dispatch' = "started"
               /\ UNCHANGED <<delivered, pc>>
          ELSE Return(item)
  /\ UNCHANGED <<failure, frames, content, rest, collector>>
  /\ UNCHANGED <<sharedVars, taskVars, listening, log>>

(* dispatch: the bytes of a data frame go to the shared buffer, under its  *)
(* mutex, before the Data event is sent.                                   *)
DispatchExtend ==
  /\ dispatch = "started"
  /\ buffer' = buffer \o held.bytes
  /\ dispatch' = "sending"
  /\ UNCHANGED <<held, collector, delivered, channel>>
  /\ UNCHANGED <<sourceVars, handlerVars, taskVars, listening, log>>

(* sender.send(event).await: the channel has room.                         *)
DispatchSend ==
  /\ dispatch \in {"sending", "blocked"}
  /\ reporter = "running" /\ Len(channel) < ChannelCap
  /\ channel' = Append(channel, held.type)
  /\ Return(held)
  /\ UNCHANGED <<failure, frames, content, rest, collector, buffer>>
  /\ UNCHANGED <<sourceVars, taskVars, listening, log>>

(* The channel is full: poll_next returns Pending with the state kept.     *)
DispatchBlock ==
  /\ dispatch = "sending"
  /\ reporter = "running" /\ Len(channel) = ChannelCap
  /\ dispatch' = "blocked"
  /\ UNCHANGED <<held, collector, delivered>>
  /\ UNCHANGED <<sourceVars, handlerVars, sharedVars, taskVars, listening, log>>

(* Fault: the reporting error is returned in place of the item.            *)
DispatchFailLosesItem ==
  /\ dispatch \in {"sending", "blocked"}
  /\ reporter \in {"ok", "err"}
  /\ collector' = FALSE
  /\ held' = NoItem /\ dispatch' = "idle"
  /\ UNCHANGED <<delivered, pc, failure, frames, content, rest>>
  /\ UNCHANGED <<sourceVars, sharedVars, taskVars, listening, log>>

(* Fault: a reporter that died of a publication error keeps its receiver.  *)
DispatchFailUnnoticed ==
  /\ dispatch \in {"sending", "blocked"}
  /\ reporter = "ok"
  /\ collector' = FALSE
  /\ Return(held)
  /\ UNCHANGED <<failure, frames, content, rest>>
  /\ UNCHANGED <<sourceVars, sharedVars, taskVars, listening, log>>

(* The reporter task is gone and with it the receiver: the error is        *)
(* logged, the reporter is taken away and the item is returned regardless. *)
DispatchFail ==
  /\ dispatch \in {"sending", "blocked"}
  /\ reporter \in {"ok", "err"}
  /\ collector' = FALSE
  /\ Return(held)
  /\ UNCHANGED <<failure, frames, content, rest>>
  /\ UNCHANGED <<sourceVars, sharedVars, taskVars, listening, log>>

(* The reader drops the body before its end (its peer went away, or it     *)
(* needs no more), only between polls; or the client's connection closes   *)
(* and the handler is dropped while it collects.                           *)
Drop ==
  /\ pc \in {"collect", "forward"} /\ (held = NoItem \/ dispatch = "blocked")
  /\ pc' = "dropped"
  /\ held' = NoItem /\ dispatch' = "idle"
  /\ UNCHANGED <<failure, frames, content, rest, collector, delivered>>
  /\ UNCHANGED <<sourceVars, sharedVars, taskVars, listening, log>>

-----------------------------------------------------------------------------
(* BufferedDataReporter::run. Every publication can find no receiver; `?`  *)
(* then ends the task.                                                     *)

SenderAlive == pc = "forward" /\ collector

Receive(type) ==
  /\ reporter = "running"
  /\ channel # <<>> /\ Head(channel) = type
  /\ channel' = Tail(channel)

(* send_data: take_content empties the buffer and advances total_bytes,    *)
(* build_body_data takes the trailers, then the event is published.        *)
SendData(at_end, next) ==
  /\ buffer' = <<>>
  /\ total' = total + Len(buffer)
  /\ trailers' = FALSE
  /\ IF listening
     THEN log' = Append(log, BodyDataEvent(at_end)) /\ reporter' = next
     ELSE log' = log /\ reporter' = "err"

(* Fault: data does not arm the flush timer.                               *)
RecvDataUnarmed ==
  /\ Receive("data")
  /\ UNCHANGED <<buffer, reporter, pending, trailers, total>>
  /\ UNCHANGED <<sourceVars, handlerVars, wrapperVars, listening, log>>

RecvData ==
  /\ Receive("data")
  /\ pending' = TRUE
  /\ UNCHANGED <<buffer, reporter, trailers, total>>
  /\ UNCHANGED <<sourceVars, handlerVars, wrapperVars, listening, log>>

(* Fault: trailers are dropped.                                            *)
RecvTrailersIgnored ==
  /\ Receive("trailers")
  /\ UNCHANGED <<buffer, reporter, pending, trailers, total>>
  /\ UNCHANGED <<sourceVars, handlerVars, wrapperVars, listening, log>>

RecvTrailers ==
  /\ Receive("trailers")
  /\ trailers' = TRUE
  /\ UNCHANGED <<buffer, reporter, pending, total>>
  /\ UNCHANGED <<sourceVars, handlerVars, wrapperVars, listening, log>>

RecvError ==
  /\ Receive("error")
  /\ IF listening
     THEN log' = Append(log, ErrorEvent) /\ UNCHANGED reporter
     ELSE reporter' = "err" /\ UNCHANGED log
  /\ UNCHANGED <<buffer, pending, trailers, total>>
  /\ UNCHANGED <<sourceVars, handlerVars, wrapperVars, listening>>

(* Fault: the loop goes on after the explicit EOF.                         *)
RecvEofGoesOn ==
  /\ Receive("eof")
  /\ SendData(TRUE, "running")
  /\ UNCHANGED pending
  /\ UNCHANGED <<sourceVars, handlerVars, wrapperVars, listening>>

(* Explicit EOF.                                                           *)
RecvEof ==
  /\ Receive("eof")
  /\ SendData(TRUE, "ok")
  /\ UNCHANGED pending
  /\ UNCHANGED <<sourceVars, handlerVars, wrapperVars, listening>>

(* Fault: a closed channel is only noticed when data is waiting.           *)
RecvClosedIfPending ==
  /\ reporter = "running" /\ channel = <<>> /\ ~SenderAlive /\ pending
  /\ SendData(TRUE, "ok")
  /\ UNCHANGED <<channel, pending>>
  /\ UNCHANGED <<sourceVars, handlerVars, wrapperVars, listening>>

(* Channel closed, implicit EOF.                                           *)
RecvClosed ==
  /\ reporter = "running" /\ channel = <<>> /\ ~SenderAlive
  /\ SendData(TRUE, "ok")
  /\ UNCHANGED <<channel, pending>>
  /\ UNCHANGED <<sourceVars, handlerVars, wrapperVars, listening>>

(* The flush timer fires.                                                  *)
Flush ==
  /\ reporter = "running" /\ pending
  /\ SendData(FALSE, "running")
  /\ pending' = ~listening     \* `?` leaves it set
  /\ UNCHANGED channel
  /\ UNCHANGED <<sourceVars, handlerVars, wrapperVars, listening>>

-----------------------------------------------------------------------------
(* Monitors come and go; `listening` is receiver_count() > 0.              *)
Listen ==
  /\ listening' = ~listening
  /\ UNCHANGED <<sourceVars, handlerVars, wrapperVars, sharedVars, taskVars,
                 log>>

Collect == EmptyBody \/ CollectItem \/ CollectEnd \/ CollectStop \/ Peek
Forward == ForwardPrefetched \/ ForwardEnd \/ PollSource
Dispatch == DispatchExtend \/ DispatchSend \/ DispatchBlock \/ DispatchFail
Run == RecvData \/ RecvTrailers \/ RecvError \/ RecvEof \/ RecvClosed \/ Flush

Next == Collect \/ Track \/ Forward \/ Dispatch \/ Drop \/ Run \/ Listen

Spec == Init /\ [][Next]_vars

(* tokio polls a future that has been woken, hyper polls a body it holds,  *)
(* and select! picks among its ready branches at random, so no ready       *)
(* branch of the reporter is passed over for ever. Nothing obliges the     *)
(* source to yield, the reader to go on, or a monitor to stay.             *)
Fairness ==
  /\ WF_vars(DispatchExtend) /\ WF_vars(DispatchSend) /\ WF_vars(DispatchFail)
  /\ WF_vars(RecvData) /\ WF_vars(RecvTrailers) /\ WF_vars(RecvError)
  /\ WF_vars(RecvEof) /\ WF_vars(RecvClosed) /\ WF_vars(Flush)

FairSpec == Spec /\ Fairness

-----------------------------------------------------------------------------
(* Properties.                                                             *)

TypeOK ==
  /\ source \in {"open", "trailed", "closed"}
  /\ read \in Nat
  /\ yielded \in Seq(Item)
  /\ peeked \in Item
  /\ fused \in BOOLEAN
  /\ pc \in Found \cup {"collect", "peek", "forward", "done", "dropped", "failed"}
  /\ failure \in {"none", "invalid_state", "body_error", "no_listener"}
  /\ frames \in Seq(Item)
  /\ content \in Seq(Nat)
  /\ rest \in BOOLEAN
  /\ held \in Item
  /\ dispatch \in {"idle", "started", "sending", "blocked"}
  /\ collector \in BOOLEAN
  /\ delivered \in Seq(Item)
  /\ buffer \in Seq(Nat)
  /\ channel \in Seq(ItemTypes)
  /\ reporter \in {"none", "running", "ok", "err"}
  /\ pending \in BOOLEAN
  /\ trailers \in BOOLEAN
  /\ total \in Nat
  /\ listening \in BOOLEAN
  /\ log \in Seq(Event)

(* Whatever happens to the reporting (monitors leaving, the reporter task  *)
(* dying, the channel filling up), the reader receives exactly the frames  *)
(* the source yielded, in their order, and all of them when it is told     *)
(* that the body is over (BodyStreamWrapper::poll_next, assemble).         *)
Transparent ==
  /\ Len(delivered) <= Len(yielded)
  /\ \A i \in 1..Len(delivered) : delivered[i] = yielded[i]
  /\ pc = "done" => Len(delivered) = Len(yielded)

IsData(e) == e.type # "Error"

(* The published contents tile the body: each starts where the one before  *)
(* it ended, carries the bytes its offset says, and total_bytes is where   *)
(* it ends (take_content, BodyData::from_content), although the buffer is  *)
(* filled by one task and emptied by another.                              *)
ReportsTile ==
  \A j \in {k \in 1..Len(log) : IsData(log[k])} :
    LET e == log[j]
    IN /\ e.total = e.offset + Len(e.payload)
       /\ \A k \in 1..Len(e.payload) : e.payload[k] = e.offset + k
       /\ \A i \in 1..(j - 1) :
            IsData(log[i]) /\ (\A k \in (i + 1)..(j - 1) : ~IsData(log[k]))
              => log[i].total = e.offset

EndShown == \E i \in 1..Len(log) : log[i].at_end

(* A reader that saw the whole body and a monitor that saw its end agree   *)
(* on its length: at_end is never published while bytes of the body are    *)
(* still in the buffer or in a frame about to be dispatched.               *)
EndCoversBody ==
  pc = "done" =>
    \A i \in 1..Len(log) : log[i].at_end => log[i].total = read

(* Nothing of this direction is published after at_end: run() returns.     *)
EndIsFinal == [][EndShown => UNCHANGED log]_vars

(* By the time a monitor sees the end, it has seen the error or the        *)
(* trailers the reader received: they cannot be overtaken by the end or    *)
(* lost between the channel and the flush.                                 *)
NothingHidden ==
  EndShown =>
    /\ HasError(delivered) => \E i \in 1..Len(log) : log[i].type = "Error"
    /\ (\E i \in 1..Len(delivered) : delivered[i].type = "trailers")
         => \E i \in 1..Len(log) : log[i].trailers

(* collect_ready_data never meets the state it reports as "invalid         *)
(* collect_ready_data state, end of frames but not terminated".            *)
NoInvalidState == failure # "invalid_state"

(* Back-pressure from the reporting channel never holds a frame for ever:  *)
(* either the reporter makes room, or it is gone and the send fails.       *)
ForwardProgress == (held # NoItem) ~> (held = NoItem)

(* The reporter task ends once the body does, so that tasks do not pile up *)
(* in Service.tasks (implicit or explicit EOF).                            *)
ReporterEnds == (pc \in {"done", "dropped"}) ~> (reporter # "running")

(* Bytes put in the shared buffer are flushed while the body goes on, even *)
(* if nothing more ever arrives: the flush timer is armed for them.        *)
DataFlushed ==
  (reporter = "running" /\ buffer # <<>>)
    ~> (reporter # "running" \/ buffer = <<>>)

(* The pipeline keeps the promise of MonitoredBody: the tail of a body, an *)
(* abandoned body and a failed exchange all count as ended.                *)
Shown ==
  LET data == {i \in 1..Len(log) : IsData(log[i])}
  IN IF data = {} THEN 0
     ELSE log[CHOOSE i \in data : \A j \in data : j <= i].total

Body == INSTANCE MonitoredBody WITH
  sent     <- yielded,
  bytes    <- read,
  received <- delivered,
  ended    <- ~rest \/ pc \in {"done", "dropped", "failed"},
  shown    <- Shown,
  closed   <- EndShown

KeepsPromise == Body!Promise
=============================================================================
