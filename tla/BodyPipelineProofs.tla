------------------------- MODULE BodyPipelineProofs -------------------------
(***************************************************************************)
(* Proofs about BodyPipeline for every set of frame sizes, body length and *)
(* capacity, in three parts.                                               *)
(*                                                                         *)
(*   Forwarding: type correctness and the transparency of the forwarding.  *)
(*   Reporting:  the published contents tile the body, the end is          *)
(*               published once, last and for the whole body, and nothing  *)
(*               the reader received stays hidden from a monitor that has  *)
(*               seen the end.                                             *)
(*   Refinement: BodyPipeline implements MonitoredBody: every step of the  *)
(*               handler, the reader, the reporter task and the monitors   *)
(*               hands an item on, ends the body, shows monitors more of   *)
(*               it, or does nothing that the promise speaks of.           *)
(***************************************************************************)
EXTENDS BodyPipeline, TLAPS

-----------------------------------------------------------------------------
(* Forwarding                                                              *)

(* The empty sequence is a sequence of anything.                           *)
LEMMA EmptySeq ==
  ASSUME NEW S PROVE <<>> \in Seq(S) /\ Len(<<>>) = 0
  OBVIOUS

(* Appending keeps a sequence one and makes it longer by one.              *)
LEMMA AppendSeq ==
  ASSUME NEW S, NEW s \in Seq(S), NEW x \in S
  PROVE  Append(s, x) \in Seq(S) /\ Len(Append(s, x)) = Len(s) + 1
  OBVIOUS

(* The items that carry no bytes, the "no item" mark among them, are items.*)
LEMMA MarkItem ==
  ASSUME NEW t \in ItemTypes
  PROVE  Mark(t) \in Item /\ Mark(t).type = t /\ Len(Mark(t).bytes) = 0
  <1>1. <<>> \in Seq(Nat) /\ Len(<<>>) = 0
    BY EmptySeq
  <1> QED
    BY <1>1 DEF Mark, Item

(* "No item" is such a mark.                                               *)
LEMMA NoItemType == NoItem \in Item /\ NoItem.type = "none"
  BY MarkItem DEF NoItem, ItemTypes

(* The end of the body is one, too.                                        *)
LEMMA EofType == Eof \in Item /\ Eof.type = "eof" /\ Len(Eof.bytes) = 0
  BY MarkItem DEF Eof, ItemTypes

(* The events the pipeline publishes are events.                           *)
LEMMA HeadEventType ==
  ASSUME TypeOK, NEW found \in Found, NEW hasTrailers \in BOOLEAN
  PROVE  HeadEvent(found, hasTrailers) \in Event
  <1> DEFINE end == found = "Complete"
             kind == CASE found = "NoBody"   -> "NoBody"
                       [] found = "NoneRead" -> "NotRead"
                       [] OTHER              -> "Data"
  <1>1. end \in BOOLEAN
    OBVIOUS
  <1>2. kind \in {"NoBody", "NotRead", "Data", "BodyData", "Error"}
    BY DEF Found
  <1>3. content \in Seq(Nat) /\ Len(content) \in Nat
    BY DEF TypeOK
  <1>4. HeadEvent(found, hasTrailers)
          = [type |-> kind, offset |-> 0, payload |-> content,
             trailers |-> hasTrailers, at_end |-> end, total |-> Len(content)]
    BY DEF HeadEvent
  <1> HIDE DEF end, kind
  <1> QED
    BY <1>1, <1>2, <1>3, <1>4 DEF Event

(* A content event made from the reporter's buffer is an event.            *)
LEMMA BodyDataEventType ==
  ASSUME TypeOK, NEW at_end \in BOOLEAN
  PROVE  BodyDataEvent(at_end) \in Event
  <1>1. /\ buffer \in Seq(Nat) /\ Len(buffer) \in Nat /\ total \in Nat
        /\ trailers \in BOOLEAN
    BY DEF TypeOK
  <1>2. total + Len(buffer) \in Nat
    BY <1>1
  <1> QED
    BY <1>1, <1>2 DEF BodyDataEvent, Event

(* So is the error event.                                                  *)
LEMMA ErrorEventType == ErrorEvent \in Event
  BY EmptySeq DEF ErrorEvent, Event

(* What the source yields is an item, and never the "no item" mark: a data *)
(* frame carries its positions, the other items carry no bytes.            *)
LEMMA AvailableItems ==
  ASSUME TypeOK, NEW item \in Available
  PROVE  /\ item \in Item
         /\ item # NoItem
         /\ item.type \in {"data", "trailers", "error", "eof"}
         /\ item.type = "eof" => item = Eof
  <1>1. CASE \E n \in FrameSizes : item = DataFrame(n)
    <2>1. PICK n \in FrameSizes : item = DataFrame(n)
      BY <1>1
    <2>2. n \in Nat
      BY ConstantsAssumption
    <2>3. [i \in 1..n |-> read + i] \in Seq(Nat)
      BY <2>2 DEF TypeOK
    <2> QED
      BY <2>1, <2>3 DEF DataFrame, Item, ItemTypes, NoItem, Mark, Eof
  <1>2. CASE item \in {Mark("trailers"), Mark("error"), Eof}
    BY <1>2, MarkItem, NoItemType, EofType DEF ItemTypes, Eof
  <1> QED
    BY <1>1, <1>2 DEF Available, TypeOK

(* One poll of the source keeps the types of what it touches.              *)
LEMMA YieldTypes ==
  ASSUME TypeOK, NEW item, Yield(item)
  PROVE  /\ source' \in {"open", "trailed", "closed"}
         /\ read' \in Nat
         /\ yielded' \in Seq(Item)
         /\ item \in Item
         /\ item # NoItem
  <1>1. item \in Available
    BY DEF Yield
  <1>2. item \in Item /\ item # NoItem
    BY <1>1, AvailableItems
  <1>3. Len(item.bytes) \in Nat
    BY <1>2 DEF Item
  <1> QED
    BY <1>2, <1>3 DEF Yield, TypeOK

(* Polling the rest of the body, peeked item first, keeps the types.       *)
LEMMA PollRestTypes ==
  ASSUME TypeOK, NEW item, PollRest(item)
  PROVE  /\ source' \in {"open", "trailed", "closed"}
         /\ read' \in Nat
         /\ yielded' \in Seq(Item)
         /\ peeked' \in Item
         /\ fused' \in BOOLEAN
         /\ item \in Item
         /\ item # NoItem
  <1>1. CASE peeked # NoItem
    BY <1>1, NoItemType DEF PollRest, TypeOK
  <1>2. CASE peeked = NoItem
    <2>1. Yield(item) /\ fused' = (fused \/ item = Eof) /\ UNCHANGED peeked
      BY <1>2 DEF PollRest
    <2>2. fused' \in BOOLEAN
      BY <2>1 DEF TypeOK
    <2> QED
      BY <2>1, <2>2, YieldTypes DEF TypeOK
  <1> QED
    BY <1>1, <1>2

(* Taking a message off the reporter's channel keeps its type.             *)
LEMMA ReceiveTypes ==
  ASSUME TypeOK, NEW type, Receive(type)
  PROVE  channel' \in Seq(ItemTypes)
  BY DEF Receive, TypeOK

(* One publication of the reporter keeps the types of what it touches.     *)
LEMMA SendDataTypes ==
  ASSUME TypeOK, NEW at_end \in BOOLEAN, NEW next \in {"running", "ok"},
         SendData(at_end, next)
  PROVE  /\ buffer' \in Seq(Nat)
         /\ total' \in Nat
         /\ trailers' \in BOOLEAN
         /\ log' \in Seq(Event)
         /\ reporter' \in {"none", "running", "ok", "err"}
  <1>1. BodyDataEvent(at_end) \in Event
    BY BodyDataEventType
  <1>2. Append(log, BodyDataEvent(at_end)) \in Seq(Event) /\ log \in Seq(Event)
    BY <1>1 DEF TypeOK
  <1>3. total + Len(buffer) \in Nat
    BY DEF TypeOK
  <1>4. log' \in Seq(Event)
    BY <1>2, Zenon DEF SendData
  <1>5. reporter' \in {"none", "running", "ok", "err"}
    BY Zenon DEF SendData
  <1>6. buffer' \in Seq(Nat) /\ trailers' \in BOOLEAN /\ total' \in Nat
    BY <1>3, EmptySeq DEF SendData
  <1> QED
    BY <1>4, <1>5, <1>6

(* The state of the pipeline is well typed after every step.               *)
THEOREM TypeCorrect == Spec => []TypeOK
  <1>1. Init => TypeOK
    <2>1. /\ <<>> \in Seq(Item) /\ <<>> \in Seq(Nat)
          /\ <<>> \in Seq(ItemTypes) /\ <<>> \in Seq(Event)
      BY EmptySeq
    <2>2. 0 \in Nat
      OBVIOUS
    <2> QED
      BY <2>1, <2>2, NoItemType, Zenon DEF Init, TypeOK
  <1>2. TypeOK /\ [Next]_vars => TypeOK'
    <2> SUFFICES ASSUME TypeOK, [Next]_vars PROVE TypeOK'
      OBVIOUS
    <2> USE DEF sourceVars, handlerVars, wrapperVars, sharedVars, taskVars
    <2>1. CASE EmptyBody
      BY <2>1 DEF EmptyBody, TypeOK, Found
    <2>2. CASE CollectItem
      <3>1. PICK item \in Available \ {Eof} :
              /\ PollRest(item)
              /\ frames' = Append(frames, item)
              /\ content' = content \o item.bytes
        BY <2>2 DEF CollectItem
      <3>2. item.bytes \in Seq(Nat)
        BY <3>1, PollRestTypes DEF Item
      <3>3. content' \in Seq(Nat)
        BY <3>1, <3>2 DEF TypeOK
      <3>4. frames' \in Seq(Item)
        BY <3>1, PollRestTypes DEF TypeOK
      <3> QED
        BY <2>2, <3>1, <3>3, <3>4, PollRestTypes DEF CollectItem, TypeOK
    <2>3. CASE CollectEnd
      BY <2>3, PollRestTypes DEF CollectEnd, TypeOK
    <2>4. CASE CollectStop
      BY <2>4 DEF CollectStop, TypeOK
    <2>5. CASE Peek
      <3>1. /\ source' \in {"open", "trailed", "closed"}
            /\ read' \in Nat
            /\ yielded' \in Seq(Item)
            /\ peeked' \in Item
            /\ fused' \in BOOLEAN
        <4>1. CASE UNCHANGED sourceVars
          BY <4>1 DEF TypeOK
        <4>2. ASSUME NEW item \in Available, Yield(item),
                     peeked' = IF item = Eof THEN NoItem ELSE item,
                     fused' = (fused \/ item = Eof)
              PROVE  <3>1!1 /\ <3>1!2 /\ <3>1!3 /\ <3>1!4 /\ <3>1!5
          <5>2. fused' \in BOOLEAN
            BY <4>2 DEF TypeOK
          <5> QED
            BY <4>2, <5>2, YieldTypes, NoItemType
        <4> QED
          BY <2>5, <4>1, <4>2 DEF Peek
      <3>2. /\ pc' \in Found \cup {"failed"}
            /\ failure' \in {"none", "invalid_state", "body_error", "no_listener"}
            /\ rest' \in BOOLEAN
        BY <2>5 DEF Peek, Found, TypeOK
      <3> QED
        BY <2>5, <3>1, <3>2 DEF Peek, TypeOK
    <2>6. CASE Track
      <3>1. HeadEvent(pc, \E i \in 1..Len(frames) : frames[i].type = "trailers")
              \in Event
        BY <2>6, HeadEventType DEF Track
      <3> DEFINE e == HeadEvent(pc,
                       \E i \in 1..Len(frames) : frames[i].type = "trailers")
      <3> HIDE DEF e
      <3>2. Append(log, e) \in Seq(Event) /\ log \in Seq(Event)
        BY <3>1, AppendSeq DEF TypeOK, e
      <3>3. PrevBytes \in Nat
        BY DEF PrevBytes, TypeOK
      <3>4. /\ log' = Append(log, e) \/ log' = log
            /\ total' = PrevBytes \/ total' = total
            /\ pc' \in {"forward", "failed"}
            /\ reporter' \in {"none", "running", reporter}
            /\ collector' \in {rest, collector}
            /\ failure' \in {"no_listener", failure}
        BY <2>6, Zenon DEF Track, e
      <3>5. /\ log' \in Seq(Event) /\ total' \in Nat
            /\ reporter' \in {"none", "running", "ok", "err"}
            /\ collector' \in BOOLEAN
            /\ failure' \in {"none", "invalid_state", "body_error",
                             "no_listener"}
        BY <3>2, <3>3, <3>4 DEF TypeOK
      <3> QED
        BY <2>6, <3>4, <3>5 DEF Track, TypeOK
    <2>7. CASE ForwardPrefetched
      <3>1. Head(frames) \in Item /\ Tail(frames) \in Seq(Item)
        BY <2>7 DEF ForwardPrefetched, TypeOK
      <3> QED
        BY <2>7, <3>1 DEF ForwardPrefetched, TypeOK
    <2>8. CASE ForwardEnd
      BY <2>8 DEF ForwardEnd, TypeOK
    <2>9. CASE PollSource
      <3>1. PICK item : /\ PollRest(item)
                        /\ IF collector
                           THEN /\ held' = item /\ dispatch' = "started"
                                /\ UNCHANGED <<delivered, pc>>
                           ELSE Return(item)
        BY <2>9 DEF PollSource
      <3>2. /\ held' \in Item
            /\ dispatch' \in {"idle", "started", "sending", "blocked"}
            /\ delivered' \in Seq(Item)
            /\ pc' \in {pc, "done"}
        <4>1. item \in Item
          BY <3>1, PollRestTypes
        <4>2. /\ delivered \in Seq(Item) /\ Append(delivered, item) \in Seq(Item)
              /\ held \in Item
              /\ dispatch \in {"idle", "started", "sending", "blocked"}
          BY <4>1, AppendSeq DEF TypeOK
        <4> QED
          BY <3>1, <4>1, <4>2, NoItemType, Zenon DEF Return
      <3> QED
        BY <2>9, <3>1, <3>2, PollRestTypes DEF PollSource, TypeOK
    <2>10. CASE DispatchExtend
      <3>1. held.bytes \in Seq(Nat)
        BY DEF TypeOK, Item
      <3> QED
        BY <2>10, <3>1 DEF DispatchExtend, TypeOK
    <2>11. CASE DispatchSend
      <3>1. held.type \in ItemTypes
        BY DEF TypeOK, Item
      <3> QED
        BY <2>11, <3>1, NoItemType DEF DispatchSend, Return, TypeOK
    <2>12. CASE DispatchBlock
      BY <2>12 DEF DispatchBlock, TypeOK
    <2>13. CASE DispatchFail
      <3>1. Append(delivered, held) \in Seq(Item) /\ delivered \in Seq(Item)
        BY AppendSeq DEF TypeOK
      <3>2. delivered' \in Seq(Item) /\ pc' \in {pc, "done"}
        BY <2>13, <3>1, Zenon DEF DispatchFail, Return
      <3> QED
        BY <2>13, <3>2, NoItemType DEF DispatchFail, Return, TypeOK
    <2>14. CASE Drop
      BY <2>14, NoItemType DEF Drop, TypeOK
    <2>15. CASE RecvData
      BY <2>15 DEF RecvData, Receive, TypeOK
    <2>16. CASE RecvTrailers
      BY <2>16 DEF RecvTrailers, Receive, TypeOK
    <2>17. CASE RecvError
      <3>1. Append(log, ErrorEvent) \in Seq(Event) /\ log \in Seq(Event)
        BY ErrorEventType, AppendSeq DEF TypeOK
      <3>2. log' \in Seq(Event) /\ reporter' \in {reporter, "err"}
        BY <2>17, <3>1, Zenon DEF RecvError
      <3>3. channel' \in Seq(ItemTypes)
        BY <2>17, ReceiveTypes DEF RecvError
      <3> QED
        BY <2>17, <3>2, <3>3 DEF RecvError, TypeOK
    <2>18. CASE RecvEof
      <3>1. SendData(TRUE, "ok")
        BY <2>18 DEF RecvEof
      <3>2. /\ buffer' \in Seq(Nat) /\ total' \in Nat /\ trailers' \in BOOLEAN
            /\ log' \in Seq(Event)
            /\ reporter' \in {"none", "running", "ok", "err"}
        BY <3>1, SendDataTypes
      <3>3. channel' \in Seq(ItemTypes)
        BY <2>18, ReceiveTypes DEF RecvEof
      <3> QED
        BY <2>18, <3>2, <3>3 DEF RecvEof, TypeOK
    <2>19. CASE RecvClosed
      <3>1. SendData(TRUE, "ok")
        BY <2>19 DEF RecvClosed
      <3>2. /\ buffer' \in Seq(Nat) /\ total' \in Nat /\ trailers' \in BOOLEAN
            /\ log' \in Seq(Event)
            /\ reporter' \in {"none", "running", "ok", "err"}
        BY <3>1, SendDataTypes
      <3> QED
        BY <2>19, <3>2 DEF RecvClosed, TypeOK
    <2>20. CASE Flush
      <3>1. SendData(FALSE, "running")
        BY <2>20 DEF Flush
      <3>2. /\ buffer' \in Seq(Nat) /\ total' \in Nat /\ trailers' \in BOOLEAN
            /\ log' \in Seq(Event)
            /\ reporter' \in {"none", "running", "ok", "err"}
        BY <3>1, SendDataTypes
      <3>3. /\ pending' \in BOOLEAN
            /\ UNCHANGED <<channel, sourceVars, handlerVars, wrapperVars,
                           listening>>
        BY <2>20 DEF Flush
      <3> QED
        BY <3>2, <3>3 DEF TypeOK
    <2>21. CASE Listen
      BY <2>21 DEF Listen, TypeOK
    <2>22. CASE UNCHANGED vars
      BY <2>22 DEF vars, TypeOK
    <2> QED
      BY <2>1, <2>2, <2>3, <2>4, <2>5, <2>6, <2>7, <2>8, <2>9, <2>10, <2>11,
         <2>12, <2>13, <2>14, <2>15, <2>16, <2>17, <2>18, <2>19, <2>20, <2>21,
         <2>22
      DEF Next, Collect, Forward, Dispatch, Run
  <1> QED
    BY <1>1, <1>2, PTL DEF Spec
-----------------------------------------------------------------------------
(* The strengthening that makes Transparent inductive. Until the body is   *)
(* dropped or fails, the frames the source yielded are, in order, those    *)
(* delivered, the prefetched ones still to forward, the one held while it  *)
(* is reported and the one peeked at; the program counter says which of    *)
(* these places can be occupied.                                           *)
Carried(item) == IF item \in {NoItem, Eof} THEN 0 ELSE 1

(* Every item read is delivered, buffered, held or peeked at, in this      *)
(* order.                                                                  *)
Accounted ==
  /\ Len(yielded)
       = Len(delivered) + Len(frames) + Carried(held) + Carried(peeked)
  /\ \A i \in 1..Len(frames) : frames[i] = yielded[Len(delivered) + i]
  /\ held \notin {NoItem, Eof} => held = yielded[Len(delivered) + 1]
  /\ peeked # NoItem => peeked = yielded[Len(yielded)]

(* Which places can be occupied at which program counter.                  *)
Stages ==
  /\ peeked # Eof
  /\ held # NoItem => pc = "forward" /\ rest /\ frames = <<>>
  /\ held = Eof => peeked = NoItem
  /\ ~rest => peeked = NoItem
  /\ dispatch # "idle" => held # NoItem
  /\ pc \in {"collect", "peek"} => rest /\ peeked = NoItem
  /\ pc \in {"collect", "peek"} \cup Found => delivered = <<>>
  /\ pc = "done" => frames = <<>> /\ peeked = NoItem

(* What the peer was given is the beginning of what was read.              *)
InOrder ==
  /\ Len(delivered) <= Len(yielded)
  /\ \A i \in 1..Len(delivered) : delivered[i] = yielded[i]

(* The inductive invariant behind Transparent.                             *)
InTransit ==
  /\ InOrder
  /\ Stages
  /\ pc \notin {"dropped", "failed"} => Accounted

(* Steps that move no frame and leave the program counter alone.           *)
LEMMA StillInTransit ==
  ASSUME InTransit,
         UNCHANGED <<yielded, peeked, pc, frames, rest, held, dispatch,
                     delivered>>
  PROVE  InTransit'
  BY DEF InTransit, InOrder, Stages, Accounted, Carried

(* One more frame at the end of what the source yielded leaves the earlier *)
(* ones where they are.                                                    *)
LEMMA YieldKeepsOrder ==
  ASSUME TypeOK, InOrder, NEW item, Yield(item), UNCHANGED delivered
  PROVE  /\ InOrder'
         /\ item = Eof => yielded' = yielded
         /\ item # Eof =>
              /\ Len(yielded') = Len(yielded) + 1
              /\ yielded'[Len(yielded')] = item
         /\ \A i \in 1..Len(yielded) : yielded'[i] = yielded[i]
  <1>1. item \in Item
    BY YieldTypes
  <1>2. CASE item = Eof
    BY <1>2 DEF Yield, InOrder
  <1>3. CASE item # Eof
    <2>1. yielded' = Append(yielded, item)
      BY <1>3 DEF Yield
    <2>2. /\ Len(yielded') = Len(yielded) + 1
          /\ yielded'[Len(yielded')] = item
          /\ \A i \in 1..Len(yielded) : yielded'[i] = yielded[i]
      BY <1>1, <2>1 DEF TypeOK
    <2>3. Len(yielded) \in Nat /\ Len(delivered) \in Nat
      BY DEF TypeOK
    <2> QED
      BY <1>3, <2>2, <2>3 DEF InOrder
  <1> QED
    BY <1>2, <1>3

(* poll_next returns what was held: it is the next frame the reader is due.*)
LEMMA ReturnHeld ==
  ASSUME TypeOK, InTransit, held # NoItem, Return(held),
         UNCHANGED <<yielded, peeked, frames, rest>>
  PROVE  InTransit'
  <1>1. /\ pc = "forward" /\ rest /\ frames = <<>>
        /\ Accounted /\ InOrder
        /\ Len(frames) = 0
    BY DEF InTransit, Stages
  <1>2. held' = NoItem /\ dispatch' = "idle"
    BY DEF Return
  <1>3. CASE held = Eof
    <2>1. /\ peeked = NoItem /\ pc' = "done" /\ delivered' = delivered
      BY <1>3 DEF Return, InTransit, Stages
    <2>2. Accounted'
      BY <1>1, <1>2, <1>3, <2>1 DEF Accounted, Carried
    <2>3. Stages'
      BY <1>1, <1>2, <2>1, EofType, NoItemType DEF Stages, Found
    <2> QED
      BY <1>1, <2>1, <2>2, <2>3 DEF InTransit, InOrder
  <1>4. CASE held # Eof
    <2>1. pc' = "forward" /\ delivered' = Append(delivered, held)
      BY <1>1, <1>4 DEF Return
    <2>2. /\ Len(delivered') = Len(delivered) + 1
          /\ delivered'[Len(delivered) + 1] = held
          /\ \A i \in 1..Len(delivered) : delivered'[i] = delivered[i]
          /\ Len(delivered) \in Nat /\ Len(yielded) \in Nat
      BY <2>1 DEF TypeOK
    <2>3. Carried(held) = 1 /\ Carried(held') = 0 /\ Carried(peeked) \in {0, 1}
      BY <1>2, <1>4 DEF Carried
    <2>4. /\ Len(yielded) = Len(delivered) + 1 + Carried(peeked)
          /\ held = yielded[Len(delivered) + 1]
      BY <1>1, <1>4, <2>2, <2>3 DEF Accounted
    <2>5. InOrder'
      BY <1>1, <2>2, <2>3, <2>4 DEF InOrder
    <2>6. Carried(peeked') = Carried(peeked)
      BY DEF Carried
    <2>7. Accounted'
      BY <1>1, <1>2, <2>2, <2>3, <2>4, <2>6 DEF Accounted
    <2>8. Stages'
      BY <1>1, <1>2, <2>1, EofType, NoItemType DEF InTransit, Stages, Found
    <2> QED
      BY <2>5, <2>7, <2>8 DEF InTransit
  <1> QED
    BY <1>3, <1>4

(* While the chunk is collected nothing is peeked at: the item comes from  *)
(* the source and joins the prefetched frames.                             *)
LEMMA CollectInTransit ==
  ASSUME TypeOK, InTransit, CollectItem
  PROVE  InTransit'
  <1> USE DEF wrapperVars
  <1>1. /\ rest /\ peeked = NoItem /\ delivered = <<>> /\ held = NoItem
        /\ InOrder /\ Accounted /\ pc = "collect" /\ dispatch = "idle"
    BY DEF InTransit, Stages, CollectItem
  <1>2. PICK item \in Available \ {Eof} :
          PollRest(item) /\ frames' = Append(frames, item)
    BY DEF CollectItem
  <1>3. /\ Yield(item) /\ peeked' = NoItem /\ item # Eof /\ item \in Item
    BY <1>1, <1>2, PollRestTypes DEF PollRest
  <1>4. /\ pc' \in {"peek", "collect"}
        /\ UNCHANGED <<rest, held, dispatch, delivered>>
    BY DEF CollectItem
  <1>5. /\ InOrder'
        /\ Len(yielded') = Len(yielded) + 1
        /\ yielded'[Len(yielded')] = item
        /\ \A i \in 1..Len(yielded) : yielded'[i] = yielded[i]
    BY <1>1, <1>3, <1>4, YieldKeepsOrder
  <1>6. /\ Len(frames') = Len(frames) + 1
        /\ frames'[Len(frames) + 1] = item
        /\ \A i \in 1..Len(frames) : frames'[i] = frames[i]
        /\ Len(frames) \in Nat
    BY <1>2, <1>3 DEF TypeOK
  <1>7. Len(yielded) = Len(frames) /\ Len(delivered) = 0
    BY <1>1, <1>6 DEF Accounted, Carried
  <1>8. Accounted'
    BY <1>1, <1>3, <1>4, <1>5, <1>6, <1>7 DEF Accounted, Carried
  <1>9. Stages'
    BY <1>1, <1>3, <1>4, EofType, NoItemType DEF Stages, Found
  <1> QED
    BY <1>5, <1>8, <1>9 DEF InTransit

(* The peek leaves at most one item ahead of the prefetched frames, and    *)
(* only when there is a rest to read it from.                              *)
LEMMA PeekInTransit ==
  ASSUME TypeOK, InTransit, Peek
  PROVE  InTransit'
  <1> USE DEF wrapperVars, sourceVars
  <1>1. /\ rest /\ peeked = NoItem /\ delivered = <<>> /\ held = NoItem
        /\ InOrder /\ Accounted /\ dispatch = "idle"
    BY DEF InTransit, Stages, Peek
  <1>2. UNCHANGED <<frames, held, dispatch, delivered>>
    BY DEF Peek
  <1>3. /\ pc' \in Found \cup {"failed"}
        /\ rest' \/ peeked' = NoItem
    BY <1>1 DEF Peek, Found, Terminated
  <1>4. /\ InOrder'
        /\ Accounted'
        /\ peeked' # Eof
    <2>1. CASE UNCHANGED sourceVars
      BY <1>1, <1>2, <2>1, EofType, NoItemType DEF Accounted, Carried, InOrder
    <2>2. ASSUME NEW item \in Available, Yield(item),
                 peeked' = IF item = Eof THEN NoItem ELSE item
          PROVE  InOrder' /\ Accounted' /\ peeked' # Eof
      <3>1. /\ InOrder'
            /\ item = Eof => yielded' = yielded
            /\ item # Eof =>
                 /\ Len(yielded') = Len(yielded) + 1
                 /\ yielded'[Len(yielded')] = item
            /\ \A i \in 1..Len(yielded) : yielded'[i] = yielded[i]
        BY <1>1, <1>2, <2>2, YieldKeepsOrder
      <3>2. item # NoItem
        BY <2>2, YieldTypes
      <3>3. Len(frames) \in Nat /\ Len(delivered) = 0
        BY <1>1 DEF TypeOK
      <3>4. CASE item = Eof
        BY <1>1, <1>2, <2>2, <3>1, <3>4, EofType, NoItemType
        DEF Accounted, Carried
      <3>5. CASE item # Eof
        BY <1>1, <1>2, <2>2, <3>1, <3>2, <3>3, <3>5 DEF Accounted, Carried
      <3> QED
        BY <3>1, <3>4, <3>5
    <2> QED
      BY <2>1, <2>2 DEF Peek
  <1>5. Stages'
    BY <1>1, <1>2, <1>3, <1>4, EofType, NoItemType DEF Stages, Found
  <1> QED
    BY <1>4, <1>5 DEF InTransit

(* The prefetched frames are forwarded from the front.                     *)
LEMMA ForwardInTransit ==
  ASSUME TypeOK, InTransit, ForwardPrefetched
  PROVE  InTransit'
  <1> USE DEF sourceVars
  <1>1. /\ held = NoItem /\ pc = "forward" /\ Accounted /\ InOrder
        /\ dispatch = "idle" /\ frames # <<>>
    BY DEF InTransit, Stages, ForwardPrefetched
  <1>2. /\ UNCHANGED <<yielded, peeked, pc, rest, held, dispatch>>
        /\ frames' = Tail(frames)
        /\ delivered' = Append(delivered, Head(frames))
    BY DEF ForwardPrefetched
  <1>3. /\ Len(frames) \in Nat /\ Len(frames) > 0
        /\ Len(frames') = Len(frames) - 1
        /\ \A i \in 1..Len(frames') : frames'[i] = frames[i + 1]
        /\ Head(frames) = frames[1]
    BY <1>1, <1>2 DEF TypeOK
  <1>4. /\ Len(delivered') = Len(delivered) + 1
        /\ delivered'[Len(delivered) + 1] = frames[1]
        /\ \A i \in 1..Len(delivered) : delivered'[i] = delivered[i]
        /\ Len(delivered) \in Nat
    BY <1>1, <1>2, <1>3 DEF TypeOK
  <1>5. Carried(peeked') = Carried(peeked) /\ Carried(peeked) \in {0, 1}
        /\ Carried(held) = 0 /\ Carried(held') = 0
    BY <1>1, <1>2 DEF Carried
  <1>6. /\ Len(yielded) = Len(delivered) + Len(frames) + Carried(peeked)
        /\ frames[1] = yielded[Len(delivered) + 1]
    BY <1>1, <1>3, <1>4, <1>5 DEF Accounted
  <1>7. InOrder'
    BY <1>1, <1>2, <1>3, <1>4, <1>5, <1>6 DEF InOrder
  <1>8. Accounted'
    <2>1. \A i \in 1..Len(frames') :
            frames'[i] = yielded'[Len(delivered') + i]
      BY <1>1, <1>2, <1>3, <1>4 DEF Accounted
    <2> QED
      BY <1>1, <1>2, <1>3, <1>4, <1>5, <1>6, <2>1 DEF Accounted
  <1>9. Stages'
    BY <1>1, <1>2, EofType, NoItemType DEF InTransit, Stages, Found
  <1> QED
    BY <1>7, <1>8, <1>9 DEF InTransit

(* What a poll of the rest gives is the next frame the reader is due, and  *)
(* the end only when no frame is left behind.                              *)
LEMMA PollInTransit ==
  ASSUME TypeOK, InTransit, PollSource
  PROVE  InTransit'
  <1>1. /\ pc = "forward" /\ frames = <<>> /\ rest /\ held = NoItem
        /\ Accounted /\ InOrder /\ dispatch = "idle" /\ Len(frames) = 0
    BY DEF PollSource, InTransit, Stages
  <1>2. UNCHANGED <<frames, rest>>
    BY DEF PollSource
  <1>3. PICK item : /\ PollRest(item)
                    /\ IF collector
                       THEN /\ held' = item /\ dispatch' = "started"
                            /\ UNCHANGED <<delivered, pc>>
                       ELSE Return(item)
    BY DEF PollSource
  <1>4. Len(yielded) \in Nat /\ Len(delivered) \in Nat
    BY DEF TypeOK
  <1>5. /\ peeked' = NoItem /\ item # NoItem
        /\ item = Eof => Len(yielded') = Len(delivered)
        /\ item # Eof =>
             /\ Len(yielded') = Len(delivered) + 1
             /\ yielded'[Len(delivered) + 1] = item
        /\ \A i \in 1..Len(delivered) : yielded'[i] = delivered[i]
    <2>1. CASE peeked # NoItem
      <3>1. item = peeked /\ peeked' = NoItem /\ yielded' = yielded
        BY <1>3, <2>1 DEF PollRest
      <3>2. peeked # Eof
        BY DEF InTransit, Stages
      <3>3. Len(yielded) = Len(delivered) + 1 /\ item = yielded[Len(yielded)]
        BY <1>1, <1>4, <2>1, <3>1, <3>2 DEF Accounted, Carried
      <3> QED
        BY <1>1, <1>4, <2>1, <3>1, <3>2, <3>3 DEF InOrder
    <2>2. CASE peeked = NoItem
      <3>1. Yield(item) /\ peeked' = NoItem
        BY <1>3, <2>2 DEF PollRest
      <3>2. item # NoItem /\ item \in Item
        BY <3>1, YieldTypes
      <3>3. Len(yielded) = Len(delivered)
        BY <1>1, <1>4, <2>2 DEF Accounted, Carried
      <3>4. CASE item = Eof
        BY <1>1, <3>1, <3>2, <3>3, <3>4 DEF Yield, InOrder
      <3>5. CASE item # Eof
        <4>1. yielded' = Append(yielded, item)
          BY <3>1, <3>5 DEF Yield
        <4>2. /\ Len(yielded') = Len(yielded) + 1
              /\ yielded'[Len(yielded) + 1] = item
              /\ \A i \in 1..Len(yielded) : yielded'[i] = yielded[i]
          BY <3>2, <4>1 DEF TypeOK
        <4> QED
          BY <1>1, <1>4, <3>1, <3>2, <3>3, <3>5, <4>2 DEF InOrder
      <3> QED
        BY <3>4, <3>5
    <2> QED
      BY <2>1, <2>2
  <1>6. \/ /\ held' = item /\ dispatch' = "started"
           /\ UNCHANGED <<delivered, pc>>
        \/ Return(item)
    BY <1>3
  <1>7. CASE held' = item /\ dispatch' = "started" /\ UNCHANGED <<delivered, pc>>
    <2>1. InOrder'
      BY <1>4, <1>5, <1>7 DEF InOrder
    <2>2. Accounted'
      BY <1>1, <1>2, <1>4, <1>5, <1>7 DEF Accounted, Carried
    <2>3. Stages'
      BY <1>1, <1>2, <1>5, <1>7, EofType, NoItemType DEF Stages, Found
    <2> QED
      BY <2>1, <2>2, <2>3 DEF InTransit
  <1>8. CASE Return(item)
    <2>1. held' = NoItem /\ dispatch' = "idle"
      BY <1>8 DEF Return
    <2>2. CASE item = Eof
      <3>1. delivered' = delivered /\ pc' = "done"
        BY <1>8, <2>2 DEF Return
      <3>2. InOrder'
        BY <1>4, <1>5, <2>2, <3>1 DEF InOrder
      <3>3. Accounted'
        BY <1>1, <1>2, <1>4, <1>5, <2>1, <2>2, <3>1 DEF Accounted, Carried
      <3>4. Stages'
        BY <1>1, <1>2, <1>5, <2>1, <3>1, EofType, NoItemType DEF Stages, Found
      <3> QED
        BY <3>2, <3>3, <3>4 DEF InTransit
    <2>3. CASE item # Eof
      <3>1. delivered' = Append(delivered, item) /\ pc' = "forward"
        BY <1>1, <1>8, <2>3 DEF Return
      <3>2. item \in Item
        BY <1>3, PollRestTypes
      <3>3. /\ Len(delivered') = Len(delivered) + 1
            /\ delivered'[Len(delivered) + 1] = item
            /\ \A i \in 1..Len(delivered) : delivered'[i] = delivered[i]
        BY <3>1, <3>2 DEF TypeOK
      <3>4. InOrder'
        BY <1>4, <1>5, <2>3, <3>3 DEF InOrder
      <3>5. Accounted'
        BY <1>1, <1>2, <1>4, <1>5, <2>1, <2>3, <3>3 DEF Accounted, Carried
      <3>6. Stages'
        BY <1>1, <1>2, <1>5, <2>1, <3>1, EofType, NoItemType DEF Stages, Found
      <3> QED
        BY <3>4, <3>5, <3>6 DEF InTransit
    <2> QED
      BY <2>2, <2>3
  <1> QED
    BY <1>6, <1>7, <1>8

(* Every frame is where the pipeline can still find it, in every state.    *)
LEMMA InTransitAlways == Spec => []InTransit
  <1>1. Init => InTransit
    <2> SUFFICES ASSUME Init PROVE InTransit
      OBVIOUS
    <2>1. /\ yielded = <<>> /\ delivered = <<>> /\ frames = <<>>
          /\ peeked = NoItem /\ held = NoItem /\ dispatch = "idle"
          /\ pc = "collect" /\ rest
      BY DEF Init
    <2>2. InOrder
      BY <2>1 DEF InOrder
    <2>3. Accounted
      BY <2>1 DEF Accounted, Carried
    <2>4. Stages
      BY <2>1, EofType, NoItemType DEF Stages, Found
    <2> QED
      BY <2>2, <2>3, <2>4 DEF InTransit
  <1>2. TypeOK /\ InTransit /\ [Next]_vars => InTransit'
    <2> SUFFICES ASSUME TypeOK, InTransit, [Next]_vars PROVE InTransit'
      OBVIOUS
    <2> USE DEF sourceVars, handlerVars, wrapperVars
    <2>1. CASE EmptyBody
      <3>1. /\ pc = "collect" /\ pc' = "NoBody" /\ frames = <<>>
            /\ UNCHANGED <<yielded, peeked, frames, held, dispatch, delivered>>
        BY <2>1 DEF EmptyBody
      <3>2. peeked = NoItem /\ held = NoItem /\ dispatch = "idle"
            /\ delivered = <<>> /\ InOrder /\ Accounted
        BY <3>1 DEF InTransit, Stages
      <3>3. Stages'
        BY <3>1, <3>2, EofType, NoItemType DEF Stages, Found
      <3> QED
        BY <3>1, <3>2, <3>3 DEF InTransit, InOrder, Accounted, Carried
    <2>2. CASE CollectItem
      BY <2>2, CollectInTransit
    <2>3. CASE CollectEnd
      <3>1. pc = "collect" /\ pc' = "peek" /\ PollRest(Eof)
            /\ UNCHANGED <<frames, rest, held, dispatch, delivered>>
        BY <2>3 DEF CollectEnd
      <3>2. peeked = NoItem /\ held = NoItem /\ InOrder /\ Accounted
        BY <3>1 DEF InTransit, Stages
      <3>3. UNCHANGED <<yielded, peeked>>
        BY <3>1, <3>2 DEF PollRest, Yield
      <3> QED
        BY <3>1, <3>2, <3>3
        DEF InTransit, InOrder, Accounted, Stages, Carried, Found
    <2>4. CASE CollectStop
      <3>1. pc = "collect" /\ pc' = "peek"
            /\ UNCHANGED <<yielded, peeked, frames, rest, held, dispatch,
                           delivered>>
        BY <2>4 DEF CollectStop
      <3> QED
        BY <3>1 DEF InTransit, InOrder, Accounted, Stages, Carried, Found
    <2>5. CASE Peek
      BY <2>5, PeekInTransit
    <2>6. CASE Track
      <3>1. /\ pc \in Found /\ pc' \in {"forward", "failed"}
            /\ UNCHANGED <<yielded, peeked, frames, rest, held, dispatch,
                           delivered>>
        BY <2>6 DEF Track
      <3>2. held = NoItem /\ Accounted
        BY <3>1 DEF InTransit, Stages, Found
      <3> QED
        BY <3>1, <3>2 DEF InTransit, InOrder, Accounted, Stages, Carried, Found
    <2>7. CASE ForwardPrefetched
      BY <2>7, ForwardInTransit
    <2>8. CASE ForwardEnd
      <3>1. /\ pc = "forward" /\ pc' = "done" /\ frames = <<>> /\ ~rest
            /\ UNCHANGED <<yielded, peeked, frames, rest, held, dispatch,
                           delivered>>
        BY <2>8 DEF ForwardEnd
      <3>2. held = NoItem /\ peeked = NoItem /\ Accounted
        BY <3>1 DEF InTransit, Stages
      <3> QED
        BY <3>1, <3>2 DEF InTransit, InOrder, Accounted, Stages, Carried, Found
    <2>9. CASE PollSource
      BY <2>9, PollInTransit
    <2>10. CASE DispatchExtend \/ DispatchBlock
      <3>1. /\ dispatch # "idle"
            /\ UNCHANGED <<yielded, peeked, pc, frames, rest, held, delivered>>
        BY <2>10 DEF DispatchExtend, DispatchBlock
      <3> QED
        BY <3>1 DEF InTransit, InOrder, Accounted, Stages, Carried
    <2>11. CASE DispatchSend \/ DispatchFail
      <3>1. /\ dispatch # "idle" /\ Return(held)
            /\ UNCHANGED <<yielded, peeked, frames, rest>>
        BY <2>11 DEF DispatchSend, DispatchFail
      <3>2. held # NoItem
        BY <3>1 DEF InTransit, Stages
      <3> QED
        BY <3>1, <3>2, ReturnHeld
    <2>12. CASE Drop
      <3>1. /\ pc' = "dropped" /\ held' = NoItem
            /\ dispatch' = "idle"
            /\ UNCHANGED <<yielded, peeked, frames, rest, delivered>>
        BY <2>12 DEF Drop
      <3> QED
        BY <3>1, EofType, NoItemType DEF InTransit, InOrder, Stages, Found
    <2>13. CASE Run \/ Listen \/ UNCHANGED vars
      <3>1. UNCHANGED <<yielded, peeked, pc, frames, rest, held, dispatch,
                        delivered>>
        BY <2>13 DEF Run, Listen, vars, RecvData, RecvTrailers, RecvError,
                     RecvEof, RecvClosed, Flush
      <3> QED
        BY <3>1, StillInTransit
    <2> QED
      BY <2>1, <2>2, <2>3, <2>4, <2>5, <2>6, <2>7, <2>8, <2>9, <2>10, <2>11,
         <2>12, <2>13
      DEF Next, Collect, Forward, Dispatch
  <1> QED
    BY <1>1, <1>2, TypeCorrect, PTL DEF Spec

(* Whatever the monitors and the reporter task do, the reader receives the *)
(* frames the source yielded, in order, and all of them before it is told  *)
(* that the body is over (BodyStreamWrapper::poll_next, assemble).         *)
THEOREM TransparentHolds == Spec => []Transparent
  <1>1. TypeOK /\ InTransit => Transparent
    <2> SUFFICES ASSUME TypeOK, InTransit PROVE Transparent
      OBVIOUS
    <2>1. CASE pc = "done"
      <3>1. /\ frames = <<>> /\ held = NoItem /\ peeked = NoItem /\ Accounted
        BY <2>1 DEF InTransit, Stages
      <3>2. Len(delivered) = Len(yielded)
        BY <3>1 DEF Accounted, Carried, TypeOK
      <3> QED
        BY <3>2 DEF InTransit, InOrder, Transparent
    <2>2. CASE pc # "done"
      BY <2>2 DEF InTransit, InOrder, Transparent
    <2> QED
      BY <2>1, <2>2
  <1> QED
    BY <1>1, InTransitAlways, TypeCorrect, PTL

-----------------------------------------------------------------------------
(* Reporting: the inductive invariant                                      *)


(* bytes carries the positions that follow from.                           *)
Runs(bytes, from) == \A k \in 1..Len(bytes) : bytes[k] = from + k

(* Bytes polled from the source that dispatch has not put in the buffer.   *)
Undispatched == IF dispatch = "started" THEN held.bytes ELSE <<>>

Holds(s, type) == \E i \in 1..Len(s) : s[i].type = type
Flagged == \E i \in 1..Len(log) : log[i].trailers
Queued(type) == \E i \in 1..Len(channel) : channel[i] = type

(* The fuse is only set at the end of the source, and an error ends it.    *)
SourceOver ==
  /\ fused => source = "closed"
  /\ pc \in {"collect", "peek"} /\ HasError(frames) => source = "closed"
  /\ failure # "invalid_state"

(* The reporter runs from the head event on, if there is a rest to read,   *)
(* and has its collector as long as it runs.                               *)
Phases ==
  /\ pc \in {"collect", "peek"} \cup Found => log = <<>>
  /\ pc \in Found \cup {"forward"} => ~HasError(frames)
  /\ pc \in {"NoBody", "Complete"} => ~rest
  /\ log = <<>> \/ pc = "failed" => reporter = "none"
  /\ reporter = "none" => /\ ~collector /\ ~trailers
                          /\ buffer = <<>> /\ channel = <<>>
  /\ reporter = "none" /\ log # <<>> => ~rest
  /\ reporter = "running" => collector /\ rest
  /\ dispatch # "idle" => collector
  /\ dispatch = "idle" => held = NoItem
  /\ held.type = "eof" => held = Eof
  /\ peeked.type # "eof"

(* Where the bytes are that the source has yielded.                        *)
Bytes ==
  /\ Runs(content, 0)
  /\ Len(peeked.bytes) <= read
  /\ Runs(peeked.bytes, read - Len(peeked.bytes))
  /\ pc \in {"collect", "peek"} \cup Found
       => Len(content) + Len(peeked.bytes) = read
  /\ reporter = "running" =>
       /\ total + Len(buffer) + Len(Undispatched) + Len(peeked.bytes) = read
       /\ Runs(buffer, total)
       /\ Runs(Undispatched, total + Len(buffer))

(* The last of the published contents is the one at i.                     *)
LastData(i) ==
  /\ i \in 1..Len(log) /\ IsData(log[i])
  /\ \A k \in (i + 1)..Len(log) : ~IsData(log[k])

(* What was published ends where the next content will begin.              *)
Tiled ==
  /\ ReportsTile
  /\ log # <<>> =>
       \E i \in 1..Len(log) :
         /\ LastData(i) /\ log[i].total <= read
         /\ reporter = "running" => log[i].total = total

(* After the end nothing is left to report, and nothing more is read.      *)
Closed ==
  /\ EndShown => /\ reporter # "running" /\ ~trailers /\ channel = <<>>
                 /\ ~rest \/ pc \in {"done", "dropped"}
  /\ pc # "dropped" =>
       \A i \in 1..Len(log) : log[i].at_end => log[i].total = read

(* An error or trailers the reader has received are published or on their  *)
(* way, in the channel or with the reporter, and no end overtakes them.    *)
OnTheWay ==
  /\ log # <<>> /\ Holds(frames, "trailers") => Flagged
  /\ reporter = "running" \/ EndShown =>
       /\ HasError(delivered) => Holds(log, "Error") \/ Queued("error")
       /\ Holds(delivered, "trailers")
            => Flagged \/ trailers \/ Queued("trailers")
  /\ \A i \in 1..Len(channel) :
       channel[i] = "eof" => i = Len(channel) /\ pc = "done"

(* The inductive invariant behind what is reported of a body.              *)
Reporting ==
  /\ SourceOver /\ Phases /\ Bytes /\ Tiled /\ Closed /\ OnTheWay

-----------------------------------------------------------------------------
(* What the source yields: the bytes that follow those it has yielded, and *)
(* nothing after an error or the end.                                      *)
LEMMA YieldBytes ==
  ASSUME TypeOK, NEW item, Yield(item)
  PROVE  /\ item \in Item /\ Len(item.bytes) \in Nat
         /\ read' = read + Len(item.bytes)
         /\ Runs(item.bytes, read)
         /\ source = "closed" => item = Eof
         /\ item = Eof \/ item.type = "error" => source' = "closed"
<1>1. item \in Available /\ item \in Item
  BY YieldTypes DEF Yield
<1>2. Len(item.bytes) \in Nat
  BY <1>1 DEF Item
<1>3. Runs(item.bytes, read)
  <2>1. CASE \E n \in FrameSizes : item = DataFrame(n)
    <3>1. PICK n \in FrameSizes : item = DataFrame(n)
      BY <2>1
    <3>2. n \in Nat
      BY ConstantsAssumption
    <3>3. item.bytes = [i \in 1..n |-> read + i] /\ Len(item.bytes) = n
      BY <3>1, <3>2 DEF DataFrame
    <3> QED
      BY <3>3 DEF Runs
  <2>2. CASE item \in {Mark("trailers"), Mark("error"), Eof}
    <3>1. Len(item.bytes) = 0
      BY <2>2, MarkItem DEF Eof, ItemTypes
    <3> QED
      BY <3>1 DEF Runs
  <2> QED
    BY <1>1, <2>1, <2>2 DEF Available, TypeOK
<1>4. source = "closed" => item = Eof
  BY <1>1 DEF Available
<1>5. item = Eof \/ item.type = "error" => source' = "closed"
  BY EofType DEF Yield
<1> QED
  BY <1>1, <1>2, <1>3, <1>4, <1>5 DEF Yield

(* Before the head event there is nothing to say about what was published. *)
LEMMA BeforeHead ==
  ASSUME log' = <<>>, channel' = <<>>, reporter' = "none"
  PROVE  Tiled' /\ Closed' /\ OnTheWay'
<1>1. Len(log') = 0 /\ Len(channel') = 0
  OBVIOUS
<1>2. ~EndShown'
  BY <1>1 DEF EndShown
<1>3. Tiled'
  BY <1>1 DEF Tiled, ReportsTile
<1>4. Closed'
  BY <1>1, <1>2 DEF Closed
<1>5. OnTheWay'
  BY <1>1, <1>2 DEF OnTheWay
<1> QED
  BY <1>3, <1>4, <1>5

(* The state of the pipeline while collect_ready_data runs.                *)
LEMMA Collecting ==
  ASSUME TypeOK, InTransit, Reporting, pc \in {"collect", "peek"}
  PROVE  /\ log = <<>> /\ reporter = "none" /\ channel = <<>> /\ buffer = <<>>
         /\ collector = FALSE /\ trailers = FALSE /\ rest = TRUE
         /\ peeked = NoItem /\ held = NoItem
         /\ dispatch = "idle" /\ Len(peeked.bytes) = 0
         /\ Len(content) = read /\ Runs(content, 0)
<1>1. /\ log = <<>> /\ reporter = "none" /\ channel = <<>> /\ buffer = <<>>
      /\ collector = FALSE /\ trailers = FALSE
  BY DEF Reporting, Phases, TypeOK
<1>2. rest = TRUE /\ peeked = NoItem /\ held = NoItem /\ dispatch = "idle"
  BY DEF InTransit, Stages, TypeOK
<1>3. Len(peeked.bytes) = 0
  BY <1>2, MarkItem DEF NoItem, ItemTypes
<1>4. Len(content) \in Nat /\ read \in Nat
  BY DEF TypeOK
<1> QED
  BY <1>1, <1>2, <1>3, <1>4 DEF Reporting, Bytes

(* The steps of collect_ready_data up to the peek.                         *)
LEMMA CollectReporting ==
  ASSUME TypeOK, InTransit, Reporting,
         EmptyBody \/ CollectItem \/ CollectEnd \/ CollectStop
  PROVE  Reporting'
<1> USE DEF sourceVars, wrapperVars, sharedVars, taskVars
<1>1. /\ pc = "collect" /\ pc' \in {"collect", "peek", "NoBody"}
      /\ UNCHANGED <<log, reporter, channel, buffer, collector, trailers, total,
                     held, dispatch, failure, peeked>>
      /\ pc' = "NoBody" => rest' = FALSE /\ frames = <<>> /\ frames' = <<>>
  <2>1. pc = "collect"
    BY DEF EmptyBody, CollectItem, CollectEnd, CollectStop
  <2>2. peeked = NoItem
    BY <2>1, Collecting
  <2> QED
    BY <2>1, <2>2 DEF EmptyBody, CollectItem, CollectEnd, CollectStop, PollRest
<1>2. /\ log = <<>> /\ reporter = "none" /\ channel = <<>> /\ buffer = <<>>
      /\ collector = FALSE /\ trailers = FALSE
      /\ peeked = NoItem /\ held = NoItem
      /\ dispatch = "idle" /\ Len(peeked.bytes) = 0
      /\ Len(content) = read /\ Runs(content, 0)
  BY <1>1, Collecting
<1>3. Tiled' /\ Closed' /\ OnTheWay'
  BY <1>1, <1>2, BeforeHead
<1>4. Phases'
  <2>1. pc' \in Found => ~HasError(frames')
    BY <1>1 DEF HasError, Found
  <2> QED
    BY <1>1, <1>2, <2>1, NoItemType DEF Phases, Found
<1>5. SourceOver' /\ content' \in Seq(Nat) /\ read' = Len(content') /\ Runs(content', 0)
  <2>1. CASE EmptyBody
    BY <1>1, <1>2, <2>1 DEF EmptyBody, SourceOver, Reporting, TypeOK
  <2>2. CASE CollectStop
    BY <1>1, <1>2, <2>2 DEF CollectStop, SourceOver, Reporting, TypeOK
  <2>3. CASE CollectEnd
    <3>1. Yield(Eof) /\ UNCHANGED <<frames, content>>
      BY <1>2, <2>3 DEF CollectEnd, PollRest
    <3>2. source' = "closed" /\ read' = read
      <4>1. source' = "closed" /\ read' = read + Len(Eof.bytes)
        BY <3>1, YieldBytes
      <4>2. Len(Eof.bytes) = 0 /\ read \in Nat
        BY EofType DEF TypeOK
      <4> QED
        BY <4>1, <4>2
    <3> QED
      BY <1>1, <1>2, <3>1, <3>2 DEF SourceOver, Reporting, TypeOK
  <2>4. CASE CollectItem
    <3>1. PICK item \in Available \ {Eof} :
            /\ PollRest(item) /\ frames' = Append(frames, item)
            /\ content' = content \o item.bytes
      BY <2>4 DEF CollectItem
    <3>2. Yield(item) /\ fused' = (fused \/ item = Eof)
      BY <1>2, <3>1 DEF PollRest
    <3>3. /\ item \in Item /\ Len(item.bytes) \in Nat
          /\ read' = read + Len(item.bytes)
          /\ Runs(item.bytes, read)
          /\ source # "closed"
          /\ item.type = "error" => source' = "closed"
      BY <3>1, <3>2, YieldBytes
    <3>4. fused' = fused /\ fused = FALSE
      BY <3>1, <3>2, <3>3 DEF Reporting, SourceOver, TypeOK
    <3>5. HasError(frames') => source' = "closed"
      <4>1. ~HasError(frames)
        BY <1>1, <3>3 DEF Reporting, SourceOver
      <4>2. HasError(frames') => item.type = "error"
        BY <3>1, <3>3, <4>1 DEF HasError, TypeOK
      <4> QED
        BY <3>3, <4>2
    <3>6. SourceOver'
      BY <1>1, <3>4, <3>5 DEF SourceOver, Reporting
    <3>7. content \in Seq(Nat) /\ item.bytes \in Seq(Nat)
      BY <3>3 DEF Item, TypeOK
    <3>8. /\ content' \in Seq(Nat) /\ Len(content') = Len(content) + Len(item.bytes)
          /\ \A k \in 1..Len(content') :
               content'[k] = IF k <= Len(content) THEN content[k]
                             ELSE item.bytes[k - Len(content)]
      BY <3>1, <3>7
    <3>9. Runs(content', 0)
      <4> SUFFICES ASSUME NEW k \in 1..Len(content') PROVE content'[k] = 0 + k
        BY DEF Runs
      <4>1. Len(content) \in Nat /\ Len(item.bytes) \in Nat
        BY <3>7
      <4>2. CASE k <= Len(content)
        <5>1. k \in 1..Len(content) /\ content'[k] = content[k]
          BY <3>8, <4>1, <4>2
        <5> QED
          BY <1>2, <5>1 DEF Runs
      <4>3. CASE k > Len(content)
        <5>1. /\ k - Len(content) \in 1..Len(item.bytes)
              /\ content'[k] = item.bytes[k - Len(content)]
          BY <3>8, <4>1, <4>3
        <5>2. item.bytes[k - Len(content)] = read + (k - Len(content))
          BY <3>3, <5>1 DEF Runs
        <5> QED
          BY <1>2, <4>1, <5>1, <5>2
      <4> QED
        BY <4>1, <4>2, <4>3
    <3> QED
      BY <1>2, <3>3, <3>6, <3>8, <3>9
  <2> QED
    BY <2>1, <2>2, <2>3, <2>4
<1>6. Bytes'
  <2>1. Len(peeked'.bytes) = 0 /\ reporter' # "running" /\ read' \in Nat
    BY <1>1, <1>2, <1>5
  <2>2. Runs(peeked'.bytes, read' - Len(peeked'.bytes))
    BY <2>1 DEF Runs
  <2> QED
    BY <1>5, <2>1, <2>2 DEF Bytes
<1> QED
  BY <1>3, <1>4, <1>5, <1>6 DEF Reporting

(* The peek, and the match on what was found: an exhausted source cannot   *)
(* yield again, so "end of frames but not terminated" never happens.       *)
LEMMA PeekReporting ==
  ASSUME TypeOK, InTransit, Reporting, Peek
  PROVE  Reporting'
<1> USE DEF sourceVars, wrapperVars, sharedVars, taskVars
<1>1. /\ pc = "peek" /\ pc' \in Found \cup {"failed"}
      /\ UNCHANGED <<log, reporter, channel, buffer, collector, trailers, total,
                     held, dispatch, frames, content>>
  BY DEF Peek, Found
<1>2. /\ log = <<>> /\ reporter = "none" /\ channel = <<>> /\ buffer = <<>>
      /\ collector = FALSE /\ trailers = FALSE
      /\ peeked = NoItem /\ held = NoItem
      /\ dispatch = "idle" /\ Len(peeked.bytes) = 0
      /\ Len(content) = read /\ Runs(content, 0)
  BY <1>1, Collecting
<1>3. Tiled' /\ Closed' /\ OnTheWay'
  BY <1>1, <1>2, BeforeHead
<1>4. /\ fused => fused' /\ peeked' = NoItem
      /\ fused' => source' = "closed"
      /\ Len(peeked'.bytes) \in Nat /\ read' = read + Len(peeked'.bytes)
      /\ Runs(peeked'.bytes, read) /\ peeked'.type # "eof"
  <2>1. CASE UNCHANGED <<source, read, yielded, peeked, fused>>
    BY <1>2, <2>1, NoItemType DEF Runs, TypeOK, Reporting, SourceOver
  <2>2. ASSUME NEW item \in Available, Yield(item),
               peeked' = IF item = Eof THEN NoItem ELSE item,
               fused' = (fused \/ item = Eof)
        PROVE  /\ fused => fused' /\ peeked' = NoItem
               /\ fused' => source' = "closed"
               /\ Len(peeked'.bytes) \in Nat /\ read' = read + Len(peeked'.bytes)
               /\ Runs(peeked'.bytes, read) /\ peeked'.type # "eof"
    <3>1. /\ item \in Item /\ Len(item.bytes) \in Nat
          /\ read' = read + Len(item.bytes)
          /\ Runs(item.bytes, read)
          /\ source = "closed" => item = Eof
          /\ item = Eof => source' = "closed"
      BY <2>2, YieldBytes
    <3>2. fused => source = "closed"
      BY DEF Reporting, SourceOver
    <3>3. CASE item = Eof
      <4>1. Len(peeked'.bytes) = 0 /\ peeked' = NoItem
        BY <2>2, <3>3, MarkItem DEF NoItem, ItemTypes
      <4>2. Len(item.bytes) = 0
        BY <3>3, EofType
      <4>3. read \in Nat /\ Runs(peeked'.bytes, read)
        BY <4>1 DEF Runs, TypeOK
      <4> QED
        BY <2>2, <3>1, <3>3, <4>1, <4>2, <4>3, NoItemType
    <3>4. CASE item # Eof
      <4>1. item.type # "eof"
        BY <3>4, AvailableItems
      <4> QED
        BY <2>2, <3>1, <3>2, <3>4, <4>1
    <3> QED
      BY <3>3, <3>4
  <2> QED
    BY <2>1, <2>2 DEF Peek
<1>5. Bytes'
  <2>1. read \in Nat /\ Len(content) \in Nat
    BY DEF TypeOK
  <2>2. read' - Len(peeked'.bytes) = read
    BY <1>4, <2>1
  <2> QED
    BY <1>1, <1>2, <1>4, <2>1, <2>2 DEF Bytes
<1>6. Phases'
  <2>1. /\ pc' \in Found => ~HasError(frames)
        /\ pc' \in {"NoBody", "Complete"} => ~rest'
    <3>1. frames = <<>> => ~HasError(frames)
      BY DEF HasError
    <3> QED
      BY <3>1 DEF Peek, Found
  <2> QED
    BY <1>1, <1>2, <1>4, <2>1, NoItemType DEF Phases, Found
<1>7. SourceOver'
  <2>1. failure' # "invalid_state"
    BY <1>4 DEF Peek, Reporting, SourceOver, Terminated
  <2> QED
    BY <1>1, <1>4, <2>1 DEF SourceOver, Found
<1> QED
  BY <1>3, <1>5, <1>6, <1>7 DEF Reporting

-----------------------------------------------------------------------------
(* track_request / track_response: the head event is the first of the log, *)
(* says the end only of a body without a rest, and hands the reporter the  *)
(* number of bytes it has shown.                                           *)
LEMMA TrackReporting ==
  ASSUME TypeOK, InTransit, Reporting, Track
  PROVE  Reporting'
<1> USE DEF sourceVars, sharedVars
<1>1. /\ pc \in Found /\ pc' \in {"forward", "failed"}
      /\ UNCHANGED <<source, read, peeked, fused, frames, content, rest, held,
                     dispatch, delivered, trailers, buffer, channel>>
  BY DEF Track
<1>2. /\ log = <<>> /\ reporter = "none" /\ channel = <<>> /\ buffer = <<>>
      /\ collector = FALSE /\ trailers = FALSE /\ ~HasError(frames)
      /\ pc = "Complete" => rest = FALSE
  BY <1>1 DEF Reporting, Phases, TypeOK, Found
<1>3. held = NoItem /\ dispatch = "idle" /\ delivered = <<>>
      /\ (rest = FALSE => peeked = NoItem)
  BY <1>1 DEF InTransit, Stages, TypeOK, Found
<1>4. /\ content \in Seq(Nat) /\ Len(content) \in Nat /\ read \in Nat
      /\ Len(peeked.bytes) \in Nat /\ rest \in BOOLEAN
  BY DEF TypeOK, Item
<1>5. Len(content) + Len(peeked.bytes) = read /\ Runs(content, 0)
  BY <1>1 DEF Reporting, Bytes
<1>6. rest = FALSE => Len(content) = read
  <2>1. Len(NoItem.bytes) = 0
    BY MarkItem DEF NoItem, ItemTypes
  <2> QED
    BY <1>3, <1>4, <1>5, <2>1
<1>7. CASE ~listening
  <2>1. pc' = "failed" /\ failure' = "no_listener"
        /\ UNCHANGED <<log, reporter, collector, total>>
    BY <1>7 DEF Track
  <2>2. Tiled' /\ Closed' /\ OnTheWay'
    BY <1>1, <1>2, <2>1, BeforeHead
  <2>3. Phases'
    BY <1>1, <1>2, <1>3, <2>1 DEF Reporting, Phases, Found
  <2>4. SourceOver'
    BY <1>1, <2>1 DEF Reporting, SourceOver
  <2>5. Bytes'
    BY <1>1, <1>2, <2>1 DEF Reporting, Bytes, Found
  <2> QED
    BY <2>2, <2>3, <2>4, <2>5 DEF Reporting
<1>8. CASE listening
  <2>0. SUFFICES ASSUME NEW h, h = HeadEvent(pc, Holds(frames, "trailers"))
                 PROVE  Reporting'
    OBVIOUS
  <2>1. /\ log' = Append(log, h) /\ pc' = "forward" /\ collector' = rest
        /\ reporter' = (IF rest THEN "running" ELSE "none")
        /\ total' = Len(content) /\ failure' = failure
    BY <1>8, <2>0 DEF Track, PrevBytes, Holds
  <2>2. /\ IsData(h) /\ h.offset = 0 /\ h.payload = content
        /\ h.total = Len(content)
        /\ h.at_end <=> pc = "Complete"
        /\ h.trailers <=> Holds(frames, "trailers")
    <3>1. h.type \in {"NoBody", "NotRead", "Data"}
      BY <2>0 DEF HeadEvent
    <3> QED
      BY <2>0, <3>1 DEF HeadEvent, IsData
  <2>3. log' = <<h>> /\ Len(log') = 1 /\ log'[1] = h /\ log' # <<>>
    BY <1>2, <2>1
  <2>4. EndShown' => pc = "Complete"
    BY <2>2, <2>3 DEF EndShown
  <2>5. Phases'
    BY <1>1, <1>2, <1>3, <1>4, <2>1, <2>3 DEF Reporting, Phases, Found
  <2>6. SourceOver'
    BY <1>1, <2>1 DEF Reporting, SourceOver
  <2>7. Bytes'
    <3>1. Undispatched' = <<>> /\ Len(<<>>) = 0
      BY <1>1, <1>3 DEF Undispatched
    <3>2. Runs(<<>>, total') /\ Runs(<<>>, total' + Len(<<>>))
      BY DEF Runs
    <3>3. total' + Len(buffer') + Len(Undispatched') + Len(peeked'.bytes) = read'
      BY <1>1, <1>2, <1>4, <1>5, <2>1, <3>1
    <3> QED
      BY <1>1, <1>2, <2>1, <3>1, <3>2, <3>3 DEF Reporting, Bytes, Found
  <2>8. Tiled'
    <3>1. \A i \in 1..Len(log') : i = 1
      BY <2>3
    <3>2. ReportsTile'
      BY <1>4, <1>5, <2>2, <2>3, <3>1 DEF ReportsTile, Runs
    <3>3. LastData(1)' /\ log'[1].total <= read' /\ log'[1].total = total'
      BY <1>1, <1>4, <1>5, <2>1, <2>2, <2>3 DEF LastData
    <3> QED
      BY <2>3, <3>2, <3>3 DEF Tiled
  <2>9. Closed'
    BY <1>1, <1>2, <1>6, <2>1, <2>2, <2>3, <2>4 DEF Closed
  <2>10. OnTheWay'
    <3>1. Holds(frames', "trailers") => Flagged'
      BY <1>1, <2>2, <2>3 DEF Flagged, Holds
    <3>2. ~HasError(delivered') /\ ~Holds(delivered', "trailers")
      BY <1>1, <1>3 DEF HasError, Holds
    <3> QED
      BY <1>1, <1>2, <3>1, <3>2 DEF OnTheWay
  <2> QED
    BY <2>5, <2>6, <2>7, <2>8, <2>9, <2>10 DEF Reporting
<1> QED
  BY <1>7, <1>8

-----------------------------------------------------------------------------
(* Forwarding                                                              *)

(* One more item at the end of what was delivered.                         *)
LEMMA Delivered ==
  ASSUME TypeOK, NEW item \in Item, delivered' = Append(delivered, item),
         NEW t
  PROVE  Holds(delivered', t) <=> Holds(delivered, t) \/ item.type = t
<1>1. /\ Len(delivered) \in Nat /\ Len(delivered') = Len(delivered) + 1
      /\ delivered'[Len(delivered) + 1] = item
      /\ \A i \in 1..Len(delivered) : delivered'[i] = delivered[i]
  BY DEF TypeOK
<1>2. \A i \in 1..Len(delivered') : i \in 1..Len(delivered) \/ i = Len(delivered) + 1
  BY <1>1
<1>3. \A i \in 1..Len(delivered) : i \in 1..Len(delivered')
  BY <1>1
<1>4. Len(delivered) + 1 \in 1..Len(delivered')
  BY <1>1
<1> QED
  BY <1>1, <1>2, <1>3, <1>4 DEF Holds

(* The prefetched frames were shown with the head event.                   *)
LEMMA ForwardReporting ==
  ASSUME TypeOK, InTransit, Reporting, ForwardPrefetched
  PROVE  Reporting'
<1> USE DEF sourceVars, sharedVars, taskVars
<1>1. /\ pc = "forward" /\ frames # <<>>
      /\ delivered' = Append(delivered, Head(frames)) /\ frames' = Tail(frames)
      /\ UNCHANGED <<source, read, peeked, fused, pc, failure, content, rest,
                     held, dispatch, collector, trailers, buffer, channel,
                     reporter, total, log>>
  BY DEF ForwardPrefetched
<1>2. Head(frames) \in Item /\ Head(frames) = frames[1] /\ 1 \in 1..Len(frames)
  BY <1>1 DEF TypeOK
<1>3. \A t : Holds(frames', t) => Holds(frames, t)
  <2>1. /\ Len(frames') = Len(frames) - 1 /\ Len(frames) \in Nat
        /\ \A i \in 1..Len(frames') : i + 1 \in 1..Len(frames) /\ frames'[i] = frames[i + 1]
    BY <1>1 DEF TypeOK
  <2> QED
    BY <2>1 DEF Holds
<1>4. \A s : HasError(s) <=> Holds(s, "error")
  BY DEF HasError, Holds
<1>5. ~Holds(frames, "error")
  BY <1>1, <1>4 DEF Reporting, Phases
<1>6. SourceOver'
  BY <1>1 DEF Reporting, SourceOver
<1>7. Phases'
  <2>1. ~HasError(frames')
    BY <1>3, <1>4, <1>5
  <2> QED
    BY <1>1, <2>1 DEF Reporting, Phases, Found
<1>8. Bytes'
  BY <1>1 DEF Reporting, Bytes, Undispatched, Runs
<1>9. Tiled' /\ Closed'
  BY <1>1 DEF Reporting, Tiled, ReportsTile, LastData, Closed, EndShown
<1>10. OnTheWay'
  <2>1. log # <<>> /\ Holds(frames, "trailers") => Flagged
    BY DEF Reporting, OnTheWay
  <2>2. reporter = "running" \/ EndShown =>
          /\ HasError(delivered) => Holds(log, "Error") \/ Queued("error")
          /\ Holds(delivered, "trailers")
               => Flagged \/ trailers \/ Queued("trailers")
    BY DEF Reporting, OnTheWay
  <2>3. HasError(delivered') => HasError(delivered)
    <3>1. Head(frames).type # "error"
      BY <1>2, <1>5 DEF Holds
    <3> QED
      BY <1>1, <1>2, <1>4, <3>1, Delivered
  <2>4. Holds(delivered', "trailers") => Holds(delivered, "trailers") \/ Holds(frames, "trailers")
    <3>1. Head(frames).type = "trailers" => Holds(frames, "trailers")
      BY <1>2 DEF Holds
    <3> QED
      BY <1>1, <1>2, <3>1, Delivered
  <2>5. reporter = "running" \/ EndShown => log # <<>>
    BY DEF Reporting, Phases, EndShown
  <2>6. /\ EndShown' <=> EndShown
        /\ Flagged' <=> Flagged
        /\ Holds(log', "Error") <=> Holds(log, "Error")
        /\ \A t : Queued(t)' <=> Queued(t)
    BY <1>1 DEF EndShown, Flagged, Queued
  <2>7. \A i \in 1..Len(channel) : channel[i] = "eof" => i = Len(channel) /\ pc = "done"
    BY DEF Reporting, OnTheWay
  <2> QED
    BY <1>1, <1>3, <2>1, <2>2, <2>3, <2>4, <2>5, <2>6, <2>7 DEF OnTheWay
<1> QED
  BY <1>6, <1>7, <1>8, <1>9, <1>10 DEF Reporting

(* What was published is the same, whatever the source has yielded since.  *)
LEMMA SameLog ==
  ASSUME TypeOK, Tiled, UNCHANGED <<log, reporter, total>>,
         read' \in Nat, read <= read'
  PROVE  Tiled'
<1>1. ReportsTile'
  BY DEF Tiled, ReportsTile
<1>2. ASSUME log # <<>>
      PROVE  \E i \in 1..Len(log) :
               /\ LastData(i)' /\ log'[i].total <= read'
               /\ reporter' = "running" => log'[i].total = total'
  <2>1. PICK i \in 1..Len(log) :
               /\ LastData(i) /\ log[i].total <= read
               /\ reporter = "running" => log[i].total = total
    BY <1>2 DEF Tiled
  <2>2. log[i] \in Event
    BY DEF TypeOK
  <2>3. log[i].total \in Nat /\ read \in Nat
    BY <2>2 DEF TypeOK, Event
  <2>4. LastData(i)'
    BY <2>1 DEF LastData
  <2> QED
    BY <2>1, <2>3, <2>4
<1> QED
  BY <1>1, <1>2 DEF Tiled

(* The end of a body that was wholly prefetched.                           *)
LEMMA ForwardEndReporting ==
  ASSUME TypeOK, InTransit, Reporting, ForwardEnd
  PROVE  Reporting'
<1> USE DEF sourceVars, wrapperVars, sharedVars, taskVars
<1>1. /\ pc = "forward" /\ pc' = "done" /\ ~rest
      /\ UNCHANGED <<source, read, peeked, fused, failure, content, rest,
                     held, dispatch, collector, trailers, buffer, channel,
                     reporter, total, log, frames, delivered>>
  BY DEF ForwardEnd
<1>2. SourceOver' /\ Phases'
  BY <1>1 DEF Reporting, SourceOver, Phases, Found
<1>3. Bytes'
  BY <1>1 DEF Reporting, Bytes, Undispatched, Runs, Found
<1>4. Tiled' /\ Closed'
  BY <1>1 DEF Reporting, Tiled, ReportsTile, LastData, Closed, EndShown
<1>5. OnTheWay'
  BY <1>1 DEF Reporting, OnTheWay, EndShown, Flagged, Queued, Holds, HasError
<1> QED
  BY <1>2, <1>3, <1>4, <1>5 DEF Reporting

(* poll_next takes the peeked item or the next of the source: its bytes    *)
(* follow those that were taken before.                                    *)
LEMMA PollBytes ==
  ASSUME TypeOK, Reporting, NEW item, PollRest(item)
  PROVE  /\ item \in Item /\ Len(item.bytes) \in Nat
         /\ peeked' = NoItem /\ Len(peeked'.bytes) = 0
         /\ read' = (read - Len(peeked.bytes)) + Len(item.bytes)
         /\ Runs(item.bytes, read - Len(peeked.bytes))
         /\ read' \in Nat /\ read <= read'
         /\ fused' => source' = "closed"
         /\ item.type = "eof" => item = Eof
<1>1. Len(NoItem.bytes) = 0
  BY MarkItem DEF NoItem, ItemTypes
<1>2. /\ read \in Nat /\ Len(peeked.bytes) \in Nat /\ Len(peeked.bytes) <= read
      /\ Runs(peeked.bytes, read - Len(peeked.bytes))
      /\ fused => source = "closed"
      /\ peeked.type # "eof"
  BY DEF TypeOK, Item, Reporting, Bytes, SourceOver, Phases
<1>3. CASE peeked # NoItem
  <2>1. item = peeked /\ peeked' = NoItem /\ UNCHANGED <<source, read, fused>>
    BY <1>3 DEF PollRest
  <2>2. item \in Item
    BY <2>1 DEF TypeOK
  <2> QED
    BY <1>1, <1>2, <2>1, <2>2
<1>4. CASE peeked = NoItem
  <2>1. Yield(item) /\ fused' = (fused \/ item = Eof) /\ peeked' = NoItem
    BY <1>4 DEF PollRest
  <2>2. item \in Available
    BY <2>1 DEF Yield
  <2>3. item.type = "eof" => item = Eof
    BY <2>2, AvailableItems
  <2>4. /\ item \in Item /\ Len(item.bytes) \in Nat
        /\ read' = read + Len(item.bytes)
        /\ Runs(item.bytes, read)
        /\ source = "closed" => item = Eof
        /\ item = Eof => source' = "closed"
    BY <2>1, YieldBytes
  <2>5. Len(peeked.bytes) = 0 /\ read - Len(peeked.bytes) = read
    BY <1>1, <1>2, <1>4
  <2>6. fused' => source' = "closed"
    BY <1>2, <2>1, <2>4
  <2>7. Runs(item.bytes, read - Len(peeked.bytes)) /\ read <= read' /\ read' \in Nat
        /\ read' = (read - Len(peeked.bytes)) + Len(item.bytes)
    BY <1>2, <2>4, <2>5
  <2> QED
    BY <1>1, <2>1, <2>3, <2>4, <2>6, <2>7
<1> QED
  BY <1>3, <1>4

(* While the rest is polled the end has not been published.                *)
LEMMA NotOver ==
  ASSUME Reporting, pc = "forward", rest
  PROVE  /\ ~EndShown
         /\ \A i \in 1..Len(channel) : channel[i] # "eof"
BY DEF Reporting, Closed, OnTheWay

(* BodyStreamWrapper::poll_next, state None.                               *)
LEMMA PollReporting ==
  ASSUME TypeOK, InTransit, Reporting, PollSource
  PROVE  Reporting'
<1> USE DEF sharedVars, taskVars
<1>1. /\ pc = "forward" /\ frames = <<>> /\ rest /\ held = NoItem
      /\ UNCHANGED <<failure, frames, content, rest, collector, buffer, channel,
                     reporter, trailers, total, log>>
  BY DEF PollSource
<1>2. PICK item : /\ PollRest(item)
                  /\ IF collector
                     THEN /\ held' = item /\ dispatch' = "started"
                          /\ UNCHANGED <<delivered, pc>>
                     ELSE Return(item)
  BY DEF PollSource
<1>3. dispatch = "idle"
  BY <1>1 DEF InTransit, Stages
<1>4. /\ item \in Item /\ Len(item.bytes) \in Nat
      /\ peeked' = NoItem /\ Len(peeked'.bytes) = 0
      /\ read' = (read - Len(peeked.bytes)) + Len(item.bytes)
      /\ Runs(item.bytes, read - Len(peeked.bytes))
      /\ read' \in Nat /\ read <= read'
      /\ fused' => source' = "closed"
      /\ item.type = "eof" => item = Eof
  BY <1>2, PollBytes
<1>5. pc' \in {"forward", "done"}
  BY <1>1, <1>2 DEF Return
<1>6. ~EndShown /\ \A i \in 1..Len(channel) : channel[i] # "eof"
  BY <1>1, NotOver
<1>7. ~EndShown'
  BY <1>1, <1>6 DEF EndShown
<1>8. SourceOver'
  BY <1>1, <1>4, <1>5 DEF Reporting, SourceOver
<1>9. Phases'
  <2>1. /\ dispatch' # "idle" => collector
        /\ dispatch' = "idle" => held' = NoItem
        /\ held' \in {item, NoItem}
    BY <1>2 DEF Return
  <2> QED
    BY <1>1, <1>4, <1>5, <2>1, NoItemType DEF Reporting, Phases, Found, HasError
<1>10. Bytes'
  <2>1. Runs(peeked'.bytes, read' - Len(peeked'.bytes))
    BY <1>4 DEF Runs
  <2>2. ASSUME reporter' = "running"
        PROVE  /\ total' + Len(buffer') + Len(Undispatched') + Len(peeked'.bytes) = read'
               /\ Runs(buffer', total')
               /\ Runs(Undispatched', total' + Len(buffer'))
    <3>1. reporter = "running" /\ collector
      BY <1>1, <2>2 DEF Reporting, Phases
    <3>2. Undispatched' = item.bytes /\ Undispatched = <<>>
      BY <1>2, <1>3, <3>1 DEF Undispatched
    <3>3. /\ total + Len(buffer) + Len(Undispatched) + Len(peeked.bytes) = read
          /\ Runs(buffer, total)
      BY <3>1 DEF Reporting, Bytes
    <3>4. /\ total \in Nat /\ Len(buffer) \in Nat /\ Len(peeked.bytes) \in Nat
          /\ read \in Nat
      BY DEF TypeOK, Item
    <3>5. Len(Undispatched) = 0
      BY <3>2
    <3>6. /\ read - Len(peeked.bytes) = total + Len(buffer)
          /\ (read - Len(peeked.bytes)) + Len(item.bytes)
               = total + Len(buffer) + Len(item.bytes) + 0
      <4>1. /\ total + Len(buffer) + Len(Undispatched) + Len(peeked.bytes) = read
            /\ Len(Undispatched) \in Nat /\ Len(item.bytes) \in Nat
        BY <1>4, <3>3, <3>5
      <4> DEFINE b == Len(buffer)
                 u == Len(Undispatched)
                 p == Len(peeked.bytes)
                 n == Len(item.bytes)
      <4>2. /\ b \in Nat /\ u \in Nat /\ p \in Nat /\ n \in Nat /\ u = 0
            /\ total \in Nat /\ read \in Nat /\ total + b + u + p = read
        BY <3>4, <3>5, <4>1
      <4> HIDE DEF b, u, p, n
      <4>3. read - p = total + b /\ (read - p) + n = total + b + n + 0
        BY <4>2
      <4> QED
        BY <4>3 DEF b, u, p, n
    <3>7. Runs(Undispatched', total' + Len(buffer')) /\ Runs(buffer', total')
      BY <1>1, <1>4, <3>2, <3>3, <3>6
    <3>8. read' = total + Len(buffer) + Len(item.bytes) + 0
      BY <1>4, <3>6
    <3> QED
      BY <1>1, <1>4, <3>2, <3>7, <3>8
  <2> QED
    BY <1>1, <1>4, <1>5, <2>1, <2>2 DEF Reporting, Bytes, Found
<1>11. Tiled'
  BY <1>1, <1>4, SameLog DEF Reporting
<1>12. Closed'
  BY <1>7 DEF Closed, EndShown
<1>13. OnTheWay'
  <2>1. reporter' = "running" => delivered' = delivered /\ reporter = "running"
    BY <1>1, <1>2 DEF Reporting, Phases
  <2> QED
    BY <1>1, <1>6, <1>7, <2>1 DEF Reporting, OnTheWay, Flagged, Queued, Holds, HasError
<1> QED
  BY <1>8, <1>9, <1>10, <1>11, <1>12, <1>13 DEF Reporting

-----------------------------------------------------------------------------
(* Dispatching                                                             *)

(* A frame waits to be reported only while the body is forwarded.          *)
LEMMA Dispatching ==
  ASSUME TypeOK, InTransit, Reporting, dispatch # "idle"
  PROVE  /\ pc = "forward" /\ rest = TRUE /\ frames = <<>> /\ held # NoItem
         /\ held \in Item /\ collector = TRUE /\ reporter # "none"
         /\ ~EndShown /\ \A i \in 1..Len(channel) : channel[i] # "eof"
<1>1. pc = "forward" /\ rest = TRUE /\ frames = <<>> /\ held # NoItem /\ held \in Item
  BY DEF InTransit, Stages, TypeOK
<1>2. collector = TRUE /\ reporter # "none"
  BY DEF Reporting, Phases, TypeOK
<1> QED
  BY <1>1, <1>2, NotOver

(* dispatch puts the bytes of the frame in the shared buffer.              *)
LEMMA ExtendReporting ==
  ASSUME TypeOK, InTransit, Reporting, DispatchExtend
  PROVE  Reporting'
<1> USE DEF sourceVars, handlerVars, taskVars
<1>1. /\ dispatch = "started" /\ dispatch' = "sending"
      /\ buffer' = buffer \o held.bytes
      /\ UNCHANGED <<source, read, peeked, fused, pc, failure, frames, content,
                     rest, held, collector, delivered, channel, reporter,
                     trailers, total, log>>
  BY DEF DispatchExtend
<1>2. /\ pc = "forward" /\ held # NoItem /\ held \in Item
      /\ collector = TRUE /\ reporter # "none"
  BY <1>1, Dispatching
<1>3. SourceOver' /\ Phases'
  BY <1>1, <1>2 DEF Reporting, SourceOver, Phases, Found
<1>4. Bytes'
  <2>1. ASSUME reporter = "running"
        PROVE  /\ total' + Len(buffer') + Len(Undispatched') + Len(peeked'.bytes) = read'
               /\ Runs(buffer', total')
               /\ Runs(Undispatched', total' + Len(buffer'))
    <3>1. Undispatched = held.bytes /\ Undispatched' = <<>>
      BY <1>1 DEF Undispatched
    <3>2. /\ total + Len(buffer) + Len(held.bytes) + Len(peeked.bytes) = read
          /\ Runs(buffer, total) /\ Runs(held.bytes, total + Len(buffer))
      BY <2>1, <3>1 DEF Reporting, Bytes
    <3>3. buffer \in Seq(Nat) /\ held.bytes \in Seq(Nat) /\ total \in Nat
          /\ read \in Nat /\ Len(peeked.bytes) \in Nat
      BY <1>2 DEF TypeOK, Item
    <3>4. Len(buffer) \in Nat /\ Len(held.bytes) \in Nat
      BY <3>3
    <3>5. /\ Len(buffer') = Len(buffer) + Len(held.bytes)
          /\ \A k \in 1..Len(buffer') :
               buffer'[k] = IF k <= Len(buffer) THEN buffer[k]
                            ELSE held.bytes[k - Len(buffer)]
      BY <1>1, <3>3
    <3>6. Len(Undispatched') = 0 /\ Runs(Undispatched', total' + Len(buffer'))
      BY <3>1 DEF Runs
    <3>7. Runs(buffer', total')
      <4> SUFFICES ASSUME NEW k \in 1..Len(buffer') PROVE buffer'[k] = total + k
        BY <1>1 DEF Runs
      <4>1. CASE k <= Len(buffer)
        <5>1. k \in 1..Len(buffer) /\ buffer'[k] = buffer[k]
          BY <3>4, <3>5, <4>1
        <5> QED
          BY <3>2, <5>1 DEF Runs
      <4>2. CASE k > Len(buffer)
        <5>1. /\ k - Len(buffer) \in 1..Len(held.bytes)
              /\ buffer'[k] = held.bytes[k - Len(buffer)]
          BY <3>4, <3>5, <4>2
        <5>2. held.bytes[k - Len(buffer)] = total + Len(buffer) + (k - Len(buffer))
          BY <3>2, <5>1 DEF Runs
        <5> QED
          BY <3>3, <3>4, <5>1, <5>2
      <4> QED
        BY <3>4, <4>1, <4>2
    <3>8. total + Len(buffer') + 0 + Len(peeked.bytes) = read
      <4> DEFINE b == Len(buffer)
                 c == Len(buffer')
                 n == Len(held.bytes)
                 p == Len(peeked.bytes)
      <4>1. /\ b \in Nat /\ n \in Nat /\ p \in Nat /\ total \in Nat /\ read \in Nat
            /\ c = b + n /\ total + b + n + p = read
        BY <3>2, <3>3, <3>4, <3>5
      <4> HIDE DEF b, c, n, p
      <4>2. total + c + 0 + p = read
        BY <4>1
      <4> QED
        BY <4>2 DEF b, c, n, p
    <3> QED
      BY <1>1, <3>6, <3>7, <3>8
  <2> QED
    BY <1>1, <1>2, <2>1 DEF Reporting, Bytes, Found
<1>5. Tiled' /\ Closed'
  BY <1>1 DEF Reporting, Tiled, ReportsTile, LastData, Closed, EndShown
<1>6. OnTheWay'
  BY <1>1 DEF Reporting, OnTheWay, EndShown, Flagged, Queued, Holds, HasError
<1> QED
  BY <1>3, <1>4, <1>5, <1>6 DEF Reporting

(* Where the bytes are does not change when no byte moves.                 *)
LEMMA SameBytes ==
  ASSUME Bytes, UNCHANGED <<content, peeked, read, total, buffer>>,
         Undispatched' = Undispatched,
         reporter' = "running" => reporter = "running",
         pc' \in {"collect", "peek"} \cup Found => pc' = pc
  PROVE  Bytes'
BY DEF Bytes, Runs

(* The channel is full.                                                    *)
LEMMA BlockReporting ==
  ASSUME TypeOK, InTransit, Reporting, DispatchBlock
  PROVE  Reporting'
<1> USE DEF sourceVars, handlerVars, sharedVars, taskVars
<1>1. /\ dispatch = "sending" /\ dispatch' = "blocked"
      /\ UNCHANGED <<source, read, peeked, fused, pc, failure, frames, content,
                     rest, held, collector, delivered, channel, reporter,
                     trailers, total, log, buffer>>
  BY DEF DispatchBlock
<1>2. SourceOver' /\ Phases'
  BY <1>1 DEF Reporting, SourceOver, Phases, Found
<1>3. Bytes'
  BY <1>1, SameBytes DEF Reporting, Undispatched
<1>4. Tiled' /\ Closed'
  BY <1>1 DEF Reporting, Tiled, ReportsTile, LastData, Closed, EndShown
<1>5. OnTheWay'
  BY <1>1 DEF Reporting, OnTheWay, EndShown, Flagged, Queued, Holds, HasError
<1> QED
  BY <1>2, <1>3, <1>4, <1>5 DEF Reporting

(* The reader gets a frame in the step that queues it for the reporter, or *)
(* after the reporter has gone.                                            *)
LEMMA ReturnReporting ==
  ASSUME TypeOK, InTransit, Reporting, DispatchSend \/ DispatchFail
  PROVE  Reporting'
<1> USE DEF sourceVars, taskVars, sharedVars
<1>1. /\ dispatch \in {"sending", "blocked"} /\ Return(held)
      /\ UNCHANGED <<source, read, peeked, fused, failure, frames, content,
                     rest, reporter, trailers, total, log, buffer>>
      /\ collector' = collector \/ (collector' = FALSE /\ reporter # "running")
  BY DEF DispatchSend, DispatchFail
<1>2. /\ pc = "forward" /\ rest = TRUE /\ frames = <<>> /\ held # NoItem
      /\ held \in Item /\ collector = TRUE /\ reporter # "none"
      /\ ~EndShown /\ \A i \in 1..Len(channel) : channel[i] # "eof"
  BY <1>1, Dispatching
<1>3. /\ held' = NoItem /\ dispatch' = "idle"
      /\ pc' \in {"forward", "done"} /\ (held = Eof => pc' = "done")
  BY <1>1, <1>2 DEF Return
<1>4. ~EndShown'
  BY <1>1, <1>2 DEF EndShown
<1>5. SourceOver'
  BY <1>1, <1>2, <1>3 DEF Reporting, SourceOver
<1>6. Phases'
  BY <1>1, <1>2, <1>3, NoItemType DEF Reporting, Phases, Found
<1>7. Bytes'
  <2>1. Undispatched' = Undispatched
    BY <1>1, <1>3 DEF Undispatched
  <2> QED
    BY <1>1, <1>2, <1>3, <2>1, SameBytes DEF Reporting, Found
<1>8. Tiled'
  BY <1>1 DEF Reporting, Tiled, ReportsTile, LastData
<1>9. Closed'
  BY <1>4 DEF Closed, EndShown
<1>10. OnTheWay'
  <2>1. log' # <<>> /\ Holds(frames', "trailers") => Flagged'
    BY <1>1 DEF Reporting, OnTheWay, Holds, Flagged
  <2>2. CASE DispatchFail
    <3>1. reporter' # "running" /\ channel' = channel
      BY <2>2 DEF DispatchFail
    <3> QED
      BY <1>2, <1>4, <2>1, <3>1 DEF OnTheWay
  <2>3. CASE DispatchSend
    <3>1. reporter = "running" /\ channel' = Append(channel, held.type)
      BY <2>3 DEF DispatchSend
    <3>2. channel \in Seq(ItemTypes) /\ held.type \in ItemTypes
      BY <1>2 DEF TypeOK, Item
    <3>3. /\ Len(channel) \in Nat /\ Len(channel') = Len(channel) + 1
          /\ channel'[Len(channel) + 1] = held.type
          /\ \A i \in 1..Len(channel) : channel'[i] = channel[i]
      BY <3>1, <3>2
    <3>4. \A i \in 1..Len(channel') : i \in 1..Len(channel) \/ i = Len(channel) + 1
      BY <3>3
    <3>5. \A t : Queued(t) \/ held.type = t => Queued(t)'
      <4>1. Len(channel) + 1 \in 1..Len(channel')
        BY <3>3
      <4>2. \A i \in 1..Len(channel) : i \in 1..Len(channel')
        BY <3>3
      <4> QED
        BY <3>3, <4>1, <4>2 DEF Queued
    <3>6. \A t : Holds(delivered', t) => Holds(delivered, t) \/ held.type = t
      <4>1. CASE held = Eof
        BY <1>1, <4>1 DEF Return
      <4>2. CASE held # Eof
        <5>1. delivered' = Append(delivered, held)
          BY <1>1, <4>2 DEF Return
        <5> QED
          BY <1>2, <5>1, Delivered
      <4> QED
        BY <4>1, <4>2
    <3>7. \A i \in 1..Len(channel') :
            channel'[i] = "eof" => i = Len(channel') /\ pc' = "done"
      <4>1. held.type = "eof" => pc' = "done"
        BY <1>3 DEF Reporting, Phases
      <4> QED
        BY <1>2, <3>3, <3>4, <4>1
    <3>8. /\ HasError(delivered) => Holds(log, "Error") \/ Queued("error")
          /\ Holds(delivered, "trailers")
               => Flagged \/ trailers \/ Queued("trailers")
      BY <3>1 DEF Reporting, OnTheWay
    <3>9. (Flagged' <=> Flagged) /\ (Holds(log', "Error") <=> Holds(log, "Error"))
      BY <1>1 DEF Flagged, Holds
    <3>10. HasError(delivered') => HasError(delivered) \/ held.type = "error"
      BY <3>6 DEF HasError, Holds
    <3> QED
      BY <1>1, <2>1, <3>5, <3>6, <3>7, <3>8, <3>9, <3>10 DEF OnTheWay
  <2> QED
    BY <2>2, <2>3
<1> QED
  BY <1>5, <1>6, <1>7, <1>8, <1>9, <1>10 DEF Reporting

(* The body is dropped between polls.                                      *)
LEMMA DropReporting ==
  ASSUME TypeOK, InTransit, Reporting, Drop
  PROVE  Reporting'
<1> USE DEF sourceVars, sharedVars, taskVars
<1>1. /\ pc \in {"collect", "forward"} /\ pc' = "dropped"
      /\ held = NoItem \/ dispatch = "blocked"
      /\ held' = NoItem /\ dispatch' = "idle"
      /\ UNCHANGED <<source, read, peeked, fused, failure, frames, content,
                     rest, collector, delivered, channel, reporter,
                     trailers, total, log, buffer>>
  BY DEF Drop
<1>2. Undispatched' = Undispatched
  <2>1. dispatch # "started"
    BY <1>1 DEF InTransit, Stages
  <2> QED
    BY <1>1, <2>1 DEF Undispatched
<1>3. SourceOver' /\ Phases'
  BY <1>1, NoItemType DEF Reporting, SourceOver, Phases, Found
<1>4. Bytes'
  BY <1>1, <1>2, SameBytes DEF Reporting, Found
<1>5. Tiled' /\ Closed'
  BY <1>1 DEF Reporting, Tiled, ReportsTile, LastData, Closed, EndShown
<1>6. OnTheWay'
  BY <1>1 DEF Reporting, OnTheWay, EndShown, Flagged, Queued, Holds, HasError
<1> QED
  BY <1>3, <1>4, <1>5, <1>6 DEF Reporting

-----------------------------------------------------------------------------
(* The reporter task                                                       *)

(* While it runs it has its collector and the end is still to come.        *)
LEMMA Running ==
  ASSUME TypeOK, Reporting, reporter = "running"
  PROVE  /\ collector = TRUE /\ rest = TRUE /\ ~EndShown /\ log # <<>>
         /\ \A i \in 1..Len(log) : ~log[i].at_end
         /\ pc \notin {"collect", "peek"} \cup Found
         /\ HasError(delivered) => Holds(log, "Error") \/ Queued("error")
         /\ Holds(delivered, "trailers")
              => Flagged \/ trailers \/ Queued("trailers")
<1>1. collector = TRUE /\ rest = TRUE /\ log # <<>>
      /\ pc \notin {"collect", "peek"} \cup Found
  BY DEF Reporting, Phases, TypeOK
<1>2. ~EndShown
  BY DEF Reporting, Closed
<1> QED
  BY <1>1, <1>2 DEF EndShown, Reporting, OnTheWay

(* One event less in the channel.                                          *)
LEMMA Received ==
  ASSUME TypeOK, Reporting, NEW type, Receive(type), pc' = pc
  PROVE  /\ \A t : Queued(t) => Queued(t)' \/ t = type
         /\ \A i \in 1..Len(channel') :
              channel'[i] = "eof" => i = Len(channel') /\ pc' = "done"
         /\ type = "eof" => channel' = <<>> /\ pc = "done"
<1>1. channel \in Seq(ItemTypes) /\ channel # <<>> /\ Head(channel) = type
      /\ channel' = Tail(channel)
  BY DEF Receive, TypeOK
<1>2. /\ Len(channel) \in Nat \ {0} /\ Len(channel') = Len(channel) - 1
      /\ \A i \in 1..Len(channel') : channel'[i] = channel[i + 1]
      /\ channel[1] = type /\ channel' \in Seq(ItemTypes)
  BY <1>1
<1>3. \A i \in 1..Len(channel) :
        channel[i] = "eof" => i = Len(channel) /\ pc = "done"
  BY DEF Reporting, OnTheWay
<1>4. ASSUME NEW t, Queued(t) PROVE Queued(t)' \/ t = type
  <2>1. PICK i \in 1..Len(channel) : channel[i] = t
    BY <1>4 DEF Queued
  <2>2. CASE i = 1
    BY <1>2, <2>1, <2>2
  <2>3. CASE i # 1
    <3>1. i - 1 \in 1..Len(channel') /\ (i - 1) + 1 = i
      BY <1>2, <2>3
    <3>2. channel'[i - 1] = t
      BY <1>2, <2>1, <3>1
    <3> QED
      BY <3>1, <3>2 DEF Queued
  <2> QED
    BY <2>2, <2>3
<1>5. ASSUME NEW i \in 1..Len(channel'), channel'[i] = "eof"
      PROVE  i = Len(channel') /\ pc' = "done"
  <2>1. i + 1 \in 1..Len(channel) /\ channel[i + 1] = "eof"
    BY <1>2, <1>5
  <2>2. i + 1 = Len(channel) /\ pc = "done"
    BY <1>3, <2>1
  <2> QED
    BY <1>2, <2>2
<1>6. type = "eof" => channel' = <<>> /\ pc = "done"
  <2> SUFFICES ASSUME type = "eof" PROVE channel' = <<>> /\ pc = "done"
    OBVIOUS
  <2>1. 1 \in 1..Len(channel) /\ channel[1] = "eof"
    BY <1>2
  <2>2. Len(channel) = 1 /\ pc = "done"
    BY <1>3, <2>1
  <2>3. Len(channel') = 1 - 1
    BY <1>2, <2>2
  <2>4. Len(channel') = 0 /\ channel' \in Seq(ItemTypes)
    BY <1>2, <2>3
  <2>5. channel' = <<>>
    BY <2>4
  <2> QED
    BY <2>2, <2>5
<1> QED
  BY <1>4, <1>5, <1>6

(* Data and trailers come out of the channel.                              *)
LEMMA RecvReporting ==
  ASSUME TypeOK, InTransit, Reporting, RecvData \/ RecvTrailers
  PROVE  Reporting'
<1> USE DEF sourceVars, handlerVars, wrapperVars
<1>1. /\ reporter = "running"
      /\ UNCHANGED <<source, read, peeked, fused, pc, failure, frames, content,
                     rest, held, dispatch, collector, delivered, reporter,
                     total, log, buffer>>
  BY DEF RecvData, RecvTrailers, Receive
<1>2. PICK t \in {"data", "trailers"} :
        /\ Receive(t)
        /\ trailers' = trailers \/ trailers' = TRUE
        /\ t = "trailers" => trailers' = TRUE
  BY DEF RecvData, RecvTrailers
<1>3. /\ \A u : Queued(u) => Queued(u)' \/ u = t
      /\ \A i \in 1..Len(channel') :
           channel'[i] = "eof" => i = Len(channel') /\ pc' = "done"
  BY <1>1, <1>2, Received
<1>4. /\ collector = TRUE /\ rest = TRUE /\ ~EndShown /\ log # <<>>
      /\ HasError(delivered) => Holds(log, "Error") \/ Queued("error")
      /\ Holds(delivered, "trailers")
           => Flagged \/ trailers \/ Queued("trailers")
  BY <1>1, Running
<1>5. SourceOver' /\ Phases'
  BY <1>1 DEF Reporting, SourceOver, Phases, Found
<1>6. Bytes'
  BY <1>1, SameBytes DEF Reporting, Undispatched
<1>7. Tiled'
  BY <1>1 DEF Reporting, Tiled, ReportsTile, LastData
<1>8. ~EndShown'
  BY <1>1, <1>4 DEF EndShown
<1>9. Closed'
  BY <1>8 DEF Closed, EndShown
<1>10. OnTheWay'
  <2>1. log' # <<>> /\ Holds(frames', "trailers") => Flagged'
    BY <1>1 DEF Reporting, OnTheWay, Holds, Flagged
  <2>2. (Flagged' <=> Flagged) /\ (Holds(log', "Error") <=> Holds(log, "Error"))
        /\ (HasError(delivered') <=> HasError(delivered))
        /\ (Holds(delivered', "trailers") <=> Holds(delivered, "trailers"))
    BY <1>1 DEF Flagged, Holds, HasError
  <2>3. HasError(delivered') => Holds(log', "Error") \/ Queued("error")'
    BY <1>2, <1>3, <1>4, <2>2
  <2>4. Holds(delivered', "trailers") => Flagged' \/ trailers' \/ Queued("trailers")'
    BY <1>2, <1>3, <1>4, <2>2
  <2> QED
    BY <1>3, <2>1, <2>3, <2>4 DEF OnTheWay
<1> QED
  BY <1>5, <1>6, <1>7, <1>9, <1>10 DEF Reporting

(* One more event in the log.                                              *)
LEMMA Logged ==
  ASSUME TypeOK, NEW e \in Event, log' = Append(log, e)
  PROVE  /\ Len(log) \in Nat /\ Len(log') = Len(log) + 1
         /\ log'[Len(log) + 1] = e /\ Len(log) + 1 \in 1..Len(log')
         /\ \A i \in 1..Len(log) : i \in 1..Len(log') /\ log'[i] = log[i]
         /\ \A i \in 1..Len(log') : i \in 1..Len(log) \/ i = Len(log) + 1
         /\ Flagged' <=> Flagged \/ e.trailers
         /\ \A t : Holds(log', t) <=> Holds(log, t) \/ e.type = t
         /\ EndShown' <=> EndShown \/ e.at_end
<1>1. /\ Len(log) \in Nat /\ Len(log') = Len(log) + 1
      /\ log'[Len(log) + 1] = e
      /\ \A i \in 1..Len(log) : log'[i] = log[i]
  BY DEF TypeOK
<1>2. /\ Len(log) + 1 \in 1..Len(log')
      /\ \A i \in 1..Len(log) : i \in 1..Len(log')
      /\ \A i \in 1..Len(log') : i \in 1..Len(log) \/ i = Len(log) + 1
  BY <1>1
<1>3. Flagged' <=> Flagged \/ e.trailers
  BY <1>1, <1>2 DEF Flagged
<1>4. \A t : Holds(log', t) <=> Holds(log, t) \/ e.type = t
  BY <1>1, <1>2 DEF Holds
<1>5. EndShown' <=> EndShown \/ e.at_end
  BY <1>1, <1>2 DEF EndShown
<1> QED
  BY <1>1, <1>2, <1>3, <1>4, <1>5

(* Events already in the log go on tiling when one more is published.      *)
LEMMA OldTiles ==
  ASSUME TypeOK, ReportsTile, NEW e \in Event, log' = Append(log, e),
         NEW j \in 1..Len(log), IsData(log[j])
  PROVE  /\ log'[j].total = log'[j].offset + Len(log'[j].payload)
         /\ \A k \in 1..Len(log'[j].payload) :
              log'[j].payload[k] = log'[j].offset + k
         /\ \A i \in 1..(j - 1) :
              IsData(log'[i]) /\ (\A k \in (i + 1)..(j - 1) : ~IsData(log'[k]))
                => log'[i].total = log'[j].offset
<1>1. Len(log) \in Nat /\ \A i \in 1..Len(log) : log'[i] = log[i]
  BY Logged
<1>2. \A i \in 1..j : log'[i] = log[i]
  BY <1>1
<1>3. /\ log[j].total = log[j].offset + Len(log[j].payload)
      /\ \A k \in 1..Len(log[j].payload) : log[j].payload[k] = log[j].offset + k
      /\ \A i \in 1..(j - 1) :
           IsData(log[i]) /\ (\A k \in (i + 1)..(j - 1) : ~IsData(log[k]))
             => log[i].total = log[j].offset
  BY DEF ReportsTile
<1>4. log'[j] = log[j]
  BY <1>1
<1>5. ASSUME NEW i \in 1..(j - 1), IsData(log'[i]),
             \A k \in (i + 1)..(j - 1) : ~IsData(log'[k])
      PROVE  log'[i].total = log'[j].offset
  <2>1. log'[i] = log[i] /\ \A k \in (i + 1)..(j - 1) : log'[k] = log[k]
    BY <1>2
  <2>2. IsData(log[i]) /\ \A k \in (i + 1)..(j - 1) : ~IsData(log[k])
    BY <1>5, <2>1
  <2> QED
    BY <1>3, <1>4, <2>1, <2>2
<1> QED
  BY <1>3, <1>4, <1>5

(* The last content is the only last one.                                  *)
LEMMA OneLast ==
  ASSUME TypeOK, NEW i, NEW j, LastData(i), LastData(j)
  PROVE  i = j
<1>1. Len(log) \in Nat /\ i \in 1..Len(log) /\ j \in 1..Len(log)
  BY DEF TypeOK, LastData
<1>2. CASE i < j
  <2>1. j \in (i + 1)..Len(log)
    BY <1>1, <1>2
  <2> QED
    BY <2>1 DEF LastData
<1>3. CASE j < i
  <2>1. i \in (j + 1)..Len(log)
    BY <1>1, <1>3
  <2> QED
    BY <2>1 DEF LastData
<1> QED
  BY <1>1, <1>2, <1>3

(* The content that is published next begins where the last one ended.     *)
LEMMA NextTile ==
  ASSUME TypeOK, Tiled, reporter = "running", NEW e \in Event,
         log' = Append(log, e), IsData(e), e.offset = total,
         e.total = total + Len(e.payload), Runs(e.payload, total),
         NEW m, m = Len(log) + 1
  PROVE  ReportsTile' /\ LastData(m)'
<1>1. /\ Len(log) \in Nat /\ Len(log') = Len(log) + 1
      /\ log'[Len(log) + 1] = e /\ Len(log) + 1 \in 1..Len(log')
      /\ \A i \in 1..Len(log) : i \in 1..Len(log') /\ log'[i] = log[i]
      /\ \A i \in 1..Len(log') : i \in 1..Len(log) \/ i = Len(log) + 1
  BY Logged
<1>2. ASSUME NEW i \in 1..Len(log), IsData(log[i]),
             \A k \in (i + 1)..Len(log) : ~IsData(log[k])
      PROVE  log[i].total = total
  <2>1. LastData(i) /\ log # <<>>
    BY <1>1, <1>2 DEF LastData
  <2>2. PICK l \in 1..Len(log) : LastData(l) /\ log[l].total = total
    BY <2>1 DEF Tiled
  <2>3. i = l
    BY <2>1, <2>2, OneLast
  <2> QED
    BY <2>2, <2>3
<1>3. ASSUME NEW j \in 1..Len(log'), IsData(log'[j])
      PROVE  /\ log'[j].total = log'[j].offset + Len(log'[j].payload)
             /\ \A k \in 1..Len(log'[j].payload) :
                  log'[j].payload[k] = log'[j].offset + k
             /\ \A i \in 1..(j - 1) :
                  IsData(log'[i]) /\ (\A k \in (i + 1)..(j - 1) : ~IsData(log'[k]))
                    => log'[i].total = log'[j].offset
  <2>1. CASE j \in 1..Len(log)
    <3>1. IsData(log[j]) /\ ReportsTile
      BY <1>1, <1>3, <2>1 DEF Tiled
    <3> QED
      BY <2>1, <3>1, OldTiles
  <2>2. CASE j = Len(log) + 1
    <3>1. /\ log'[j].total = log'[j].offset + Len(log'[j].payload)
          /\ \A k \in 1..Len(log'[j].payload) :
               log'[j].payload[k] = log'[j].offset + k
      BY <1>1, <2>2 DEF Runs
    <3>2. ASSUME NEW i \in 1..(j - 1), IsData(log'[i]),
                 \A k \in (i + 1)..(j - 1) : ~IsData(log'[k])
          PROVE  log'[i].total = log'[j].offset
      <4>1. j - 1 = Len(log) /\ i \in 1..Len(log)
        BY <1>1, <2>2
      <4>2. \A k \in (i + 1)..Len(log) : k \in 1..Len(log) /\ ~IsData(log'[k])
        BY <1>1, <3>2, <4>1
      <4>3. IsData(log[i]) /\ \A k \in (i + 1)..Len(log) : ~IsData(log[k])
        BY <1>1, <3>2, <4>1, <4>2
      <4>4. log[i].total = total
        BY <1>2, <4>1, <4>3
      <4> QED
        BY <1>1, <2>2, <4>1, <4>4
    <3> QED
      BY <3>1, <3>2
  <2> QED
    BY <1>1, <2>1, <2>2
<1>4. ReportsTile'
  BY <1>3 DEF ReportsTile
<1>5. LastData(m)'
  BY <1>1 DEF LastData
<1> QED
  BY <1>4, <1>5

(* An error is published between contents and is none of them.             *)
LEMMA ErrorTile ==
  ASSUME TypeOK, Tiled, NEW e \in Event, log' = Append(log, e), ~IsData(e)
  PROVE  /\ ReportsTile'
         /\ \A i : LastData(i) => LastData(i)' /\ log'[i] = log[i]
<1>1. /\ Len(log) \in Nat /\ Len(log') = Len(log) + 1
      /\ log'[Len(log) + 1] = e /\ Len(log) + 1 \in 1..Len(log')
      /\ \A i \in 1..Len(log) : i \in 1..Len(log') /\ log'[i] = log[i]
      /\ \A i \in 1..Len(log') : i \in 1..Len(log) \/ i = Len(log) + 1
  BY Logged
<1>2. ASSUME NEW j \in 1..Len(log'), IsData(log'[j])
      PROVE  /\ log'[j].total = log'[j].offset + Len(log'[j].payload)
             /\ \A k \in 1..Len(log'[j].payload) :
                  log'[j].payload[k] = log'[j].offset + k
             /\ \A i \in 1..(j - 1) :
                  IsData(log'[i]) /\ (\A k \in (i + 1)..(j - 1) : ~IsData(log'[k]))
                    => log'[i].total = log'[j].offset
  <2>1. j \in 1..Len(log) /\ IsData(log[j]) /\ ReportsTile
    BY <1>1, <1>2 DEF Tiled
  <2> QED
    BY <2>1, OldTiles
<1>3. ReportsTile'
  BY <1>2 DEF ReportsTile
<1>4. ASSUME NEW i, LastData(i) PROVE LastData(i)' /\ log'[i] = log[i]
  <2>1. i \in 1..Len(log) /\ IsData(log[i])
        /\ \A k \in (i + 1)..Len(log) : ~IsData(log[k])
    BY <1>4 DEF LastData
  <2>2. ASSUME NEW k \in (i + 1)..Len(log') PROVE ~IsData(log'[k])
    <3>1. k \in (i + 1)..Len(log) \/ k = Len(log) + 1
      BY <1>1, <2>1
    <3>2. k \in (i + 1)..Len(log) => log'[k] = log[k]
      BY <1>1, <2>1
    <3> QED
      BY <1>1, <2>1, <3>1, <3>2
  <2>3. LastData(i)'
    BY <1>1, <2>1, <2>2 DEF LastData
  <2> QED
    BY <1>1, <2>1, <2>3
<1> QED
  BY <1>3, <1>4

(* An error comes out of the channel and is published.                     *)
LEMMA ErrorReporting ==
  ASSUME TypeOK, InTransit, Reporting, RecvError
  PROVE  Reporting'
<1> USE DEF sourceVars, handlerVars, wrapperVars
<1>1. /\ reporter = "running" /\ Receive("error")
      /\ UNCHANGED <<source, read, peeked, fused, pc, failure, frames, content,
                     rest, held, dispatch, collector, delivered, trailers,
                     total, buffer>>
  BY DEF RecvError, Receive
<1>2. /\ \A u : Queued(u) => Queued(u)' \/ u = "error"
      /\ \A i \in 1..Len(channel') :
           channel'[i] = "eof" => i = Len(channel') /\ pc' = "done"
  BY <1>1, Received
<1>3. /\ collector = TRUE /\ rest = TRUE /\ ~EndShown /\ log # <<>>
      /\ Holds(delivered, "trailers")
           => Flagged \/ trailers \/ Queued("trailers")
  BY <1>1, Running
<1>4. SourceOver'
  BY <1>1 DEF Reporting, SourceOver
<1>5. CASE ~listening
  <2>1. reporter' = "err" /\ log' = log
    BY <1>5 DEF RecvError
  <2>2. Phases'
    BY <1>1, <1>3, <2>1 DEF Reporting, Phases, Found
  <2>3. Bytes'
    BY <1>1, <2>1, SameBytes DEF Reporting, Undispatched
  <2>4. Tiled'
    BY <1>1, <2>1 DEF Reporting, Tiled, ReportsTile, LastData
  <2>5. ~EndShown'
    BY <1>3, <2>1 DEF EndShown
  <2>6. Closed'
    BY <2>5 DEF Closed, EndShown
  <2>7. OnTheWay'
    BY <1>1, <1>2, <2>1, <2>5 DEF Reporting, OnTheWay, Holds, Flagged
  <2> QED
    BY <1>4, <2>2, <2>3, <2>4, <2>6, <2>7 DEF Reporting
<1>6. CASE listening
  <2>0. SUFFICES ASSUME NEW e, e = ErrorEvent PROVE Reporting'
    OBVIOUS
  <2>1. reporter' = reporter /\ log' = Append(log, e) /\ e \in Event
    BY <1>6, <2>0, ErrorEventType DEF RecvError
  <2>2. ~IsData(e) /\ e.type = "Error" /\ ~e.at_end
    BY <2>0 DEF ErrorEvent, IsData
  <2>3. /\ Len(log) \in Nat /\ Len(log') = Len(log) + 1
        /\ Len(log) + 1 \in 1..Len(log')
        /\ \A i \in 1..Len(log) : i \in 1..Len(log') /\ log'[i] = log[i]
        /\ Flagged' <=> Flagged \/ e.trailers
        /\ \A t : Holds(log', t) <=> Holds(log, t) \/ e.type = t
        /\ EndShown' <=> EndShown \/ e.at_end
    BY <2>1, Logged
  <2>4. log' # <<>>
    BY <2>3
  <2>5. Phases'
    BY <1>1, <1>3, <2>1, <2>4 DEF Reporting, Phases, Found
  <2>6. Bytes'
    BY <1>1, <2>1, SameBytes DEF Reporting, Undispatched
  <2>7. Tiled'
    <3>1. Tiled
      BY DEF Reporting
    <3>2. /\ ReportsTile'
          /\ \A i : LastData(i) => LastData(i)' /\ log'[i] = log[i]
      BY <2>1, <2>2, <3>1, ErrorTile
    <3>3. PICK i \in 1..Len(log) : LastData(i) /\ log[i].total <= read
                                   /\ log[i].total = total
      BY <1>1, <1>3, <3>1 DEF Tiled
    <3>4. LastData(i)' /\ log'[i].total <= read' /\ log'[i].total = total'
          /\ i \in 1..Len(log')
      BY <1>1, <2>3, <3>2, <3>3
    <3> QED
      BY <3>2, <3>4 DEF Tiled
  <2>8. ~EndShown'
    BY <1>3, <2>2, <2>3
  <2>9. Closed'
    BY <2>8 DEF Closed, EndShown
  <2>10. OnTheWay'
    <3>1. Holds(log', "Error")
      BY <2>2, <2>3
    <3>2. log' # <<>> /\ Holds(frames', "trailers") => Flagged'
      BY <1>1, <1>3, <2>3 DEF Reporting, OnTheWay, Holds
    <3>3. Holds(delivered', "trailers") => Flagged' \/ trailers' \/ Queued("trailers")'
      BY <1>1, <1>2, <1>3, <2>3 DEF Holds
    <3> QED
      BY <1>2, <3>1, <3>2, <3>3 DEF OnTheWay
  <2> QED
    BY <1>4, <2>5, <2>6, <2>7, <2>9, <2>10 DEF Reporting
<1> QED
  BY <1>5, <1>6

(* send_data: what the buffer holds is published, or the task ends. With   *)
(* the end it is the whole rest of the body, and nothing is queued.        *)
LEMMA SendReporting ==
  ASSUME TypeOK, InTransit, Reporting, reporter = "running",
         NEW at_end \in BOOLEAN, NEW next \in {"running", "ok"},
         SendData(at_end, next),
         at_end <=> next = "ok",
         UNCHANGED <<source, read, peeked, fused, pc, failure, frames, content,
                     rest, held, dispatch, collector, delivered>>,
         at_end => channel' = <<>> /\ pc \in {"done", "dropped"},
         \A t : Queued(t) => Queued(t)' \/ t = "eof",
         \A i \in 1..Len(channel') :
           channel'[i] = "eof" => i = Len(channel') /\ pc' = "done"
  PROVE  Reporting'
<1>1. /\ collector = TRUE /\ rest = TRUE /\ ~EndShown /\ log # <<>>
      /\ \A i \in 1..Len(log) : ~log[i].at_end
      /\ pc \notin {"collect", "peek"} \cup Found
      /\ HasError(delivered) => Holds(log, "Error") \/ Queued("error")
      /\ Holds(delivered, "trailers")
           => Flagged \/ trailers \/ Queued("trailers")
  BY Running
<1>2. buffer' = <<>> /\ total' = total + Len(buffer) /\ trailers' = FALSE
  BY DEF SendData
<1>3. /\ total \in Nat /\ Len(buffer) \in Nat /\ read \in Nat
      /\ Len(peeked.bytes) \in Nat /\ Len(Undispatched) \in Nat
  <2>1. Len(peeked.bytes) \in Nat /\ Len(held.bytes) \in Nat
    BY DEF TypeOK, Item
  <2>2. Len(Undispatched) \in Nat
    BY <2>1 DEF Undispatched
  <2> QED
    BY <2>1, <2>2 DEF TypeOK
<1>4. /\ total + Len(buffer) + Len(Undispatched) + Len(peeked.bytes) = read
      /\ Runs(buffer, total) /\ Runs(Undispatched, total + Len(buffer))
  BY DEF Reporting, Bytes
<1>5. Undispatched' = Undispatched
  BY DEF Undispatched
<1>6. /\ total' \in Nat /\ total' <= read
      /\ Len(Undispatched) = 0 /\ Len(peeked.bytes) = 0 => total' = read
      /\ total' + 0 + Len(Undispatched) + Len(peeked.bytes) = read
  <2> DEFINE b == Len(buffer)
             u == Len(Undispatched)
             p == Len(peeked.bytes)
  <2>1. /\ b \in Nat /\ u \in Nat /\ p \in Nat /\ total \in Nat /\ read \in Nat
        /\ total + b + u + p = read /\ total' = total + b
    BY <1>2, <1>3, <1>4
  <2> HIDE DEF b, u, p
  <2>2. /\ total' \in Nat /\ total' <= read /\ (u = 0 /\ p = 0 => total' = read)
        /\ total' + 0 + u + p = read
    BY <2>1
  <2> QED
    BY <2>2 DEF b, u, p
<1>7. pc = "done" => total' = read
  <2> SUFFICES ASSUME pc = "done" PROVE total' = read
    OBVIOUS
  <2>1. peeked = NoItem /\ dispatch = "idle"
    BY DEF InTransit, Stages
  <2>2. Len(NoItem.bytes) = 0 /\ Undispatched = <<>>
    BY <2>1, MarkItem DEF NoItem, ItemTypes, Undispatched
  <2>3. Len(Undispatched) = 0 /\ Len(peeked.bytes) = 0
    BY <2>1, <2>2
  <2> QED
    BY <1>6, <2>3
<1>8. SourceOver'
  BY DEF Reporting, SourceOver
<1>9. Bytes'
  <2>1. Runs(buffer', total') /\ Len(buffer') = 0
    BY <1>2 DEF Runs
  <2>2. Runs(Undispatched', total' + Len(buffer'))
    <3>1. total' + Len(buffer') = total + Len(buffer)
      BY <1>2, <1>3, <2>1
    <3> QED
      BY <1>4, <1>5, <3>1
  <2>3. total' + Len(buffer') + Len(Undispatched') + Len(peeked'.bytes) = read'
    BY <1>5, <1>6, <2>1
  <2> QED
    BY <1>1, <2>1, <2>2, <2>3 DEF Reporting, Bytes
<1>10. CASE ~listening
  <2>1. log' = log /\ reporter' = "err"
    BY <1>10 DEF SendData
  <2>2. Phases'
    BY <1>1, <1>2, <2>1 DEF Reporting, Phases, Found
  <2>3. Tiled'
    BY <2>1 DEF Reporting, Tiled, ReportsTile, LastData
  <2>4. ~EndShown'
    BY <1>1, <2>1 DEF EndShown
  <2>5. Closed'
    BY <2>4 DEF Closed, EndShown
  <2>6. OnTheWay'
    BY <2>1, <2>4 DEF Reporting, OnTheWay, Holds, Flagged
  <2> QED
    BY <1>8, <1>9, <2>2, <2>3, <2>5, <2>6 DEF Reporting
<1>11. CASE listening
  <2>0. SUFFICES ASSUME NEW e, e = BodyDataEvent(at_end) PROVE Reporting'
    OBVIOUS
  <2>1. log' = Append(log, e) /\ reporter' = next
    BY <1>11, <2>0 DEF SendData
  <2>2. e \in Event
    BY <2>0, BodyDataEventType
  <2>3. /\ IsData(e) /\ e.offset = total /\ e.payload = buffer
        /\ e.total = total + Len(buffer)
        /\ e.at_end = at_end /\ e.trailers = trailers
    BY <2>0 DEF BodyDataEvent, IsData
  <2>4. /\ Len(log) \in Nat /\ Len(log') = Len(log) + 1
        /\ log'[Len(log) + 1] = e /\ Len(log) + 1 \in 1..Len(log')
        /\ \A i \in 1..Len(log) : i \in 1..Len(log') /\ log'[i] = log[i]
        /\ \A i \in 1..Len(log') : i \in 1..Len(log) \/ i = Len(log) + 1
        /\ Flagged' <=> Flagged \/ e.trailers
        /\ \A t : Holds(log', t) <=> Holds(log, t) \/ e.type = t
        /\ EndShown' <=> EndShown \/ e.at_end
    BY <2>1, <2>2, Logged
  <2>5. log' # <<>>
    BY <2>4
  <2>6. Phases'
    BY <1>1, <1>2, <2>1, <2>5 DEF Reporting, Phases, Found
  <2>7. Tiled'
    <3>0. SUFFICES ASSUME NEW m, m = Len(log) + 1 PROVE Tiled'
      OBVIOUS
    <3>1. Tiled /\ Runs(e.payload, total) /\ e.total = total + Len(e.payload)
      BY <1>4, <2>3 DEF Reporting
    <3>2. ReportsTile' /\ LastData(m)'
      BY <2>1, <2>2, <2>3, <3>0, <3>1, NextTile
    <3>3. m \in 1..Len(log') /\ log'[m].total = total' /\ log'[m].total <= read'
      BY <1>2, <1>6, <2>3, <2>4, <3>0
    <3> QED
      BY <3>2, <3>3 DEF Tiled
  <2>8. EndShown' <=> at_end
    BY <1>1, <2>3, <2>4
  <2>9. Closed'
    <3>1. ASSUME NEW i \in 1..Len(log'), log'[i].at_end, pc' # "dropped"
          PROVE  log'[i].total = read'
      <4>1. i = Len(log) + 1
        BY <1>1, <2>4, <3>1
      <4>2. at_end /\ pc = "done"
        BY <2>3, <2>4, <3>1, <4>1
      <4> QED
        BY <1>2, <1>7, <2>3, <2>4, <4>1, <4>2
    <3>2. EndShown' => /\ reporter' # "running" /\ ~trailers' /\ channel' = <<>>
                       /\ pc' \in {"done", "dropped"}
      BY <1>2, <2>1, <2>8
    <3> QED
      BY <3>1, <3>2 DEF Closed
  <2>10. OnTheWay'
    <3>1. HasError(delivered') => Holds(log', "Error") \/ Queued("error")'
      BY <1>1, <2>4 DEF HasError
    <3>2. log' # <<>> /\ Holds(frames', "trailers") => Flagged'
      BY <1>1, <2>4 DEF Reporting, OnTheWay, Holds
    <3>3. Holds(delivered', "trailers") => Flagged' \/ Queued("trailers")'
      BY <1>1, <2>3, <2>4 DEF Holds
    <3> QED
      BY <3>1, <3>2, <3>3 DEF OnTheWay
  <2> QED
    BY <1>8, <1>9, <2>6, <2>7, <2>9, <2>10 DEF Reporting
<1> QED
  BY <1>10, <1>11

(* The explicit end, the closed channel and the flush timer.               *)
LEMMA PublishReporting ==
  ASSUME TypeOK, InTransit, Reporting, RecvEof \/ RecvClosed \/ Flush
  PROVE  Reporting'
<1> USE DEF sourceVars, handlerVars, wrapperVars
<1>1. /\ reporter = "running"
      /\ UNCHANGED <<source, read, peeked, fused, pc, failure, frames, content,
                     rest, held, dispatch, collector, delivered>>
  BY DEF RecvEof, RecvClosed, Flush, Receive
<1>2. \A i \in 1..Len(channel) :
        channel[i] = "eof" => i = Len(channel) /\ pc = "done"
  BY DEF Reporting, OnTheWay
<1>3. CASE RecvEof
  <2>1. SendData(TRUE, "ok") /\ Receive("eof")
    BY <1>3 DEF RecvEof
  <2>2. /\ channel' = <<>> /\ pc = "done"
        /\ \A t : Queued(t) => Queued(t)' \/ t = "eof"
        /\ \A i \in 1..Len(channel') :
             channel'[i] = "eof" => i = Len(channel') /\ pc' = "done"
    BY <1>1, <2>1, Received
  <2> QED
    BY <1>1, <2>1, <2>2, SendReporting
<1>4. CASE RecvClosed
  <2>1. SendData(TRUE, "ok") /\ channel = <<>> /\ channel' = channel /\ ~SenderAlive
    BY <1>4 DEF RecvClosed
  <2>2. pc \in {"done", "dropped"}
    <3>1. collector = TRUE /\ rest = TRUE /\ log # <<>>
          /\ pc \notin {"collect", "peek"} \cup Found
      BY <1>1, Running
    <3>2. pc # "failed"
      BY <1>1 DEF Reporting, Phases
    <3> QED
      BY <2>1, <3>1, <3>2 DEF SenderAlive, TypeOK
  <2>3. /\ channel' = <<>>
        /\ \A t : Queued(t) => Queued(t)' \/ t = "eof"
        /\ \A i \in 1..Len(channel') :
             channel'[i] = "eof" => i = Len(channel') /\ pc' = "done"
    BY <1>1, <1>2, <2>1 DEF Queued
  <2> QED
    BY <1>1, <2>1, <2>2, <2>3, SendReporting
<1>5. CASE Flush
  <2>1. SendData(FALSE, "running") /\ channel' = channel
    BY <1>5 DEF Flush
  <2>2. /\ \A t : Queued(t) => Queued(t)' \/ t = "eof"
        /\ \A i \in 1..Len(channel') :
             channel'[i] = "eof" => i = Len(channel') /\ pc' = "done"
    BY <1>1, <1>2, <2>1 DEF Queued
  <2> QED
    BY <1>1, <2>1, <2>2, SendReporting
<1> QED
  BY <1>3, <1>4, <1>5

-----------------------------------------------------------------------------
(* The theorems                                                            *)

(* The invariant holds before anything is read.                            *)
LEMMA InitReporting ==
  ASSUME Init
  PROVE  Reporting
<1>1. Len(NoItem.bytes) = 0 /\ NoItem.type = "none"
  BY MarkItem, NoItemType DEF NoItem, ItemTypes
<1>2. /\ source = "open" /\ read = 0 /\ peeked = NoItem /\ fused = FALSE
      /\ pc = "collect" /\ failure = "none" /\ frames = <<>> /\ content = <<>>
      /\ rest = TRUE /\ held = NoItem /\ dispatch = "idle" /\ collector = FALSE
      /\ delivered = <<>> /\ buffer = <<>> /\ channel = <<>>
      /\ reporter = "none" /\ trailers = FALSE /\ total = 0 /\ log = <<>>
  BY DEF Init
<1>3. Len(peeked.bytes) = 0 /\ peeked.type = "none" /\ held.type = "none"
  BY <1>1, <1>2
<1>4. SourceOver
  BY <1>2 DEF SourceOver, HasError
<1>5. Phases
  BY <1>2, <1>3 DEF Phases, Found
<1>6. Bytes
  BY <1>2, <1>3 DEF Bytes, Runs
<1>7. Tiled /\ Closed /\ OnTheWay
  BY <1>2 DEF Tiled, ReportsTile, Closed, EndShown, OnTheWay
<1> QED
  BY <1>4, <1>5, <1>6, <1>7 DEF Reporting

(* Monitors that come and go change nothing that was said.                 *)
LEMMA IdleReporting ==
  ASSUME Reporting, UNCHANGED <<sourceVars, handlerVars, wrapperVars, sharedVars,
                                taskVars, log>>
  PROVE  Reporting'
<1> USE DEF sourceVars, handlerVars, wrapperVars, sharedVars, taskVars
<1>1. SourceOver' /\ Phases'
  BY DEF Reporting, SourceOver, Phases, HasError
<1>2. Bytes'
  BY SameBytes DEF Reporting, Undispatched
<1>3. Tiled' /\ Closed'
  BY DEF Reporting, Tiled, ReportsTile, LastData, Closed, EndShown
<1>4. OnTheWay'
  BY DEF Reporting, OnTheWay, EndShown, Flagged, Queued, Holds, HasError
<1> QED
  BY <1>1, <1>2, <1>3, <1>4 DEF Reporting

(* Every step of handler, reader, reporter and monitors keeps it.          *)
LEMMA NextReporting ==
  ASSUME TypeOK, InTransit, Reporting, [Next]_vars
  PROVE  Reporting'
<1>1. CASE Collect
  BY <1>1, CollectReporting, PeekReporting DEF Collect
<1>2. CASE Track
  BY <1>2, TrackReporting
<1>3. CASE Forward
  BY <1>3, ForwardReporting, ForwardEndReporting, PollReporting DEF Forward
<1>4. CASE Dispatch
  BY <1>4, ExtendReporting, BlockReporting, ReturnReporting DEF Dispatch
<1>5. CASE Drop
  BY <1>5, DropReporting
<1>6. CASE Run
  BY <1>6, RecvReporting, ErrorReporting, PublishReporting DEF Run
<1>7. CASE Listen
  BY <1>7, IdleReporting DEF Listen
<1>8. CASE UNCHANGED vars
  BY <1>8, IdleReporting DEF vars
<1> QED
  BY <1>1, <1>2, <1>3, <1>4, <1>5, <1>6, <1>7, <1>8 DEF Next

(* The invariant of the reporting holds in every behaviour.                *)
LEMMA ReportingAlways == Spec => []Reporting
<1>1. Init => Reporting
  BY InitReporting
<1>2. TypeOK /\ InTransit /\ Reporting /\ [Next]_vars => Reporting'
  BY NextReporting
<1> QED
  BY <1>1, <1>2, TypeCorrect, InTransitAlways, PTL DEF Spec

(* collect_ready_data never meets the state it reports as invalid: the     *)
(* fuse is set only when the source is over, and then the peek finds the   *)
(* end.                                                                    *)
THEOREM NoInvalidStateHolds == Spec => []NoInvalidState
<1>1. Reporting => NoInvalidState
  BY DEF Reporting, SourceOver, NoInvalidState
<1> QED
  BY <1>1, ReportingAlways, PTL

(* The published contents tile the body, although one task fills the       *)
(* buffer and another empties it, in any order (take_content, dispatch).   *)
THEOREM ReportsTileHolds == Spec => []ReportsTile
<1>1. Reporting => ReportsTile
  BY DEF Reporting, Tiled
<1> QED
  BY <1>1, ReportingAlways, PTL

(* When the reader has the whole body, an end that was published is the    *)
(* end of the whole body.                                                  *)
THEOREM EndCoversBodyHolds == Spec => []EndCoversBody
<1>1. Reporting => EndCoversBody
  BY DEF Reporting, Closed, EndCoversBody
<1> QED
  BY <1>1, ReportingAlways, PTL

(* A monitor that has seen the end has seen the error and the trailers     *)
(* that the reader received.                                               *)
THEOREM NothingHiddenHolds == Spec => []NothingHidden
<1>1. Reporting => NothingHidden
  <2> SUFFICES ASSUME Reporting, EndShown
               PROVE  /\ HasError(delivered)
                           => \E i \in 1..Len(log) : log[i].type = "Error"
                      /\ (\E i \in 1..Len(delivered) : delivered[i].type = "trailers")
                           => \E i \in 1..Len(log) : log[i].trailers
    BY DEF NothingHidden
  <2>1. channel = <<>> /\ ~trailers
    BY DEF Reporting, Closed
  <2>2. \A t : ~Queued(t)
    BY <2>1 DEF Queued
  <2>3. /\ HasError(delivered) => Holds(log, "Error") \/ Queued("error")
        /\ Holds(delivered, "trailers")
             => Flagged \/ trailers \/ Queued("trailers")
    BY DEF Reporting, OnTheWay
  <2> QED
    BY <2>1, <2>2, <2>3 DEF Holds, Flagged
<1> QED
  BY <1>1, ReportingAlways, PTL

(* Nothing of a direction is published after its end.                      *)
THEOREM EndIsFinalHolds == Spec => EndIsFinal
<1>1. TypeOK /\ Reporting /\ [Next]_vars => [EndShown => UNCHANGED log]_vars
  <2> SUFFICES ASSUME TypeOK, Reporting, Next, EndShown PROVE UNCHANGED log
    BY DEF vars
  <2>1. reporter # "running" /\ log # <<>>
    BY DEF Reporting, Closed, EndShown
  <2>2. ~Run
    BY <2>1 DEF Run, RecvData, RecvTrailers, RecvError, RecvEof, RecvClosed,
                Flush, Receive
  <2>3. ~Track
    BY <2>1 DEF Reporting, Phases, Track
  <2>4. CASE Collect \/ Forward \/ Dispatch \/ Drop \/ Listen
    BY <2>4 DEF Collect, Forward, Dispatch, Drop, Listen, EmptyBody, CollectItem,
                CollectEnd, CollectStop, Peek, ForwardPrefetched, ForwardEnd,
                PollSource, DispatchExtend, DispatchSend, DispatchBlock,
                DispatchFail
  <2> QED
    BY <2>2, <2>3, <2>4 DEF Next
<1> QED
  BY <1>1, ReportingAlways, TypeCorrect, PTL DEF Spec, EndIsFinal

-----------------------------------------------------------------------------
(* Refinement                                                              *)

(* The pipeline reads no more of the body.                                 *)
Ended == ~rest \/ pc \in {"done", "dropped", "failed"}

(* How many bytes of the body the events of l account for.                 *)
ShownOf(l) ==
  LET data == {i \in 1..Len(l) : IsData(l[i])}
  IN IF data = {} THEN 0
     ELSE l[CHOOSE i \in data : \A j \in data : j <= i].total

(* Monitors have been shown as much as the last content says.              *)
LEMMA ShownLast ==
  ASSUME NEW l \in Seq(Event), NEW i \in 1..Len(l), IsData(l[i]),
         \A k \in (i + 1)..Len(l) : ~IsData(l[k])
  PROVE  ShownOf(l) = l[i].total
<1> DEFINE data == {j \in 1..Len(l) : IsData(l[j])}
           last == CHOOSE j \in data : \A k \in data : k <= j
<1>1. Len(l) \in Nat
  OBVIOUS
<1>2. i \in data /\ \A j \in data : j <= i
  BY <1>1
<1>3. last \in data /\ \A j \in data : j <= last
  BY <1>2
<1>4. last = i
  BY <1>1, <1>2, <1>3
<1>5. data # {} /\ ShownOf(l) = l[last].total
  BY <1>2 DEF ShownOf
<1> QED
  BY <1>4, <1>5

(* Before the head event they have been shown nothing.                     *)
LEMMA ShownNone == ShownOf(<<>>) = 0
<1>1. {j \in 1..Len(<<>>) : IsData(<<>>[j])} = {}
  OBVIOUS
<1> QED
  BY <1>1 DEF ShownOf

(* How much monitors have been shown, and that it was read.                *)
ShownFacts ==
  /\ Shown \in Nat /\ Shown <= read /\ read \in Nat
  /\ log = <<>> => Shown = 0
  /\ reporter = "running" => Shown = total

(* The invariant of the reports bounds what has been shown.                *)
LEMMA ShownNow == TypeOK /\ Reporting => ShownFacts
<1> SUFFICES ASSUME TypeOK, Reporting PROVE ShownFacts
  OBVIOUS
<1> USE DEF ShownFacts
<1>1. Shown = ShownOf(log)
  BY DEF Shown, ShownOf
<1>2. CASE log = <<>>
  BY <1>1, <1>2, ShownNone DEF Reporting, Phases, TypeOK
<1>3. CASE log # <<>>
  <2>1. PICK i \in 1..Len(log) :
          /\ LastData(i) /\ log[i].total <= read
          /\ reporter = "running" => log[i].total = total
    BY <1>3 DEF Reporting, Tiled
  <2>2. log \in Seq(Event) /\ log[i] \in Event /\ read \in Nat
    BY DEF TypeOK
  <2>3. ShownOf(log) = log[i].total
    BY <2>1, <2>2, ShownLast DEF LastData
  <2>4. log[i].total \in Nat
    BY <2>2 DEF Event
  <2> QED
    BY <1>1, <1>3, <2>1, <2>2, <2>3, <2>4
<1> QED
  BY <1>2, <1>3

(* The same of the state after a step.                                     *)
LEMMA ShownNext == TypeOK' /\ Reporting' => ShownFacts'
BY ShownNow, PTL

-----------------------------------------------------------------------------
(* The steps of MonitoredBody, in terms of the pipeline.                   *)

(* An item is read from the body.                                          *)
Took ==
  /\ ~Ended
  /\ Len(yielded') = Len(yielded) + 1
  /\ \A i \in 1..Len(yielded) : yielded'[i] = yielded[i]
  /\ read' >= read

(* The peer is given the next item.                                        *)
Gave ==
  /\ Len(delivered) < Len(yielded')
  /\ delivered' = Append(delivered, yielded'[Len(delivered) + 1])

(* With the log, what monitors were shown stays.                           *)
LEMMA SameShown ==
  ASSUME log' = log
  PROVE  Shown' = Shown /\ (EndShown' <=> EndShown)
BY DEF Shown, EndShown

(* A step that the promise does not speak of.                              *)
LEMMA Stutters ==
  ASSUME UNCHANGED <<yielded, read, delivered, log>>, Ended' <=> Ended
  PROVE  UNCHANGED Body!abstractVars
<1>1. Shown' = Shown /\ (EndShown' <=> EndShown)
  BY SameShown
<1>2. EndShown' = EndShown
  BY <1>1 DEF EndShown
<1>3. (~rest \/ pc \in {"done", "dropped", "failed"})'
        = (~rest \/ pc \in {"done", "dropped", "failed"})
  BY DEF Ended
<1> QED
  BY <1>1, <1>2, <1>3 DEF Body!abstractVars

(* The body ends.                                                          *)
LEMMA Ends ==
  ASSUME UNCHANGED <<yielded, read, delivered, log>>, Ended'
  PROVE  Body!Proceed
<1>1. Shown' = Shown /\ (EndShown' <=> EndShown)
  BY SameShown
<1>2. EndShown' = EndShown
  BY <1>1 DEF EndShown
<1>3. (~rest \/ pc \in {"done", "dropped", "failed"})' = TRUE
  BY DEF Ended
<1> QED
  BY <1>1, <1>2, <1>3 DEF Body!Proceed, Body!End

(* An item is taken, given, or both.                                       *)
LEMMA Passes ==
  ASSUME log' = log, Ended' <=> Ended,
         \/ Took /\ UNCHANGED delivered
         \/ UNCHANGED <<yielded, read>> /\ Gave
         \/ Took /\ Gave
  PROVE  Body!Proceed
<1>1. Shown' = Shown /\ (EndShown' <=> EndShown)
  BY SameShown
<1>2. EndShown' = EndShown
  BY <1>1 DEF EndShown
<1>3. (~rest \/ pc \in {"done", "dropped", "failed"})'
        = (~rest \/ pc \in {"done", "dropped", "failed"})
  BY DEF Ended
<1>4. Took => Body!Take
  BY DEF Took, Body!Take, Ended
<1>5. Gave => Body!Give
  BY DEF Gave, Body!Give
<1> QED
  BY <1>1, <1>2, <1>3, <1>4, <1>5 DEF Body!Proceed, Body!Pass

(* Monitors are shown more.                                                *)
LEMMA Shows ==
  ASSUME UNCHANGED <<yielded, read, delivered>>, Ended' <=> Ended,
         ~EndShown, Shown' >= Shown, Shown' <= read, EndShown' => Ended
  PROVE  Body!Proceed
<1>1. (~rest \/ pc \in {"done", "dropped", "failed"})'
        = (~rest \/ pc \in {"done", "dropped", "failed"})
  BY DEF Ended
<1>2. EndShown' => ~rest \/ pc \in {"done", "dropped", "failed"}
  BY DEF Ended
<1> QED
  BY <1>1, <1>2 DEF Body!Proceed, Body!Show

-----------------------------------------------------------------------------
(* Each step of the pipeline                                               *)

(* What the source answers is one more item, or nothing at its end.        *)
LEMMA YieldTakes ==
  ASSUME TypeOK, NEW item, Yield(item), ~Ended
  PROVE  /\ item = Eof => UNCHANGED <<yielded, read>>
         /\ item # Eof =>
              /\ Took /\ yielded'[Len(yielded) + 1] = item
              /\ Len(yielded') = Len(yielded) + 1
         /\ Len(yielded) \in Nat
<1>1. /\ item \in Item /\ Len(item.bytes) \in Nat /\ read' = read + Len(item.bytes)
  BY YieldBytes
<1>2. read \in Nat /\ yielded \in Seq(Item)
  BY DEF TypeOK
<1>3. CASE item = Eof
  <2>1. Len(item.bytes) = 0
    BY <1>3, EofType
  <2> QED
    BY <1>1, <1>2, <1>3, <2>1 DEF Yield
<1>4. CASE item # Eof
  <2>1. yielded' = Append(yielded, item)
    BY <1>4 DEF Yield
  <2>2. /\ Len(yielded') = Len(yielded) + 1 /\ yielded'[Len(yielded) + 1] = item
        /\ \A i \in 1..Len(yielded) : yielded'[i] = yielded[i]
    BY <1>1, <1>2, <2>1
  <2>3. read' >= read
    BY <1>1, <1>2
  <2> QED
    BY <1>2, <1>4, <2>2, <2>3 DEF Took
<1> QED
  BY <1>3, <1>4

(* collect_ready_data up to the peek: it takes items, or finds the body    *)
(* empty.                                                                  *)
LEMMA CollectSteps ==
  ASSUME TypeOK, InTransit, Reporting,
         EmptyBody \/ CollectItem \/ CollectEnd \/ CollectStop
  PROVE  [Body!Proceed]_(Body!abstractVars)
<1> USE DEF sourceVars, wrapperVars
<1>1. pc = "collect" /\ log' = log /\ delivered' = delivered
  BY DEF EmptyBody, CollectItem, CollectEnd, CollectStop
<1>2. rest = TRUE /\ peeked = NoItem /\ ~Ended
  BY <1>1, Collecting DEF Ended
<1>3. CASE EmptyBody
  <2>1. UNCHANGED <<yielded, read, delivered, log>> /\ Ended'
    BY <1>3 DEF EmptyBody, Ended
  <2> QED
    BY <2>1, Ends
<1>4. CASE CollectItem
  <2>1. PICK item \in Available \ {Eof} : PollRest(item)
    BY <1>4 DEF CollectItem
  <2>2. Yield(item) /\ item # Eof
    BY <1>2, <2>1 DEF PollRest
  <2>3. Took
    BY <1>2, <2>2, YieldTakes
  <2>4. ~Ended'
    BY <1>2, <1>4 DEF CollectItem, Ended
  <2> QED
    BY <1>1, <1>2, <2>3, <2>4, Passes
<1>5. CASE CollectEnd
  <2>1. Yield(Eof)
    BY <1>2, <1>5 DEF CollectEnd, PollRest
  <2>2. UNCHANGED <<yielded, read>>
    BY <1>2, <2>1, YieldTakes
  <2>3. ~Ended'
    BY <1>2, <1>5 DEF CollectEnd, Ended
  <2> QED
    BY <1>1, <1>2, <2>2, <2>3, Stutters
<1>6. CASE CollectStop
  <2>1. UNCHANGED <<yielded, read, delivered, log>> /\ ~Ended'
    BY <1>2, <1>6 DEF CollectStop, Ended
  <2> QED
    BY <1>2, <2>1, Stutters
<1> QED
  BY <1>3, <1>4, <1>5, <1>6

(* The peek takes one more item only when the body goes on.                *)
LEMMA PeekSteps ==
  ASSUME TypeOK, InTransit, Reporting, Reporting', Peek
  PROVE  [Body!Proceed]_(Body!abstractVars)
<1> USE DEF sourceVars, wrapperVars
<1>1. pc = "peek" /\ log' = log /\ delivered' = delivered
  BY DEF Peek
<1>2. rest = TRUE /\ peeked = NoItem /\ ~Ended
  BY <1>1, Collecting DEF Ended
<1>3. CASE UNCHANGED <<yielded, read>>
  <2>1. CASE Ended'
    BY <1>1, <1>3, <2>1, Ends
  <2>2. CASE ~Ended'
    BY <1>1, <1>2, <1>3, <2>2, Stutters
  <2> QED
    BY <2>1, <2>2
<1>4. ASSUME NEW item \in Available, Yield(item), item # Eof, peeked' = item
      PROVE  Body!Proceed
  <2>1. Took
    BY <1>2, <1>4, YieldTakes
  <2>2. source # "closed" /\ peeked' # NoItem
    BY <1>4, YieldBytes, AvailableItems
  <2>3. fused = FALSE /\ ~HasError(frames)
    BY <1>1, <2>2 DEF Reporting, SourceOver, TypeOK
  <2>4. ~Terminated
    BY <2>2 DEF Terminated
  <2>5. rest' = TRUE /\ pc' \in {"NoneRead", "Partial"}
    BY <1>2, <2>3, <2>4 DEF Peek
  <2>6. ~Ended'
    BY <2>5 DEF Ended
  <2> QED
    BY <1>1, <1>2, <2>1, <2>6, Passes
<1>5. ASSUME NEW item \in Available, Yield(item), item = Eof
      PROVE  UNCHANGED <<yielded, read>>
  BY <1>2, <1>5, YieldTakes
<1>6. \/ UNCHANGED <<yielded, read>>
      \/ \E item \in Available :
           Yield(item) /\ peeked' = IF item = Eof THEN NoItem ELSE item
  BY DEF Peek
<1> QED
  BY <1>3, <1>4, <1>5, <1>6

(* The head event shows monitors the prefetched part.                      *)
LEMMA TrackSteps ==
  ASSUME TypeOK, InTransit, Reporting, TypeOK', Reporting', Track
  PROVE  [Body!Proceed]_(Body!abstractVars)
<1> USE DEF sourceVars
<1>1. /\ pc \in Found /\ UNCHANGED <<yielded, read, delivered, rest>>
      /\ ~listening => pc' = "failed" /\ log' = log
      /\ listening => pc' = "forward"
  BY DEF Track
<1>2. log = <<>>
  BY <1>1 DEF Reporting, Phases
<1>3. CASE ~listening
  <2>1. Ended' /\ log' = log
    BY <1>1, <1>3 DEF Ended
  <2> QED
    BY <1>1, <2>1, Ends
<1>4. CASE listening
  <2>1. Ended' <=> Ended
    BY <1>1, <1>4 DEF Ended, Found
  <2>2. ~EndShown
    BY <1>2 DEF EndShown
  <2>3. Shown = 0 /\ Shown' \in Nat /\ Shown' <= read'
    BY <1>2, ShownNow, ShownNext DEF ShownFacts
  <2>4. EndShown' => Ended
    BY <1>1, <1>4 DEF Reporting, Closed, Ended
  <2>5. Shown' >= Shown /\ Shown' <= read
    BY <1>1, <2>3
  <2> QED
    BY <1>1, <2>1, <2>2, <2>4, <2>5, Shows
<1> QED
  BY <1>3, <1>4

(* The prefetched frames are given.                                        *)
LEMMA ForwardSteps ==
  ASSUME TypeOK, InTransit, Reporting, ForwardPrefetched \/ ForwardEnd
  PROVE  [Body!Proceed]_(Body!abstractVars)
<1> USE DEF sourceVars, wrapperVars
<1>1. CASE ForwardPrefetched
  <2>1. /\ pc = "forward" /\ frames # <<>> /\ UNCHANGED <<yielded, read, log, pc, rest>>
        /\ delivered' = Append(delivered, Head(frames))
    BY <1>1 DEF ForwardPrefetched
  <2>2. Accounted
    BY <2>1 DEF InTransit
  <2>3. /\ Len(frames) \in Nat \ {0} /\ Head(frames) = frames[1]
        /\ Len(delivered) \in Nat /\ Len(yielded) \in Nat
    BY <2>1 DEF TypeOK
  <2>4. Carried(held) \in Nat /\ Carried(peeked) \in Nat
    BY DEF Carried
  <2>5. frames[1] = yielded[Len(delivered) + 1] /\ Len(delivered) < Len(yielded)
    BY <2>2, <2>3, <2>4 DEF Accounted
  <2>6. Gave
    BY <2>1, <2>3, <2>5 DEF Gave
  <2>7. Ended' <=> Ended
    BY <2>1 DEF Ended
  <2> QED
    BY <2>1, <2>6, <2>7, Passes
<1>2. CASE ForwardEnd
  <2>1. UNCHANGED <<yielded, read, delivered, log>> /\ (Ended' <=> Ended)
    BY <1>2 DEF ForwardEnd, Ended
  <2> QED
    BY <2>1, Stutters
<1> QED
  BY <1>1, <1>2

(* poll_next returns an item: it is given, or the body ends.               *)
LEMMA ReturnSteps ==
  ASSUME NEW item, Return(item), log' = log, rest' = rest, pc = "forward",
         item = Eof => UNCHANGED <<yielded, read>>,
         item # Eof =>
           /\ Len(delivered) < Len(yielded')
           /\ item = yielded'[Len(delivered) + 1]
           /\ UNCHANGED <<yielded, read>> \/ Took
  PROVE  Body!Proceed
<1>1. CASE item = Eof
  <2>1. delivered' = delivered /\ Ended'
    BY <1>1 DEF Return, Ended
  <2> QED
    BY <1>1, <2>1, Ends
<1>2. CASE item # Eof
  <2>1. delivered' = Append(delivered, item) /\ pc' = pc
    BY <1>2 DEF Return
  <2>2. Gave
    BY <1>2, <2>1 DEF Gave
  <2>3. Ended' <=> Ended
    BY <2>1 DEF Ended
  <2> QED
    BY <1>2, <2>2, <2>3, Passes
<1> QED
  BY <1>1, <1>2

(* A poll of the rest takes an item, and gives it at once when no reporter *)
(* is left.                                                                *)
LEMMA PollSteps ==
  ASSUME TypeOK, InTransit, Reporting, PollSource
  PROVE  [Body!Proceed]_(Body!abstractVars)
<1>1. /\ pc = "forward" /\ frames = <<>> /\ rest /\ held = NoItem
      /\ log' = log /\ rest' = rest /\ ~Ended
      /\ Accounted /\ Len(frames) = 0
  BY DEF PollSource, InTransit, Ended
<1>2. PICK item : /\ PollRest(item)
                  /\ IF collector
                     THEN /\ held' = item /\ dispatch' = "started"
                          /\ UNCHANGED <<delivered, pc>>
                     ELSE Return(item)
  BY DEF PollSource
<1>3. Len(yielded) \in Nat /\ Len(delivered) \in Nat
  BY DEF TypeOK
<1>4. /\ item = Eof => UNCHANGED <<yielded, read>>
      /\ item # Eof =>
           /\ Len(delivered) < Len(yielded')
           /\ item = yielded'[Len(delivered) + 1]
           /\ UNCHANGED <<yielded, read>> \/ Took
  <2>1. CASE peeked # NoItem
    <3>1. item = peeked /\ UNCHANGED <<yielded, read>>
      BY <1>2, <2>1 DEF PollRest
    <3>2. peeked # Eof
      BY DEF InTransit, Stages
    <3>3. Len(yielded) = Len(delivered) + 1 /\ peeked = yielded[Len(yielded)]
      BY <1>1, <1>3, <2>1, <3>2 DEF Accounted, Carried
    <3> QED
      BY <1>3, <3>1, <3>3
  <2>2. CASE peeked = NoItem
    <3>1. Yield(item)
      BY <1>2, <2>2 DEF PollRest
    <3>2. Len(yielded) = Len(delivered)
      BY <1>1, <1>3, <2>2 DEF Accounted, Carried
    <3>3. /\ item = Eof => UNCHANGED <<yielded, read>>
          /\ item # Eof =>
              /\ Took /\ yielded'[Len(yielded) + 1] = item
              /\ Len(yielded') = Len(yielded) + 1
      BY <1>1, <3>1, YieldTakes
    <3> QED
      BY <1>3, <3>2, <3>3
  <2> QED
    BY <2>1, <2>2
<1>5. CASE collector
  <2>1. UNCHANGED <<delivered, pc>>
    BY <1>2, <1>5
  <2>2. Ended' <=> Ended
    BY <1>1, <2>1 DEF Ended
  <2>3. CASE UNCHANGED <<yielded, read>>
    BY <1>1, <2>1, <2>2, <2>3, Stutters
  <2>4. CASE Took
    BY <1>1, <2>1, <2>2, <2>4, Passes
  <2> QED
    BY <1>4, <2>3, <2>4
<1>6. CASE ~collector
  <2>1. Return(item)
    BY <1>2, <1>6
  <2> QED
    BY <1>1, <1>4, <2>1, ReturnSteps
<1> QED
  BY <1>5, <1>6

(* dispatch gives the item it held, whether the report was sent or failed, *)
(* and gives nothing while it waits.                                       *)
LEMMA DispatchSteps ==
  ASSUME TypeOK, InTransit, Reporting, Dispatch
  PROVE  [Body!Proceed]_(Body!abstractVars)
<1> USE DEF sourceVars, handlerVars
<1>1. dispatch # "idle"
  BY DEF Dispatch, DispatchExtend, DispatchSend, DispatchBlock, DispatchFail
<1>2. pc = "forward" /\ frames = <<>> /\ held # NoItem
  BY <1>1, Dispatching
<1>3. CASE DispatchExtend \/ DispatchBlock
  <2>1. UNCHANGED <<yielded, read, delivered, log>> /\ (Ended' <=> Ended)
    BY <1>3 DEF DispatchExtend, DispatchBlock, Ended
  <2> QED
    BY <2>1, Stutters
<1>4. CASE DispatchSend \/ DispatchFail
  <2>1. Return(held) /\ UNCHANGED <<yielded, read, rest, log>>
    BY <1>4 DEF DispatchSend, DispatchFail
  <2>2. Accounted
    BY <1>2 DEF InTransit
  <2>3. /\ Len(frames) = 0 /\ Carried(peeked) \in Nat
        /\ Len(delivered) \in Nat /\ Len(yielded) \in Nat
    BY <1>2 DEF Carried, TypeOK
  <2>4. held # Eof => /\ Len(delivered) < Len(yielded)
                      /\ held = yielded[Len(delivered) + 1]
    <3>1. held # Eof => Carried(held) = 1 /\ held \notin {NoItem, Eof}
      BY <1>2 DEF Carried
    <3> QED
      BY <2>2, <2>3, <3>1 DEF Accounted
  <2> QED
    BY <1>2, <2>1, <2>4, ReturnSteps
<1> QED
  BY <1>3, <1>4 DEF Dispatch

(* What the reporter publishes shows monitors more of what was read, and   *)
(* the end only when the body has ended.                                   *)
LEMMA RunSteps ==
  ASSUME TypeOK, InTransit, Reporting, TypeOK', Reporting', Run
  PROVE  [Body!Proceed]_(Body!abstractVars)
<1> USE DEF sourceVars, handlerVars, wrapperVars
<1>1. /\ reporter = "running"
      /\ UNCHANGED <<yielded, read, delivered, rest, pc>>
  BY DEF Run, RecvData, RecvTrailers, RecvError, RecvEof, RecvClosed, Flush, Receive
<1>2. Ended' <=> Ended
  BY <1>1 DEF Ended
<1>3. ~EndShown
  BY <1>1 DEF Reporting, Closed
<1>4. EndShown' => Ended
  BY <1>1 DEF Reporting, Closed, Ended
<1>5. Shown = total /\ total \in Nat /\ Shown' <= read'
  BY <1>1, ShownNow, ShownNext DEF ShownFacts, TypeOK
<1>6. CASE log' = log
  BY <1>1, <1>2, <1>6, Stutters
<1>7. CASE RecvError /\ log' # log
  <2>1. reporter' = "running" /\ total' = total
    BY <1>1, <1>7 DEF RecvError
  <2>2. Shown' = total'
    BY <2>1, ShownNext DEF ShownFacts
  <2> QED
    BY <1>1, <1>2, <1>3, <1>4, <1>5, <2>1, <2>2, Shows
<1>8. CASE \E at_end \in BOOLEAN : (\E next : SendData(at_end, next)) /\ log' # log
  <2>1. PICK at_end \in BOOLEAN : log' = Append(log, BodyDataEvent(at_end))
    BY <1>8 DEF SendData
  <2>2. log \in Seq(Event) /\ log' \in Seq(Event) /\ Len(buffer) \in Nat
    BY DEF TypeOK
  <2>3. /\ IsData(BodyDataEvent(at_end))
        /\ BodyDataEvent(at_end).total = total + Len(buffer)
    BY DEF IsData, BodyDataEvent
  <2>4. SUFFICES ASSUME NEW l, l = log' PROVE Body!Proceed
    OBVIOUS
  <2>5. /\ l \in Seq(Event) /\ Len(log) \in Nat /\ Len(l) = Len(log) + 1
        /\ l[Len(log) + 1] = BodyDataEvent(at_end)
    BY <2>1, <2>2, <2>4
  <2>6. ShownOf(l) = total + Len(buffer)
    BY <2>3, <2>5, ShownLast
  <2>7. Shown' = ShownOf(l)
    BY <2>4 DEF Shown, ShownOf
  <2>8. Shown' >= Shown
    BY <1>5, <2>2, <2>6, <2>7
  <2> QED
    BY <1>1, <1>2, <1>3, <1>4, <1>5, <2>8, Shows
<1> QED
  BY <1>6, <1>7, <1>8 DEF Run, RecvData, RecvTrailers, RecvEof, RecvClosed, Flush

-----------------------------------------------------------------------------
(* The theorem                                                             *)

(* Every step of the pipeline is a step of the promise, or none.           *)
LEMMA NextProceeds ==
  ASSUME TypeOK, InTransit, Reporting, TypeOK', Reporting', [Next]_vars
  PROVE  [Body!Proceed]_(Body!abstractVars)
<1> USE DEF sourceVars, handlerVars, wrapperVars
<1>1. CASE Collect
  BY <1>1, CollectSteps, PeekSteps DEF Collect
<1>2. CASE Track
  BY <1>2, TrackSteps
<1>3. CASE Forward
  BY <1>3, ForwardSteps, PollSteps DEF Forward
<1>4. CASE Dispatch
  BY <1>4, DispatchSteps
<1>5. CASE Drop
  <2>1. UNCHANGED <<yielded, read, delivered, log>> /\ Ended'
    BY <1>5 DEF Drop, Ended
  <2> QED
    BY <2>1, Ends
<1>6. CASE Run
  BY <1>6, RunSteps
<1>7. CASE Listen \/ UNCHANGED vars
  <2>1. UNCHANGED <<yielded, read, delivered, log>> /\ (Ended' <=> Ended)
    BY <1>7 DEF Listen, vars, Ended
  <2> QED
    BY <2>1, Stutters
<1> QED
  BY <1>1, <1>2, <1>3, <1>4, <1>5, <1>6, <1>7 DEF Next

(* The pipeline keeps the promise of MonitoredBody: in every behaviour the *)
(* items are handed on one by one in the order they were taken, nothing is *)
(* taken after the end, monitors are only ever shown more, never more than *)
(* was read, and the end only of a body that has ended (body.rs,           *)
(* reporting.rs), however handler, reader, reporter task and monitors      *)
(* interleave.                                                             *)
THEOREM KeepsPromiseHolds == Spec => KeepsPromise
<1>1. Init => Body!Start
  <2> SUFFICES ASSUME Init PROVE Body!Start
    OBVIOUS
  <2>1. Shown = 0
    BY ShownNone DEF Init, Shown, ShownOf
  <2>2. EndShown = FALSE
    BY DEF Init, EndShown
  <2>3. (~rest \/ pc \in {"done", "dropped", "failed"}) = FALSE
    BY DEF Init
  <2> QED
    BY <2>1, <2>2, <2>3 DEF Init, Body!Start
<1>2. TypeOK /\ InTransit /\ Reporting /\ TypeOK' /\ Reporting' /\ [Next]_vars
        => [Body!Proceed]_(Body!abstractVars)
  BY NextProceeds
<1> QED
  BY <1>1, <1>2, TypeCorrect, InTransitAlways, ReportingAlways, PTL
  DEF Spec, KeepsPromise, Body!Promise
=============================================================================
