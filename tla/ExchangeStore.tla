---------------------------- MODULE ExchangeStore ---------------------------
(***************************************************************************)
(* The UI's store of exchanges: the reducer that folds the events of the   *)
(* SSE feed, the eviction that keeps it within its caps, and the selection *)
(* that protects one exchange from it.                                     *)
(*                                                                         *)
(*   src/ui/src/state/reducer.ts  apply, evict                             *)
(*   src/ui/src/state/store.ts    applyEvent, setSelectedId                *)
(*                                                                         *)
(* The backend is the environment: it emits the events of each exchange in *)
(* the order Exchange's HeadFirst allows, exchanges interleaved at will.   *)
(* An event can be lost on its way (a lagging subscriber skips events, a   *)
(* reconnecting EventSource misses some), and the backend can restart and  *)
(* count its exchange ids from the beginning again.                        *)
(*                                                                         *)
(* As in BodyPipeline a byte is its position in the body, and a body's     *)
(* `chunks` are the bytes they hold, chunk boundaries forgotten. A body    *)
(* that is an event stream keeps parsed events instead: see SseStream.     *)
(***************************************************************************)
EXTENDS Naturals, Sequences, Functions

CONSTANTS
  Ids,           (* exchange ids                                           *)
  BodyOf,        (* directions whose bodies are not empty                  *)
  MaxBody,       (* bound on the bytes of a body                           *)
  MaxExchanges,  (* MAX_EXCHANGES                                          *)
  MaxPayload,    (* MAX_PAYLOAD_BYTES                                      *)
  MaxFaults      (* bound on lost events and restarts of the backend       *)

Directions == {"Request", "Response"}

ASSUME StoreAssumption ==
  /\ 0 \notin Ids
  /\ BodyOf \subseteq Directions
  /\ MaxBody \in Nat
  /\ MaxExchanges \in Nat \ {0}
  /\ MaxPayload \in Nat
  /\ MaxFaults \in Nat

VARIABLES
  exchanges,   (* the Map: exchange id -> Exchange                         *)
  ids,         (* the array of ids, in order of arrival                    *)
  selectedId,  (* an id, or 0 when nothing is selected                     *)
  backend,     (* what the backend has emitted of each exchange, and       *)
               (* whether the store was given all of it                    *)
  faults       (* events lost and restarts so far                          *)

storeVars == <<exchanges, ids>>
vars == <<exchanges, ids, selectedId, backend, faults>>

-----------------------------------------------------------------------------
(* Exchange and BodyState. The flags `request`, `status` and `error` say   *)
(* which of the incrementally populated fields are there.                  *)

NoBody == [present |-> FALSE, chunks |-> <<>>, wireBytes |-> 0,
           atEnd |-> FALSE]

FreshExchange ==
  [request |-> FALSE, status |-> FALSE, error |-> FALSE,
   body |-> [d \in Directions |-> NoBody]]

(* EventMessage: `first` and `total` delimit the payload, `kind` is the    *)
(* InitialBody's type.                                                     *)
Message(id, d, type, kind, first, total, at_end) ==
  [id |-> id, direction |-> d, type |-> type, kind |-> kind, first |-> first,
   total |-> total, at_end |-> at_end]

Payload(m) == [i \in 1..(m.total - m.first) |-> m.first + i]

-----------------------------------------------------------------------------
(* reducer.ts                                                              *)

(* The retained chunks are the payload.                                    *)
initialBodyToState(m) ==
  IF m.kind = "NoBody" THEN NoBody
  ELSE [present |-> TRUE, chunks |-> Payload(m), wireBytes |-> m.total,
        atEnd |-> m.at_end]

(* Fault: the payload replaces what was there.                             *)
appendBodyDataReplaces(prev, m) ==
  [prev EXCEPT !.present = TRUE, !.chunks = Payload(m),
               !.atEnd = m.at_end, !.wireBytes = m.total]

(* A missing body is seeded empty. The offset of the payload is not used.  *)
appendBodyData(prev, m) ==
  [prev EXCEPT !.present = TRUE,
               !.chunks = @ \o Payload(m),
               !.atEnd = m.at_end,
               !.wireBytes = m.total]

Updated(prev, m) ==
  CASE m.type = "Request" ->
         [prev EXCEPT !.request = TRUE, !.body["Request"] = initialBodyToState(m)]
    [] m.type = "Response" ->
         [prev EXCEPT !.status = TRUE, !.body["Response"] = initialBodyToState(m)]
    [] m.type = "BodyData" ->
         [prev EXCEPT !.body[m.direction] = appendBodyData(@, m)]
    [] m.type = "Error" -> [prev EXCEPT !.error = TRUE]

Known(id) == id \in DOMAIN exchanges

Pushed(m) == IF Known(m.id) THEN ids ELSE Append(ids, m.id)

Applied(m) ==
  LET prev == IF Known(m.id) THEN exchanges[m.id] ELSE FreshExchange
  IN [id \in DOMAIN exchanges \cup {m.id} |->
        IF id = m.id THEN Updated(prev, m) ELSE exchanges[id]]

exchangeBytes(ex) ==
  ex.body["Request"].wireBytes + ex.body["Response"].wireBytes

Elements(s) == {s[i] : i \in 1..Len(s)}

TotalBytes(map, s) ==
  SumFunction([id \in Elements(s) |-> exchangeBytes(map[id])])

(* Fault: the oldest k go, the selected one among them.                    *)
WithoutOldestUnprotected(s, k, protectedId) == SubSeq(s, k + 1, Len(s))

(* s without its k oldest ids other than protectedId: oldestEvictable and  *)
(* splice, k times over.                                                   *)
WithoutOldest(s, k, protectedId) ==
  IF \E p \in 1..k : s[p] = protectedId
  THEN <<protectedId>> \o SubSeq(s, k + 2, Len(s))
  ELSE SubSeq(s, k + 1, Len(s))

EvictableCount(s, protectedId) ==
  IF protectedId \in Elements(s) THEN Len(s) - 1 ELSE Len(s)

(* Fault: the count cap is off by one.                                     *)
EnoughOffByOne(map, s, k, protectedId) ==
  \/ k = EvictableCount(s, protectedId)
  \/ /\ Len(s) - k <= MaxExchanges + 1
     /\ \/ TotalBytes(map, WithoutOldest(s, k, protectedId)) <= MaxPayload
        \/ Len(s) - k <= 1

(* Where evict's two loops have stopped once k exchanges are dropped.      *)
Enough(map, s, k, protectedId) ==
  \/ k = EvictableCount(s, protectedId)
  \/ /\ Len(s) - k <= MaxExchanges
     /\ \/ TotalBytes(map, WithoutOldest(s, k, protectedId)) <= MaxPayload
        \/ Len(s) - k <= 1

(* How many exchanges evict drops: the first number that is enough.        *)
Dropped(map, s, protectedId) ==
  CHOOSE k \in 0..EvictableCount(s, protectedId) :
    /\ Enough(map, s, k, protectedId)
    /\ \A j \in 0..(k - 1) : ~Enough(map, s, j, protectedId)

(* Fault: what is evicted leaves the array and stays in the Map.           *)
applyEventKeepsEvicted(m) ==
  LET map  == Applied(m)
      all  == Pushed(m)
  IN /\ ids' = WithoutOldest(all, Dropped(map, all, selectedId), selectedId)
     /\ exchanges' = map

(* store.ts applyEvent: apply, then evict.                                 *)
applyEvent(m) ==
  LET map  == Applied(m)
      all  == Pushed(m)
      kept == WithoutOldest(all, Dropped(map, all, selectedId), selectedId)
  IN /\ ids' = kept
     /\ exchanges' = [id \in DOMAIN map \cap Elements(kept) |-> map[id]]

-----------------------------------------------------------------------------
Init ==
  /\ exchanges = [id \in {} |-> FreshExchange]
  /\ ids = <<>>
  /\ selectedId = 0
  /\ backend = [id \in Ids |->
       [phase |-> "new", error |-> FALSE, whole |-> TRUE,
        open |-> [d \in Directions |-> FALSE],
        sent |-> [d \in Directions |-> 0]]]
  /\ faults = 0

(* An event reaches the store, or is lost on its way.                      *)
Feed(m, lost) ==
  /\ IF lost THEN faults < MaxFaults /\ faults' = faults + 1 /\ UNCHANGED storeVars
     ELSE applyEvent(m) /\ UNCHANGED faults
  /\ UNCHANGED selectedId

(* The Request or Response event, with the part of the body that was       *)
(* prefetched: none, some or all of it.                                    *)
HeadEvent(id, d) ==
  /\ backend[id].phase = IF d = "Request" THEN "new" ELSE "requested"
  /\ \E kind \in IF d \in BodyOf THEN {"NotRead", "Data"} ELSE {"NoBody"} :
     \E n \in IF kind = "Data" THEN 1..MaxBody ELSE {0} :
     \E at_end \in IF kind = "Data" THEN BOOLEAN ELSE {kind = "NoBody"} :
     \E lost \in BOOLEAN :
       /\ Feed(Message(id, d, d, kind, 0, n, at_end), lost)
       /\ backend' = [backend EXCEPT
            ![id].phase = IF d = "Request" THEN "requested" ELSE "responded",
            ![id].open[d] = ~at_end,
            ![id].sent[d] = n,
            ![id].whole = @ /\ ~lost]

(* BufferedDataReporter publishes more of the body, or its end.            *)
BodyData(id, d) ==
  /\ backend[id].open[d]
  /\ \E total \in backend[id].sent[d]..MaxBody, at_end \in BOOLEAN, lost \in BOOLEAN :
       /\ Feed(Message(id, d, "BodyData", "Data", backend[id].sent[d], total,
                       at_end), lost)
       /\ backend' = [backend EXCEPT ![id].open[d] = ~at_end,
                                     ![id].sent[d] = total,
                                     ![id].whole = @ /\ ~lost]

(* It publishes an error of the body.                                      *)
BodyError(id, d) ==
  /\ backend[id].open[d] /\ ~backend[id].error
  /\ \E lost \in BOOLEAN :
       /\ Feed(Message(id, d, "Error", "Data", 0, 0, FALSE), lost)
       /\ backend' = [backend EXCEPT ![id].error = TRUE, ![id].whole = @ /\ ~lost]

(* The backend restarts: exchange ids are counted from the start again.    *)
Restart ==
  /\ faults < MaxFaults
  /\ faults' = faults + 1
  /\ backend' = [id \in Ids |->
       [phase |-> "new", error |-> FALSE,
        whole |-> backend[id].whole /\ backend[id].phase = "new",
        open |-> [d \in Directions |-> FALSE],
        sent |-> [d \in Directions |-> 0]]]
  /\ UNCHANGED <<exchanges, ids, selectedId>>

(* The user selects an exchange: one of the list as it was last rendered,  *)
(* which may have been evicted since. No caller clears the selection.      *)
setSelectedId(id) ==
  /\ backend[id].phase # "new" \/ Known(id)
  /\ selectedId' = id
  /\ UNCHANGED <<exchanges, ids, backend, faults>>

Next ==
  \/ \E id \in Ids, d \in Directions :
       HeadEvent(id, d) \/ BodyData(id, d) \/ BodyError(id, d)
  \/ \E id \in Ids : setSelectedId(id)
  \/ Restart

Spec == Init /\ [][Next]_vars

-----------------------------------------------------------------------------
(* The array and the Map describe the same exchanges, each once: the list  *)
(* renders what the Map holds and the caps count what there is, whatever   *)
(* is evicted, comes back or is merged.                                    *)
IdsMatch ==
  /\ Elements(ids) = DOMAIN exchanges
  /\ \A i, j \in 1..Len(ids) : ids[i] = ids[j] => i = j

(* After every event the store is within both caps, or holds the one       *)
(* exchange it must keep: protecting the selected exchange never blocks    *)
(* the eviction (reducer.ts:211-215).                                      *)
CapsHold ==
  /\ Len(ids) <= MaxExchanges
  /\ TotalBytes(exchanges, ids) <= MaxPayload \/ Len(ids) = 1

(* The selected exchange does not vanish while it is being looked at,      *)
(* whatever arrives and however large it is (reducer.ts:211-212).          *)
SelectedKept ==
  [][Known(selectedId) => selectedId \in DOMAIN exchanges']_vars

(* Of an exchange none of whose events was lost and whose id no restart    *)
(* gave out twice, a body whose head event is in the store holds exactly   *)
(* the bytes the backend has published of it, in order, even when the      *)
(* exchange was evicted and came back.                                     *)
BodyIsWhatWasSent ==
  \A id \in DOMAIN exchanges : \A d \in Directions :
    LET b == exchanges[id].body[d]
        headSeen == IF d = "Request" THEN exchanges[id].request
                    ELSE exchanges[id].status
    IN backend[id].whole /\ headSeen /\ b.present =>
         /\ b.wireBytes = backend[id].sent[d]
         /\ b.atEnd = ~backend[id].open[d]
         /\ b.chunks = [i \in 1..b.wireBytes |-> i]
=============================================================================
