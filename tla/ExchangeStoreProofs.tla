------------------------- MODULE ExchangeStoreProofs -------------------------
(***************************************************************************)
(* Proofs about ExchangeStore: the array and the Map agree, the caps hold, *)
(* the selected exchange is kept and a body holds what was sent of it, for *)
(* every set of exchanges, size of body and pair of caps.                  *)
(***************************************************************************)
EXTENDS ExchangeStore, WellFoundedInduction, TLAPS

Distinct(s) == \A i, j \in 1..Len(s) : s[i] = s[j] => i = j

BodyState == [present : BOOLEAN, chunks : Seq(Nat), wireBytes : Nat,
              atEnd : BOOLEAN]
ExchangeState == [request : BOOLEAN, status : BOOLEAN, error : BOOLEAN,
                  body : [Directions -> BodyState]]
Phases == {"new", "requested", "responded"}
BackendState == [phase : Phases, error : BOOLEAN,
                 whole : BOOLEAN, open : [Directions -> BOOLEAN],
                 sent : [Directions -> Nat]]
Events == [id : Ids, direction : Directions,
           type : {"Request", "Response", "BodyData", "Error"},
           kind : {"NoBody", "NotRead", "Data"}, first : Nat, total : Nat,
           at_end : BOOLEAN]

StoreType ==
  /\ ids \in Seq(Ids)
  /\ exchanges \in [DOMAIN exchanges -> ExchangeState]
  /\ selectedId \in Ids \cup {0}

Backends == [Ids -> BackendState]

BackendType == backend \in Backends

HeadSeen(ex, d) == IF d = "Request" THEN ex.request ELSE ex.status

(* What a body in the store has to do with what the backend sent of it, of *)
(* an exchange that lost no event.                                         *)
BodyAgrees(b, sent, open) ==
  IF b.present
  THEN /\ b.wireBytes = sent
       /\ b.atEnd = ~open
       /\ b.chunks = [i \in 1..sent |-> i]
  ELSE ~open

(* The exchange ex agrees with the backend's side of it.                   *)
Agrees(ex, back) ==
  \A d \in Directions :
    HeadSeen(ex, d) => BodyAgrees(ex.body[d], back.sent[d], back.open[d])

(* An exchange is in the store only after its first event, if none was     *)
(* lost and its id is not used again.                                      *)
Followed ==
  \A id \in DOMAIN exchanges :
    backend[id].whole => backend[id].phase # "new" /\ Agrees(exchanges[id], backend[id])

-----------------------------------------------------------------------------
(* Numbers and sums                                                        *)

(* A set of natural numbers that is not empty has a least one.             *)
LEMMA LeastNumber ==
  ASSUME NEW T \in SUBSET Nat, T # {}
  PROVE  \E k \in T : \A j \in T : k <= j
<1> DEFINE R == OpToRel(<, Nat)
<1>1. IsWellFoundedOn(R, Nat)
  BY NatLessThanWellFounded
<1>2. \A j, k \in Nat : j < k => <<j, k>> \in R
  <2>1. R = {ss \in Nat \X Nat : ss[1] < ss[2]}
    BY Zenon DEF OpToRel
  <2> HIDE DEF R
  <2> SUFFICES ASSUME NEW j \in Nat, NEW k \in Nat, j < k
               PROVE  <<j, k>> \in R
    OBVIOUS
  <2>2. <<j, k>> \in Nat \X Nat /\ <<j, k>>[1] = j /\ <<j, k>>[2] = k
    OBVIOUS
  <2> QED
    BY <2>1, <2>2
<1> HIDE DEF R
<1>3. PICK k \in T : \A j \in T : ~(<<j, k>> \in R)
  BY <1>1, WFMin
<1>4. ASSUME NEW j \in T PROVE k <= j
  <2>1. ~(j < k)
    BY <1>2, <1>3
  <2> QED
    BY <2>1
<1> QED
  BY <1>4

(* The bytes of no exchange are 0.                                         *)
LEMMA EmptySum ==
  ASSUME NEW f, DOMAIN f = {}
  PROVE  SumFunction(f) = 0
<1> DEFINE Iterates(g) ==
      g = [s \in SUBSET (DOMAIN f) |->
             IF s = {} THEN 0
             ELSE f[CHOOSE x \in s : TRUE] + g[s \ {CHOOSE x \in s : TRUE}]]
    iter == CHOOSE g : Iterates(g)
<1>1. SumFunction(f) = iter[DOMAIN f]
  BY DEF SumFunction, SumFunctionOnSet, FoldFunctionOnSet, MapThenFoldSet
<1>2. Iterates([s \in SUBSET (DOMAIN f) |-> 0])
  OBVIOUS
<1>3. Iterates(iter)
  BY <1>2
<1> QED
  BY <1>1, <1>3

-----------------------------------------------------------------------------
(* evict                                                                   *)

(* Dropping the k oldest evictable ids leaves the others, each once, and   *)
(* the protected one among them.                                           *)
LEMMA EvictedArray ==
  ASSUME NEW s \in Seq(Ids), Distinct(s), NEW p,
         NEW k \in 0..EvictableCount(s, p)
  PROVE  LET kept == WithoutOldest(s, k, p)
         IN /\ kept \in Seq(Ids) /\ Distinct(kept)
            /\ Len(kept) = Len(s) - k
            /\ Elements(kept) \subseteq Elements(s)
            /\ p \in Elements(s) => p \in Elements(kept)
<1> DEFINE kept == WithoutOldest(s, k, p)
<1>1. CASE \E q \in 1..k : s[q] = p
  <2>1. PICK q \in 1..k : s[q] = p
    BY <1>1
  <2>2. Len(s) \in Nat /\ q \in 1..Len(s) /\ p \in Ids
    BY <2>1 DEF EvictableCount
  <2>3. k <= Len(s) - 1
    BY <2>1, <2>2 DEF EvictableCount, Elements
  <2>4. kept = <<p>> \o SubSeq(s, k + 2, Len(s))
    BY <1>1 DEF WithoutOldest
  <2>5. /\ SubSeq(s, k + 2, Len(s)) \in Seq(Ids)
        /\ Len(SubSeq(s, k + 2, Len(s))) = Len(s) - k - 1
        /\ \A i \in 1..(Len(s) - k - 1) : SubSeq(s, k + 2, Len(s))[i] = s[k + 1 + i]
    BY <2>2, <2>3
  <2>6. kept \in Seq(Ids) /\ Len(kept) = Len(s) - k
    BY <2>2, <2>3, <2>4, <2>5
  <2>7. kept[1] = p /\ \A i \in 2..Len(kept) : kept[i] = s[k + i]
    BY <2>2, <2>3, <2>4, <2>5, <2>6
  <2>8. Distinct(kept)
    <3> SUFFICES ASSUME NEW i \in 1..Len(kept), NEW j \in 1..Len(kept),
                        kept[i] = kept[j]
                 PROVE  i = j
      BY DEF Distinct
    <3>1. CASE i = 1 /\ j = 1
      BY <3>1
    <3>2. CASE i = 1 /\ j # 1
      BY <2>1, <2>2, <2>3, <2>6, <2>7, <3>2 DEF Distinct
    <3>3. CASE i # 1 /\ j = 1
      BY <2>1, <2>2, <2>3, <2>6, <2>7, <3>3 DEF Distinct
    <3>4. CASE i # 1 /\ j # 1
      <4>1. s[k + i] = s[k + j] /\ k + i \in 1..Len(s) /\ k + j \in 1..Len(s)
        BY <2>2, <2>3, <2>6, <2>7, <3>4
      <4> QED
        BY <2>3, <4>1 DEF Distinct
    <3> QED
      BY <3>1, <3>2, <3>3, <3>4
  <2>9. Elements(kept) \subseteq Elements(s) /\ p \in Elements(kept)
    <3>1. \A i \in 1..Len(kept) : kept[i] \in Elements(s)
      BY <2>1, <2>2, <2>3, <2>6, <2>7 DEF Elements
    <3>2. 1 \in 1..Len(kept)
      BY <2>2, <2>3, <2>6
    <3> QED
      BY <2>7, <3>1, <3>2 DEF Elements
  <2> QED
    BY <2>6, <2>8, <2>9
<1>2. CASE ~\E q \in 1..k : s[q] = p
  <2>1. kept = SubSeq(s, k + 1, Len(s))
    BY <1>2 DEF WithoutOldest
  <2>2. Len(s) \in Nat /\ k <= Len(s)
    BY DEF EvictableCount
  <2>3. /\ kept \in Seq(Ids) /\ Len(kept) = Len(s) - k
        /\ \A i \in 1..Len(kept) : kept[i] = s[k + i]
    BY <2>1, <2>2
  <2> HIDE DEF kept
  <2>4. Distinct(kept)
    BY <2>2, <2>3 DEF Distinct
  <2>5. Elements(kept) \subseteq Elements(s)
    BY <2>2, <2>3 DEF Elements
  <2>6. ASSUME p \in Elements(s) PROVE p \in Elements(kept)
    <3>1. PICK q \in 1..Len(s) : s[q] = p
      BY <2>6 DEF Elements
    <3>2. q > k
      BY <1>2, <2>2, <3>1
    <3>3. q - k \in 1..Len(kept) /\ kept[q - k] = p
      BY <2>2, <2>3, <3>1, <3>2
    <3> QED
      BY <3>3 DEF Elements
  <2> QED
    BY <2>3, <2>4, <2>5, <2>6 DEF kept
<1> QED
  BY <1>1, <1>2

(* evict's loops come to an end, within the caps or at the exchange that   *)
(* must be kept, and never empty the store.                                *)
LEMMA EnoughDropped ==
  ASSUME NEW map, NEW s \in Seq(Ids), s # <<>>, NEW p
  PROVE  LET k == Dropped(map, s, p)
         IN /\ k \in 0..EvictableCount(s, p)
            /\ k < Len(s)
            /\ Enough(map, s, k, p)
<1> DEFINE n == EvictableCount(s, p)
           T == {k \in 0..n : Enough(map, s, k, p)}
           First(k) == /\ Enough(map, s, k, p)
                       /\ \A j \in 0..(k - 1) : ~Enough(map, s, j, p)
<1>1. Len(s) \in Nat /\ Len(s) > 0 /\ n \in {Len(s) - 1, Len(s)} /\ n \in Nat
  BY DEF EvictableCount
<1>2. Enough(map, s, n, p)
  BY DEF Enough
<1>3. Enough(map, s, Len(s) - 1, p)
  BY <1>1, StoreAssumption DEF Enough
<1> HIDE DEF n
<1>4. T \in SUBSET Nat /\ T # {}
  BY <1>1, <1>2
<1>5. PICK k \in T : \A j \in T : k <= j
  BY <1>4, LeastNumber
<1>6. k \in 0..n /\ First(k)
  BY <1>1, <1>5
<1>7. Dropped(map, s, p) = CHOOSE i \in 0..n : First(i)
  BY DEF Dropped, n
<1>8. Dropped(map, s, p) \in 0..n /\ First(Dropped(map, s, p))
  BY <1>6, <1>7
<1>9. Dropped(map, s, p) < Len(s)
  BY <1>1, <1>3, <1>8
<1> QED
  BY <1>8, <1>9 DEF n

-----------------------------------------------------------------------------
(* apply                                                                   *)

(* The bytes of an event are numbered from where it says.                  *)
LEMMA PayloadType ==
  ASSUME NEW m \in Events, m.first <= m.total
  PROVE  /\ Payload(m) \in Seq(Nat)
         /\ Len(Payload(m)) = m.total - m.first
         /\ \A i \in 1..(m.total - m.first) : Payload(m)[i] = m.first + i
<1> DEFINE n == m.total - m.first
<1>1. n \in Nat /\ m.first \in Nat
  BY DEF Events
<1>2. Payload(m) = [i \in 1..n |-> m.first + i]
  BY DEF Payload
<1> HIDE DEF n
<1>3. Payload(m) \in [1..n -> Nat]
  BY <1>1, <1>2
<1>4. Payload(m) \in Seq(Nat) /\ Len(Payload(m)) = n
  BY <1>1, <1>3
<1> QED
  BY <1>2, <1>4 DEF n

(* The bodies an event makes are bodies.                                   *)
LEMMA NewBodies ==
  ASSUME NEW m \in Events, m.first <= m.total, NEW b \in BodyState
  PROVE  /\ NoBody \in BodyState
         /\ initialBodyToState(m) \in BodyState
         /\ appendBodyData(b, m) \in BodyState
<1>1. Payload(m) \in Seq(Nat) /\ b.chunks \o Payload(m) \in Seq(Nat)
  BY PayloadType DEF BodyState
<1>2. <<>> \in Seq(Nat)
  OBVIOUS
<1>3. NoBody \in BodyState
  BY <1>2 DEF NoBody, BodyState
<1>4. initialBodyToState(m) \in BodyState
  BY <1>1, <1>3 DEF initialBodyToState, BodyState, Events
<1>5. appendBodyData(b, m) \in BodyState
  BY <1>1 DEF appendBodyData, BodyState, Events
<1> QED
  BY <1>3, <1>4, <1>5

(* The fields of an updated exchange.                                      *)
LEMMA UpdatedFields ==
  ASSUME NEW ex \in ExchangeState, NEW m \in Events, m.first <= m.total,
         m.type \in {"Request", "Response"} => m.direction = m.type
  PROVE  LET new == Updated(ex, m)
             b   == ex.body[m.direction]
         IN /\ new \in ExchangeState
            /\ new.request = (ex.request \/ m.type = "Request")
            /\ new.status = (ex.status \/ m.type = "Response")
            /\ \A d \in Directions \ {m.direction} : new.body[d] = ex.body[d]
            /\ new.body[m.direction] =
                 IF m.type = "BodyData" THEN appendBodyData(b, m)
                 ELSE IF m.type = "Error" THEN b
                 ELSE initialBodyToState(m)
<1> DEFINE b == ex.body[m.direction]
<1>1. /\ ex.body \in [Directions -> BodyState] /\ m.direction \in Directions
      /\ b \in BodyState /\ ex.request \in BOOLEAN /\ ex.status \in BOOLEAN
      /\ m.type \in {"Request", "Response", "BodyData", "Error"}
  BY DEF ExchangeState, Events
<1>2. initialBodyToState(m) \in BodyState /\ appendBodyData(b, m) \in BodyState
  BY <1>1, NewBodies
<1>3. CASE m.type = "Request"
  <2> DEFINE bodies == [ex.body EXCEPT ![m.direction] = initialBodyToState(m)]
  <2>1. m.direction = "Request"
    BY <1>3
  <2>2. Updated(ex, m) = [ex EXCEPT !.request = TRUE,
                                    !.body["Request"] = initialBodyToState(m)]
    BY <1>3 DEF Updated
  <2>3. Updated(ex, m) = [ex EXCEPT !.request = TRUE, !.body = bodies]
    BY <2>1, <2>2 DEF ExchangeState
  <2>4. /\ bodies \in [Directions -> BodyState]
        /\ bodies[m.direction] = initialBodyToState(m)
        /\ \A d \in Directions \ {m.direction} : bodies[d] = ex.body[d]
    BY <1>1, <1>2
  <2> HIDE DEF bodies
  <2> QED
    BY <1>1, <1>3, <2>3, <2>4 DEF ExchangeState
<1>4. CASE m.type = "Response"
  <2> DEFINE bodies == [ex.body EXCEPT ![m.direction] = initialBodyToState(m)]
  <2>1. m.direction = "Response"
    BY <1>4
  <2>2. Updated(ex, m) = [ex EXCEPT !.status = TRUE,
                                    !.body["Response"] = initialBodyToState(m)]
    BY <1>4 DEF Updated
  <2>3. Updated(ex, m) = [ex EXCEPT !.status = TRUE, !.body = bodies]
    BY <2>1, <2>2 DEF ExchangeState
  <2>4. /\ bodies \in [Directions -> BodyState]
        /\ bodies[m.direction] = initialBodyToState(m)
        /\ \A d \in Directions \ {m.direction} : bodies[d] = ex.body[d]
    BY <1>1, <1>2
  <2> HIDE DEF bodies
  <2> QED
    BY <1>1, <1>4, <2>3, <2>4 DEF ExchangeState
<1>5. CASE m.type = "BodyData"
  <2>1. Updated(ex, m) = [ex EXCEPT !.body[m.direction] = appendBodyData(b, m)]
    BY <1>5 DEF Updated
  <2> QED
    BY <1>1, <1>2, <1>5, <2>1 DEF ExchangeState
<1>6. CASE m.type = "Error"
  <2>1. Updated(ex, m) = [ex EXCEPT !.error = TRUE]
    BY <1>6 DEF Updated
  <2> QED
    BY <1>1, <1>6, <2>1 DEF ExchangeState
<1> QED
  BY <1>1, <1>3, <1>4, <1>5, <1>6

(* An event as the backend sends it.                                       *)
WellMade(m) ==
  /\ m \in Events /\ m.first <= m.total
  /\ m.type \in {"Request", "Response"} => m.direction = m.type

(* What apply starts from.                                                 *)
Prev(id) == IF Known(id) THEN exchanges[id] ELSE FreshExchange

(* That is an exchange.                                                    *)
LEMMA PrevType ==
  ASSUME StoreType, NEW id
  PROVE  Prev(id) \in ExchangeState
<1>1. <<>> \in Seq(Nat)
  OBVIOUS
<1>2. FreshExchange \in ExchangeState
  BY <1>1 DEF FreshExchange, NoBody, ExchangeState, BodyState
<1> QED
  BY <1>2 DEF StoreType, Prev, Known

(* applyEvent keeps array and Map together and within the caps, keeps the  *)
(* selected exchange, and changes no other exchange than the event's.      *)
LEMMA EventApplied ==
  ASSUME StoreType, IdsMatch, NEW m, WellMade(m), applyEvent(m),
         UNCHANGED selectedId
  PROVE  /\ StoreType' /\ IdsMatch' /\ CapsHold'
         /\ Known(selectedId) => selectedId \in DOMAIN exchanges'
         /\ \A id \in DOMAIN exchanges' :
              IF id = m.id THEN exchanges'[id] = Updated(Prev(id), m)
              ELSE id \in DOMAIN exchanges /\ exchanges'[id] = exchanges[id]
<1> DEFINE map == Applied(m)
           all == Pushed(m)
           k == Dropped(map, all, selectedId)
           kept == WithoutOldest(all, k, selectedId)
<1>1. m.id \in Ids
  BY DEF WellMade, Events
<1>2. /\ DOMAIN map = DOMAIN exchanges \cup {m.id}
      /\ map[m.id] = Updated(Prev(m.id), m)
      /\ \A id \in DOMAIN exchanges \ {m.id} : map[id] = exchanges[id]
  BY DEF Applied, Prev
<1>3. \A id \in DOMAIN map : map[id] \in ExchangeState
  <2>1. Updated(Prev(m.id), m) \in ExchangeState
    BY PrevType, UpdatedFields DEF WellMade
  <2> QED
    BY <1>2, <2>1 DEF StoreType
<1>4. /\ all \in Seq(Ids) /\ Distinct(all) /\ all # <<>>
      /\ Elements(all) = DOMAIN map
  <2>1. CASE Known(m.id)
    <3>1. all = ids
      BY <2>1 DEF Pushed
    <3>2. Elements(ids) = DOMAIN map /\ Elements(ids) # {}
      BY <1>2, <2>1 DEF IdsMatch, Known
    <3>3. ids # <<>>
      BY <3>2 DEF Elements
    <3> QED
      BY <3>1, <3>2, <3>3 DEF StoreType, IdsMatch, Distinct
  <2>2. CASE ~Known(m.id)
    <3>1. /\ all = Append(ids, m.id)
          /\ ids \in Seq(Ids) /\ Len(ids) \in Nat
      BY <2>2 DEF Pushed, StoreType
    <3>2. /\ all \in Seq(Ids) /\ Len(all) = Len(ids) + 1
          /\ all[Len(ids) + 1] = m.id
          /\ \A i \in 1..Len(ids) : all[i] = ids[i]
      BY <1>1, <3>1
    <3> HIDE DEF all
    <3>3. \A i \in 1..Len(ids) : ids[i] # m.id
      BY <2>2 DEF Known, IdsMatch, Elements
    <3>4. Distinct(all)
      BY <3>1, <3>2, <3>3 DEF Distinct, IdsMatch
    <3>5. Elements(all) = Elements(ids) \cup {m.id}
      BY <3>1, <3>2 DEF Elements
    <3> QED
      BY <1>2, <3>1, <3>2, <3>4, <3>5 DEF IdsMatch
  <2> QED
    BY <2>1, <2>2
<1>5. /\ ids' = kept
      /\ exchanges' = [id \in DOMAIN map \cap Elements(kept) |-> map[id]]
  BY DEF applyEvent
<1> HIDE DEF map, all
<1>6. /\ k \in 0..EvictableCount(all, selectedId) /\ k < Len(all)
      /\ Enough(map, all, k, selectedId)
  BY <1>4, EnoughDropped
<1> HIDE DEF k
<1>7. /\ kept \in Seq(Ids) /\ Distinct(kept) /\ Len(kept) = Len(all) - k
      /\ Elements(kept) \subseteq Elements(all)
      /\ selectedId \in Elements(all) => selectedId \in Elements(kept)
  BY <1>4, <1>6, EvictedArray
<1>8. /\ DOMAIN exchanges' = Elements(kept)
      /\ \A id \in Elements(kept) : exchanges'[id] = map[id]
  BY <1>4, <1>5, <1>7
<1>9. TotalBytes(exchanges, ids)' = TotalBytes(map, kept)
  <2>1. [id \in Elements(ids') |-> exchangeBytes(exchanges'[id])]
          = [id \in Elements(kept) |-> exchangeBytes(map[id])]
    BY <1>5, <1>8
  <2> QED
    BY <2>1 DEF TotalBytes
<1>10. CapsHold'
  <2>1. Len(all) \in Nat /\ k \in Nat /\ Len(ids') = Len(all) - k /\ Len(ids') >= 1
    BY <1>4, <1>5, <1>6, <1>7 DEF EvictableCount
  <2>2. CASE k = EvictableCount(all, selectedId)
    <3>1. Len(ids') = 1
      BY <2>1, <2>2 DEF EvictableCount
    <3> QED
      BY <3>1, StoreAssumption DEF CapsHold
  <2>3. CASE /\ Len(all) - k <= MaxExchanges
             /\ \/ TotalBytes(map, kept) <= MaxPayload
                \/ Len(all) - k <= 1
    BY <1>9, <2>1, <2>3 DEF CapsHold
  <2> QED
    BY <1>6, <2>2, <2>3 DEF Enough
<1>11. StoreType'
  <2>1. ids' \in Seq(Ids)
    BY <1>5, <1>7
  <2>2. exchanges' \in [DOMAIN exchanges' -> ExchangeState]
    BY <1>3, <1>4, <1>5, <1>7
  <2> QED
    BY <2>1, <2>2 DEF StoreType
<1>12. IdsMatch'
  BY <1>5, <1>7, <1>8 DEF IdsMatch, Distinct
<1>13. Known(selectedId) => selectedId \in DOMAIN exchanges'
  BY <1>2, <1>4, <1>7, <1>8 DEF Known
<1> QED
  BY <1>2, <1>4, <1>7, <1>8, <1>10, <1>11, <1>12, <1>13

-----------------------------------------------------------------------------
(* The feed                                                                *)

(* What holds of the store whatever the backend sends.                     *)
StoreInv == StoreType /\ IdsMatch /\ CapsHold

(* What one event, lost or applied and then evicted for, does to the       *)
(* store.                                                                  *)
LEMMA Fed ==
  ASSUME StoreInv, NEW m, WellMade(m), NEW lost \in BOOLEAN, Feed(m, lost)
  PROVE  /\ StoreInv'
         /\ Known(selectedId) => selectedId \in DOMAIN exchanges'
         /\ lost => UNCHANGED exchanges
         /\ ~lost => \A id \in DOMAIN exchanges' :
              IF id = m.id THEN exchanges'[id] = Updated(Prev(id), m)
              ELSE id \in DOMAIN exchanges /\ exchanges'[id] = exchanges[id]
<1>1. CASE lost
  <2>1. UNCHANGED <<exchanges, ids, selectedId>>
    BY <1>1 DEF Feed, storeVars
  <2>2. TotalBytes(exchanges, ids)' = TotalBytes(exchanges, ids)
    BY <2>1 DEF TotalBytes
  <2> QED
    BY <1>1, <2>1, <2>2 DEF StoreInv, StoreType, IdsMatch, CapsHold, Known
<1>2. CASE ~lost
  <2>1. applyEvent(m) /\ UNCHANGED selectedId
    BY <1>2 DEF Feed
  <2> QED
    BY <1>2, <2>1, EventApplied DEF StoreInv
<1> QED
  BY <1>1, <1>2

(* The events the backend emits.                                           *)
LEMMA EventsWellMade ==
  ASSUME NEW id \in Ids, NEW d \in Directions,
         NEW type \in {d, "BodyData", "Error"},
         NEW kind \in {"NoBody", "NotRead", "Data"}, NEW first \in Nat,
         NEW total \in Nat, first <= total, NEW at_end \in BOOLEAN
  PROVE  WellMade(Message(id, d, type, kind, first, total, at_end))
BY DEF WellMade, Message, Events, Directions

(* What a message does to the backend's side of its exchange.              *)

(* The fields of one backend exchange can be set one by one.               *)
LEMMA PhaseSet ==
  ASSUME NEW f \in Backends, NEW id \in Ids,
         NEW v \in Phases
  PROVE  [f EXCEPT ![id].phase = v] \in Backends
BY DEF Backends, BackendState

(* Its body is open until the end of it was sent.                          *)
LEMMA OpenSet ==
  ASSUME NEW f \in Backends, NEW id \in Ids, NEW d \in Directions,
         NEW at_end \in BOOLEAN
  PROVE  [f EXCEPT ![id].open[d] = ~at_end] \in Backends
BY DEF Backends, BackendState

(* As many bytes of it were sent.                                          *)
LEMMA SentSet ==
  ASSUME NEW f \in Backends, NEW id \in Ids, NEW d \in Directions, NEW v \in Nat
  PROVE  [f EXCEPT ![id].sent[d] = v] \in Backends
BY DEF Backends, BackendState

(* It is whole until an event is lost.                                     *)
LEMMA WholeSet ==
  ASSUME NEW f \in Backends, NEW id \in Ids, NEW lost \in BOOLEAN
  PROVE  [f EXCEPT ![id].whole = @ /\ ~lost] \in Backends
BY DEF Backends, BackendState

(* The backend after it sent content.                                      *)
AfterData(f, id, d, at_end, n, lost) ==
  [f EXCEPT ![id].open[d] = ~at_end, ![id].sent[d] = n,
            ![id].whole = @ /\ ~lost]

(* The backend after it sent a head.                                       *)
AfterHead(f, id, phase, d, at_end, n, lost) ==
  [f EXCEPT ![id].phase = phase, ![id].open[d] = ~at_end, ![id].sent[d] = n,
            ![id].whole = @ /\ ~lost]

(* Sending content changes the one body of the one exchange.               *)
LEMMA BodySent ==
  ASSUME NEW f \in Backends, NEW id \in Ids, NEW d \in Directions,
         NEW at_end \in BOOLEAN, NEW n \in Nat, NEW lost \in BOOLEAN, NEW g,
         g = AfterData(f, id, d, at_end, n, lost)
  PROVE  /\ g \in Backends
         /\ g[id].phase = f[id].phase
         /\ g[id].whole = (f[id].whole /\ ~lost)
         /\ g[id].open[d] = ~at_end /\ g[id].sent[d] = n
         /\ \A c \in Directions \ {d} :
              g[id].open[c] = f[id].open[c] /\ g[id].sent[c] = f[id].sent[c]
         /\ \A j \in Ids \ {id} : g[j] = f[j]
<1> DEFINE f1 == [f EXCEPT ![id].open[d] = ~at_end]
           f2 == [f1 EXCEPT ![id].sent[d] = n]
           f3 == [f2 EXCEPT ![id].whole = @ /\ ~lost]
<1>1. f1 \in Backends
  BY OpenSet
<1>2. f2 \in Backends
  BY <1>1, SentSet
<1>3. f3 \in Backends
  BY <1>2, WholeSet
<1>4. g \in Backends
  BY <1>3, Zenon DEF AfterData
<1>5. /\ g[id].phase = f[id].phase
      /\ g[id].whole = (f[id].whole /\ ~lost)
      /\ g[id].open = [f[id].open EXCEPT ![d] = ~at_end]
      /\ g[id].sent = [f[id].sent EXCEPT ![d] = n]
  BY SMT DEF Backends, BackendState, AfterData
<1>6. \A j \in Ids \ {id} : g[j] = f[j]
  BY SMT DEF Backends, AfterData
<1>7. f[id].open \in [Directions -> BOOLEAN] /\ f[id].sent \in [Directions -> Nat]
  BY DEF Backends, BackendState
<1> HIDE DEF f1, f2, f3
<1>8. /\ g[id].open[d] = ~at_end
      /\ \A c \in Directions \ {d} : g[id].open[c] = f[id].open[c]
  BY ONLY <1>5, <1>7, d \in Directions
<1>9. /\ g[id].sent[d] = n
      /\ \A c \in Directions \ {d} : g[id].sent[c] = f[id].sent[c]
  BY ONLY <1>5, <1>7, d \in Directions
<1> QED
  BY ONLY <1>4, <1>5, <1>6, <1>8, <1>9

(* Sending a head changes its exchange's phase and body only.              *)
LEMMA HeadSent ==
  ASSUME NEW f \in Backends, NEW id \in Ids, NEW d \in Directions,
         NEW phase \in Phases,
         NEW at_end \in BOOLEAN, NEW n \in Nat, NEW lost \in BOOLEAN, NEW g,
         g = AfterHead(f, id, phase, d, at_end, n, lost)
  PROVE  /\ g \in Backends
         /\ g[id].phase = phase
         /\ g[id].whole = (f[id].whole /\ ~lost)
         /\ g[id].open[d] = ~at_end /\ g[id].sent[d] = n
         /\ \A c \in Directions \ {d} :
              g[id].open[c] = f[id].open[c] /\ g[id].sent[c] = f[id].sent[c]
         /\ \A j \in Ids \ {id} : g[j] = f[j]
<1> DEFINE f1 == [f EXCEPT ![id].phase = phase]
<1>1. f1 \in Backends
  BY PhaseSet
<1>2. g = AfterData(f1, id, d, at_end, n, lost)
  BY Zenon DEF AfterHead, AfterData
<1>3. /\ f1[id].phase = phase /\ f1[id].whole = f[id].whole
      /\ f1[id].open = f[id].open /\ f1[id].sent = f[id].sent
      /\ \A j \in Ids \ {id} : f1[j] = f[j]
  BY DEF Backends, BackendState
<1> HIDE DEF f1
<1>4. /\ g \in Backends
      /\ g[id].phase = f1[id].phase
      /\ g[id].whole = (f1[id].whole /\ ~lost)
      /\ g[id].open[d] = ~at_end /\ g[id].sent[d] = n
      /\ \A c \in Directions \ {d} :
           g[id].open[c] = f1[id].open[c] /\ g[id].sent[c] = f1[id].sent[c]
      /\ \A j \in Ids \ {id} : g[j] = f1[j]
  BY <1>1, <1>2, BodySent
<1> QED
  BY ONLY <1>3, <1>4

(* A body is open only once its exchange has begun.                        *)
OpenBegun ==
  \A id \in Ids, d \in Directions :
    backend[id].open[d] => backend[id].phase # "new"

(* The inductive invariant: what the store holds follows what was sent.    *)
Inv == StoreInv /\ BackendType /\ OpenBegun /\ Followed

(* What is left to show of an event: the event's own exchange agrees with  *)
(* the backend after it, if the event was not lost.                        *)
LEMMA FollowedStep ==
  ASSUME Inv, NEW id \in Ids, NEW m, WellMade(m), m.id = id,
         NEW lost \in BOOLEAN, Feed(m, lost),
         \A j \in Ids \ {id} : backend'[j] = backend[j],
         backend'[id].whole = (backend[id].whole /\ ~lost),
         backend'[id].phase # "new",
         backend[id].whole /\ ~lost => Agrees(Updated(Prev(id), m), backend'[id])
  PROVE  Followed'
<1> SUFFICES ASSUME NEW j \in DOMAIN exchanges', backend'[j].whole
             PROVE  /\ backend'[j].phase # "new"
                    /\ Agrees(exchanges'[j], backend'[j])
  BY DEF Followed
<1>1. /\ lost => UNCHANGED exchanges
      /\ ~lost => IF j = id THEN exchanges'[j] = Updated(Prev(j), m)
                  ELSE j \in DOMAIN exchanges /\ exchanges'[j] = exchanges[j]
  BY Fed DEF Inv
<1>2. CASE j = id
  BY <1>1, <1>2 DEF Inv, BackendType, Backends, BackendState
<1>3. CASE j # id
  <2>1. j \in DOMAIN exchanges /\ exchanges'[j] = exchanges[j]
    BY <1>1, <1>3
  <2>2. j \in Ids
    BY <2>1 DEF Inv, StoreInv, StoreType, IdsMatch, Elements
  <2> QED
    BY <1>3, <2>1, <2>2 DEF Inv, Followed
<1> QED
  BY <1>2, <1>3

(* A direction the message is not about agrees as before.                  *)
LEMMA OtherDirection ==
  ASSUME Inv, NEW id \in Ids, NEW m, WellMade(m), m.id = id, NEW c \in Directions,
         c # m.direction, backend[id].whole, HeadSeen(Updated(Prev(id), m), c)
  PROVE  BodyAgrees(Updated(Prev(id), m).body[c], backend[id].sent[c],
                    backend[id].open[c])
<1> DEFINE new == Updated(Prev(id), m)
<1>1. Prev(id) \in ExchangeState
  BY PrevType DEF Inv, StoreInv
<1>2. /\ new.request = (Prev(id).request \/ m.type = "Request")
      /\ new.status = (Prev(id).status \/ m.type = "Response")
      /\ new.body[c] = Prev(id).body[c]
  BY <1>1, UpdatedFields DEF WellMade
<1> HIDE DEF new
<1>3. HeadSeen(Prev(id), c)
  BY <1>1, <1>2 DEF HeadSeen, WellMade, Directions, new
<1>4. Known(id)
  BY <1>3 DEF Prev, HeadSeen, FreshExchange
<1>5. Agrees(Prev(id), backend[id])
  BY <1>4 DEF Inv, Followed, Prev, Known
<1> QED
  BY <1>2, <1>3, <1>5 DEF Agrees, new

(* A head event keeps the invariant and the selection.                     *)
LEMMA HeadEventInv ==
  ASSUME Inv, NEW id \in Ids, NEW d \in Directions, HeadEvent(id, d)
  PROVE  Inv' /\ (Known(selectedId) => selectedId \in DOMAIN exchanges')
<1> DEFINE Phase == IF d = "Request" THEN "requested" ELSE "responded"
<1>1. PICK kind \in {"NoBody", "NotRead", "Data"}, n \in Nat, at_end \in BOOLEAN,
           lost \in BOOLEAN :
        /\ kind = "NoBody" => at_end = TRUE
        /\ Feed(Message(id, d, d, kind, 0, n, at_end), lost)
        /\ backend' = [backend EXCEPT
             ![id].phase = Phase,
             ![id].open[d] = ~at_end,
             ![id].sent[d] = n,
             ![id].whole = @ /\ ~lost]
  <2> HIDE DEF Phase
  <2> DEFINE P(kind, n, at_end, lost) ==
        /\ Feed(Message(id, d, d, kind, 0, n, at_end), lost)
        /\ backend' = [backend EXCEPT
             ![id].phase = Phase,
             ![id].open[d] = ~at_end,
             ![id].sent[d] = n,
             ![id].whole = @ /\ ~lost]
  <2>1. PICK kind \in IF d \in BodyOf THEN {"NotRead", "Data"} ELSE {"NoBody"} :
          \E n \in IF kind = "Data" THEN 1..MaxBody ELSE {0} :
          \E at_end \in IF kind = "Data" THEN BOOLEAN ELSE {kind = "NoBody"} :
          \E lost \in BOOLEAN : P(kind, n, at_end, lost)
    BY Zenon DEF HeadEvent, Phase
  <2> HIDE DEF P
  <2>2. CASE kind = "Data"
    <3>1. PICK n \in 1..MaxBody, at_end \in BOOLEAN, lost \in BOOLEAN :
            P(kind, n, at_end, lost)
      BY <2>1, <2>2, Zenon
    <3>2. n \in Nat
      BY StoreAssumption
    <3> QED
      BY <2>2, <3>1, <3>2, Zenon DEF P
  <2>3. CASE kind = "NotRead"
    <3>1. PICK lost \in BOOLEAN : P(kind, 0, FALSE, lost)
      BY <2>1, <2>3, Zenon
    <3>2. 0 \in Nat
      OBVIOUS
    <3> QED
      BY <2>3, <3>1, <3>2, Zenon DEF P
  <2>4. CASE kind = "NoBody"
    <3>1. PICK lost \in BOOLEAN : P(kind, 0, TRUE, lost)
      BY <2>1, <2>4, Zenon
    <3>2. 0 \in Nat
      OBVIOUS
    <3> QED
      BY <2>4, <3>1, <3>2, Zenon DEF P
  <2> QED
    BY <2>1, <2>2, <2>3, <2>4
<1> DEFINE m == Message(id, d, d, kind, 0, n, at_end)
<1>2. 0 \in Nat /\ 0 <= n
  OBVIOUS
<1>3. WellMade(m)
  BY <1>2, EventsWellMade
<1>4. /\ BackendType'
      /\ backend'[id].phase = Phase
      /\ backend'[id].whole = (backend[id].whole /\ ~lost)
      /\ backend'[id].open[d] = ~at_end /\ backend'[id].sent[d] = n
      /\ \A c \in Directions \ {d} :
           /\ backend'[id].open[c] = backend[id].open[c]
           /\ backend'[id].sent[c] = backend[id].sent[c]
      /\ \A j \in Ids \ {id} : backend'[j] = backend[j]
  <2>1. PICK phase \in Phases : phase = Phase
    BY DEF Phases
  <2>2. backend' = AfterHead(backend, id, phase, d, at_end, n, lost)
    BY <1>1, <2>1 DEF AfterHead
  <2>3. backend \in Backends
    BY DEF Inv, BackendType
  <2>4. /\ backend' \in Backends
        /\ backend'[id].phase = phase
        /\ backend'[id].whole = (backend[id].whole /\ ~lost)
        /\ backend'[id].open[d] = ~at_end /\ backend'[id].sent[d] = n
        /\ \A c \in Directions \ {d} :
             /\ backend'[id].open[c] = backend[id].open[c]
             /\ backend'[id].sent[c] = backend[id].sent[c]
        /\ \A j \in Ids \ {id} : backend'[j] = backend[j]
    BY ONLY <2>2, <2>3, HeadSent, id \in Ids, d \in Directions, n \in Nat,
            at_end \in BOOLEAN, lost \in BOOLEAN, phase \in Phases
  <2> QED
    BY ONLY <2>1, <2>4 DEF BackendType
<1>5. ASSUME backend[id].whole, ~lost
      PROVE  Agrees(Updated(Prev(id), m), backend'[id])
  <2> SUFFICES ASSUME NEW c \in Directions, HeadSeen(Updated(Prev(id), m), c)
               PROVE  BodyAgrees(Updated(Prev(id), m).body[c],
                                 backend'[id].sent[c], backend'[id].open[c])
    BY DEF Agrees
  <2>1. m.direction = d /\ m.id = id /\ m.type = d /\ m.kind = kind /\ m.first = 0
        /\ m.total = n /\ m.at_end = at_end
    BY DEF Message
  <2> HIDE DEF m
  <2>2. CASE c # d
    BY <1>3, <1>4, <1>5, <2>1, <2>2, OtherDirection
  <2>3. CASE c = d
    <3>1. Updated(Prev(id), m).body[d] = initialBodyToState(m)
      <4>1. Prev(id) \in ExchangeState
        BY PrevType DEF Inv, StoreInv
      <4> QED
        BY <1>3, <2>1, <4>1, UpdatedFields DEF WellMade, Directions
    <3>2. Payload(m) = [i \in 1..n |-> i]
      BY <1>2, <2>1 DEF Payload
    <3>3. BodyAgrees(initialBodyToState(m), n, ~at_end)
      BY <1>1, <2>1, <3>2 DEF BodyAgrees, initialBodyToState, NoBody
    <3> QED
      BY <1>4, <2>3, <3>1, <3>3
  <2> QED
    BY <2>2, <2>3
<1>6. m.id = id
  BY DEF Message
<1> HIDE DEF m
<1>7. Followed'
  <2>1. Feed(m, lost)
    BY <1>1 DEF m
  <2>2. backend'[id].phase # "new"
    BY <1>4
  <2> QED
    BY ONLY Inv, <1>3, <1>4, <1>5, <1>6, <2>1, <2>2, FollowedStep, id \in Ids,
            lost \in BOOLEAN
<1>8. OpenBegun'
  BY <1>4 DEF OpenBegun, Inv
<1> QED
  BY <1>1, <1>3, <1>4, <1>7, <1>8, Fed DEF Inv, m

(* A content event does, whatever of it is lost.                           *)
LEMMA BodyDataInv ==
  ASSUME Inv, NEW id \in Ids, NEW d \in Directions, BodyData(id, d)
  PROVE  Inv' /\ (Known(selectedId) => selectedId \in DOMAIN exchanges')
<1> DEFINE first == backend[id].sent[d]
<1>1. PICK total \in first..MaxBody, at_end \in BOOLEAN, lost \in BOOLEAN :
        /\ Feed(Message(id, d, "BodyData", "Data", first, total, at_end), lost)
        /\ backend' = [backend EXCEPT ![id].open[d] = ~at_end,
                                      ![id].sent[d] = total,
                                      ![id].whole = @ /\ ~lost]
  BY DEF BodyData
<1> DEFINE m == Message(id, d, "BodyData", "Data", first, total, at_end)
<1>2. first \in Nat /\ total \in Nat /\ first <= total
  BY <1>1, StoreAssumption DEF Inv, BackendType, Backends, BackendState
<1>3. WellMade(m)
  BY <1>2, EventsWellMade
<1>4. /\ BackendType'
      /\ backend'[id].phase = backend[id].phase
      /\ backend'[id].whole = (backend[id].whole /\ ~lost)
      /\ backend'[id].open[d] = ~at_end /\ backend'[id].sent[d] = total
      /\ \A c \in Directions \ {d} :
           /\ backend'[id].open[c] = backend[id].open[c]
           /\ backend'[id].sent[c] = backend[id].sent[c]
      /\ \A j \in Ids \ {id} : backend'[j] = backend[j]
  <2>1. backend \in Backends
    BY DEF Inv, BackendType
  <2>2. backend' = AfterData(backend, id, d, at_end, total, lost)
    BY <1>1, Zenon DEF AfterData
  <2> QED
    BY <1>2, <2>1, <2>2, BodySent DEF BackendType
<1>5. ASSUME backend[id].whole, ~lost
      PROVE  Agrees(Updated(Prev(id), m), backend'[id])
  <2> SUFFICES ASSUME NEW c \in Directions, HeadSeen(Updated(Prev(id), m), c)
               PROVE  BodyAgrees(Updated(Prev(id), m).body[c],
                                 backend'[id].sent[c], backend'[id].open[c])
    BY DEF Agrees
  <2>1. /\ m.direction = d /\ m.id = id /\ m.type = "BodyData"
        /\ m.first = first /\ m.total = total /\ m.at_end = at_end
    BY DEF Message
  <2> HIDE DEF m
  <2>2. CASE c # d
    BY <1>3, <1>4, <1>5, <2>1, <2>2, OtherDirection
  <2>3. CASE c = d
    <3> DEFINE b == Prev(id).body[d]
    <3>1. Prev(id) \in ExchangeState /\ b \in BodyState
      BY PrevType DEF Inv, StoreInv, ExchangeState
    <3>2. /\ Updated(Prev(id), m).body[d] = appendBodyData(b, m)
          /\ HeadSeen(Prev(id), d)
      BY <1>3, <2>1, <2>3, <3>1, UpdatedFields
         DEF WellMade, HeadSeen, ExchangeState
    <3>3. Known(id)
      BY <3>2 DEF Prev, HeadSeen, FreshExchange
    <3>4. BodyAgrees(b, first, backend[id].open[d])
      BY <1>5, <3>2, <3>3 DEF Inv, Followed, Prev, Known, Agrees
    <3>5. b.present /\ b.chunks = [i \in 1..first |-> i]
      BY <3>4 DEF BodyAgrees, BodyData
    <3>6. b.chunks \o Payload(m) = [i \in 1..total |-> i]
      <4>1. /\ Payload(m) \in Seq(Nat) /\ Len(Payload(m)) = total - first
            /\ \A i \in 1..(total - first) : Payload(m)[i] = first + i
        BY <1>3, <2>1, PayloadType DEF WellMade
      <4>2. b.chunks \in Seq(Nat) /\ Len(b.chunks) = first
            /\ \A i \in 1..first : b.chunks[i] = i
        BY <1>2, <3>1, <3>5 DEF BodyState
      <4> HIDE DEF first, b
      <4>3. /\ b.chunks \o Payload(m) \in Seq(Nat)
            /\ Len(b.chunks \o Payload(m)) = total
        BY <1>2, <4>1, <4>2
      <4>4. \A i \in 1..total : (b.chunks \o Payload(m))[i] = i
        BY <1>2, <4>1, <4>2
      <4>5. \A s \in Seq(Nat) :
              Len(s) = total => s = [i \in 1..total |-> s[i]]
        OBVIOUS
      <4> QED
        BY <4>3, <4>4, <4>5
    <3>7. BodyAgrees(appendBodyData(b, m), total, ~at_end)
      BY <2>1, <3>1, <3>6 DEF BodyAgrees, appendBodyData, BodyState
    <3> QED
      BY <1>4, <2>3, <3>2, <3>7
  <2> QED
    BY <2>2, <2>3
<1>6. m.id = id
  BY DEF Message
<1> HIDE DEF m
<1>7. backend[id].phase # "new"
  BY DEF BodyData, Inv, OpenBegun
<1>8. Followed'
  BY <1>1, <1>3, <1>4, <1>5, <1>6, <1>7, FollowedStep DEF m
<1>9. OpenBegun'
  BY <1>4, <1>7 DEF OpenBegun, Inv
<1> QED
  BY <1>1, <1>3, <1>4, <1>8, <1>9, Fed DEF Inv, m

(* An error event does.                                                    *)
LEMMA BodyErrorInv ==
  ASSUME Inv, NEW id \in Ids, NEW d \in Directions, BodyError(id, d)
  PROVE  Inv' /\ (Known(selectedId) => selectedId \in DOMAIN exchanges')
<1>1. PICK lost \in BOOLEAN :
        /\ Feed(Message(id, d, "Error", "Data", 0, 0, FALSE), lost)
        /\ backend' = [backend EXCEPT ![id].error = TRUE,
                                      ![id].whole = @ /\ ~lost]
  BY DEF BodyError
<1> DEFINE m == Message(id, d, "Error", "Data", 0, 0, FALSE)
<1>2. WellMade(m)
  BY DEF WellMade, Message, Events, Directions
<1>3. /\ BackendType'
      /\ backend'[id].phase = backend[id].phase
      /\ backend'[id].whole = (backend[id].whole /\ ~lost)
      /\ backend'[id].open = backend[id].open
      /\ backend'[id].sent = backend[id].sent
      /\ \A j \in Ids \ {id} : backend'[j] = backend[j]
  BY <1>1 DEF Inv, BackendType, Backends, BackendState
<1>4. m.id = id /\ m.direction = d /\ m.type = "Error"
  BY DEF Message
<1>5. backend[id].phase # "new"
  BY DEF BodyError, Inv, OpenBegun
<1> HIDE DEF m
<1>6. ASSUME backend[id].whole, ~lost
      PROVE  Agrees(Updated(Prev(id), m), backend'[id])
  <2> SUFFICES ASSUME NEW c \in Directions, HeadSeen(Updated(Prev(id), m), c)
               PROVE  BodyAgrees(Updated(Prev(id), m).body[c],
                                 backend[id].sent[c], backend[id].open[c])
    BY <1>3 DEF Agrees
  <2>1. CASE c # d
    BY <1>2, <1>4, <1>6, <2>1, OtherDirection
  <2>2. CASE c = d
    <3>1. Prev(id) \in ExchangeState
      BY PrevType DEF Inv, StoreInv
    <3>2. /\ Updated(Prev(id), m).body[d] = Prev(id).body[d]
          /\ HeadSeen(Prev(id), d)
      BY <1>2, <1>4, <2>2, <3>1, UpdatedFields DEF WellMade, HeadSeen, ExchangeState
    <3>3. Known(id)
      BY <3>2 DEF Prev, HeadSeen, FreshExchange
    <3> QED
      BY <1>6, <2>2, <3>2, <3>3 DEF Inv, Followed, Prev, Known, Agrees
  <2> QED
    BY <2>1, <2>2
<1>7. Followed'
  BY <1>1, <1>2, <1>3, <1>4, <1>5, <1>6, FollowedStep DEF m
<1>8. OpenBegun'
  BY <1>3 DEF OpenBegun, Inv
<1> QED
  BY <1>1, <1>2, <1>3, <1>7, <1>8, Fed DEF Inv, m

(* A backend that starts over says nothing of the store, and takes the     *)
(* exchanges it had begun out of the claim.                                *)
LEMMA RestartInv ==
  ASSUME Inv, Restart
  PROVE  Inv'
<1>1. UNCHANGED <<exchanges, ids, selectedId>>
  BY DEF Restart
<1>2. TotalBytes(exchanges, ids)' = TotalBytes(exchanges, ids)
  BY <1>1 DEF TotalBytes
<1>3. StoreInv'
  BY <1>1, <1>2 DEF Inv, StoreInv, StoreType, IdsMatch, CapsHold
<1>4. BackendType' /\ OpenBegun'
  BY DEF Restart, BackendType, Backends, BackendState, Phases, OpenBegun, Inv
<1>5. \A id \in DOMAIN exchanges : id \in Ids
  BY DEF Inv, StoreInv, StoreType, IdsMatch, Elements
<1>6. \A id \in DOMAIN exchanges' : ~backend'[id].whole
  BY <1>1, <1>5 DEF Restart, Inv, Followed
<1> QED
  BY <1>3, <1>4, <1>6 DEF Inv, Followed

(* Selecting an exchange touches nothing the store holds.                  *)
LEMMA SelectInv ==
  ASSUME Inv, NEW id \in Ids, setSelectedId(id)
  PROVE  Inv'
<1>1. UNCHANGED <<exchanges, ids, backend>> /\ selectedId' = id
  BY DEF setSelectedId
<1>2. TotalBytes(exchanges, ids)' = TotalBytes(exchanges, ids)
  BY <1>1 DEF TotalBytes
<1> QED
  BY <1>1, <1>2 DEF Inv, StoreInv, StoreType, IdsMatch, CapsHold, BackendType,
                    OpenBegun, Followed

(* The empty store satisfies the invariant.                                *)
LEMMA InitInv == Init => Inv
<1> SUFFICES ASSUME Init PROVE Inv
  OBVIOUS
<1>1. DOMAIN exchanges = {} /\ ids = <<>> /\ selectedId = 0
  BY DEF Init
<1>2. Elements(ids) = {} /\ Len(ids) = 0
  BY <1>1 DEF Elements
<1>3. TotalBytes(exchanges, ids) = 0
  BY <1>2, EmptySum DEF TotalBytes
<1>4. StoreType /\ IdsMatch
  BY <1>1, <1>2 DEF Init, StoreType, IdsMatch
<1>5. CapsHold
  BY <1>2, <1>3, StoreAssumption DEF CapsHold
<1>6. BackendType /\ OpenBegun
  BY DEF Init, BackendType, Backends, BackendState, Phases, OpenBegun
<1> QED
  BY <1>1, <1>4, <1>5, <1>6 DEF Inv, StoreInv, Followed

(* Every step keeps it.                                                    *)
LEMMA NextInv == Inv /\ [Next]_vars => Inv'
<1> SUFFICES ASSUME Inv, [Next]_vars PROVE Inv'
  OBVIOUS
<1>1. CASE UNCHANGED vars
  <2>1. TotalBytes(exchanges, ids)' = TotalBytes(exchanges, ids)
    BY <1>1 DEF TotalBytes, vars
  <2> QED
    BY <1>1, <2>1 DEF vars, Inv, StoreInv, StoreType, IdsMatch, CapsHold,
                      BackendType, OpenBegun, Followed
<1> QED
  BY <1>1, HeadEventInv, BodyDataInv, BodyErrorInv, RestartInv, SelectInv
     DEF Next

(* It always holds.                                                        *)
LEMMA Invariance == Spec => []Inv
BY InitInv, NextInv, PTL DEF Spec

-----------------------------------------------------------------------------
(* reducer.ts: after every event the array and the Map hold the same       *)
(* exchanges, each once.                                                   *)
THEOREM IdsMatchHolds == Spec => []IdsMatch
<1>1. Inv => IdsMatch
  BY DEF Inv, StoreInv
<1> QED
  BY <1>1, Invariance, PTL

(* evict: the store is within its caps or down to the exchange it must     *)
(* keep, whatever the caps, the sizes of bodies and the selection.         *)
THEOREM CapsHoldAlways == Spec => []CapsHold
<1>1. Inv => CapsHold
  BY DEF Inv, StoreInv
<1> QED
  BY <1>1, Invariance, PTL

(* evict with its protectedId: no step takes the selected exchange away.   *)
THEOREM SelectedKeptAlways == Spec => SelectedKept
<1>1. Inv /\ [Next]_vars
        => (Known(selectedId) => selectedId \in DOMAIN exchanges') \/ UNCHANGED vars
  <2> SUFFICES ASSUME Inv, Next
               PROVE  Known(selectedId) => selectedId \in DOMAIN exchanges'
    OBVIOUS
  <2>1. CASE Restart \/ \E id \in Ids : setSelectedId(id)
    BY <2>1 DEF Restart, setSelectedId, Known
  <2> QED
    BY <2>1, HeadEventInv, BodyDataInv, BodyErrorInv DEF Next
<1> QED
  BY <1>1, Invariance, PTL DEF Spec, SelectedKept

(* appendBodyData does not look at the payload's offset; the body is right *)
(* all the same unless an event was lost or the backend restarted.         *)
THEOREM BodyIsWhatWasSentHolds == Spec => []BodyIsWhatWasSent
<1>1. Inv => BodyIsWhatWasSent
  BY DEF Inv, Followed, Agrees, BodyAgrees, HeadSeen, BodyIsWhatWasSent
<1> QED
  BY <1>1, Invariance, PTL
=============================================================================
