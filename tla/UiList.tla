------------------------------- MODULE UiList -------------------------------
(***************************************************************************)
(* The request list: what is visible, how the selection moves through it,  *)
(* how traces are laid out beside it, and the two dialogs above it.        *)
(*                                                                         *)
(*   src/ui/src/state/store.ts              selectors and setters          *)
(*   src/ui/src/components/app-shell.tsx    useGlobalKeys, InspectorPanel  *)
(*   src/ui/src/components/command-palette.tsx, filter-bar.tsx,            *)
(*     list-toolbar.tsx, shortcuts-overlay.tsx, status-bar.tsx             *)
(*   src/ui/src/components/trace-rail.tsx, trace-group.tsx                 *)
(*                                                                         *)
(* A key pressed while a text field has the focus changes nothing here, so *)
(* the key actions are those of the other targets.                         *)
(***************************************************************************)
EXTENDS Naturals, Integers, Sequences, SequencesExt, FiniteSets, FiniteSetsExt

CONSTANTS
  Kinds,      (* what exchanges can be: records of a path and a trace      *)
  HitPath,    (* the path the text of the filter occurs in                 *)
  MaxId       (* bound on the exchanges that arrive                        *)

None == "none"

ASSUME ListAssumption ==
  MaxId \in Nat /\ \A k \in Kinds : DOMAIN k = {"path", "trace"}

VARIABLES
  arrived,       (* how many exchanges have arrived: the next id           *)
  exchanges,     (* the store's exchanges in the order of its ids          *)
  selectedId, filter, traceFilter, order, cmdKOpen, helpOpen

list == <<arrived, exchanges>>
dialogs == <<cmdKOpen, helpOpen>>
vars == <<list, selectedId, filter, traceFilter, order, dialogs>>

Ids == 1..MaxId
Filters == {"", "blank", "text"}
Traces == {k.trace : k \in Kinds} \ {None}
Find(id) == exchanges[CHOOSE i \in DOMAIN exchanges : exchanges[i].id = id]
HeldIds == {exchanges[i].id : i \in DOMAIN exchanges}

Init ==
  /\ arrived = 0 /\ exchanges = <<>>
  /\ selectedId = 0 /\ filter = "" /\ traceFilter = None /\ order = "newest"
  /\ cmdKOpen = FALSE /\ helpOpen = FALSE

-----------------------------------------------------------------------------
(* A blank filter is not empty: it occurs in the status line ("200 OK").   *)
matchesFilter(ex, f) ==
  CASE f = ""      -> TRUE
    [] f = "blank" -> ex.status
    [] f = "text"  -> ex.path = HitPath

(* Array.filter: what stands at the positions in good, in its order.       *)
Kept(s, good) ==
  LET kept[n \in 0..Len(s)] ==
        IF n = 0 THEN <<>>
        ELSE IF n \in good THEN Append(kept[n-1], s[n]) ELSE kept[n-1]
  IN kept[Len(s)]

selectVisible(f, t, o) ==
  LET shown == {i \in DOMAIN exchanges :
                  /\ matchesFilter(exchanges[i], f)
                  /\ t = None \/ exchanges[i].trace = t}
      visible == Kept(exchanges, shown)
  IN IF o = "newest" THEN Reverse(visible) ELSE visible

selectVisibleExchanges == selectVisible(filter, traceFilter, order)

selectVisibleIds ==
  [i \in DOMAIN selectVisibleExchanges |-> selectVisibleExchanges[i].id]

(* indexOf, counting from 1, and 0 if the id is not there.                 *)
indexOf(ids, id) ==
  IF \A i \in DOMAIN ids : ids[i] # id THEN 0
  ELSE CHOOSE i \in DOMAIN ids : ids[i] = id

Clamp(i, n) == Max({1, Min({i, n})})

(* The keys j and k: without a visible selection they enter at the top and *)
(* at the bottom.                                                          *)
move(ids, cur, delta) ==
  IF ids = <<>> THEN cur
  ELSE IF indexOf(ids, cur) = 0 THEN ids[IF delta > 0 THEN 1 ELSE Len(ids)]
  ELSE ids[Clamp(indexOf(ids, cur) + delta, Len(ids))]

(* The inspector's buttons: without a visible selection both enter at the  *)
(* top.                                                                    *)
onStep(ids, cur, delta) ==
  IF ids = <<>> THEN cur ELSE ids[Clamp(indexOf(ids, cur) + delta, Len(ids))]

(* Fault: the search begins at the top of the list.                        *)
nextWhereFromTop(ids, cur, good) ==
  LET hits == {k \in DOMAIN ids : ids[k] \in good}
  IN IF hits = {} THEN cur ELSE ids[Min(hits)]

(* onNextMatching and onNextInTrace: the next visible exchange of a set,   *)
(* once round the list.                                                    *)
nextWhere(ids, cur, good) ==
  LET at(k) == ids[((indexOf(ids, cur) - 1 + k) % Len(ids)) + 1]
      hits == {k \in 1..Len(ids) : at(k) \in good}
  IN IF hits = {} THEN cur ELSE at(Min(hits))

SamePath(id) == {x \in HeldIds : Find(x).path = Find(id).path}
SameTrace(id) == {x \in HeldIds : Find(x).trace = Find(id).trace}

-----------------------------------------------------------------------------
(* packLanes. A trace of several rows has a span from its first to its     *)
(* last row; the spans come in the order of their first rows.              *)
RowsOf(rows, t) == {i \in DOMAIN rows : rows[i].trace = t}

Spans(rows) ==
  LET mates(i) == RowsOf(rows, rows[i].trace)
      span(i) == [trace |-> rows[i].trace,
                  first |-> Min(mates(i)), last |-> Max(mates(i))]
  IN Kept([i \in DOMAIN rows |-> span(i)],
          {i \in DOMAIN rows : /\ rows[i].trace # None
                               /\ Cardinality(mates(i)) > 1
                               /\ i = Min(mates(i))})

(* Fault: a lane is free once its span has begun.                          *)
freeLaneOverlap(ends, span) == {l \in DOMAIN ends : ends[l] < span.last}

freeLane(ends, span) == {l \in DOMAIN ends : ends[l] < span.first}

(* A span takes the first lane that is free, or a new one.                 *)
Place(acc, span) ==
  LET free == freeLane(acc.ends, span)
      lane == IF free = {} THEN Len(acc.ends) + 1 ELSE Min(free)
  IN [ends |-> IF free = {} THEN Append(acc.ends, span.last)
               ELSE [acc.ends EXCEPT ![lane] = span.last],
      intervals |-> acc.intervals \cup {[span |-> span, lane |-> lane]}]

packLanes(rows) ==
  LET spans == Spans(rows)
      packed[n \in 0..Len(spans)] ==
        IF n = 0 THEN [ends |-> <<>>, intervals |-> {}]
        ELSE Place(packed[n-1], spans[n])
  IN packed[Len(spans)]

(* Fault: a card shows what follows its first row.                         *)
GroupedFollowing(rows) ==
  [i \in DOMAIN rows |->
     LET mates == RowsOf(rows, rows[i].trace)
     IN IF rows[i].trace = None THEN <<rows[i].id>>
        ELSE IF i > 1 /\ rows[i-1].trace = rows[i].trace THEN <<>>
        ELSE SetToSortSeq({rows[j].id : j \in {m \in mates : m >= i}}, <)]

(* GroupedExchangeList: what each row of the list puts on the page: its    *)
(* own row, the card of its trace, or nothing if the card is further up.   *)
Grouped(rows) ==
  [i \in DOMAIN rows |->
     LET mates == RowsOf(rows, rows[i].trace)
         card == Kept(rows, mates)
     IN IF rows[i].trace = None \/ Cardinality(mates) = 1 THEN <<rows[i].id>>
        ELSE IF i > Min(mates) THEN <<>>
        ELSE [n \in DOMAIN card |-> card[n].id]]

-----------------------------------------------------------------------------
(* Events of the feed (module ExchangeStore): a request, a response, and   *)
(* an eviction, which spares the selected exchange.                        *)
Arrive(kind) ==
  /\ arrived < MaxId
  /\ arrived' = arrived + 1
  /\ exchanges' = Append(exchanges,
       [id |-> arrived + 1, path |-> kind.path, trace |-> kind.trace,
        status |-> FALSE])
  /\ UNCHANGED <<selectedId, filter, traceFilter, order, dialogs>>

Respond(i) ==
  /\ ~exchanges[i].status
  /\ exchanges' = [exchanges EXCEPT ![i].status = TRUE]
  /\ UNCHANGED <<arrived, selectedId, filter, traceFilter, order, dialogs>>

Evict ==
  /\ \E i \in DOMAIN exchanges :
       /\ exchanges[i].id # selectedId
       /\ \A j \in 1..(i - 1) : exchanges[j].id = selectedId
       /\ exchanges' = RemoveAt(exchanges, i)
  /\ UNCHANGED <<arrived, selectedId, filter, traceFilter, order, dialogs>>

(* The dialogs are modal: they keep keys and clicks from the page.         *)
NoDialog == ~cmdKOpen /\ ~helpOpen

setSelectedId(id) ==
  /\ selectedId' = id
  /\ UNCHANGED <<list, filter, traceFilter, order, dialogs>>

Click == NoDialog /\ \E i \in DOMAIN selectVisibleIds :
                        setSelectedId(selectVisibleIds[i])

(* Fault: the keys walk through all exchanges.                             *)
KeyAmongAll(delta) ==
  /\ NoDialog
  /\ setSelectedId(move([i \in DOMAIN exchanges |-> exchanges[i].id],
                        selectedId, delta))

Key(delta) == NoDialog /\ setSelectedId(move(selectVisibleIds, selectedId, delta))

InspectorStep(delta) ==
  NoDialog /\ selectedId # 0
  /\ setSelectedId(onStep(selectVisibleIds, selectedId, delta))

onNextMatching ==
  NoDialog /\ selectedId # 0
  /\ setSelectedId(nextWhere(selectVisibleIds, selectedId, SamePath(selectedId)))

onNextInTrace ==
  NoDialog /\ selectedId # 0 /\ Find(selectedId).trace # None
  /\ setSelectedId(nextWhere(selectVisibleIds, selectedId, SameTrace(selectedId)))

setFilter(f) ==
  /\ NoDialog /\ filter' = f
  /\ UNCHANGED <<list, selectedId, traceFilter, order, dialogs>>

(* The rail and the cards offer visible traces, the inspector that of the  *)
(* selection, the chip of the filter bar none.                             *)
setTraceFilter(t) ==
  /\ NoDialog
  /\ t = None \/ \E id \in HeldIds : Find(id).trace = t
       /\ (id = selectedId \/ \E i \in DOMAIN selectVisibleIds : selectVisibleIds[i] = id)
  /\ traceFilter' = t
  /\ UNCHANGED <<list, selectedId, filter, order, dialogs>>

Escape ==
  /\ NoDialog /\ (traceFilter # None \/ filter # "")
  /\ traceFilter' = None /\ filter' = ""
  /\ UNCHANGED <<list, selectedId, order, dialogs>>

Toggled == IF order = "newest" THEN "oldest" ELSE "newest"

setOrder ==
  /\ NoDialog /\ order' = Toggled
  /\ UNCHANGED <<list, selectedId, filter, traceFilter, dialogs>>

-----------------------------------------------------------------------------
CtrlK ==
  /\ ~helpOpen /\ cmdKOpen' = ~cmdKOpen
  /\ UNCHANGED <<list, selectedId, filter, traceFilter, order, helpOpen>>

(* The ? key and the status bar.                                           *)
ShowHelp ==
  /\ NoDialog /\ helpOpen' = TRUE
  /\ UNCHANGED <<list, selectedId, filter, traceFilter, order, cmdKOpen>>

(* onOpenChange: Escape and clicks outside.                                *)
CloseDialog ==
  /\ ~NoDialog
  /\ cmdKOpen' = FALSE /\ helpOpen' = (helpOpen /\ cmdKOpen)
  /\ UNCHANGED <<list, selectedId, filter, traceFilter, order>>

(* A command closes the palette and runs.                                  *)
Command ==
  /\ cmdKOpen /\ cmdKOpen' = FALSE
  /\ UNCHANGED list
  /\ \/ /\ order' = Toggled
        /\ UNCHANGED <<selectedId, filter, traceFilter, helpOpen>>
     \/ /\ filter = "text" \/ traceFilter # None              (* hasFilter *)
        /\ filter' = "" /\ traceFilter' = None
        /\ UNCHANGED <<selectedId, order, helpOpen>>
     \/ /\ \E t \in {Find(id).trace : id \in HeldIds} \ {None} :
             /\ traceFilter' = t
             /\ selectedId' = Min({id \in HeldIds : Find(id).trace = t})
        /\ UNCHANGED <<filter, order, helpOpen>>
     \/ /\ helpOpen' = TRUE
        /\ UNCHANGED <<selectedId, filter, traceFilter, order>>

Next ==
  \/ \E kind \in Kinds : Arrive(kind)
  \/ \E i \in DOMAIN exchanges : Respond(i)
  \/ Evict \/ Click \/ onNextMatching \/ onNextInTrace \/ Escape \/ setOrder
  \/ \E d \in {-1, 1} : Key(d) \/ InspectorStep(d)
  \/ \E f \in Filters : setFilter(f)
  \/ \E t \in Traces \cup {None} : setTraceFilter(t)
  \/ CtrlK \/ ShowHelp \/ CloseDialog \/ Command

Spec == Init /\ [][Next]_vars

-----------------------------------------------------------------------------
(* The keys walk through what is visible, in its order and back, and "next *)
(* matching" pressed again and again comes by every visible exchange of    *)
(* the same path, wherever a filter has left the selection.                *)
NavigationComplete ==
  LET ids == selectVisibleIds
      down[k \in 0..Len(ids)] == IF k = 0 THEN 0 ELSE move(ids, down[k-1], 1)
      up[k \in 0..Len(ids)] == IF k = 0 THEN 0 ELSE move(ids, up[k-1], -1)
      round[k \in 0..Len(ids)] ==
        IF k = 0 THEN selectedId ELSE nextWhere(ids, round[k-1], SamePath(selectedId))
  IN /\ \A k \in DOMAIN ids : down[k] = ids[k] /\ up[k] = ids[Len(ids) + 1 - k]
     /\ ids # <<>> /\ selectedId # 0 =>
          ToSet(ids) \cap SamePath(selectedId)
            = {round[k] : k \in DOMAIN ids} \ ({selectedId} \ ToSet(ids))

(* Whatever moves the selection selects an exchange the list shows, except *)
(* a jump to a trace made under a filter, which the jump leaves in place.  *)
SelectionShown ==
  [][selectedId' # selectedId =>
       \/ cmdKOpen /\ filter # ""
       \/ \E i \in DOMAIN selectVisibleIds' : selectVisibleIds'[i] = selectedId']_vars

(* Two traces that share a lane of the rail never share a row, and there   *)
(* are no more lanes than traces that cross one row.                       *)
LanesPacked ==
  LET rows == selectVisibleExchanges
      lanes == packLanes(rows)
      crossing(i) == {a \in lanes.intervals : a.span.first <= i /\ i <= a.span.last}
  IN /\ \A i \in DOMAIN rows : \A a, b \in crossing(i) : a.lane = b.lane => a = b
     /\ Len(lanes.ends) = Max({Cardinality(crossing(i)) : i \in DOMAIN rows} \cup {0})

(* Grouping shows every visible exchange, once, and traces in one piece.   *)
GroupedOnce ==
  LET rows == selectVisibleExchanges
      shown == FlattenSeq(Grouped(rows))
  IN /\ Len(shown) = Len(rows)
     /\ ToSet(shown) = {rows[i].id : i \in DOMAIN rows}
     /\ \A i, j, k \in DOMAIN shown :
          i < j /\ j < k /\ Find(shown[i]).trace # None
          /\ Find(shown[i]).trace = Find(shown[k]).trace
            => Find(shown[j]).trace = Find(shown[i]).trace

=============================================================================
