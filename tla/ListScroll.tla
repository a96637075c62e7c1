----------------------------- MODULE ListScroll -----------------------------
(***************************************************************************)
(* How the request list follows the selection: the effect that scrolls to  *)
(* the selected row, in the rows view and in the table.                    *)
(*                                                                         *)
(*   src/ui/src/components/app-shell.tsx       ListPanel,                  *)
(*                                             VirtualizedRowsList         *)
(*   src/ui/src/components/exchange-table.tsx  ExchangeTable               *)
(*   src/ui/src/lib/density.tsx                useDensity                  *)
(*                                                                         *)
(* The effect leaves the scrolling to the next animation frame, and its    *)
(* cleanup cancels that frame whenever a dependency changes.               *)
(***************************************************************************)
EXTENDS Naturals, Sequences, SequencesExt

CONSTANTS
  MaxRows,    (* bound on the exchanges                                    *)
  MaxEvents   (* bound on the events that change the list                  *)

VARIABLES
  rows,        (* ids of the visible exchanges, newest first               *)
  version,     (* identity of the array of rows                            *)
  selectedId,  (* 0 if none                                                *)
  density, listMode, traceGroupOn,
  mounted,     (* the list view on the page, with the dependencies its     *)
               (* effect last ran for                                      *)
  scrolledTo,  (* scrolledToRef of that view                               *)
  frame,       (* the exchange whose row the pending animation frame       *)
               (* scrolls to, or 0                                         *)
  scrolled     (* the exchange that was last scrolled to, or 0             *)

store == <<rows, version, selectedId, density, listMode, traceGroupOn>>
view == <<mounted, scrolledTo, frame, scrolled>>
vars == <<store, view>>

indexOf(id) == IF \A i \in DOMAIN rows : rows[i] # id THEN 0
               ELSE CHOOSE i \in DOMAIN rows : rows[i] = id

(* ListPanel: grouping goes before the list mode.                          *)
View == CASE rows = <<>>  -> "empty"
          [] rows # <<>> /\ traceGroupOn -> "groups"
          [] OTHER -> listMode

(* The dependencies of the effect of each view; groups do not scroll.      *)
Deps == CASE View = "rows"  -> <<"rows", selectedId, indexOf(selectedId), density>>
          [] View = "table" -> <<"table", selectedId, version>>
          [] OTHER          -> <<View>>

Init ==
  /\ rows = <<>> /\ version = 0 /\ selectedId = 0
  /\ density \in {"regular", "compact"} /\ listMode \in {"rows", "table"}
  /\ traceGroupOn \in BOOLEAN                    (* persisted preferences *)
  /\ mounted = <<"empty">> /\ scrolledTo = 0 /\ frame = 0 /\ scrolled = 0

-----------------------------------------------------------------------------
(* An event brings a new exchange, or changes one that is there; so does   *)
(* sorting the table by a column, which makes a new array of rows.         *)
Event ==
  /\ version < MaxEvents /\ version' = version + 1
  /\ \/ Len(rows) < MaxRows /\ rows' = <<Len(rows) + 1>> \o rows
     \/ rows # <<>> /\ UNCHANGED rows
  /\ UNCHANGED <<selectedId, density, listMode, traceGroupOn, view>>

setSelectedId(id) ==
  /\ id \in ToSet(rows) /\ selectedId' = id
  /\ UNCHANGED <<rows, version, density, listMode, traceGroupOn, view>>

setDensity(d) ==
  /\ density' = d
  /\ UNCHANGED <<rows, version, selectedId, listMode, traceGroupOn, view>>

setListMode(m) ==
  /\ listMode' = m
  /\ UNCHANGED <<rows, version, selectedId, density, traceGroupOn, view>>

toggleTraceGroup ==
  /\ traceGroupOn' = ~traceGroupOn
  /\ UNCHANGED <<rows, version, selectedId, density, listMode, view>>

-----------------------------------------------------------------------------
(* A render whose dependencies differ: the cleanup cancels the frame, and  *)
(* the effect asks for one unless it has scrolled to this selection        *)
(* before. Another view starts with a reference of its own.                *)
Commit ==
  LET ref == IF mounted[1] = View THEN scrolledTo ELSE 0
      goes == /\ View \in {"rows", "table"} /\ selectedId # 0
              /\ indexOf(selectedId) # 0 /\ ref # selectedId
  IN /\ mounted # Deps
     /\ mounted' = Deps
     /\ scrolledTo' = IF goes THEN selectedId ELSE ref
     /\ frame' = IF goes THEN selectedId ELSE 0
     /\ UNCHANGED <<store, scrolled>>

(* requestAnimationFrame: virtualizer.scrollToIndex. The index stands for  *)
(* this row as long as the frame has not been cancelled.                   *)
Frame ==
  /\ frame # 0 /\ frame' = 0
  /\ scrolled' = frame
  /\ UNCHANGED <<store, mounted, scrolledTo>>

Next ==
  \/ Event \/ toggleTraceGroup \/ Commit \/ Frame
  \/ \E id \in 1..MaxRows : setSelectedId(id)
  \/ \E d \in {"regular", "compact"} : setDensity(d)
  \/ \E m \in {"rows", "table"} : setListMode(m)

Spec == Init /\ [][Next]_vars

-----------------------------------------------------------------------------
(* exchange-table.tsx:197: "Scroll the selected row into view on           *)
(* programmatic selection (j/k nav, command palette)": once nothing is     *)
(* left to run, the list has scrolled to the selected row.                 *)
SelectedInView ==
  View \in {"rows", "table"} /\ mounted = Deps /\ frame = 0 /\ selectedId # 0
    => scrolled = selectedId
=============================================================================
