------------------------------ MODULE JsonTree ------------------------------
(***************************************************************************)
(* The JSON tree viewer: one document, or the documents of an NDJSON body, *)
(* as a list of rows that open, close and grow.                            *)
(*                                                                         *)
(*   src/ui/src/components/json-tree/model.ts      trees and the cut mark  *)
(*   src/ui/src/components/json-tree/expand.ts     what is open at first   *)
(*   src/ui/src/components/json-tree/flatten.ts    the rows                *)
(*   src/ui/src/body/json-parse.worker.ts          the rows made off-thread*)
(*   src/ui/src/components/json-tree/json-tree-viewer.tsx   the component  *)
(*                                                                         *)
(* Nodes are numbered in document order by one counter for all documents,  *)
(* from 1; a forest is the sequence of their depths, roots having depth 0. *)
(* Keys and values are abstracted: an empty container is a leaf, as it is  *)
(* for flattenNode.                                                        *)
(***************************************************************************)
EXTENDS Naturals, Sequences, SequencesExt, FiniteSets, FiniteSetsExt, Functions

CONSTANTS
  Forests,      (* the forests that are shown                              *)
  NextForests,  (* those of them that come in place of another             *)
  Window,       (* CONTAINER_WINDOW and LARGE_CONTAINER_CHILD_COUNT        *)
  ExpandDepth,  (* DEFAULT_EXPAND_DEPTH                                    *)
  SmallTree,    (* SMALL_TREE_NODE_COUNT                                   *)
  Budget        (* FOREST_EXPAND_BUDGET, a document's size being its nodes *)

ASSUME TreeAssumption ==
  /\ {Window, ExpandDepth, SmallTree, Budget} \subseteq Nat /\ Window > 0
  /\ NextForests \subseteq Forests
  /\ Forests \subseteq Seq(Nat)
  /\ \A f \in Forests : f # <<>> /\ f[1] = 0
       /\ \A i \in 1..(Len(f) - 1) : f[i + 1] <= f[i] + 1

VARIABLES
  body,       (* the input: its forest, whether it is NDJSON, whether cut  *)
  treeReady,  (* FALSE: the worker's rows are shown                        *)
  forest,     (* lazyForestRef: the node marked as cut, 0 for none, or     *)
              (* Unbuilt                                                   *)
  expanded,   (* the set of open nodes                                     *)
  limits      (* the raised windows, by node                               *)

vars == <<body, treeReady, forest, expanded, limits>>
Unbuilt == 1000

-----------------------------------------------------------------------------
(* buildJsonTree and buildJsonForest: the nodes of a forest f are 1..Len(f)*)
(* and f[n] is the depth of node n.                                        *)

Nodes(f) == DOMAIN f
Subtree(f, n) == {m \in Nodes(f) : m >= n /\ \A k \in (n + 1)..m : f[k] > f[n]}
Ancestors(f, n) == {a \in Nodes(f) : a # n /\ n \in Subtree(f, a)}
Children(f, n) == {m \in Subtree(f, n) : f[m] = f[n] + 1}
Roots(f) == {n \in Nodes(f) : f[n] = 0}
Parent(f, n) == CHOOSE p \in Nodes(f) : n \in Children(f, p)
Siblings(f, n) == IF f[n] = 0 THEN {n} ELSE Children(f, Parent(f, n))

(* The place of n among the numbers of S, and S from the least number on.  *)
Rank(S, n) == Cardinality({m \in S : m <= n})
InOrder(S) == [i \in 1..Cardinality(S) |-> CHOOSE n \in S : Rank(S, n) = i]

(* markTruncationPoint goes down the last children; it marks the node it   *)
(* ends at and returns the containers it passed.                           *)
LastPath(f, root) ==
  LET down[n \in Nodes(f)] ==
        IF Children(f, n) = {} THEN <<n>> ELSE <<n>> \o down[Max(Children(f, n))]
  IN down[root]

CutNode(f, root) == Last(LastPath(f, root))
CutAncestors(f, root) == Range(Front(LastPath(f, root)))

(* computeDefaultExpanded.                                                 *)
DefaultExpanded(f, root) ==
  {n \in Subtree(f, root) :
     /\ Children(f, n) # {} /\ Cardinality(Children(f, n)) <= Window
     /\ f[n] <= ExpandDepth \/ Cardinality(Subtree(f, root)) <= SmallTree}

(* computeForestDefaultExpanded: documents past the budget start closed;   *)
(* one that is too large leaves the budget to the next.                    *)
ForestDefaultExpanded(f) ==
  LET step(acc, root) ==
        LET size == Cardinality(Subtree(f, root))
        IN IF size > acc.budget
           THEN [acc EXCEPT !.open = @ \cup (DefaultExpanded(f, root) \ {root})]
           ELSE [budget |-> acc.budget - size, open |-> acc.open \cup DefaultExpanded(f, root)]
  IN FoldLeft(step, [budget |-> Budget, open |-> {}], InOrder(Roots(f))).open

-----------------------------------------------------------------------------
(* flattenNode: the rows of a node, given what is open and how far.        *)

Shown(f, n, lim) ==
  LET total == Cardinality(Children(f, n))
  IN IF total > Window THEN Min({IF n \in DOMAIN lim THEN lim[n] ELSE Window, total})
     ELSE total

(* doc is docIndex + 1, the number the gutter shows, or 0 for undefined.    *)
Row(b, kind, n, comma, count, cut) ==
  LET depth == b.forest[n]
  IN [kind |-> kind, node |-> n, comma |-> comma, count |-> count,
      depth |-> IF kind = "show-more" THEN depth + 1 ELSE depth,
      cut |-> kind # "show-more" /\ n = cut,
      doc |-> 0]

(* Fault: the last child in the window counts as the last.                 *)
IsLastOfShown(f, n, lim) ==
  f[n] = 0 \/ n = InOrder(Siblings(f, n))[Shown(f, Parent(f, n), lim)]

(* A child is the last one only when no sibling follows, hidden or not.    *)
IsLast(f, n, lim) == n = Max(Siblings(f, n))

(* flattenNode of one root after another.                                  *)
Flatten(b, open, lim, cut) ==
  LET f == b.forest
      rows[n \in Nodes(f)] ==
        LET children == InOrder(Children(f, n))
            shown == Shown(f, n, lim)
            comma == ~IsLast(f, n, lim)
        IN CASE children = <<>> -> <<Row(b, "leaf", n, comma, 0, cut)>>
             [] children # <<>> /\ n \notin open ->
                  <<Row(b, "collapsed", n, comma, Len(children), cut)>>
             [] OTHER ->
                  <<Row(b, "open", n, FALSE, Len(children), cut)>>
                  \o FlattenSeq([i \in 1..shown |-> rows[children[i]]])
                  \o (IF shown < Len(children)
                      THEN <<Row(b, "show-more", n, FALSE, Len(children) - shown, cut)>>
                      ELSE <<>>)
                  \o <<Row(b, "close", n, comma, 0, cut)>>
      roots == InOrder(Roots(f))
  IN FlattenSeq([i \in DOMAIN roots |-> rows[roots[i]]])

(* flattenTree, of a single document: no row has a docIndex.               *)
FlattenTree(b, open, lim, cut) == Flatten(b, open, lim, cut)

(* flattenForest, of any number of documents: the first row of each one is *)
(* the row that its root heads, and gets the document's index.             *)
Numbered(f, R) ==
  [i \in DOMAIN R |->
     IF R[i].node \in Roots(f) /\ R[i].kind \in {"leaf", "collapsed", "open"}
     THEN [R[i] EXCEPT !.doc = Rank(Roots(f), R[i].node)] ELSE R[i]]

FlattenForest(b, open, lim, cut) == Numbered(b.forest, Flatten(b, open, lim, cut))

(* What is drawn of the rows: the gutter only for NDJSON (isForest).       *)
Drawn(b, R) ==
  IF b.multi THEN R ELSE [i \in DOMAIN R |-> [R[i] EXCEPT !.doc = 0]]

-----------------------------------------------------------------------------
(* What the worker sends of body b: buildJson and buildNdjson.  The        *)
(* document cut short is the last that was parsed.                         *)
NoLimits == [n \in {} |-> 0]
WorkerCut(b) == IF b.cut THEN CutNode(b.forest, Max(Roots(b.forest))) ELSE 0

WorkerExpanded(b) ==
  (IF b.multi THEN ForestDefaultExpanded(b.forest) ELSE DefaultExpanded(b.forest, 1))
    \cup (IF b.cut THEN CutAncestors(b.forest, Max(Roots(b.forest))) ELSE {})

InitialRows(b) ==
  IF b.multi THEN FlattenForest(b, WorkerExpanded(b), NoLimits, WorkerCut(b))
  ELSE FlattenTree(b, WorkerExpanded(b), NoLimits, WorkerCut(b))

(* Fault: the first document is taken for the one that was cut.            *)
BuildForestMarksFirst(b) == IF b.cut THEN CutNode(b.forest, 1) ELSE 0

(* The viewer's own build, on the first interaction.                       *)
BuildForest(b) == IF b.cut THEN CutNode(b.forest, Max(Roots(b.forest))) ELSE 0

EnsureForest == IF forest = Unbuilt THEN BuildForest(body) ELSE forest

(* The viewer flattens its tree as a forest, also that of one document.    *)
rows == IF treeReady THEN FlattenForest(body, expanded, limits, forest) ELSE InitialRows(body)

-----------------------------------------------------------------------------
Bodies ==
  {b \in [forest : Forests, multi : BOOLEAN, cut : BOOLEAN] :
     b.multi \/ \A i \in 2..Len(b.forest) : b.forest[i] > 0}

Init ==
  /\ body \in Bodies
  /\ treeReady = FALSE /\ forest = Unbuilt
  /\ expanded = WorkerExpanded(body) /\ limits = NoLimits

(* Another input: expansion, windows and the built tree are dropped.       *)
NewBody ==
  /\ body' \in {b \in Bodies : b.forest \in NextForests} /\ body' # body
  /\ treeReady' = FALSE /\ forest' = Unbuilt
  /\ expanded' = WorkerExpanded(body') /\ limits' = NoLimits

(* Fault: the windows of what is below the node stay.                      *)
ForgottenAlone(f, n) == {n}

(* The windows a collapse forgets: of the node and all below it.           *)
Forgotten(f, n) == Subtree(f, n)

Toggle(row) ==
  /\ row.kind \in {"open", "collapsed"}
  /\ forest' = EnsureForest /\ treeReady' = TRUE
  /\ expanded' = SymDiff(expanded, {row.node})
  /\ limits' = IF row.node \in expanded
               THEN Restrict(limits, DOMAIN limits \ Forgotten(body.forest, row.node)) ELSE limits
  /\ UNCHANGED body

Raise(row, limit) ==
  /\ row.kind = "show-more"
  /\ forest' = EnsureForest /\ treeReady' = TRUE
  /\ limits' = [n \in DOMAIN limits \cup {row.node} |->
                  IF n = row.node THEN limit ELSE limits[n]]
  /\ UNCHANGED <<body, expanded>>

Total(row) == Cardinality(Children(body.forest, row.node))

ShowMore(row) ==
  LET current == IF row.node \in DOMAIN limits THEN limits[row.node] ELSE Window
  IN Raise(row, Min({current + Window, Total(row)}))

ShowAll(row) == Raise(row, Total(row))

(* "Copy value" of a row's menu builds the tree and goes on showing the    *)
(* worker's rows.                                                          *)
CopyValue(row) ==
  /\ row.kind # "show-more"
  /\ forest' = EnsureForest
  /\ UNCHANGED <<body, treeReady, expanded, limits>>

Next ==
  \/ NewBody
  \/ \E row \in Range(rows) :
       Toggle(row) \/ ShowMore(row) \/ ShowAll(row) \/ CopyValue(row)

Spec == Init /\ [][Next]_vars

-----------------------------------------------------------------------------
Heads == {"leaf", "collapsed", "open"}

(* A node is visible when every container around it is open and shows      *)
(* enough of its children: the reference for the recursive flattening.     *)
Visible(f, open, lim, n) ==
  \A a \in Ancestors(f, n) :
    /\ a \in open
    /\ LET child == CHOOSE c \in Children(f, a) : n \in Subtree(f, c)
       IN Rank(Children(f, a), child) <= Shown(f, a, lim)

(* R shows the visible nodes of f: each heads one row, in document order;  *)
(* an open container's rows are exactly those below it, between its        *)
(* brackets, with one row for what is hidden; a comma follows whatever has *)
(* a sibling after it, also a hidden one.                                  *)
ShowsTree(f, open, lim, R) ==
  LET heads == InOrder({i \in DOMAIN R : R[i].kind \in Heads})
  IN /\ [k \in DOMAIN heads |-> R[heads[k]].node]
          = InOrder({n \in Nodes(f) : Visible(f, open, lim, n)})
     /\ \A i \in DOMAIN R :
          CASE R[i].kind = "open" ->
                 \E j \in DOMAIN R :
                   /\ j > i /\ R[j].kind = "close" /\ R[j].node = R[i].node
                   /\ \A k \in (i + 1)..(j - 1) :
                        R[k].depth > R[i].depth /\ R[k].node \in Subtree(f, R[i].node)
            [] R[i].kind = "show-more" ->
                 /\ R[i + 1].kind = "close" /\ R[i + 1].node = R[i].node
                 /\ R[i].count = Cardinality({c \in Children(f, R[i].node) :
                                                ~Visible(f, open, lim, c)})
                 /\ R[i].count > 0
            [] OTHER -> R[i].comma = (\E s \in Siblings(f, R[i].node) : s > R[i].node)

(* The rows are the tree (flatten.ts), whether the worker has made them or *)
(* the viewer.                                                             *)
RowsAreTheTree == ShowsTree(body.forest, expanded, limits, rows)

(* While the worker's rows are shown, the tree the viewer has built for a  *)
(* copy, or builds at the first click, is drawn the same, so that the      *)
(* click changes nothing but what it asks for: although the worker has     *)
(* flattened a single document as a tree and the viewer flattens it as a   *)
(* forest.  A tree of an earlier body would not be.                        *)
LazyTreeAgrees ==
  ~treeReady =>
    Drawn(body, InitialRows(body))
      = Drawn(body, FlattenForest(body, expanded, limits, EnsureForest))

(* A raised window belongs to a container that is open in open containers: *)
(* "Show more" is forgotten when the node or one around it is closed.      *)
WindowsForgotten ==
  \A n \in DOMAIN limits :
    /\ {n} \cup Ancestors(body.forest, n) \subseteq expanded
    /\ limits[n] > Window /\ limits[n] <= Cardinality(Children(body.forest, n))
=============================================================================
