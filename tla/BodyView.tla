------------------------------ MODULE BodyView ------------------------------
(***************************************************************************)
(* The body panes of the inspector: decoding a finished body off the UI    *)
(* thread and choosing what the pane shows.                                *)
(*                                                                         *)
(*   src/ui/src/hooks/useDecodeBody.ts      the effect and its cancellation*)
(*   src/ui/src/body/decode.ts              the stages of a decode         *)
(*   src/ui/src/body/json-parse.ts, markup-format.ts   the worker clients  *)
(*   src/ui/src/body/json-parse.worker.ts, markup-format.worker.ts         *)
(*   src/ui/src/body/view-modes.ts, components/body-pane.tsx, body-split.tsx*)
(*                                                                         *)
(* A body's identity is its version: every store update that touches it    *)
(* makes a new object, and the hook compares objects.  A document says what*)
(* each parser makes of the text; its bytes are abstracted.                *)
(***************************************************************************)
EXTENDS Naturals, Sequences, Functions, FiniteSets

CONSTANTS
  Docs,          (* what bodies can hold, see DocShape                     *)
  Exchanges,     (* ids of exchanges in the store                          *)
  MaxEvents,     (* bound on the events about the exchanges                *)
  MaxDecodes,    (* bound on the decodes that are started                  *)
  MaxMoves,      (* bound on changes of the selection and the tab          *)
  MaxFailures    (* bound on worker failures and on throwing calls         *)

None == "none"
Sides == {"request", "response"}
Clients == {"json", "markup"}

(* media: the content type; coding: the content encoding, "bad" when its   *)
(* payload is corrupt; nd and js: what NDJSON and JSON parsing yield, "cut"*)
(* being a recovered prefix; textOk: computeTextAvailable.                 *)
DocShape ==
  [media : {"ndjson", "json", "html", "text", "image", "binary", "sse"},
   coding : {"plain", "good", "bad"},
   nd : {"whole", "cut", "none"}, js : {"whole", "null", "cut", "none"},
   textOk : BOOLEAN]

ASSUME ViewAssumption ==
  /\ Docs \subseteq DocShape /\ 0 \notin Exchanges
  /\ {MaxEvents, MaxDecodes, MaxMoves, MaxFailures} \subseteq Nat

VARIABLES
  store,      (* per exchange: status and error seen, and the two bodies   *)
  selectedId, (* 0: nothing selected                                       *)
  tab,        (* "bodies", or "other": headers, timing, paired layout      *)
  pane,       (* per side: what the mounted BodyPane rendered last         *)
  decodes,    (* the decodeBody calls that have not settled                *)
  client,     (* per worker client: _worker and _pending                   *)
  queue,      (* per client and worker: the jobs posted and not yet handled*)
  used        (* how much of each bound is used up                         *)

vars == <<store, selectedId, tab, pane, decodes, client, queue, used>>
ui == <<selectedId, tab>>
workers == <<client, queue>>

NoDoc == [media |-> None, coding |-> "plain", nd |-> "none", js |-> "none", textOk |-> FALSE]
NoResult == [doc |-> NoDoc, kind |-> None, rich |-> FALSE, cut |-> FALSE]
NoEntry == [ver |-> 0, result |-> NoResult]
NoBody == [doc |-> NoDoc, atEnd |-> FALSE, ver |-> 0, sized |-> FALSE]
Over == [id |-> 0, side |-> None, ver |-> 0, doc |-> NoDoc, at |-> "over",
         waiting |-> FALSE, cancelled |-> FALSE, parsed |-> NoResult]
NoPane == [id |-> 0, body |-> NoBody, err |-> FALSE, awaiting |-> FALSE,
           decode |-> 0, entry |-> NoEntry]

Init ==
  /\ store = [x \in Exchanges |-> [status |-> FALSE, error |-> FALSE,
                                   body |-> [s \in Sides |-> NoBody]]]
  /\ selectedId = 0 /\ tab = "bodies"
  /\ pane = [s \in Sides |-> NoPane]
  /\ decodes = <<>>
  /\ client = [c \in Clients |-> [worker |-> 0, pending |-> {}]]
  /\ queue = [c \in Clients |-> <<>>]
  /\ used = [events |-> 0, moves |-> 0, failures |-> 0]

Count(what) == used' = [used EXCEPT ![what] = @ + 1]

-----------------------------------------------------------------------------
(* decodeBody: a decode is at "inflate", at a parser ("ndjson", "json",    *)
(* "markup"), at "finish", or over; waiting says that its job is posted.   *)

(* The parser tried first, and the one after `at` rejected.                *)
FirstParser(doc) ==
  CASE doc.media \in {"ndjson", "json"} -> doc.media
    [] doc.media = "html" -> "markup"
    [] OTHER -> "finish"

(* Fault: an NDJSON body that did not parse is tried as NDJSON again.      *)
NextParserAgain(at) == IF at = "ndjson" THEN "ndjson" ELSE "finish"

(* The NDJSON media types contain "json", so JSON is tried next.           *)
NextParser(at) == IF at = "ndjson" THEN "json" ELSE "finish"

ClientOf(at) == IF at = "markup" THEN "markup" ELSE "json"

(* The kind a document without a parsed result is classified as.           *)
PlainKind(doc) ==
  IF doc.media \in {"html", "image", "binary"} THEN doc.media ELSE "text"

Live(d) == decodes[d].at # "over"

(* Promise reactions run before the next event, timer or message.          *)
MicrotasksDone == \A d \in DOMAIN decodes : Live(d) =>
                    decodes[d].waiting \/ decodes[d].at = "inflate"

-----------------------------------------------------------------------------
(* Store events and the user.                                              *)

BodyArrives(x, s, doc, atEnd) ==
  /\ store[x].body[s] = NoBody
  /\ s = "response" => store[x].status
  /\ store' = [store EXCEPT ![x].body[s] =
                 [doc |-> doc, atEnd |-> atEnd, ver |-> 1, sized |-> FALSE]]
  /\ UNCHANGED <<ui, pane, decodes, workers>>

BodyEnds(x, s) ==
  /\ store[x].body[s] # NoBody /\ ~store[x].body[s].atEnd
  /\ store' = [store EXCEPT ![x].body[s] =
                 [store[x].body[s] EXCEPT !.atEnd = TRUE, !.ver = @ + 1]]
  /\ UNCHANGED <<ui, pane, decodes, workers>>

ResponseArrives(x) ==
  /\ ~store[x].status
  /\ store' = [store EXCEPT ![x].status = TRUE]
  /\ UNCHANGED <<ui, pane, decodes, workers>>

ErrorArrives(x) ==
  /\ ~store[x].error
  /\ store' = [store EXCEPT ![x].error = TRUE]
  /\ UNCHANGED <<ui, pane, decodes, workers>>

Select(x) ==
  /\ used.moves < MaxMoves /\ x # selectedId
  /\ selectedId' = x /\ Count("moves")
  /\ UNCHANGED <<store, tab, pane, decodes, workers>>

SetTab ==
  /\ used.moves < MaxMoves /\ selectedId # 0
  /\ tab' = (IF tab = "bodies" THEN "other" ELSE "bodies") /\ Count("moves")
  /\ UNCHANGED <<store, selectedId, pane, decodes, workers>>

-----------------------------------------------------------------------------
(* React commits: the panes are keyed by exchange, so another exchange     *)
(* mounts a new pane with an empty entry; an event stream has no pane.     *)

Rendered(s) ==
  IF selectedId = 0 \/ tab # "bodies" THEN NoPane
  ELSE LET ex == store[selectedId]
           body == ex.body[s]
       IN IF s = "response" /\ body.doc.media = "sse" THEN NoPane
          ELSE [NoPane EXCEPT
                 !.id = selectedId, !.body = body,
                 !.err = s = "response" /\ ex.error,
                 !.awaiting = s = "response" /\ body = NoBody
                                /\ ~ex.status /\ ~ex.error]

SameBody(p, q) == p.id = q.id /\ p.body.ver = q.body.ver

(* The effect of useDecodeBody has the body and the exchange as its        *)
(* dependencies: when they change, the earlier decode is cancelled and a   *)
(* finished body starts a new one.                                         *)
Restart(s) == ~SameBody(pane[s], Rendered(s))
Decodes(s) == Restart(s) /\ Rendered(s).body.atEnd

NewDecode(s) ==
  LET body == Rendered(s).body
  IN [id |-> selectedId, side |-> s, ver |-> body.ver, doc |-> body.doc,
      at |-> IF body.doc.coding = "plain" THEN FirstParser(body.doc) ELSE "inflate",
      waiting |-> FALSE, cancelled |-> FALSE, parsed |-> NoResult]

(* Of two panes that decode, the request's effect runs first.              *)
Started ==
  (IF Decodes("request") THEN <<NewDecode("request")>> ELSE <<>>) \o
  (IF Decodes("response") THEN <<NewDecode("response")>> ELSE <<>>)

Ticket(s) ==
  CASE ~Restart(s) -> pane[s].decode
    [] Restart(s) /\ ~Decodes(s) -> 0
    [] Decodes(s) /\ s = "response" -> Len(decodes) + Len(Started)
    [] Decodes(s) /\ s = "request" -> Len(decodes) + 1

Cancelled(d) == \E s \in Sides : Restart(s) /\ pane[s].decode = d

CommitPane(s) ==
  [Rendered(s) EXCEPT
     !.decode = Ticket(s),
     !.entry = IF pane[s].id = Rendered(s).id THEN pane[s].entry ELSE NoEntry]

Commit ==
  /\ Len(decodes) + Len(Started) <= MaxDecodes
  /\ pane' = [s \in Sides |-> CommitPane(s)]
  /\ pane' # pane
  /\ decodes' = [d \in DOMAIN decodes |->
                   [decodes[d] EXCEPT !.cancelled = @ \/ (Live(d) /\ Cancelled(d))]] \o Started
  /\ UNCHANGED <<store, ui, workers, used>>

-----------------------------------------------------------------------------
(* The rest of a decode.                                                   *)

(* `result` of decodeBody: where its text came from, the kind, and whether *)
(* the parser produced a tree or line tokens.                              *)
Result(dec) ==
  IF dec.parsed = NoResult
  THEN [doc |-> dec.doc, kind |-> PlainKind(dec.doc), rich |-> FALSE, cut |-> FALSE]
  ELSE dec.parsed

Settle(d, entry) ==
  /\ pane' = IF decodes[d].cancelled THEN pane
             ELSE [pane EXCEPT ![decodes[d].side].entry = entry]
  /\ decodes' = [decodes EXCEPT ![d] = Over]

(* decompress yields the bytes, or rejects and fails the whole decode.     *)
Inflate(d) ==
  /\ decodes[d].at = "inflate"
  /\ \/ /\ decodes[d].doc.coding = "good"
        /\ decodes' = [decodes EXCEPT ![d].at = FirstParser(decodes[d].doc)]
        /\ UNCHANGED pane
     \/ /\ decodes[d].doc.coding = "bad"
        /\ Settle(d, [ver |-> decodes[d].ver, result |-> NoResult])
  /\ UNCHANGED <<store, ui, workers, used>>

(* runJob and formatMarkup: jobs are named by the decode and the parser,   *)
(* the counter making every name new.  The worker is created on demand.    *)
Post(d) ==
  LET at == decodes[d].at
      c == ClientOf(at)
      message == [job |-> <<d, at>>, doc |-> decodes[d].doc]
      g == IF client[c].worker = 0 THEN Len(queue[c]) + 1 ELSE client[c].worker
  IN /\ Live(d) /\ at \in {"ndjson", "json", "markup"} /\ ~decodes[d].waiting
     /\ client' = [client EXCEPT ![c] = [worker |-> g, pending |-> @.pending \cup {<<d, at>>}]]
     /\ queue' = [queue EXCEPT ![c] =
                    IF g > Len(queue[c]) THEN Append(queue[c], <<message>>)
                    ELSE [queue[c] EXCEPT ![g] = Append(@, message)]]
     /\ decodes' = [decodes EXCEPT ![d].waiting = TRUE]
     /\ UNCHANGED <<store, ui, pane, used>>

(* Creating the worker or posting to it throws: the promise rejects and    *)
(* the catch goes on to the next stage.                                    *)
PostThrows(d) ==
  /\ used.failures < MaxFailures /\ Count("failures")
  /\ decodes[d].at \in {"ndjson", "json", "markup"} /\ ~decodes[d].waiting
  /\ decodes' = [decodes EXCEPT ![d].at = NextParser(@)]
  /\ UNCHANGED <<store, ui, pane, workers>>

(* What the workers answer: a tree, line tokens, or no result on an error. *)
(* parseNdjson and parseWithTruncation keep the valid prefix of a body cut *)
(* short; markup that is malformed is tokenized as it is.                  *)
NdjsonAnswer(doc) ==
  IF doc.nd = "none" THEN NoResult
  ELSE [doc |-> doc, kind |-> "ndjson", rich |-> TRUE, cut |-> doc.nd = "cut"]

JsonAnswer(doc) ==
  IF doc.js = "none" THEN NoResult
  ELSE [doc |-> doc, kind |-> "json", rich |-> doc.js # "null", cut |-> doc.js = "cut"]

MarkupAnswer(doc) == [doc |-> doc, kind |-> doc.media, rich |-> TRUE, cut |-> FALSE]

Answer(doc, at) ==
  CASE at = "ndjson" -> NdjsonAnswer(doc)
    [] at = "json"   -> JsonAnswer(doc)
    [] at = "markup" -> MarkupAnswer(doc)

(* Fault: an answer is taken for every pending job.                        *)
JobOfAll(c, job) == client[c].pending

(* The job a message belongs to: _pending.get(msg.jobId).                  *)
JobOf(c, job) == {j \in client[c].pending : j = job}

Resolved(dec, answer) ==
  [dec EXCEPT !.waiting = FALSE, !.parsed = answer,
              !.at = IF answer = NoResult THEN NextParser(@) ELSE "finish"]

(* A worker handles its next job and the client hears the answer; one for  *)
(* a job that is no longer pending is ignored.                             *)
WorkerMessage(c, g) ==
  /\ queue[c][g] # <<>>
  /\ LET message == Head(queue[c][g])
         for == JobOf(c, message.job)
         answer == Answer(message.doc, message.job[2])
     IN /\ queue' = [queue EXCEPT ![c][g] = Tail(@)]
        /\ client' = [client EXCEPT ![c].pending = @ \ for]
        /\ decodes' = [d \in DOMAIN decodes |->
                         IF \E j \in for : j[1] = d
                         THEN Resolved(decodes[d], answer) ELSE decodes[d]]
  /\ UNCHANGED <<store, ui, pane, used>>

(* Fault: a worker that fails rejects one job only.                        *)
RejectedOldest(c) ==
  {j \in client[c].pending : \A k \in client[c].pending : j[1] <= k[1]}

(* The error handler drops the worker and rejects every pending job, also  *)
(* when the event comes from a worker dropped before.                      *)
Rejected(c) == client[c].pending

WorkerError(c, g) ==
  /\ used.failures < MaxFailures /\ Count("failures")
  /\ client' = [client EXCEPT ![c] = [worker |-> 0, pending |-> @.pending \ Rejected(c)]]
  /\ decodes' = [d \in DOMAIN decodes |->
                   IF \E j \in Rejected(c) : j[1] = d
                   THEN Resolved(decodes[d], NoResult) ELSE decodes[d]]
  /\ UNCHANGED <<store, ui, pane, queue>>

(* setBodyDecodedBytes makes a new body, unless the size is known.         *)
SetBodyDecodedBytes(x, s) ==
  IF store[x].body[s] = NoBody \/ store[x].body[s].sized THEN store
  ELSE [store EXCEPT ![x].body[s] =
          [store[x].body[s] EXCEPT !.sized = TRUE, !.ver = @ + 1]]

(* decodeBody resolves: the entry is set and the decoded size cached.      *)
Finish(d) ==
  LET dec == decodes[d]
  IN /\ dec.at = "finish"
     /\ Settle(d, [ver |-> dec.ver, result |-> Result(dec)])
     /\ store' = IF dec.cancelled \/ dec.doc.coding = "plain" THEN store
                 ELSE SetBodyDecodedBytes(dec.id, dec.side)
     /\ UNCHANGED <<ui, workers, used>>

-----------------------------------------------------------------------------
Events ==
  /\ used.events < MaxEvents /\ Count("events")
  /\ \E x \in Exchanges :
       \/ ResponseArrives(x)
       \/ ErrorArrives(x)
       \/ \E s \in Sides :
            \/ \E doc \in Docs, atEnd \in BOOLEAN : BodyArrives(x, s, doc, atEnd)
            \/ BodyEnds(x, s)

User == SetTab \/ \E x \in Exchanges \cup {0} : Select(x)

Microtask == \E d \in DOMAIN decodes : Post(d) \/ PostThrows(d) \/ Finish(d)

Task ==
  /\ MicrotasksDone
  /\ \/ Commit
     \/ \E d \in DOMAIN decodes : Inflate(d)
     \/ \E c \in Clients : \E g \in DOMAIN queue[c] : WorkerMessage(c, g)

Fault == MicrotasksDone /\ \E c \in Clients : \E g \in DOMAIN queue[c] : WorkerError(c, g)

Next ==
  \/ Microtask
  \/ Task
  \/ Fault
  \/ MicrotasksDone /\ (Events \/ User)

(* What the browser does of itself: promise reactions, commits, inflating  *)
(* and the worker in use; nothing forces events, users or faults.          *)
Progress ==
  \/ Microtask
  \/ /\ MicrotasksDone
     /\ \/ Commit
        \/ \E d \in DOMAIN decodes : Inflate(d)
        \/ \E c \in Clients : client[c].worker # 0 /\ WorkerMessage(c, client[c].worker)

FairSpec == Init /\ [][Next]_vars /\ WF_vars(Progress)

-----------------------------------------------------------------------------
(* What a pane shows.                                                      *)

SelectableModes(kind, textOk) ==
  CASE kind \in {"json", "ndjson"} -> {"tree", "hex"} \cup (IF textOk THEN {"text"} ELSE {})
    [] kind = "html" -> {"formatted", "hex"} \cup (IF textOk THEN {"text"} ELSE {})
    [] kind = "image" -> {"rendered", "hex"}
    [] kind = "text" -> {"text", "hex"}
    [] kind = "binary" -> {"summary", "hex"}

ModePrecedence ==
  [tree |-> 10, formatted |-> 10, rendered |-> 10, text |-> 30, hex |-> 40, summary |-> 50]

DefaultMode(kind, textOk) ==
  IF kind = "binary" THEN "summary"
  ELSE LET modes == SelectableModes(kind, textOk)
       IN CHOOSE m \in modes : \A n \in modes : ModePrecedence[m] <= ModePrecedence[n]

(* Fault: the stored mode is used whether or not it fits the body.         *)
ResolveModeAsStored(stored, kind, textOk) ==
  IF stored # None THEN stored ELSE DefaultMode(kind, textOk)

ResolveMode(stored, kind, textOk) ==
  IF stored \in SelectableModes(kind, textOk) THEN stored ELSE DefaultMode(kind, textOk)

(* useDecodeBody's answer: the entry counts only for the rendered body.    *)
EntryFits(p) == p.entry # NoEntry /\ p.entry.ver = p.body.ver

Loading(p) == p.body.atEnd /\ ~EntryFits(p)
ResultOf(p) == IF p.body.atEnd /\ EntryFits(p) THEN p.entry.result ELSE NoResult

(* The conditions under which the parts of a BodyPane appear.              *)
Streaming(p) == ~Loading(p) /\ p.body # NoBody /\ ~p.body.atEnd /\ ~p.err
Interrupted(p) == ~Loading(p) /\ p.body # NoBody /\ ~p.body.atEnd /\ p.err
ErrorOnly(p) == ~Loading(p) /\ p.body = NoBody /\ p.err
Empty(p) == ~Loading(p) /\ p.body = NoBody /\ ~p.err
Undecodable(p) == ~Loading(p) /\ p.body # NoBody /\ p.body.atEnd /\ ResultOf(p) = NoResult
Content(p) == ~Loading(p) /\ ResultOf(p) # NoResult
Banner(p) == ~Loading(p) /\ p.body # NoBody /\ p.body.atEnd /\ p.err

(* BodyContent: the view a mode leads to; without a tree or tokens, text.  *)
ViewOf(result, mode) ==
  CASE mode = "hex" -> "hex"
    [] mode = "tree" /\ result.rich -> "tree"
    [] mode = "rendered" -> IF result.kind = "image" THEN "image" ELSE "summary"
    [] mode = "summary" -> "summary"
    [] mode = "formatted" /\ result.rich -> "markup"
    [] OTHER -> "text"

(* The copy button of the header strip.                                    *)
CopyOf(result, mode) ==
  CASE mode = "hex" -> "hex"
    [] mode # "hex" /\ result.kind = "image" -> "image"
    [] mode # "hex" /\ result.kind = "binary" -> None
    [] OTHER -> IF mode = "tree" \/ (mode = "formatted" /\ result.rich)
                THEN "pretty" ELSE "raw"

-----------------------------------------------------------------------------
(* No decode waits for ever: a waiting decode's job is pending, and a      *)
(* pending job is posted to the worker in use, whatever workers failed     *)
(* before (json-parse.ts and markup-format.ts, the error handler).         *)
NoOrphanJob ==
  /\ \A c \in Clients : \A j \in client[c].pending :
       client[c].worker # 0 /\ j \in {m.job : m \in Range(queue[c][client[c].worker])}
  /\ \A d \in DOMAIN decodes : Live(d) /\ decodes[d].waiting =>
       <<d, decodes[d].at>> \in client[ClientOf(decodes[d].at)].pending

(* What a pane shows was made from the body it shows, whichever order the  *)
(* answers of the workers and the selections came in; and a skeleton is    *)
(* backed by a running decode of exactly that body.                        *)
ResultIsOfBody ==
  \A s \in Sides :
    /\ ResultOf(pane[s]) # NoResult => ResultOf(pane[s]).doc = pane[s].body.doc
    /\ Loading(pane[s]) =>
         LET d == pane[s].decode
         IN d # 0 /\ Live(d) /\ ~decodes[d].cancelled
              /\ decodes[d].ver = pane[s].body.ver /\ decodes[d].id = pane[s].id

(* A mounted pane shows exactly one of its panels, and the banner on top   *)
(* of a finished body only.  Whatever mode was chosen on an earlier body,  *)
(* the mode in force is one the selector offers, and the copy button       *)
(* copies what is on show: the dump, the pretty-printed tree or markup,    *)
(* the image, or the raw text.  (A `null` document has no tree: it is      *)
(* shown as text, and its pretty form is that text.)                       *)
ViewCoherent ==
  \A s \in Sides : pane[s].id # 0 =>
    LET p == pane[s]
        r == ResultOf(p)
        parts == <<Loading(p), Streaming(p), Interrupted(p), ErrorOnly(p),
                   Empty(p), Undecodable(p), Content(p)>>
    IN /\ Cardinality({i \in DOMAIN parts : parts[i]}) = 1
       /\ Banner(p) => Undecodable(p) \/ Content(p)
       /\ r # NoResult =>
            \A stored \in DOMAIN ModePrecedence \cup {None} :
              LET m == ResolveMode(stored, r.kind, r.doc.textOk)
                  view == ViewOf(r, m)
                  copy == CopyOf(r, m)
              IN /\ m \in SelectableModes(r.kind, r.doc.textOk)
                 /\ view = "hex" => copy = "hex"
                 /\ view \in {"tree", "markup"} => copy = "pretty"
                 /\ view = "image" => copy = "image"
                 /\ view = "summary" => copy = None
                 /\ view = "text" => copy = "raw" \/ (copy = "pretty" /\ r.doc.js = "null")

(* The panes come to rest showing the store's bodies, with a result or     *)
(* "could not decode": caching a decoded size makes a new body, decoded    *)
(* once more, and that second decode is the last (useDecodeBody.ts).       *)
PanesSettle ==
  <>[](\A s \in Sides : SameBody(pane[s], Rendered(s)) /\ ~Loading(pane[s]))

=============================================================================
