# A TLA+ verification of protospy

protospy is a reverse proxy that shows the HTTP traffic passing through it. A
Rust backend accepts connections, forwards every request to an upstream, and
publishes events about what it forwards; a web UI receives these events over
server-sent events (SSE) and folds them into a list of exchanges. This
directory models the parts of it in which concurrency, failure and bounds make
correctness hard to see, checks them with TLC, and proves with TLAPS what
matters most for every value of the parameters.

Paths are relative to the repository. Line numbers are those of the commit the
models were written from; `PROJECT.json` maps every definition to its lines.

## 1. The system

### Backend (Rust, `src/`)

| Component | State it keeps | Operations | Hard behaviour |
|---|---|---|---|
| Body pipeline: `proxy/body.rs`, `proxy/reporting.rs`, `tracked_body` in `proxy/exchange.rs` | prefetched frames, a peeked stream, a shared byte buffer, a channel of capacity 1, the reporter task's counters and flush timer | prefetch what is ready, decide whether the body is complete, forward it, copy it to the reporter, flush, end | two tasks share the buffer; the end of a body comes as EOF or as a closed channel; monitors leave at any time; a reporting call can fail with an item in hand |
| Exchange handling: `proxy/exchange.rs`, `proxy/service.rs`, `errors.rs` | `should_report`, the exchange's meta data | build the upstream request, publish, send, transform the response, publish, answer | every `?` and every await is a place where an exchange ends or a decision goes stale |
| Broadcast and monitors: `proxy/monitor.rs`, `server/events.rs`, `main.rs` | a ring of 256 events per service, a cursor per receiver, the recorder's sequence numbers and files, main's set of tasks | publish, receive, lag, print, record, subscribe, leave, end the process | a slow receiver lags; all recorders share one directory; the end of one task ends all |
| Headers: `proxy/headers.rs` | none | hop-by-hop removal, forwarding headers | the `Connection` header names further headers |
| Connection serving: `proxy/service.rs`, `client.rs`, `conn.rs` | listeners, hyper connections | accept, serve | hyper's, seen here as tasks that can end |
| Event types, web API, configuration, logging | none after start | serialisation, static files, `/info`, environment variables | none |

### Web UI (TypeScript, `ui/src/`)

| Component | State it keeps | Operations | Hard behaviour |
|---|---|---|---|
| Exchange store: `state/reducer.ts`, `state/store.ts`, `state/types.ts` | a Map of exchanges, the ids in order of arrival, the selection | `apply` an event, `evict`, select | events are lost or follow an eviction; a restarted backend reuses ids; both caps and a protected exchange |
| Session: `api/sse.ts`, `api/info.ts`, `components/app-shell.tsx`, toasts | the chosen service, the `EventSource`, its status, a hint and its timer | fetch `/info`, subscribe, switch service, notify | effects run after the state they depend on has moved; the `EventSource` retries by itself |
| Request list: `state/store.ts` selectors, `app-shell.tsx`, `command-palette.tsx`, `trace-rail.tsx`, `trace-group.tsx`, `exchange-table.tsx` | filters, order, selection, open dialogs, what was scrolled to | filter, walk, search round the list, group, pack lanes, scroll | the selection may be hidden or evicted; the scroll waits for a frame that can be cancelled |
| Body decoding: `body/decode.ts`, `hooks/useDecodeBody.ts` | the last result, a `cancelled` flag per effect | decode in stages, write the size back into the store | results arrive after the selection has moved on; the write restarts the effect |
| Parse workers: `body/json-parse*.ts`, `body/markup-format*.ts` | a table of jobs, one worker each | post, answer, fail | answers and a fatal error race |
| Body panes: `components/body-pane.tsx`, `body/view-modes.ts` | the stored view mode | choose a part, a mode, a view, what to copy | a mode chosen on another body; an error beside a finished body |
| Event streams: `body/sse.ts`, `body/sse-stream.ts`, `stream-view.tsx`, `useStreamFollow.ts` | the incomplete tail of a stream, retained events, a paused snapshot, `isFollowing` | append a chunk, retain, pause, follow | chunk boundaries inside lines and characters; scroll events handled late |
| JSON tree: `components/json-tree/` | open nodes, raised windows, a lazily built tree | flatten, open, close, show more, copy | two builds of the same tree; windows and truncation |
| Headers pane, value views, transcripts, theme | local to a component | format | none or little |

### How they interact

A connection task runs `Exchange::process`. If the service's broadcast has a
receiver when the exchange begins, it prefetches the request body, publishes
the `Request` event, spawns a reporter task for the rest of the body, sends the
request and does the same with the response. Reporter tasks publish `BodyData`
and `Error` events on the same broadcast. Its receivers are the printer
(`run_logger`), the recorder (`run_writer`) and one stream per SSE client. The
browser hands each event to the store, whose reducer relies on the order in
which the backend publishes. The list, the inspector's panes and the stream
view are functions of the store and of a little state of their own; what makes
them hard is that React runs their effects later than the renders they belong
to, and that workers, timers, animation frames and scroll events come in
between.

## 2. The modules

| Module | Models | Actors that interleave |
|---|---|---|
| `MonitoredBody` | what the proxy promises of one body, without the machinery | - |
| `BodyPipeline` | one direction of one tracked body | handler and then the connection task, the reporter task, monitors, the peer that sends |
| `BodyPipelineProofs` | theorems about `BodyPipeline`: forwarding, reporting, and that it implements `MonitoredBody` | - |
| `Exchange` | `Exchange::process` from accept to answer, all error paths, cancellation | several exchanges, their reporter tasks, upstreams, clients, monitors |
| `Monitors` | the bounded broadcast of each service, printer, recorder, SSE clients, main | services, monitors, clients, main |
| `ExchangeStore` | reducer, eviction and selection of the UI | the feed (the backend as environment) and the user |
| `UiConnection` | `/info`, subscription, status, toast and hint | requests, event sources, React's effects, a timer, the user |
| `UiList` | filters, navigation, palette and dialogs, lanes and groups of traces | the feed and the user |
| `ListScroll` | the effect that scrolls to the selected row | the feed, React's effects, animation frames, the user |
| `BodyView` | decoding, both worker clients, body panes and view modes | the feed, React, promise reactions, workers, the user |
| `SseStream` | the stream parser, retention, pause and scroll-follow | the feed, React, scroll events, the user |
| `JsonTree` | default expansion, flattening and the tree viewer | the user, against a definition of what is visible |
| `ExchangeProofs`, `MonitorsProofs`, `ExchangeStoreProofs`, `UiConnectionProofs`, `BodyViewProofs`, `UiListProofs`, `JsonTreeProofs` | theorems about the module each is named after | - |
| `MC*` | the instances TLC checks, and their symmetry | - |

Definitions marked *Fault* are deliberately wrong variants of the definition
that follows them. They are never part of a specification; each one is used to
confirm that a property notices the defect it stands for.

### BodyPipeline

Bytes are named by their position in the body, so that a payload is a sequence
of positions and a lost, repeated or reordered byte is visible. The source
yields data frames, at most one trailers frame, an error or the end, and is
free to stay silent.

* *Prefetch* (`collect_ready_data`): `EmptyBody`, `CollectItem`, `CollectEnd`,
  `CollectStop` are what `ready_chunks(32)` under a timeout can return; `Peek`
  is the second, zero-length look that tells the end of a body from a pause.
  Its outcome is one of `NoBody`, `NoneRead`, `Partial` and `Complete`.
* *Head event and start of reporting*: `Track`, which fails the exchange if
  there is no receiver (`?`).
* *Forwarding*: `ForwardPrefetched`, `PollSource` and the steps of the
  reporting call the wrapper awaits before it returns an item: the bytes enter
  the shared buffer (`DispatchExtend`), the event enters the channel
  (`DispatchSend`) or finds it full (`DispatchBlock`), or the reporter is gone
  (`DispatchFail`), upon which the collector is dropped and the item is
  returned all the same. `Drop` is the reader giving the body up.
* *Reporter task*: one action per branch of its `select!`.
* *Monitors*: `Listen` toggles `receiver_count() > 0` at any time.

`buffer` and `channel` are separate variables although one call fills both:
the flush and the final event can fall in between, which is the race the
properties are about. The refinement mapping to `MonitoredBody` (`Body`) takes
the source's history as what was sent, what the reader got as what was
received, and the last published total as what was shown.

### Exchange

An action runs from one await to the next. `shouldReport` is read in `Accept`
and never again; `Published` fails when nobody listens, as `Publisher::send`
does. `Cancel` is hyper dropping the handler's future at an await when the
client goes away. The bodies are seen through the events their reporter tasks
publish: data, at most one error, after which what was still buffered may
follow, trailers, and the end.

### Monitors

`sent[s]` is everything published on the broadcast of service `s`; a receiver
is a cursor into it, and has lagged when its cursor points before the last
`BufSize` events. The printer and the recorder treat a lag as an error (`?`),
the SSE stream skips it (`filter_map(|res| res.ok())`). File names are made of
exchange id, direction and sequence number, as `Writer::event_filename` makes
them, and `files` is one directory. main starts its tasks and ends the process
when the first of them ends or a signal arrives.

### ExchangeStore

The backend emits, per exchange, the order `Exchange!HeadFirst` establishes,
exchanges interleaved at will. `Feed` applies an event or loses it; `Restart`
makes the backend count ids from the start while the browser keeps its store;
`MaxFaults` bounds both. `evict`'s loops are the least number of oldest
exchanges, the selected one excepted, whose removal meets both caps
(`Dropped`).

### UiConnection

Zustand's updates take effect at once, effects only when React gets to them:
`committed` holds the values they last ran for, and `Commit` runs every effect
whose dependencies have changed, cleanups first. `sources` is the browser's
`EventSource` of each service; it opens, fails and retries, or gives up.
`toasts` is a history variable: what has been announced of the present feed.
StrictMode mounts the page twice, so that a cancelled `/info` request may be
under way next to the real one (`fetches`). `setService` leaves the exchanges
in the store alone; so does the code.

### UiList and ListScroll

An exchange has a path, a trace and perhaps a status, which is what filters,
navigation and grouping look at. `selectVisible` is the chain of selectors;
`move`, `onStep` and `nextWhere` are the three ways of walking through it, and
they differ in what they do when the selection is hidden. `packLanes` and
`Grouped` are the rail and the cards. `ListScroll` is apart because it needs
the identity of the array of rows (`version`) and none of the filters; the two
effects it models differ only in their dependencies (`Deps`).

### BodyView

A document says what the parsers make of a body, so that bytes are left out:
its media type, whether its encoding can be undone, what NDJSON and JSON
parsing yield and whether text is available. A body's identity is `ver`, as
the hook compares objects and every store update makes a new one. `Commit` is
React rendering both panes, cancelling the decodes whose effects are cleaned up
and starting new ones. A decode goes from stage to stage; promise reactions run
before anything else can (`MicrotasksDone`). Each worker client has a worker in
use and a table of jobs; workers that failed are still there and may answer or
fail again. What the pane shows (`Streaming`, `Interrupted`, `Content`...) and
the view modes are operators over the rendered body and the last entry.

### SseStream

A stream is a sequence of bytes of five kinds, enough for lines, blank lines,
events with several data lines, comments and characters of two bytes.
`FeedChunk` is the incremental parser, `ParseSSEBody` the parser of whole
bodies, which serves as its reference. The scroll position counts rows; the
passive effect of `useStreamFollow` remembers the `isFollowing` it closed over,
and a scroll event is handled some time after the position changed. `dom` is
what the page was last committed with: its rows and the number of the last
event among them. A stream that broke may still get the chunk its reporter had
buffered (`late`).

### JsonTree

Nodes are numbered in document order and a forest is the sequence of their
depths. `Flatten` follows `flattenNode`; `Visible` defines independently, from
the ancestors of a node, which nodes appear. `FlattenTree` leaves the rows
without a document number and `FlattenForest` numbers them. The worker uses the
one for a single document and the other for NDJSON, the page always the other.
The worker's rows are shown until the first click, which builds the tree again
in the page (`EnsureForest`). `Drawn` is what is seen of the rows: the number
is drawn, in the gutter, for NDJSON only.

## 3. What is checked

| Run | Instance | Question and result |
|---|---|---|
| `pipeline` | frames of 1 or 2 bytes, bodies of up to 4, prefetch of 2 frames, channel of 1; 88,276 states | holds: see the properties below |
| `exchange_safety` | 2 exchanges, one data event of each besides those that end a body, symmetric; 1.52M states | holds: `HeadFirst`, `SeenBeforeSent`, `MonitorAgrees`, `SeenWhole` |
| `exchange_transparency` | 1 exchange | **violated**: `MonitorsDoNotInterfere` |
| `exchange_upstream_error` | 1 exchange | **violated**: `UpstreamFailureShown` |
| `monitors` | 2 services, 2 exchanges, 1 SSE client, ring of 1, 3 events; 718k states | holds: `RecordingComplete`, `PrintedComplete`, `FailFast` |
| `store` | 3 exchanges, caps of 2 exchanges and 1 byte, a lost event or a restart, symmetric; 552k states | holds: `IdsMatch`, `CapsHold`, `SelectedKept`, `BodyIsWhatWasSent` |
| `connection` | 2 services, at most 2 listed, 2 protocols, 3 errors; 13,434 states | holds: `OneService`, `HintHonest`, `RecoveryFollowsLoss`, `HintAppears` |
| `list` | 4 exchanges of 2 paths and 2 traces or none; 449k states | holds: `NavigationComplete`, `SelectionShown`, `LanesPacked`, `GroupedOnce` |
| `list_scroll` | 2 rows, 3 events | **violated**: `SelectedInView` |
| `body_view` | 2 exchanges, 4 documents, 3 events, 4 decodes, 2 moves, 1 failure; 500k states | holds: `NoOrphanJob`, `ResultIsOfBody`, `ViewCoherent`, `PanesSettle` |
| `json_tree` | all forests of up to 6 nodes, windows of 2; 4,666 states | holds: `RowsAreTheTree`, `LazyTreeAgrees`, `WindowsForgotten` |
| `sse` | 6 chunks, up to 4 of them, 3 events retained, 2 moves; 367k states | holds: `FedEqualsWhole`, `FinishedShown`, `FollowsToEnd` |

The properties of the pipeline:

* `Transparent`: the reader gets the frames the source yielded, in order, and
  all of them before it is told the body is over, whatever becomes of the
  reporting.
* `ReportsTile`: the published contents tile the body: offsets, payloads and
  totals fit without gap or overlap, across the prefetch and the reporter.
* `EndCoversBody`, `EndIsFinal`, `NothingHidden`: the end is published with
  all bytes before it, last, and never ahead of trailers or an error.
* `NoInvalidState`: the state `collect_ready_data` calls invalid is never met.
* `ForwardProgress`, `ReporterEnds`, `DataFlushed`: reporting never holds a
  frame for ever, the task ends with its body, buffered bytes get published
  without further traffic.
* `KeepsPromise`: `BodyPipeline` implements `MonitoredBody!Promise`.

The properties of exchanges:

* `HeadFirst`, `SeenBeforeSent`: what is published of an exchange comes in the
  order the reducer relies on, whichever task publishes it, and a reported
  request is published before the upstream gets it.
* `MonitorAgrees`: a monitor is shown a response exactly when the client is
  given it.
* `SeenWhole`: a monitor that comes after an exchange has begun is shown
  nothing of it; one that was there all along is shown the end of a body
  exactly when its reporter is done, also when the body broke.

The properties of the user interface:

* `OneService`: once the effects have run there is one `EventSource`, that of
  the chosen service, and status and protocol are those of that service.
* `RecoveryFollowsLoss`: the toasts of a feed are losses and recoveries in
  turn, beginning with a loss, so that vain retries announce nothing again; the
  last one is a loss exactly while the feed is lost.
* `HintHonest`, `HintAppears`: the connecting hint is gone when the feed is
  open and comes when it stays away.
* `NavigationComplete`: j and k visit everything visible, in order and back;
  "next matching" repeated visits every visible exchange of the path, also
  when a filter hides the selection it starts from.
* `SelectionShown`: whatever moves the selection selects something shown,
  except a jump to a trace under a text filter, which the jump keeps.
* `LanesPacked`, `GroupedOnce`: lanes never overlap and are as few as the rows
  demand; grouping shows every exchange once and each trace in one piece.
* `ResultIsOfBody`, `NoOrphanJob`, `PanesSettle`: no result of another body is
  ever shown; a skeleton is backed by a running decode and a job by the worker
  in use; everything comes to rest, the restart caused by caching the decoded
  size included.
* `ViewCoherent`: a pane shows exactly one of its parts whatever comes of
  error, status and body; the mode in force fits the body; the copy button
  copies what is on show.
* `FedEqualsWhole`: chunked parsing equals parsing the whole, retention and
  numbering included; only a character cut in two may differ.
* `FinishedShown`, `FollowsToEnd`: the page of a stream that ended or broke
  comes to show the events held up to the last one received, although it was
  paused, has rolled over at its cap, or gets a chunk after the error; the list
  stays with the end for a user who has not scrolled away.
* `RowsAreTheTree`, `LazyTreeAgrees`, `WindowsForgotten`: the rows are the
  visible nodes with matching brackets, commas and counts; the page's tree
  is drawn like the worker's rows; no raised window survives a closed container.

### Bounds, and why they are enough

Four bytes in frames of one and two give bodies of up to four frames, so that a
prefetch limited to two frames leaves some behind, a flush can fall between any
two of them, and several events are in the buffer while one waits in the
channel of capacity 1 (the real `MPSC_BUFFER_SIZE`). A ring of one with three
events lets every receiver lag; two services with two exchanges is what it
takes for file names to collide. Three exchanges under a cap of two let the
store evict, protect the selected one and see an exchange return, and a cap of
one byte puts the selection and the newest exchange in competition.

Two services are enough for a switch and a switch back before the effects have
run, and three errors for a loss, a recovery and another loss. Four exchanges
of two traces and none are the smallest list in which traces interleave, lanes
are reused and a filter hides the selection in the middle. Four decodes are
what two panes need when the size of a compressed body is cached and decoded
again; the four documents go through every stage: NDJSON that is tried as JSON
and cut short, a `null` document, markup, and an encoding that cannot be undone.
Four chunks and three retained events let retention drop events while a
remainder is carried, and the chunks end inside lines, blank lines and
characters. Six nodes give nested containers beyond a window of two, and
forests of several documents around the budget.

The bounds are `MaxBytes`, `MaxChunks`, `MaxIds`, `MaxEvents`, `MaxBody`,
`MaxFaults`, `MaxErrors`, `MaxListed`, `MaxId`, `MaxRows`, `MaxDecodes`,
`MaxMoves`, `MaxFailures`, `MaxScrolls` and `MaxNodes`; the others are the program's own
limits, made small (in `SseStream`, `MaxEvents` is the retention cap). Deadlock
is checked in `pipeline`, `exchange_safety`, `store`, `list` and `json_tree`.
Elsewhere a run may stop: the process of `Monitors` exits, and in the others
the bounded events and moves run out and the page is at rest.

### Fairness

`BodyPipeline!Fairness` is weak fairness of the steps tokio or hyper owe: a
woken future is polled, and `select!` chooses at random among ready branches,
so none of them is passed over for ever. Nothing is assumed of the source, of
the reader of the body, or of monitors. In `Monitors`, main's loop (it does
not wait) and its `join_next()` are weakly fair, nothing else. In the page,
what the browser and React do of themselves is weakly fair: effects and timers
(`UiConnection`), promise reactions, renders, inflating and the worker in use
(`BodyView!Progress`), renders, effects and scroll events (`SseStream`).
Nothing is assumed of the network, of workers that were dropped, or of the user.

## 4. What is proved

Each theorem states a property that a run checks, of the same specification,
for every value of the constants the assumptions allow: any frame sizes, body
length, capacities and caps, any sets of exchanges, services, clients and
documents, any number of events, faults and moves. The assumptions
(`ConstantsAssumption`, `ExchangesAssumption`, `MonitorsAssumption`,
`StoreAssumption`, `ConnectionAssumption`, `ViewAssumption`, `ListAssumption`,
`TreeAssumption`) say that bounds
are natural numbers, that limits which are positive in the code are positive,
and that the values standing for "none" are none of the others. An SSE client
is neither `"logger"` nor `"writer"`, as the receivers of a service are told
apart by these names. A forest is a sequence of depths that begins with a root
and goes down one level at a time, which is what the parser's documents are.

Every inductive invariant below was checked by TLC on the instance of the
component's run before it was proved.

| Module | Theorem | States |
|---|---|---|
| `BodyPipelineProofs` | `TypeCorrect`, `TransparentHolds` | `Spec => []TypeOK`, `[]Transparent` |
| `BodyPipelineProofs` | `ReportsTileHolds`, `EndCoversBodyHolds`, `NothingHiddenHolds`, `NoInvalidStateHolds` | the invariants of these names |
| `BodyPipelineProofs` | `EndIsFinalHolds` | the action property `EndIsFinal` |
| `BodyPipelineProofs` | `KeepsPromiseHolds` | `Spec => KeepsPromise`: `BodyPipeline` implements `MonitoredBody!Promise` |
| `ExchangeProofs` | `HeadFirstHolds`, `SeenBeforeSentHolds`, `MonitorAgreesHolds`, `SeenWholeHolds` | the invariants of these names |
| `MonitorsProofs` | `PrintedCompleteHolds`, `RecordingCompleteHolds` | the invariants of these names |
| `ExchangeStoreProofs` | `IdsMatchHolds`, `CapsHoldAlways`, `BodyIsWhatWasSentHolds` | the invariants of these names |
| `ExchangeStoreProofs` | `SelectedKeptAlways` | the action property `SelectedKept` |
| `UiConnectionProofs` | `OneServiceHolds`, `HintHonestHolds`, `RecoveryFollowsLossHolds` | the invariants of these names |
| `BodyViewProofs` | `NoOrphanJobHolds`, `ResultIsOfBodyHolds`, `ViewCoherentHolds` | the invariants of these names |
| `UiListProofs` | `NavigationCompleteHolds`, `LanesPackedHolds`, `GroupedOnceHolds` | the invariants of these names |
| `UiListProofs` | `SelectionShownHolds` | the action property `SelectionShown` |
| `JsonTreeProofs` | `RowsAreTheTreeHolds`, `LazyTreeAgreesHolds`, `WindowsForgottenHolds` | the invariants of these names |

### The arguments

*Forwarding.* `Transparent` alone is not inductive: it says nothing of the
frames between source and reader. `InTransit` says where they are. `Accounted`
states that what the source yielded is, in this order, what was delivered, the
prefetched frames not yet forwarded, the item held for a reporting call, and
the peeked item. `Stages` states which of these places can be occupied
together: an item is held only after the prefetched frames are gone, the end is
held only when nothing is peeked, and the body is done only when all are empty.
Once a body is dropped or has failed, only the order of what was delivered
remains (`InOrder`).

*Reporting.* `Reporting` is about the bytes and the signals rather than the
items. `Bytes`: what was read is what was published, the buffer, the frame
about to be dispatched and the peeked frame, in this order, so that the next
content begins where the last one ended (`Tiled`). `OnTheWay`: an error or
trailers that the reader has received are published, with the reporter, or in
the channel, where the end can only come last. `Closed`: once the end is out
the reporter is gone and nothing more is read. `Phases` ties the reporter's
life to the handler's, and `SourceOver` keeps the invalid state away. The
reporter may take a closed channel for the end because, while it runs, its
collector is given up only with the body (`Phases`).

*Refinement.* The initial state maps to `MonitoredBody!Start`. Each action is
shown to take an item, to give one, to do both, to end, to show more, or to
stutter; `ShownFacts` (what has been shown is the reporter's `total`, and at
most what was read) comes from `Reporting`, and the order of what is given from
`InTransit`.

*Exchanges.* `Coherent` says for every place of `process()` what monitor,
upstream and client have been given, and that a body is being reported only if
its head event is out. With it `HeadFirst` is preserved by each publication
(`MayFollow`), whichever exchange or reporter task makes it. For `SeenWhole`,
`Whole` adds that an exchange watched from its beginning is reported and still
has a listener, so that no publication of its reporters was lost.

*Monitors.* File names do not name the service, so `RecordingComplete` needs
`Owned` (an exchange id belongs to one service) and `Once` (an event that is
not body data is published once); `FilesNamed` adds that the sequence number of
a data file was counted by its own recorder. Then two events of different
positions never have one name.

*Store.* `CapsHold` rests on what `evict` leaves (`Dropped`: the least number
that suffices exists, since leaving one exchange does), and
`BodyIsWhatWasSent` on `Followed`, which also says of a body that is absent
that it is not being sent. An exchange that returns after its eviction starts
from nothing: of a body whose head event went with it nothing is claimed, and
the head of a response that comes later brings the beginning of its body.

*Session.* The feed and the status are those of the service the effects last
ran for (`FeedOfCommitted`), which need not be the chosen one;
`ToastOfStatus` strengthens `RecoveryFollowsLoss` by the status the toasts were
shown for, which is the present one unless the feed has only just begun.

*Body panes.* Two groups of facts. `Posted`, `Waits`, `Owned` and `Texts` are
about jobs: a pending job is in the queue of the worker in use and belongs to
exactly the decode that waits at that parser, and a posted text is that of its
decode as long as that goes on. Answers of dropped workers find no pending job,
because a failure rejects all of them. `Versioned`, `Sourced`, `Attached` and
`Shown` are about bodies: a decode that was not cancelled is the one its pane
started last, a pane shows a version of its exchange's body that is not newer
than the store's, and its entry was made from that exchange's body or is out
of date. A body's document never changes with its version (`StoreGrows`), which
is why an answer to a cancelled decode could not even be wrong, only late.
`ViewCoherent` follows from `Sound`: a result is of a known kind, and one
without a tree is a `null` document. Which modes a kind offers, and that one of
them precedes the rest, are lemmas about `SelectableModes` and `ModePrecedence`.

*Recursion.* The list and the tree are computed by loops, and the library's
theorems on recursive definitions take an operator as a parameter, which the
provers at hand cannot instantiate. `UiListProofs` and `JsonTreeProofs` state
what they need about sets and functions instead. `LeastNumber` (a non-empty set
of numbers has a least one) gives induction up to a number for a *set*
(`UpTo`), and `Recursion` a function that follows a given table of steps;
`Backwards` does the same where a value depends on later ones, as the rows of a
node depend on those of its descendants. Then the function the model defines
satisfies its own equation (`KeptEquation`, `WalkEquation`, `RoundEquation`,
`PackEquation`, `FlattenEquation`, `RowsEquation`), and one induction for each
says what it computes. Both modules carry their own copy of the few lemmas
about numbers and about flattening a sequence of sequences.

*List.* `ListInv`: ids are distinct and were given out, and the selection, if
any, is in the store. `KeptPicks` says that filtering keeps exactly the
matching rows in their order, so that the visible ids are distinct
(`VisibleIs`). Pressing a key k times is then at the k-th row (`WalkIs`), and
repeating "next matching" is a walk around a ring of the matching rows: every
row between two stops does not match, so a full round visits them all
(`RoundCovers`). `SelectionShown` goes action by action from the same facts.
For the lanes, `Packed` says of the spans placed so far that a lane ends with
one of its intervals, that intervals of one lane are apart, and that some row
is crossed by an interval of every lane: a new lane is opened only when all
others still run at the first row of the new span, and that row is the witness
that fewer lanes would not do. For the cards, `LaidOut` says where each element
of a flattened sequence came from; `OwnerIs` says that the one card that shows
an exchange is at the first visible row of its trace, or its own row.

*Tree.* `TreeInv` says that the page keeps what the worker sent until the first
click (`Unclicked`), and that a raised window belongs to an open container in
open containers. Windows survive a toggle because the closed container forgets
those of its whole subtree. `LazyTreeAgrees` follows from `Unclicked` and
`NumberedIs`: numbering changes nothing of a row but the number, which a single
document does not draw.
`RowsAreTheTree` has two halves. The forest lemmas (`SubtreeIs` to `ParentIs`)
say that subtrees are nested or apart and that the children's subtrees divide
what is below a node, from which `VisibleRoot` and `VisibleChild` give the
visible nodes level by level. The rows of a node are then shown, from the last
node back to the first, to be a `Stretch`: they are about its visible
descendants and nothing else, heads in document order, brackets closed, rests
counted, commas where a sibling follows. `FlattenStretch` puts the stretches of
siblings together, `UnfoldedStretch` puts brackets and the rest around them,
and `StretchShows` concludes for the roots.

Some definitions were made more precise by the proofs. `TotalBytes` is the sum
of a function over the ids held, not a fold over the list. Several `CASE`s of
`BodyView` and `SseStream` relied on the order of their guards, which TLC
follows and TLA+ does not; their guards now exclude each other. The filters of
`UiList` are one operator on positions (`Kept`) and the packing of a span is an
operator (`Place`), where both were folds. The operators of `JsonTree` take the
forest, or the body, as a parameter, since the provers do not see that a
recursive function over an unchanged variable is unchanged.

### What stays with TLC

* Liveness: `ForwardProgress`, `ReporterEnds`, `DataFlushed`, `FailFast`,
  `HintAppears`, `PanesSettle`, `FinishedShown` and `FollowsToEnd`. They need fairness and
  `ENABLED`, which the prover does not handle.
* `FedEqualsWhole` of `SseStream`: that feeding chunk by chunk splits like the
  whole text. It needs that splitting commutes with concatenation, for texts
  given as sequences and folds over them; the recursion lemmas above would
  serve, but it is not proved.
* The three runs that end in a violation.

## 5. Where code and documentation disagree

With a run that shows it:

* A monitor that leaves in the middle of an exchange turns its answer into a
  502: `should_report` is read once, and a failed publication fails the
  exchange (`exchange.rs:134`, `:194`).
* An unreachable upstream is never reported: no `Error` event follows the
  `Request` event (`exchange.rs:67`), and the exchange stays in flight in the
  UI, whose `error` field is documented for this case.
* An event that arrives between a selection and the next animation frame
  cancels the scroll to the selected row for good: the effect has noted the
  selection as scrolled to before the frame (`exchange-table.tsx:211`,
  `app-shell.tsx:391`).

Seen while modelling, in the models but without a run of their own:

* A body that ends in an error is closed with `at_end` all the same
  (`reporting.rs:252`), although `live-indicator.tsx:10-12` relies on the
  opposite: a broken stream is shown as complete.
* A printer that lags ends its task and with it the process (`monitor.rs:66`,
  `main.rs:67-70`).
* An exchange that returns after its eviction counts bytes the store no longer
  holds (`reducer.ts:130`, against `:21-23`).
* After a restart of the backend, new exchanges are merged into old ones with
  the same id (`reducer.ts:158`, against `types.ts:85-87`).
* The wait for the upstream has no timeout (`exchange.rs:65`, against
  `docs/conformance-test-catalog.md:156-159`).
* An `Error` event of a response body puts `error` next to `status`
  (`reducer.ts:186`, against "mutually exclusive in practice",
  `types.ts:92-94`).
* NDJSON that does not parse is tried as JSON, although a comment sends it to
  plain text (`decode.ts:378`).
* An `EventSource` that gives up for good is shown as reconnecting, and a
  failed `/info` is not tried again.
* An error event of a worker that was already replaced rejects the jobs of its
  successor (they fall back to the next stage).
* A filter of blanks filters the list, and Escape clears it, but the palette
  does not offer to.
* A stream paused and then finished shows all its events without scrolling to
  them.
* A multi-byte character cut by a chunk boundary is replaced by two
  replacement characters, and an event stream with CRLF line ends is never
  split.
* The mark of a document cut short can be hidden behind "show more".
* The rows of a single JSON document have no document number until the first
  click and the number 0 after it, although `flatten.ts:60-65` says it is
  `undefined` for a single document; nothing draws it there.

## 6. What is not modelled

* hyper, tokio, axum, the browser and React, other than through what the code
  above them can observe: items of a body, wake-ups, a bounded broadcast,
  dropped futures, promise reactions, effects, frames and scroll events.
* Contents of headers and bodies, JSON and base64 rendering, logging; what
  inflating, parsing and tokenizing make of bytes.
* `proxy/headers.rs`: pure functions of one header map, which the conformance
  suite exercises.
* Configuration, static assets, the handlers of the web API: no state after
  start.
* The headers pane and the value views (hex, image, text, markup, msearch),
  theme, panel sizes: formatting and state local to one component.
* The JSON tree without rows from a worker, which only its harness uses, and
  its context menu beyond what it copies.
* Closing a trace card: `TraceGroup` keeps by itself whether it is open
  (`trace-group.tsx:39`), so `GroupedOnce` and `SelectionShown` speak of open
  cards.
* The failure of `tracked_body` after the head event (`exchange.rs:196-198`,
  `:216-224`). Its one fallible call is `spawn_instrumented_on`, which returns
  an `Ok` around `JoinSet::spawn`, or, with `tokio_unstable`, what the task
  builder's `spawn` returns, which is always `Ok`: the path is never taken.
* The LLM transcript: a fold over the contents of events, which `SseStream`
  abstracts.
* The conformance suite, demo, scripts and CI.

## 7. Plan

* `FedEqualsWhole` of `SseStream`, with the recursion lemmas of `UiListProofs`.
* The part of `FollowsToEnd` that is safety: with no scroll event, effect or
  commit due, the list of a user who has not scrolled away is at its end.
