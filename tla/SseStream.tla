----------------------------- MODULE SseStream ------------------------------
(***************************************************************************)
(* An event stream in the UI: parsed chunk by chunk as its body events     *)
(* arrive, and shown in a list that follows the end unless it is paused or *)
(* scrolled away from it.                                                  *)
(*                                                                         *)
(*   src/ui/src/body/sse-stream.ts, sse.ts       the parser and its cap    *)
(*   src/ui/src/state/reducer.ts                 appendBodyData, SSE path  *)
(*   src/ui/src/components/stream-view.tsx, live-indicator.tsx, event-log  *)
(*   src/ui/src/hooks/useStreamFollow.ts         scroll-follow             *)
(*                                                                         *)
(* A stream is a sequence of bytes: "d" begins a data line, "c" any other  *)
(* line, "n" ends a line, and "u1", "u2" are the halves of a character.    *)
(* Rows are one unit high; within the threshold of 40 pixels of the end    *)
(* there is room for one row.                                              *)
(***************************************************************************)
EXTENDS Naturals, Sequences, SequencesExt

CONSTANTS
  Chunks,     (* the chunks a body can arrive in                           *)
  MaxChunks,  (* bound on the chunks of the stream                         *)
  MaxEvents,  (* MAX_SSE_EVENTS                                            *)
  MaxScrolls  (* bound on what the user does                               *)

ASSUME StreamAssumption ==
  /\ {MaxChunks, MaxEvents, MaxScrolls} \subseteq Nat /\ MaxEvents > 0
  /\ \A c \in Chunks : c # <<>>

VARIABLES
  wire,       (* the bytes received so far                                 *)
  chunks,     (* how many chunks they came in                              *)
  split,      (* whether a chunk boundary fell inside a character          *)
  sse,        (* sseState: events, totalEventCount, parserRemainder        *)
  atEnd, error,
  late,       (* a flush followed the error                                *)
  frozen,     (* the paused list, or NotFrozen                             *)
  following,  (* isFollowing                                               *)
  dom,        (* what React committed last: the number of rows, the number *)
              (* of the event after the last one, and the dependencies of  *)
              (* the effect, following and followLen                       *)
  effect,     (* the passive effect due: the following it closed over      *)
  pos,        (* rows above the lower edge of the list's viewport          *)
  scrolled,   (* a scroll event is due                                     *)
  away,       (* the user scrolled since the last jump                     *)
  moves       (* what the user did so far                                  *)

stream == <<wire, chunks, split, sse, late>>
view == <<following, dom, effect, pos, scrolled>>
user == <<away, moves>>
vars == <<stream, atEnd, error, frozen, view, user>>

NotFrozen == <<[data |-> <<>>, index |-> "not frozen"]>>

-----------------------------------------------------------------------------
(* Decoding: TextDecoder replaces each half of a character that stands     *)
(* alone in what it decodes.                                               *)
Decode(bytes) ==
  LET step(acc, b) ==
        CASE b = "u1" -> Append(acc, "?")
          [] b = "u2" -> IF acc # <<>> /\ Last(acc) = "?" THEN Append(Front(acc), "u")
                         ELSE Append(acc, "?")
          [] OTHER -> Append(acc, b)
  IN FoldLeft(step, <<>>, bytes)

(* text.split(/\n\n/), and text.split(/\n\n+/) when eating.                *)
SplitBlocks(text, eating) ==
  LET step(acc, c) ==
        CASE c = "n" /\ acc.cur # <<>> /\ Last(acc.cur) = "n" ->
               [done |-> Append(acc.done, Front(acc.cur)), cur |-> <<>>, cut |-> TRUE]
          [] c = "n" /\ acc.cur = <<>> /\ acc.cut /\ eating -> acc
          [] OTHER -> [acc EXCEPT !.cur = Append(@, c), !.cut = FALSE]
      all == FoldLeft(step, [done |-> <<>>, cur |-> <<>>, cut |-> FALSE], text)
  IN Append(all.done, all.cur)

Lines(block) ==
  LET step(acc, c) ==
        IF c = "n" THEN Append(acc, <<>>)
        ELSE Append(Front(acc), Append(Last(acc), c))
  IN FoldLeft(step, << <<>> >>, block)

(* parseSSEBlock: the data lines of a block, none for a block without data.*)
DataLines(block) == SelectSeq(Lines(block), LAMBDA l : l # <<>> /\ l[1] = "d")

Parse(blocks, first) ==
  LET data == SelectSeq([i \in DOMAIN blocks |-> DataLines(blocks[i])], LAMBDA d : d # <<>>)
  IN [i \in DOMAIN data |-> [data |-> data[i], index |-> first + i - 1]]

(* parseSSEBody.                                                           *)
ParseSSEBody(text) == Parse(SplitBlocks(text, TRUE), 0)

(* Fault: the remainder is not carried over.                               *)
FeedAlone(prev, text) ==
  LET parts == SplitBlocks(text, FALSE)
      new == Parse(Front(parts), prev.total)
  IN [events |-> prev.events \o new, total |-> prev.total + Len(new),
      remainder |-> Last(parts)]

(* feedChunk: the carried remainder comes first, the last part is carried. *)
FeedChunk(prev, text) ==
  LET parts == SplitBlocks(prev.remainder \o text, FALSE)
      new == Parse(Front(parts), prev.total)
  IN [events |-> prev.events \o new, total |-> prev.total + Len(new),
      remainder |-> Last(parts)]

LastOf(s, n) == IF Len(s) <= n THEN s ELSE SubSeq(s, Len(s) - n + 1, Len(s))

ApplyRetention(state) == [state EXCEPT !.events = LastOf(@, MaxEvents)]

-----------------------------------------------------------------------------
Init ==
  /\ wire = <<>> /\ chunks = 0 /\ split = FALSE
  /\ sse = [events |-> <<>>, total |-> 0, remainder |-> <<>>]
  /\ atEnd = FALSE /\ error = FALSE /\ late = FALSE /\ frozen = NotFrozen
  /\ following = TRUE /\ dom = [rows |-> 0, upto |-> 0, deps |-> <<TRUE, 0>>]
  /\ effect = "none" /\ pos = 0 /\ scrolled = FALSE
  /\ away = FALSE /\ moves = 0

(* A BodyData event with a payload; a stream is valid UTF-8 as a whole.    *)
(* After an error the flush timer can fire once more for what was buffered,*)
(* then only the last event comes.                                         *)
Chunk(c, end) ==
  /\ chunks < MaxChunks /\ ~atEnd
  /\ error => end \/ ~late
  /\ late' = (late \/ (error /\ ~end))
  /\ (wire # <<>> /\ Last(wire) = "u1") <=> c[1] = "u2"
  /\ end => Last(c) # "u1"
  /\ wire' = wire \o c /\ chunks' = chunks + 1
  /\ split' = (split \/ Last(c) = "u1")
  /\ sse' = ApplyRetention(FeedChunk(sse, Decode(c)))
  /\ atEnd' = end
  /\ UNCHANGED <<error, frozen, view, user>>

(* The last event can come without a payload; an error leaves atEnd alone. *)
End ==
  /\ ~atEnd /\ atEnd' = TRUE
  /\ UNCHANGED <<stream, error, frozen, view, user>>

ResponseError ==
  /\ ~atEnd /\ ~error /\ error' = TRUE
  /\ UNCHANGED <<stream, atEnd, frozen, view, user>>

-----------------------------------------------------------------------------
(* StreamView.                                                             *)

DeriveStreamState ==
  CASE error /\ ~atEnd -> "disconnected"
    [] atEnd -> "complete"
    [] ~atEnd /\ ~error /\ following -> "live"
    [] OTHER -> "paused"

Terminal == DeriveStreamState \in {"complete", "disconnected"}

(* Fault: a snapshot outlives the stream.                                  *)
PausedAnyway == frozen # NotFrozen

(* A finished stream cannot be paused.                                     *)
Paused == frozen # NotFrozen /\ ~Terminal
ShownEvents == IF Paused THEN frozen ELSE sse.events

(* The events of a list are numbered up to here.                           *)
Upto(events) == IF events = <<>> THEN 0 ELSE Last(events).index + 1

TogglePlay ==
  /\ ~Terminal /\ moves < MaxScrolls
  /\ frozen' = IF frozen = NotFrozen THEN sse.events ELSE NotFrozen
  /\ moves' = moves + 1
  /\ UNCHANGED <<stream, atEnd, error, view, away>>

(* The paused list counts even when the stream is terminal.                *)
FollowLen == Len(IF frozen # NotFrozen THEN frozen ELSE sse.events)

(* React commits the list; a change of followLen or of isFollowing makes   *)
(* the effect of useStreamFollow due.  Earlier effects are flushed first.  *)
Commit ==
  LET now == [rows |-> Len(ShownEvents), upto |-> Upto(ShownEvents),
              deps |-> <<following, FollowLen>>]
  IN /\ effect = "none" /\ now # dom
     /\ dom' = now
     /\ effect' = CASE now.deps = dom.deps -> "none"
                    [] now.deps # dom.deps /\ following -> "follow"
                    [] OTHER -> "stay"
     /\ pos' = IF pos > now.rows THEN now.rows ELSE pos
     /\ UNCHANGED <<stream, atEnd, error, frozen, following, scrolled, user>>

(* Fault: the effect reads isFollowing when it runs.                       *)
EffectScrollsNow == effect # "none" /\ following

(* The effect closed over isFollowing when it was rendered.                *)
EffectScrolls == effect = "follow"

RunEffect ==
  /\ effect # "none" /\ effect' = "none"
  /\ pos' = IF EffectScrolls THEN dom.rows ELSE pos
  /\ scrolled' = (scrolled \/ pos' # pos)
  /\ UNCHANGED <<stream, atEnd, error, frozen, following, dom, user>>

(* handleScroll measures what is committed when the event is handled.      *)
HandleScroll ==
  /\ scrolled /\ scrolled' = FALSE
  /\ following' = (dom.rows - pos <= 1)
  /\ UNCHANGED <<stream, atEnd, error, frozen, dom, effect, pos, user>>

UserScroll(p) ==
  /\ moves < MaxScrolls /\ p # pos
  /\ pos' = p /\ scrolled' = TRUE
  /\ away' = TRUE /\ moves' = moves + 1
  /\ UNCHANGED <<stream, atEnd, error, frozen, following, dom, effect>>

JumpToLatest ==
  /\ frozen = NotFrozen /\ DeriveStreamState = "paused"
  /\ pos' = dom.rows /\ scrolled' = (scrolled \/ pos' # pos) /\ following' = TRUE
  /\ away' = FALSE
  /\ UNCHANGED <<stream, atEnd, error, frozen, dom, effect, moves>>

Browser == Commit \/ RunEffect \/ HandleScroll

Next ==
  \/ \E c \in Chunks, end \in BOOLEAN : Chunk(c, end)
  \/ End \/ ResponseError
  \/ TogglePlay \/ JumpToLatest
  \/ \E p \in 0..dom.rows : UserScroll(p)
  \/ Browser

(* Renders, effects and scroll events happen; nothing else is promised.    *)
FairSpec == Init /\ [][Next]_vars /\ WF_vars(Commit) /\ WF_vars(RunEffect) /\ WF_vars(HandleScroll)

-----------------------------------------------------------------------------
Blur(event) ==
  [event EXCEPT !.data = [i \in DOMAIN @ |-> SelectSeq(@[i], LAMBDA c : c \notin {"u", "?"})]]
BlurAll(events) == [i \in DOMAIN events |-> Blur(events[i])]

(* The part of the text that is in closed blocks.                          *)
Closed(text) == LET parts == SplitBlocks(text, FALSE)
                IN SubSeq(text, 1, Len(text) - Len(Last(parts)))

(* However the body was cut into chunks, the events held are the last ones *)
(* of those the whole body parses to, block by block, with their numbers:  *)
(* exactly, unless a boundary fell inside a character, whose halves are    *)
(* then replaced.  What follows the last blank line is never an event.     *)
FedEqualsWhole ==
  LET whole == ParseSSEBody(Closed(Decode(wire)))
      kept == LastOf(whole, MaxEvents)
  IN /\ sse.total = Len(whole)
     /\ BlurAll(sse.events) = BlurAll(kept)
     /\ ~split => sse.events = kept

(* The page of a stream that ended or broke comes to show every event held *)
(* up to the last one received, also when the list was paused at that      *)
(* moment (stream-view.tsx, "ignore any lingering snapshot") or has rolled *)
(* over at its cap, and when a flush still follows the error.              *)
FinishedShown ==
  <>[](Terminal => dom.rows = Len(sse.events) /\ dom.upto = sse.total)

(* The list stays with the end of the stream for a user who did not scroll *)
(* away and is not pausing it, although a scroll event of an earlier       *)
(* effect can be handled when more rows are already committed.             *)
FollowsToEnd ==
  <>[](~away /\ frozen = NotFrozen => /\ following
                                      /\ pos = dom.rows
                                      /\ dom.rows = Len(ShownEvents))
=============================================================================
