--------------------------- MODULE BodyViewProofs ---------------------------
(***************************************************************************)
(* Proofs about BodyView, for any documents and exchanges and however many *)
(* events, selections, decodes and worker failures: no decode is left      *)
(* waiting for an answer nobody will give, a pane shows the body it is     *)
(* about, and what it shows is coherent.                                   *)
(***************************************************************************)
EXTENDS BodyView, FiniteSetTheorems, TLAPS

(* The types of the variables and of what they hold.                       *)
Parsers == {"ndjson", "json", "markup"}
Stages == Parsers \cup {"inflate", "finish", "over"}
Kinds == {"ndjson", "json", "html", "image", "binary", "text"}

SomeDoc == Docs \cup {NoDoc}
Body == [doc : SomeDoc, atEnd : BOOLEAN, ver : Nat, sized : BOOLEAN]
Results == [doc : SomeDoc, kind : Kinds \cup {"sse", None}, rich : BOOLEAN, cut : BOOLEAN]
Entry == [ver : Nat, result : Results]
Job == Nat \X Parsers
Message == [job : Job, doc : SomeDoc]
Decode ==
  [id : Exchanges \cup {0}, side : Sides \cup {None}, ver : Nat, doc : SomeDoc,
   at : Stages, waiting : BOOLEAN, cancelled : BOOLEAN, parsed : Results]
Pane ==
  [id : Exchanges \cup {0}, body : Body, err : BOOLEAN, awaiting : BOOLEAN,
   decode : Nat, entry : Entry]

TypeOK ==
  /\ store \in [Exchanges -> [status : BOOLEAN, error : BOOLEAN,
                              body : [Sides -> Body]]]
  /\ selectedId \in Exchanges \cup {0} /\ tab \in {"bodies", "other"}
  /\ pane \in [Sides -> Pane]
  /\ decodes \in Seq(Decode)
  /\ client \in [Clients -> [worker : Nat, pending : SUBSET Job]]
  /\ queue \in [Clients -> Seq(Seq(Message))]

-----------------------------------------------------------------------------
(* The jobs of the workers.                                                *)

(* A pending job is in the queue of the worker in use.                     *)
Posted ==
  \A c \in Clients :
    /\ client[c].worker <= Len(queue[c])
    /\ \A j \in client[c].pending :
         /\ client[c].worker # 0
         /\ \E m \in Range(queue[c][client[c].worker]) : m.job = j

(* A decode that waits is at a parser and has its job pending.             *)
Waits ==
  \A d \in 1..Len(decodes) : decodes[d].waiting =>
    /\ decodes[d].at \in Parsers
    /\ <<d, decodes[d].at>> \in client[ClientOf(decodes[d].at)].pending

(* A pending job is the one its decode waits for.                          *)
Owned ==
  \A c \in Clients : \A j \in client[c].pending :
    /\ j[1] \in 1..Len(decodes)
    /\ decodes[j[1]].waiting /\ decodes[j[1]].at = j[2] /\ ClientOf(j[2]) = c

(* A posted text is that of the decode, as long as it goes on.             *)
Texts ==
  \A c \in Clients : \A g \in 1..Len(queue[c]) : \A m \in Range(queue[c][g]) :
    /\ m.job[1] \in 1..Len(decodes)
    /\ Live(m.job[1]) => m.doc = decodes[m.job[1]].doc

(* The part of the inductive invariant about the workers.                  *)
Jobs == Posted /\ Waits /\ Owned /\ Texts

-----------------------------------------------------------------------------
(* The panes and their decodes.                                            *)

(* r was made from doc, and has no tree only where the text is its own     *)
(* pretty form.                                                            *)
Sound(r, doc) ==
  /\ r.doc = doc /\ r.kind \in Kinds
  /\ r.kind = "ndjson" => r.rich
  /\ r.kind = "json" /\ ~r.rich => doc.js = "null"

(* A body without a version has not arrived.                               *)
Versioned ==
  \A x \in Exchanges : \A s \in Sides :
    store[x].body[s].ver = 0 => store[x].body[s] = NoBody

(* A decode that goes on is of a body in the store.                        *)
Sourced ==
  \A d \in 1..Len(decodes) : Live(d) =>
    LET dec == decodes[d]
    IN /\ dec.id \in Exchanges /\ dec.side \in Sides /\ dec.ver # 0
       /\ store[dec.id].body[dec.side].ver # 0
       /\ dec.doc = store[dec.id].body[dec.side].doc
       /\ dec.at = "markup" => dec.doc.media = "html"
       /\ dec.parsed # NoResult => Sound(dec.parsed, dec.doc)

(* A decode that was not cancelled is the one its pane started last.       *)
Attached ==
  \A d \in 1..Len(decodes) : Live(d) /\ ~decodes[d].cancelled =>
    LET p == pane[decodes[d].side]
    IN p.decode = d /\ p.id = decodes[d].id /\ p.body.ver = decodes[d].ver

(* The running decode of exactly the body that p shows.                    *)
Backed(p) ==
  LET d == p.decode
  IN /\ d # 0 /\ Live(d) /\ ~decodes[d].cancelled
     /\ decodes[d].ver = p.body.ver /\ decodes[d].id = p.id

(* A pane shows a version of its exchange's body, and its entry was made   *)
(* from that body or is out of date.                                       *)
PaneOf(s) ==
  LET p == pane[s]
      b == store[p.id].body[s]
  IN /\ p.id = 0 => p = NoPane
     /\ p.body.ver = 0 => p.body = NoBody
     /\ p.id # 0 => /\ p.body.ver <= b.ver
                    /\ p.body.ver = b.ver => p.body = b
                    /\ p.body.ver # 0 => p.body.doc = b.doc
     /\ p.decode <= Len(decodes)
     /\ p.decode # 0 /\ Live(p.decode) => decodes[p.decode].side = s
     /\ p.entry.result # NoResult =>
          p.id # 0 /\ b.ver # 0 /\ Sound(p.entry.result, b.doc)
     /\ p.body.atEnd => EntryFits(p) \/ Backed(p)

(* Both panes do.                                                          *)
Shown == \A s \in Sides : PaneOf(s)

(* The part of it about the panes.                                         *)
Panes == Versioned /\ Sourced /\ Attached /\ Shown

(* The inductive invariant.                                                *)
Inv == TypeOK /\ Jobs /\ Panes

-----------------------------------------------------------------------------
(* Types                                                                   *)

(* The values that stand for nothing have their types.                     *)
LEMMA Nothings ==
  /\ NoDoc \in SomeDoc /\ NoDoc \notin Docs
  /\ NoBody \in Body /\ NoBody.ver = 0 /\ NoBody.atEnd = FALSE
  /\ NoResult \in Results /\ NoEntry \in Entry /\ NoEntry.result = NoResult
  /\ NoEntry.ver = 0
  /\ NoPane \in Pane /\ NoPane.id = 0 /\ NoPane.body = NoBody
  /\ NoPane.entry = NoEntry /\ NoPane.decode = 0
  /\ Over \in Decode /\ Over.at = "over" /\ Over.waiting = FALSE
<1>1. NoDoc \in SomeDoc /\ NoDoc \notin Docs
  BY ViewAssumption DEF SomeDoc, NoDoc, DocShape, None
<1>2. NoBody \in Body /\ NoBody.ver = 0 /\ NoBody.atEnd = FALSE
  BY <1>1 DEF NoBody, Body
<1>3. NoResult \in Results
  BY <1>1 DEF NoResult, Results
<1>4. NoEntry \in Entry /\ NoEntry.result = NoResult /\ NoEntry.ver = 0
  BY <1>3 DEF NoEntry, Entry
<1>5. /\ NoPane \in Pane /\ NoPane.id = 0 /\ NoPane.body = NoBody
      /\ NoPane.entry = NoEntry /\ NoPane.decode = 0
  BY <1>2, <1>4 DEF NoPane, Pane
<1>6. Over \in Decode /\ Over.at = "over" /\ Over.waiting = FALSE
  BY <1>1, <1>3 DEF Over, Decode, Stages
<1> QED
  BY <1>1, <1>2, <1>3, <1>4, <1>5, <1>6

(* What a worker answers is a result.                                      *)
LEMMA AnswerType ==
  ASSUME NEW doc \in SomeDoc, NEW at \in Parsers
  PROVE  Answer(doc, at) \in Results
<1>1. doc.media \in Kinds \cup {"sse", None}
  BY ViewAssumption DEF SomeDoc, NoDoc, DocShape, Kinds
<1>2. NdjsonAnswer(doc) \in Results
  BY Nothings DEF NdjsonAnswer, Results, Kinds
<1>3. JsonAnswer(doc) \in Results
  BY Nothings DEF JsonAnswer, Results, Kinds
<1>4. MarkupAnswer(doc) \in Results
  BY <1>1 DEF MarkupAnswer, Results
<1> QED
  BY <1>2, <1>3, <1>4 DEF Answer, Parsers

(* A job that settles leaves a decode.                                     *)
LEMMA ResolvedType ==
  ASSUME NEW dec \in Decode, NEW answer \in Results
  PROVE  /\ Resolved(dec, answer) \in Decode
         /\ Resolved(dec, answer).waiting = FALSE
         /\ Resolved(dec, answer).parsed = answer
         /\ Resolved(dec, answer).at \in {"json", "finish"}
         /\ Resolved(dec, answer).id = dec.id
         /\ Resolved(dec, answer).side = dec.side
         /\ Resolved(dec, answer).ver = dec.ver
         /\ Resolved(dec, answer).doc = dec.doc
         /\ Resolved(dec, answer).cancelled = dec.cancelled
<1> DEFINE at == IF answer = NoResult THEN NextParser(dec.at) ELSE "finish"
<1>1. at \in {"json", "finish"}
  BY DEF NextParser
<1>2. Resolved(dec, answer)
        = [dec EXCEPT !.waiting = FALSE, !.parsed = answer, !.at = at]
  BY DEF Resolved
<1> HIDE DEF at
<1> QED
  BY <1>1, <1>2 DEF Decode, Stages, Parsers

(* What a decode finds out is a result.                                    *)
LEMMA ResultType ==
  ASSUME NEW dec \in Decode
  PROVE  Result(dec) \in Results
<1>1. dec.doc.media \in Kinds \cup {"sse", None}
  BY ViewAssumption DEF SomeDoc, NoDoc, DocShape, Kinds, Decode
<1>2. PlainKind(dec.doc) \in Kinds \cup {"sse", None}
  BY <1>1 DEF PlainKind, Kinds
<1> QED
  BY <1>2 DEF Result, Results, Decode

(* A pane that is rendered shows the store's body of the selected exchange.*)
LEMMA RenderedFacts ==
  ASSUME TypeOK, NEW s \in Sides
  PROVE  /\ Rendered(s) \in Pane
         /\ Rendered(s).id = 0 => Rendered(s) = NoPane
         /\ Rendered(s).id # 0 =>
              /\ selectedId \in Exchanges /\ Rendered(s).id = selectedId
              /\ Rendered(s).body = store[selectedId].body[s]
              /\ Rendered(s).entry = NoEntry
<1>1. CASE selectedId = 0 \/ tab # "bodies"
  BY <1>1, Nothings DEF Rendered
<1>2. CASE ~(selectedId = 0 \/ tab # "bodies")
  <2>1. selectedId \in Exchanges /\ selectedId # 0
    BY <1>2, ViewAssumption DEF TypeOK
  <2> DEFINE ex == store[selectedId]
             body == ex.body[s]
             err == (s = "response" /\ ex.error)
             awaiting == (s = "response" /\ body = NoBody
                            /\ ~ex.status /\ ~ex.error)
             p == [NoPane EXCEPT !.id = selectedId, !.body = body, !.err = err,
                                 !.awaiting = awaiting]
  <2>2. Rendered(s) = NoPane \/ Rendered(s) = p
    BY <1>2 DEF Rendered
  <2>3. body \in Body /\ err \in BOOLEAN /\ awaiting \in BOOLEAN
    BY <2>1 DEF TypeOK
  <2>4. p \in Pane /\ p.id = selectedId /\ p.body = body /\ p.entry = NoEntry
    <3> HIDE DEF body, err, awaiting
    <3> QED
      BY <2>1, <2>3, Nothings DEF Pane
  <2> QED
    BY <2>1, <2>2, <2>4, Nothings
<1> QED
  BY <1>1, <1>2

(* A decode that starts is of the rendered body.                           *)
LEMMA NewDecodeFacts ==
  ASSUME TypeOK, NEW s \in Sides
  PROVE  LET dec == NewDecode(s)
             b == Rendered(s).body
         IN /\ dec \in Decode /\ dec.id = selectedId /\ dec.side = s
            /\ dec.ver = b.ver /\ dec.doc = b.doc
            /\ ~dec.waiting /\ ~dec.cancelled /\ dec.parsed = NoResult
            /\ dec.at # "over"
            /\ dec.at = "markup" => b.doc.media = "html"
<1> DEFINE b == Rendered(s).body
           at == IF b.doc.coding = "plain" THEN FirstParser(b.doc) ELSE "inflate"
<1>1. b \in Body
  BY RenderedFacts DEF Pane
<1>2. at \in Stages \ {"over"} /\ (at = "markup" => b.doc.media = "html")
  BY DEF FirstParser, Stages, Parsers
<1>3. NewDecode(s) = [id |-> selectedId, side |-> s, ver |-> b.ver, doc |-> b.doc,
                      at |-> at, waiting |-> FALSE, cancelled |-> FALSE,
                      parsed |-> NoResult]
  BY DEF NewDecode
<1>4. selectedId \in Exchanges \cup {0}
  BY DEF TypeOK
<1> HIDE DEF b, at
<1>5. NewDecode(s) \in Decode
  BY <1>1, <1>2, <1>3, <1>4, Nothings DEF Decode, Body
<1> QED
  BY <1>2, <1>3, <1>5 DEF b

(* The ticket of a pane: its old decode, none, or the one it starts.       *)
LEMMA TicketFacts ==
  ASSUME NEW s \in Sides
  PROVE  /\ ~Restart(s) => Ticket(s) = pane[s].decode
         /\ Restart(s) /\ ~Decodes(s) => Ticket(s) = 0
         /\ Decodes(s) /\ s = "response" => Ticket(s) = Len(decodes) + Len(Started)
         /\ Decodes(s) /\ s = "request" => Ticket(s) = Len(decodes) + 1
         /\ Decodes(s) => Restart(s)
<1>1. Decodes(s) => Restart(s)
  BY DEF Decodes
<1> QED
  BY <1>1 DEF Ticket

(* The decodes that a commit starts have the tickets of their panes.       *)
LEMMA StartedFacts ==
  ASSUME TypeOK
  PROVE  /\ Started \in Seq(Decode) /\ Len(Started) \in Nat
         /\ \A s \in Sides : Decodes(s) =>
              \E k \in 1..Len(Started) :
                Ticket(s) = Len(decodes) + k /\ Started[k] = NewDecode(s)
         /\ \A k \in 1..Len(Started) : \E s \in Sides :
              /\ Decodes(s) /\ Ticket(s) = Len(decodes) + k
              /\ Started[k] = NewDecode(s)
<1> DEFINE q == NewDecode("request")
           p == NewDecode("response")
           n == Len(decodes)
<1>1. q \in Decode /\ p \in Decode
  BY NewDecodeFacts DEF Sides
<1>2. n \in Nat
  BY DEF TypeOK
<1>3. /\ Decodes("response") => Ticket("response") = n + Len(Started)
      /\ Decodes("request") => Ticket("request") = n + 1
  BY TicketFacts DEF Sides
<1>4. Started = (IF Decodes("request") THEN <<q>> ELSE <<>>) \o
                (IF Decodes("response") THEN <<p>> ELSE <<>>)
  BY DEF Started
<1>5. q = NewDecode("request") /\ p = NewDecode("response") /\ n = Len(decodes)
  OBVIOUS
<1> HIDE DEF q, p, n
<1>6. CASE Decodes("request") /\ Decodes("response")
  <2>1. Started = <<q>> \o <<p>>
    BY <1>4, <1>6
  <2>2. /\ Started \in Seq(Decode) /\ Len(Started) = 2
        /\ Started[1] = q /\ Started[2] = p
    BY <1>1, <2>1
  <2> QED
    BY <1>2, <1>3, <1>5, <1>6, <2>2 DEF Sides
<1>7. CASE Decodes("request") /\ ~Decodes("response")
  <2>1. Started = <<q>>
    BY <1>1, <1>4, <1>7
  <2>2. Started \in Seq(Decode) /\ Len(Started) = 1 /\ Started[1] = q
    BY <1>1, <2>1
  <2> QED
    BY <1>2, <1>3, <1>5, <1>7, <2>2 DEF Sides
<1>8. CASE ~Decodes("request") /\ Decodes("response")
  <2>1. Started = <<p>>
    BY <1>1, <1>4, <1>8
  <2>2. Started \in Seq(Decode) /\ Len(Started) = 1 /\ Started[1] = p
    BY <1>1, <2>1
  <2> QED
    BY <1>2, <1>3, <1>5, <1>8, <2>2 DEF Sides
<1>9. CASE ~Decodes("request") /\ ~Decodes("response")
  <2>1. Started = <<>>
    BY <1>4, <1>9
  <2>2. Started \in Seq(Decode) /\ Len(Started) = 0
    BY <2>1
  <2> QED
    BY <1>5, <1>9, <2>2 DEF Sides
<1> QED
  BY <1>6, <1>7, <1>8, <1>9

(* What a commit does to the panes.                                        *)
LEMMA CommitPaneFacts ==
  ASSUME TypeOK, NEW s \in Sides
  PROVE  LET p == CommitPane(s)
         IN /\ p \in Pane
            /\ p.id = Rendered(s).id /\ p.body = Rendered(s).body
            /\ p.decode = Ticket(s)
            /\ p.id = pane[s].id => p.entry = pane[s].entry
            /\ p.id # pane[s].id => p.entry = NoEntry
            /\ Rendered(s) = NoPane /\ Ticket(s) = 0 /\ p.entry = NoEntry
                 => p = NoPane
<1> DEFINE r == Rendered(s)
           ticket == Ticket(s)
           entry == IF pane[s].id = r.id THEN pane[s].entry ELSE NoEntry
<1>1. r \in Pane
  BY RenderedFacts
<1>2. pane[s] \in Pane /\ pane[s].decode \in Nat /\ pane[s].entry \in Entry
  BY DEF TypeOK, Pane
<1>3. ticket \in Nat
  <2>1. Len(decodes) \in Nat /\ Len(Started) \in Nat
    BY StartedFacts DEF TypeOK
  <2> QED
    BY <1>2, <2>1, TicketFacts DEF Sides
<1>4. entry \in Entry
  BY <1>2, Nothings
<1>5. CommitPane(s) = [r EXCEPT !.decode = ticket, !.entry = entry]
  BY DEF CommitPane
<1>6. /\ CommitPane(s) \in Pane
      /\ CommitPane(s).id = r.id /\ CommitPane(s).body = r.body
      /\ CommitPane(s).decode = ticket /\ CommitPane(s).entry = entry
      /\ r = NoPane /\ ticket = 0 /\ entry = NoEntry => CommitPane(s) = NoPane
  <2> HIDE DEF r, ticket, entry
  <2>1. CommitPane(s) = [id |-> r.id, body |-> r.body, err |-> r.err,
                         awaiting |-> r.awaiting, decode |-> ticket, entry |-> entry]
    BY <1>1, <1>5 DEF Pane
  <2>2. r = NoPane /\ ticket = 0 /\ entry = NoEntry => CommitPane(s) = NoPane
    BY <2>1 DEF NoPane
  <2> QED
    BY <1>1, <1>3, <1>4, <2>1, <2>2 DEF Pane
<1> QED
  BY <1>6

(* What a commit does to the decodes.                                      *)
LEMMA CommitFacts ==
  ASSUME TypeOK, Commit
  PROVE  /\ decodes' \in Seq(Decode) /\ Len(decodes') \in Nat
         /\ Len(decodes) \in Nat /\ Len(decodes) <= Len(decodes')
         /\ \A d \in 1..Len(decodes) :
              /\ decodes'[d].cancelled
                   = (decodes[d].cancelled \/ (Live(d) /\ Cancelled(d)))
              /\ decodes'[d].id = decodes[d].id
              /\ decodes'[d].side = decodes[d].side
              /\ decodes'[d].ver = decodes[d].ver
              /\ decodes'[d].doc = decodes[d].doc
              /\ decodes'[d].at = decodes[d].at
              /\ decodes'[d].waiting = decodes[d].waiting
              /\ decodes'[d].parsed = decodes[d].parsed
         /\ \A d \in (Len(decodes) + 1)..Len(decodes') : \E s \in Sides :
              Decodes(s) /\ Ticket(s) = d /\ decodes'[d] = NewDecode(s)
         /\ \A s \in Sides : Decodes(s) =>
              /\ Ticket(s) \in (Len(decodes) + 1)..Len(decodes')
              /\ decodes'[Ticket(s)] = NewDecode(s)
         /\ pane' = [s \in Sides |-> CommitPane(s)]
<1> DEFINE new(d) == [decodes[d] EXCEPT !.cancelled = @ \/ (Live(d) /\ Cancelled(d))]
           old == [d \in 1..Len(decodes) |-> new(d)]
<1>1. decodes \in Seq(Decode) /\ Len(decodes) \in Nat /\ DOMAIN decodes = 1..Len(decodes)
  BY DEF TypeOK
<1>2. decodes' = old \o Started /\ pane' = [s \in Sides |-> CommitPane(s)]
  BY <1>1 DEF Commit
<1>3. \A d \in 1..Len(decodes) :
        /\ new(d) \in Decode
        /\ new(d).cancelled = (decodes[d].cancelled \/ (Live(d) /\ Cancelled(d)))
        /\ new(d).id = decodes[d].id /\ new(d).side = decodes[d].side
        /\ new(d).ver = decodes[d].ver /\ new(d).doc = decodes[d].doc
        /\ new(d).at = decodes[d].at /\ new(d).waiting = decodes[d].waiting
        /\ new(d).parsed = decodes[d].parsed
  <2> SUFFICES ASSUME NEW d \in 1..Len(decodes)
               PROVE  /\ new(d) \in Decode
                      /\ new(d).cancelled = (decodes[d].cancelled \/ (Live(d) /\ Cancelled(d)))
                      /\ new(d).id = decodes[d].id /\ new(d).side = decodes[d].side
                      /\ new(d).ver = decodes[d].ver /\ new(d).doc = decodes[d].doc
                      /\ new(d).at = decodes[d].at /\ new(d).waiting = decodes[d].waiting
                      /\ new(d).parsed = decodes[d].parsed
    OBVIOUS
  <2> DEFINE c == decodes[d].cancelled \/ (Live(d) /\ Cancelled(d))
  <2>1. decodes[d] \in Decode /\ c \in BOOLEAN
    <3>1. decodes[d] \in Decode
      BY <1>1
    <3>2. c \in BOOLEAN
      OBVIOUS
    <3> QED
      BY <3>1, <3>2
  <2>2. new(d) = [decodes[d] EXCEPT !.cancelled = c]
    OBVIOUS
  <2> HIDE DEF c, new
  <2>3. /\ new(d) \in Decode /\ new(d).cancelled = c
        /\ new(d).id = decodes[d].id /\ new(d).side = decodes[d].side
        /\ new(d).ver = decodes[d].ver /\ new(d).doc = decodes[d].doc
        /\ new(d).at = decodes[d].at /\ new(d).waiting = decodes[d].waiting
        /\ new(d).parsed = decodes[d].parsed
    BY <2>1, <2>2 DEF Decode
  <2> QED
    BY <2>3 DEF c
<1> HIDE DEF new
<1>4. old \in Seq(Decode) /\ Len(old) = Len(decodes)
      /\ \A d \in 1..Len(decodes) : old[d] = new(d)
  BY <1>1, <1>3
<1> HIDE DEF old
<1>5. Started \in Seq(Decode) /\ Len(Started) \in Nat
  BY StartedFacts
<1>6. /\ decodes' \in Seq(Decode) /\ Len(decodes') = Len(decodes) + Len(Started)
      /\ \A d \in 1..Len(decodes) : decodes'[d] = new(d)
      /\ \A k \in 1..Len(Started) : decodes'[Len(decodes) + k] = Started[k]
  <2>1. old \o Started \in Seq(Decode) /\ Len(old \o Started) = Len(old) + Len(Started)
    BY <1>4, <1>5
  <2>2. \A d \in 1..(Len(old) + Len(Started)) :
          (old \o Started)[d] = IF d <= Len(old) THEN old[d] ELSE Started[d - Len(old)]
    BY <1>4, <1>5
  <2> QED
    BY <1>1, <1>2, <1>4, <1>5, <2>1, <2>2
<1>7. \A d \in (Len(decodes) + 1)..Len(decodes') : \E s \in Sides :
        Decodes(s) /\ Ticket(s) = d /\ decodes'[d] = NewDecode(s)
  <2> SUFFICES ASSUME NEW d \in (Len(decodes) + 1)..Len(decodes')
               PROVE  \E s \in Sides :
                        Decodes(s) /\ Ticket(s) = d /\ decodes'[d] = NewDecode(s)
    OBVIOUS
  <2>1. /\ (d - Len(decodes)) \in 1..Len(Started)
        /\ Len(decodes) + (d - Len(decodes)) = d
    BY <1>1, <1>5, <1>6
  <2> QED
    BY <1>6, <2>1, StartedFacts
<1>8. \A s \in Sides : Decodes(s) =>
        /\ Ticket(s) \in (Len(decodes) + 1)..Len(decodes')
        /\ decodes'[Ticket(s)] = NewDecode(s)
  <2> SUFFICES ASSUME NEW s \in Sides, Decodes(s)
               PROVE  /\ Ticket(s) \in (Len(decodes) + 1)..Len(decodes')
                      /\ decodes'[Ticket(s)] = NewDecode(s)
    OBVIOUS
  <2>1. PICK k \in 1..Len(Started) :
          Ticket(s) = Len(decodes) + k /\ Started[k] = NewDecode(s)
    BY StartedFacts
  <2> QED
    BY <1>1, <1>5, <1>6, <2>1
<1>9. Len(decodes') \in Nat /\ Len(decodes) <= Len(decodes')
  BY <1>1, <1>5, <1>6
<1> QED
  BY <1>1, <1>2, <1>3, <1>6, <1>7, <1>8, <1>9

(* The bodies of the store only ever arrive, and get new versions.         *)
StoreType == [Exchanges -> [status : BOOLEAN, error : BOOLEAN, body : [Sides -> Body]]]

(* A body arrives, or gets a new version of the same text.                 *)
Grows(b, c) ==
  \/ c = b
  \/ b.ver = 0 /\ c.ver # 0
  \/ b.ver # 0 /\ c.ver = b.ver + 1 /\ c.doc = b.doc

(* So do the bodies of the store.                                          *)
StoreGrows ==
  \A x \in Exchanges : \A s \in Sides : Grows(store[x].body[s], store'[x].body[s])

(* The store with another body on one side of an exchange.                 *)
WithBody(x, s, b) ==
  [store EXCEPT ![x] = [store[x] EXCEPT !.body = [store[x].body EXCEPT ![s] = b]]]

(* One body of the store is replaced.                                      *)
LEMMA WithBodyFacts ==
  ASSUME TypeOK, NEW x \in Exchanges, NEW s \in Sides, NEW b \in Body,
         Grows(store[x].body[s], b), store' = WithBody(x, s, b)
  PROVE  store' \in StoreType /\ StoreGrows
<1> DEFINE ex == store[x]
           bodies == [ex.body EXCEPT ![s] = b]
           new == [ex EXCEPT !.body = bodies]
<1>1. store \in StoreType /\ ex \in [status : BOOLEAN, error : BOOLEAN, body : [Sides -> Body]]
  BY DEF TypeOK, StoreType
<1>2. ex.body \in [Sides -> Body]
  BY <1>1
<1>3. bodies \in [Sides -> Body] /\ bodies[s] = b
      /\ \A t \in Sides : t # s => bodies[t] = ex.body[t]
  BY <1>2
<1>4. store' = [store EXCEPT ![x] = new]
  BY DEF WithBody
<1>5. new \in [status : BOOLEAN, error : BOOLEAN, body : [Sides -> Body]] /\ new.body = bodies
  <2> HIDE DEF ex, bodies
  <2> QED
    BY <1>1, <1>3
<1>6. store' \in StoreType /\ store'[x] = new /\ \A y \in Exchanges : y # x => store'[y] = store[y]
  <2> HIDE DEF new
  <2> QED
    BY <1>1, <1>4, <1>5 DEF StoreType
<1>7. ASSUME NEW y \in Exchanges, NEW t \in Sides
      PROVE  Grows(store[y].body[t], store'[y].body[t])
  <2>1. CASE y = x /\ t = s
    BY <1>3, <1>5, <1>6, <2>1
  <2>2. CASE ~(y = x /\ t = s)
    <3>1. store'[y].body[t] = store[y].body[t]
      BY <1>3, <1>5, <1>6, <2>2
    <3> QED
      BY <3>1 DEF Grows
  <2> QED
    BY <2>1, <2>2
<1> QED
  BY <1>6, <1>7 DEF StoreGrows

(* The store after an event, or after the decoded size of a body is set.   *)
LEMMA EventFacts ==
  ASSUME TypeOK, Versioned, Events
  PROVE  store' \in StoreType /\ StoreGrows /\ UNCHANGED <<ui, pane, decodes, workers>>
<1>1. PICK x \in Exchanges :
        \/ ResponseArrives(x)
        \/ ErrorArrives(x)
        \/ \E s \in Sides :
             \/ \E doc \in Docs, atEnd \in BOOLEAN : BodyArrives(x, s, doc, atEnd)
             \/ BodyEnds(x, s)
  BY DEF Events
<1>2. UNCHANGED <<ui, pane, decodes, workers>>
  BY <1>1 DEF ResponseArrives, ErrorArrives, BodyArrives, BodyEnds
<1>3. store \in StoreType
  BY DEF TypeOK, StoreType
<1>4. CASE ResponseArrives(x) \/ ErrorArrives(x)
  <2> DEFINE ex == store[x]
             new == IF ResponseArrives(x) THEN [ex EXCEPT !.status = TRUE]
                    ELSE [ex EXCEPT !.error = TRUE]
             Exchange == [status : BOOLEAN, error : BOOLEAN, body : [Sides -> Body]]
  <2>1. store \in [Exchanges -> Exchange] /\ ex \in Exchange
    BY <1>3 DEF StoreType
  <2>2. store' = [store EXCEPT ![x] = new]
    BY <1>4 DEF ResponseArrives, ErrorArrives
  <2>3. new \in Exchange /\ new.body = ex.body
    <3> HIDE DEF ex
    <3> QED
      BY <2>1
  <2>4. store' \in [Exchanges -> Exchange]
        /\ \A y \in Exchanges : store'[y] = IF y = x THEN new ELSE store[y]
    <3> HIDE DEF new, Exchange
    <3> QED
      BY <2>1, <2>2, <2>3
  <2>5. store' \in StoreType /\ \A y \in Exchanges : store'[y].body = store[y].body
    BY <2>3, <2>4 DEF StoreType
  <2> QED
    BY <1>2, <2>5 DEF StoreGrows, Grows
<1>5. ASSUME NEW s \in Sides, NEW doc \in Docs, NEW atEnd \in BOOLEAN,
             BodyArrives(x, s, doc, atEnd)
      PROVE  store' \in StoreType /\ StoreGrows
  <2> DEFINE b == [doc |-> doc, atEnd |-> atEnd, ver |-> 1, sized |-> FALSE]
  <2>1. b \in Body /\ b.ver = 1
    BY DEF Body, SomeDoc
  <2>2. store[x].body[s].ver = 0
    BY <1>5, Nothings DEF BodyArrives
  <2>3. Grows(store[x].body[s], b)
    BY <2>1, <2>2 DEF Grows
  <2>4. store' = WithBody(x, s, b)
    BY <1>5 DEF BodyArrives, WithBody
  <2> QED
    BY <2>1, <2>3, <2>4, WithBodyFacts
<1>6. ASSUME NEW s \in Sides, BodyEnds(x, s)
      PROVE  store' \in StoreType /\ StoreGrows
  <2> DEFINE old == store[x].body[s]
             b == [old EXCEPT !.atEnd = TRUE, !.ver = @ + 1]
  <2>1. old \in Body /\ old.ver # 0
    BY <1>3, <1>6 DEF BodyEnds, Versioned, StoreType
  <2>2. b \in Body /\ b.ver = old.ver + 1 /\ b.doc = old.doc
    <3> DEFINE v == old.ver + 1
    <3>1. v \in Nat
      BY <2>1 DEF Body
    <3>2. b = [old EXCEPT !.atEnd = TRUE, !.ver = v]
      OBVIOUS
    <3> HIDE DEF old, b, v
    <3>3. b \in Body /\ b.ver = v /\ b.doc = old.doc
      BY <2>1, <3>1, <3>2 DEF Body
    <3> QED
      BY <3>3 DEF v
  <2>3. Grows(old, b)
    BY <2>1, <2>2 DEF Grows
  <2>4. store' = WithBody(x, s, b)
    BY <1>6 DEF BodyEnds, WithBody
  <2> QED
    BY <2>2, <2>3, <2>4, WithBodyFacts
<1> QED
  BY <1>1, <1>2, <1>4, <1>5, <1>6

(* The same of setBodyDecodedBytes.                                        *)
LEMMA SizedFacts ==
  ASSUME TypeOK, Versioned, NEW x \in Exchanges, NEW s \in Sides,
         store' = store \/ store' = SetBodyDecodedBytes(x, s)
  PROVE  store' \in StoreType /\ StoreGrows
<1>1. store \in StoreType
  BY DEF TypeOK, StoreType
<1>2. CASE store' = store
  BY <1>1, <1>2 DEF StoreGrows, Grows
<1>3. CASE store' # store
  <2> DEFINE old == store[x].body[s]
             b == [old EXCEPT !.sized = TRUE, !.ver = @ + 1]
  <2>1. old \in Body /\ old.ver # 0
    BY <1>1, <1>3 DEF SetBodyDecodedBytes, Versioned, StoreType
  <2>2. b \in Body /\ b.ver = old.ver + 1 /\ b.doc = old.doc
    <3> DEFINE v == old.ver + 1
    <3>1. v \in Nat
      BY <2>1 DEF Body
    <3>2. b = [old EXCEPT !.sized = TRUE, !.ver = v]
      OBVIOUS
    <3> HIDE DEF old, b, v
    <3>3. b \in Body /\ b.ver = v /\ b.doc = old.doc
      BY <2>1, <3>1, <3>2 DEF Body
    <3> QED
      BY <3>3 DEF v
  <2>3. Grows(old, b)
    BY <2>1, <2>2 DEF Grows
  <2>4. store' = WithBody(x, s, b)
    BY <1>3 DEF SetBodyDecodedBytes, WithBody
  <2> QED
    BY <2>2, <2>3, <2>4, WithBodyFacts
<1> QED
  BY <1>2, <1>3

-----------------------------------------------------------------------------
(* What each step does to the decodes, panes and workers                   *)

(* The decodes other than d, and the panes other than its own, stay.       *)
LEMMA SettleFacts ==
  ASSUME TypeOK, NEW d \in 1..Len(decodes), NEW entry \in Entry,
         decodes[d].side \in Sides, Settle(d, entry)
  PROVE  /\ decodes' \in Seq(Decode) /\ Len(decodes') = Len(decodes)
         /\ decodes'[d] = Over
         /\ \A e \in 1..Len(decodes) : e # d => decodes'[e] = decodes[e]
         /\ pane' \in [Sides -> Pane]
         /\ \A s \in Sides :
              decodes[d].cancelled \/ s # decodes[d].side => pane'[s] = pane[s]
         /\ ~decodes[d].cancelled =>
              LET s == decodes[d].side
              IN /\ pane'[s].entry = entry /\ pane'[s].id = pane[s].id
                 /\ pane'[s].body = pane[s].body
                 /\ pane'[s].decode = pane[s].decode
<1>1. decodes \in Seq(Decode) /\ pane \in [Sides -> Pane]
  BY DEF TypeOK
<1>2. decodes' = [decodes EXCEPT ![d] = Over]
  BY DEF Settle
<1>3. /\ decodes' \in Seq(Decode) /\ Len(decodes') = Len(decodes)
      /\ decodes'[d] = Over
      /\ \A e \in 1..Len(decodes) : e # d => decodes'[e] = decodes[e]
  BY <1>1, <1>2, Nothings
<1>4. CASE decodes[d].cancelled
  BY <1>1, <1>3, <1>4 DEF Settle
<1>5. CASE ~decodes[d].cancelled
  <2> DEFINE s == decodes[d].side
             p == pane[s]
             new == [p EXCEPT !.entry = entry]
  <2>1. pane' = [pane EXCEPT ![s] = new]
    BY <1>5 DEF Settle
  <2>2. s \in Sides /\ p \in Pane
    BY <1>1
  <2>3. /\ new \in Pane /\ new.entry = entry /\ new.id = p.id /\ new.body = p.body
        /\ new.decode = p.decode
    <3> HIDE DEF p
    <3> QED
      BY <2>2 DEF Pane
  <2>4. /\ pane' \in [Sides -> Pane] /\ pane'[s] = new
        /\ \A t \in Sides : t # s => pane'[t] = pane[t]
    <3> HIDE DEF s, new
    <3> QED
      BY <1>1, <2>1, <2>2, <2>3
  <2> QED
    BY <1>3, <1>5, <2>3, <2>4
<1> QED
  BY <1>4, <1>5

(* Two decodes are the same but for where they are.                        *)
Same(old, new) ==
  /\ new.id = old.id /\ new.side = old.side /\ new.ver = old.ver
  /\ new.doc = old.doc /\ new.cancelled = old.cancelled

(* One decode moves on.                                                    *)
LEMMA MoveFacts ==
  ASSUME TypeOK, NEW d \in 1..Len(decodes), NEW new \in Decode,
         decodes' = [decodes EXCEPT ![d] = new]
  PROVE  /\ decodes' \in Seq(Decode) /\ Len(decodes') = Len(decodes)
         /\ \A e \in 1..Len(decodes) : e # d => decodes'[e] = decodes[e]
         /\ decodes'[d] = new
<1>1. decodes \in Seq(Decode)
  BY DEF TypeOK
<1> QED
  BY <1>1

(* The decodes of the jobs in Settled take the answer.                     *)
Answered(Settled, answer) ==
  decodes' = [d \in DOMAIN decodes |->
                IF \E j \in Settled : j[1] = d
                THEN Resolved(decodes[d], answer) ELSE decodes[d]]

(* What that does to each decode.                                          *)
AnswerEffect(Settled, answer) ==
  /\ decodes' \in Seq(Decode) /\ Len(decodes') = Len(decodes)
  /\ \A d \in 1..Len(decodes) :
       /\ ~(\E j \in Settled : j[1] = d) => decodes'[d] = decodes[d]
       /\ (\E j \in Settled : j[1] = d) =>
            /\ Same(decodes[d], decodes'[d])
            /\ ~decodes'[d].waiting /\ decodes'[d].parsed = answer
            /\ decodes'[d].at \in {"json", "finish"}

(* The jobs in Settled are answered, or rejected.                          *)
LEMMA ResolveFacts ==
  ASSUME TypeOK, NEW answer \in Results, NEW Settled, Answered(Settled, answer)
  PROVE  AnswerEffect(Settled, answer)
<1> DEFINE new(d) == IF \E j \in Settled : j[1] = d
                     THEN Resolved(decodes[d], answer) ELSE decodes[d]
<1>1. decodes \in Seq(Decode) /\ Len(decodes) \in Nat /\ DOMAIN decodes = 1..Len(decodes)
  BY DEF TypeOK
<1>2. decodes' = [d \in 1..Len(decodes) |-> new(d)]
  BY <1>1 DEF Answered
<1>3. \A d \in 1..Len(decodes) :
        /\ new(d) \in Decode
        /\ ~(\E j \in Settled : j[1] = d) => new(d) = decodes[d]
        /\ (\E j \in Settled : j[1] = d) =>
             /\ Same(decodes[d], new(d))
             /\ ~new(d).waiting /\ new(d).parsed = answer
             /\ new(d).at \in {"json", "finish"}
  <2> SUFFICES ASSUME NEW d \in 1..Len(decodes)
               PROVE  /\ new(d) \in Decode
                      /\ ~(\E j \in Settled : j[1] = d) => new(d) = decodes[d]
                      /\ (\E j \in Settled : j[1] = d) =>
                           /\ Same(decodes[d], new(d))
                           /\ ~new(d).waiting /\ new(d).parsed = answer
                           /\ new(d).at \in {"json", "finish"}
    OBVIOUS
  <2>1. decodes[d] \in Decode
    BY <1>1
  <2>2. CASE \E j \in Settled : j[1] = d
    <3>1. new(d) = Resolved(decodes[d], answer)
      BY <2>2
    <3> DEFINE res == Resolved(decodes[d], answer)
    <3>2. /\ res \in Decode /\ res.waiting = FALSE /\ res.parsed = answer
          /\ res.at \in {"json", "finish"}
          /\ res.id = decodes[d].id /\ res.side = decodes[d].side
          /\ res.ver = decodes[d].ver /\ res.doc = decodes[d].doc
          /\ res.cancelled = decodes[d].cancelled
      BY <2>1, ResolvedType
    <3> HIDE DEF new, res
    <3>3. Same(decodes[d], res)
      BY <3>2 DEF Same
    <3>4. new(d) = res
      BY <3>1 DEF res
    <3> QED
      BY ONLY <2>2, <3>2, <3>3, <3>4
  <2>3. CASE ~(\E j \in Settled : j[1] = d)
    BY <2>1, <2>3
  <2> QED
    BY <2>2, <2>3
<1> HIDE DEF new
<1>4. /\ decodes' \in Seq(Decode) /\ Len(decodes') = Len(decodes)
      /\ \A d \in 1..Len(decodes) : decodes'[d] = new(d)
  <2>1. \A d \in 1..Len(decodes) : new(d) \in Decode
    BY <1>3
  <2> QED
    BY ONLY <1>1, <1>2, <2>1
<1>5. ASSUME NEW d \in 1..Len(decodes)
      PROVE  /\ ~(\E j \in Settled : j[1] = d) => decodes'[d] = decodes[d]
             /\ (\E j \in Settled : j[1] = d) =>
                  /\ Same(decodes[d], decodes'[d])
                  /\ ~decodes'[d].waiting /\ decodes'[d].parsed = answer
                  /\ decodes'[d].at \in {"json", "finish"}
  <2>1. decodes'[d] = new(d)
    BY <1>4
  <2> QED
    BY ONLY <1>3, <1>5, <2>1
<1> QED
  BY ONLY <1>4, <1>5 DEF AnswerEffect

(* What a queue holds after a message was posted.                          *)
LEMMA RangeAppend ==
  ASSUME NEW q \in Seq(Message), NEW m \in Message
  PROVE  Range(Append(q, m)) = Range(q) \cup {m}
<1> DEFINE r == Append(q, m)
<1>1. Len(q) \in Nat /\ DOMAIN q = 1..Len(q)
  OBVIOUS
<1>2. /\ DOMAIN r = 1..(Len(q) + 1) /\ r[Len(q) + 1] = m
      /\ \A i \in 1..Len(q) : r[i] = q[i]
  BY <1>1
<1> HIDE DEF r
<1>3. Range(r) = Range(q) \cup {m}
  BY <1>1, <1>2 DEF Range
<1> QED
  BY <1>3 DEF r

(* What a queue holds after a message was taken.                           *)
LEMMA RangeTail ==
  ASSUME NEW q \in Seq(Message), q # <<>>
  PROVE  /\ Tail(q) \in Seq(Message) /\ Head(q) \in Message
         /\ Range(q) = Range(Tail(q)) \cup {Head(q)}
<1> USE DEF Range
<1> DEFINE r == Tail(q)
<1>1. Len(q) \in Nat /\ DOMAIN q = 1..Len(q)
  OBVIOUS
<1>2. /\ r \in Seq(Message) /\ Len(q) \in Nat \ {0} /\ Len(r) = Len(q) - 1
      /\ DOMAIN r = 1..(Len(q) - 1) /\ \A i \in 1..(Len(q) - 1) : r[i] = q[i + 1]
      /\ Head(q) = q[1] /\ q[1] \in Message
  BY <1>1
<1> HIDE DEF r
<1>3. \A i \in 1..Len(q) : q[i] = q[1] \/ q[i] \in Range(r)
  <2> SUFFICES ASSUME NEW i \in 1..Len(q), i # 1 PROVE q[i] \in Range(r)
    OBVIOUS
  <2>1. i - 1 \in 1..(Len(q) - 1) /\ (i - 1) + 1 = i
    BY <1>2
  <2> QED
    BY <1>2, <2>1
<1>4. \A i \in 1..(Len(q) - 1) : r[i] \in Range(q)
  BY <1>1, <1>2
<1>5. Range(q) = Range(r) \cup {q[1]}
  <2>1. Range(q) \subseteq Range(r) \cup {q[1]}
    BY <1>1, <1>3
  <2>2. Range(r) \subseteq Range(q)
    BY <1>2, <1>4
  <2>3. q[1] \in Range(q)
    BY <1>1, <1>2
  <2> QED
    BY ONLY <2>1, <2>2, <2>3
<1> QED
  BY <1>2, <1>5 DEF r

(* The text and the stage of the job that Post posts.                      *)
PostMessage(d) == [job |-> <<d, decodes[d].at>>, doc |-> decodes[d].doc]

(* Post adds one job to the pending ones and to the worker in use.         *)
PostEffect(d, c) ==
  /\ c \in Clients /\ decodes[d].at \in Parsers /\ ~decodes[d].waiting
  /\ client' \in [Clients -> [worker : Nat, pending : SUBSET Job]]
  /\ queue' \in [Clients -> Seq(Seq(Message))]
  /\ \A b \in Clients \ {c} : client'[b] = client[b] /\ queue'[b] = queue[b]
  /\ client'[c].worker \in 1..Len(queue'[c])
  /\ client[c].worker # 0 => client'[c].worker = client[c].worker
  /\ client'[c].pending = client[c].pending \cup {<<d, decodes[d].at>>}
  /\ Len(queue[c]) <= Len(queue'[c])
  /\ \A g \in 1..Len(queue'[c]) : \A m \in Range(queue'[c][g]) :
       m = PostMessage(d) \/ (g \in 1..Len(queue[c]) /\ m \in Range(queue[c][g]))
  /\ PostMessage(d) \in Range(queue'[c][client'[c].worker])
  /\ \A g \in 1..Len(queue[c]) : Range(queue[c][g]) \subseteq Range(queue'[c][g])

(* That is what Post does.                                                 *)
LEMMA PostFacts ==
  ASSUME TypeOK, Posted, NEW d \in 1..Len(decodes), Post(d),
         NEW c, c = ClientOf(decodes[d].at)
  PROVE  PostEffect(d, c)
<1> DEFINE at == decodes[d].at
           message == [job |-> <<d, at>>, doc |-> decodes[d].doc]
           g == IF client[c].worker = 0 THEN Len(queue[c]) + 1 ELSE client[c].worker
           q == queue[c]
           r == IF g > Len(q) THEN Append(q, <<message>>)
                ELSE [q EXCEPT ![g] = Append(q[g], message)]
           new == [worker |-> g, pending |-> client[c].pending \cup {<<d, at>>}]
<1>1. at \in Parsers /\ ~decodes[d].waiting
  BY DEF Post, Parsers
<1>2. c \in Clients
  BY DEF ClientOf, Clients
<1>3. /\ client' = [client EXCEPT ![c] = new]
      /\ queue' = [queue EXCEPT ![c] = r]
  BY DEF Post
<1>4. decodes[d] \in Decode /\ d \in Nat /\ decodes[d].doc \in SomeDoc
  <2>1. decodes[d] \in Decode /\ Len(decodes) \in Nat
    BY DEF TypeOK
  <2> QED
    BY <2>1 DEF Decode
<1>5. message \in Message /\ message = PostMessage(d) /\ <<d, at>> \in Job
  BY <1>1, <1>4 DEF Message, Job, PostMessage
<1>6. /\ q \in Seq(Seq(Message)) /\ Len(q) \in Nat
      /\ client[c].worker \in Nat /\ client[c].pending \in SUBSET Job
      /\ client[c].worker <= Len(q)
  BY <1>2 DEF TypeOK, Posted
<1>7. g \in Nat \ {0} /\ g <= Len(q) + 1
  BY <1>6
<1> HIDE DEF message
<1>8. new \in [worker : Nat, pending : SUBSET Job]
  BY <1>5, <1>6, <1>7
<1>9. /\ r \in Seq(Seq(Message)) /\ Len(q) <= Len(r) /\ g \in 1..Len(r)
      /\ \A h \in 1..Len(q) : h # g => r[h] = q[h]
      /\ \A h \in 1..Len(r) : h # g => h \in 1..Len(q)
      /\ r[g] = (IF g > Len(q) THEN <<message>> ELSE Append(q[g], message))
  <2> HIDE DEF q, g
  <2>1. CASE g > Len(q)
    <3>1. g = Len(q) + 1 /\ r = Append(q, <<message>>)
      BY <1>6, <1>7, <2>1
    <3>2. <<message>> \in Seq(Message)
      BY <1>5
    <3> QED
      BY <1>6, <2>1, <3>1, <3>2
  <2>2. CASE ~(g > Len(q))
    <3>1. g \in 1..Len(q) /\ r = [q EXCEPT ![g] = Append(q[g], message)]
      BY <1>6, <1>7, <2>2
    <3>2. q[g] \in Seq(Message) /\ Append(q[g], message) \in Seq(Message)
      BY <1>5, <1>6, <3>1
    <3> QED
      BY <1>6, <2>2, <3>1, <3>2
  <2> QED
    BY <2>1, <2>2
<1>10. /\ g > Len(q) => Range(r[g]) = {message}
       /\ ~(g > Len(q)) => Range(r[g]) = Range(q[g]) \cup {message} /\ g \in 1..Len(q)
  <2>1. g \in 1..Len(q) => q[g] \in Seq(Message)
    BY <1>6
  <2> HIDE DEF q, g, r
  <2>2. ~(g > Len(q)) => g \in 1..Len(q)
    BY <1>6, <1>7
  <2>4. Range(<<message>>) = {message}
    BY DEF Range
  <2>5. ASSUME g \in 1..Len(q)
        PROVE  Range(Append(q[g], message)) = Range(q[g]) \cup {message}
    <3>1. q[g] \in Seq(Message) /\ message \in Message
      BY <1>5, <2>1, <2>5
    <3> QED
      BY <3>1, RangeAppend
  <2> QED
    BY <1>9, <2>2, <2>4, <2>5
<1>11. /\ client \in [Clients -> [worker : Nat, pending : SUBSET Job]]
       /\ queue \in [Clients -> Seq(Seq(Message))]
  BY DEF TypeOK
<1>12. /\ client' \in [Clients -> [worker : Nat, pending : SUBSET Job]]
       /\ queue' \in [Clients -> Seq(Seq(Message))]
       /\ client'[c] = new /\ queue'[c] = r
       /\ \A b \in Clients \ {c} : client'[b] = client[b] /\ queue'[b] = queue[b]
  <2> HIDE DEF new, r
  <2> QED
    BY <1>2, <1>3, <1>8, <1>9, <1>11
<1>13. new.worker = g /\ new.pending = client[c].pending \cup {<<d, at>>}
  OBVIOUS
<1>14. client[c].worker # 0 => g = client[c].worker
  OBVIOUS
<1>15. \A h \in 1..Len(r) : \A m \in Range(r[h]) :
         m = PostMessage(d) \/ (h \in 1..Len(q) /\ m \in Range(q[h]))
  <2> HIDE DEF q, g, r
  <2> QED
    BY <1>5, <1>9, <1>10
<1>16. /\ PostMessage(d) \in Range(r[g])
       /\ \A h \in 1..Len(q) : Range(q[h]) \subseteq Range(r[h])
  <2> HIDE DEF q, g, r
  <2>1. PostMessage(d) \in Range(r[g])
    BY <1>5, <1>10
  <2>2. ASSUME NEW h \in 1..Len(q) PROVE Range(q[h]) \subseteq Range(r[h])
    <3>1. CASE h = g
      BY <1>6, <1>10, <3>1
    <3>2. CASE h # g
      BY <1>9, <3>2
    <3> QED
      BY <3>1, <3>2
  <2> QED
    BY <2>1, <2>2
<1>17. q = queue[c]
  OBVIOUS
<1> HIDE DEF g, q, r, new
<1> QED
  BY <1>1, <1>2, <1>9, <1>12, <1>13, <1>14, <1>15, <1>16, <1>17 DEF PostEffect

-----------------------------------------------------------------------------
(* Every step keeps the jobs in order                                      *)

(* No decode starts or stops waiting, and none gets another text.          *)
Quiet ==
  /\ Len(decodes') \in Nat /\ Len(decodes) <= Len(decodes')
  /\ \A d \in 1..Len(decodes) :
       /\ decodes'[d].waiting = decodes[d].waiting
       /\ decodes[d].waiting => decodes'[d].at = decodes[d].at
       /\ decodes'[d].at # "over" => /\ decodes[d].at # "over"
                                     /\ decodes'[d].doc = decodes[d].doc
  /\ \A d \in (Len(decodes) + 1)..Len(decodes') : ~decodes'[d].waiting

(* Such a step leaves every job with the decode that waits for it.         *)
LEMMA QuietJobs ==
  ASSUME TypeOK, Jobs, Quiet, UNCHANGED workers
  PROVE  Jobs'
<1>1. client' = client /\ queue' = queue /\ Len(decodes) \in Nat
  BY DEF workers, TypeOK
<1>2. Posted'
  BY <1>1 DEF Jobs, Posted
<1>3. Waits'
  <2> SUFFICES ASSUME NEW d \in 1..Len(decodes'), decodes'[d].waiting
               PROVE  /\ decodes'[d].at \in Parsers
                      /\ <<d, decodes'[d].at>> \in client'[ClientOf(decodes'[d].at)].pending
    BY DEF Waits
  <2>1. d \in 1..Len(decodes) /\ decodes[d].waiting /\ decodes'[d].at = decodes[d].at
    BY <1>1 DEF Quiet
  <2> QED
    BY <1>1, <2>1 DEF Jobs, Waits
<1>4. Owned'
  <2> SUFFICES ASSUME NEW c \in Clients, NEW j \in client'[c].pending
               PROVE  /\ j[1] \in 1..Len(decodes')
                      /\ decodes'[j[1]].waiting /\ decodes'[j[1]].at = j[2]
                      /\ ClientOf(j[2]) = c
    BY DEF Owned
  <2>1. /\ j[1] \in 1..Len(decodes) /\ decodes[j[1]].waiting
        /\ decodes[j[1]].at = j[2] /\ ClientOf(j[2]) = c
    BY <1>1 DEF Jobs, Owned
  <2> QED
    BY <1>1, <2>1 DEF Quiet
<1>5. Texts'
  <2> SUFFICES ASSUME NEW c \in Clients, NEW g \in 1..Len(queue'[c]),
                      NEW m \in Range(queue'[c][g])
               PROVE  /\ m.job[1] \in 1..Len(decodes')
                      /\ decodes'[m.job[1]].at # "over"
                           => m.doc = decodes'[m.job[1]].doc
    BY DEF Texts, Live
  <2>1. /\ m.job[1] \in 1..Len(decodes)
        /\ decodes[m.job[1]].at # "over" => m.doc = decodes[m.job[1]].doc
    BY <1>1 DEF Jobs, Texts, Live
  <2> QED
    BY <1>1, <2>1 DEF Quiet
<1> QED
  BY <1>2, <1>3, <1>4, <1>5 DEF Jobs

(* Post starts the wait of one decode, with its job in the queue.          *)
LEMMA PostJobs ==
  ASSUME TypeOK, Jobs, NEW d \in 1..Len(decodes), Post(d),
         Len(decodes') = Len(decodes),
         \A e \in 1..Len(decodes) : e # d => decodes'[e] = decodes[e],
         decodes'[d].at = decodes[d].at, decodes'[d].waiting,
         decodes'[d].doc = decodes[d].doc
  PROVE  Jobs'
<1>0. SUFFICES ASSUME NEW c, c = ClientOf(decodes[d].at) PROVE Jobs'
  OBVIOUS
<1> DEFINE at == decodes[d].at
           job == <<d, at>>
           message == PostMessage(d)
<1>1. /\ c \in Clients /\ at \in Parsers /\ ~decodes[d].waiting
      /\ \A b \in Clients \ {c} : client'[b] = client[b] /\ queue'[b] = queue[b]
      /\ client'[c].worker \in 1..Len(queue'[c])
      /\ client[c].worker # 0 => client'[c].worker = client[c].worker
      /\ client'[c].pending = client[c].pending \cup {job}
      /\ Len(queue[c]) <= Len(queue'[c])
      /\ \A g \in 1..Len(queue'[c]) : \A m \in Range(queue'[c][g]) :
           m = message \/ (g \in 1..Len(queue[c]) /\ m \in Range(queue[c][g]))
      /\ message \in Range(queue'[c][client'[c].worker])
      /\ \A g \in 1..Len(queue[c]) : Range(queue[c][g]) \subseteq Range(queue'[c][g])
  <2>1. PostEffect(d, c)
    BY <1>0, PostFacts DEF Jobs
  <2> QED
    BY <2>1 DEF PostEffect
<1>2. message.job = job /\ message.doc = decodes[d].doc /\ job[1] = d /\ job[2] = at
  BY DEF PostMessage
<1>3. /\ client \in [Clients -> [worker : Nat, pending : SUBSET Job]]
      /\ queue \in [Clients -> Seq(Seq(Message))] /\ Len(decodes) \in Nat
  BY DEF TypeOK
<1>4. decodes'[d].at # "over"
  BY <1>1 DEF Parsers
<1> HIDE DEF message, job
<1>5. Posted'
  <2> SUFFICES ASSUME NEW b \in Clients
               PROVE  /\ client'[b].worker <= Len(queue'[b])
                      /\ \A j \in client'[b].pending :
                           /\ client'[b].worker # 0
                           /\ \E m \in Range(queue'[b][client'[b].worker]) : m.job = j
    BY DEF Posted
  <2>1. CASE b # c
    BY <1>1, <2>1 DEF Jobs, Posted
  <2>2. CASE b = c
    <3>1. client'[c].worker <= Len(queue'[c]) /\ client'[c].worker # 0
      BY <1>1
    <3>2. ASSUME NEW j \in client'[c].pending
          PROVE  \E m \in Range(queue'[c][client'[c].worker]) : m.job = j
      <4>1. CASE j = job
        BY <1>1, <1>2, <4>1
      <4>2. CASE j # job
        <5>1. j \in client[c].pending
          BY <1>1, <3>2, <4>2
        <5>2. /\ client[c].worker # 0 /\ client[c].worker <= Len(queue[c])
              /\ \E m \in Range(queue[c][client[c].worker]) : m.job = j
          BY <1>1, <5>1 DEF Jobs, Posted
        <5>3. client[c].worker \in 1..Len(queue[c])
          BY <1>1, <1>3, <5>2
        <5> QED
          BY <1>1, <5>2, <5>3
      <4> QED
        BY <4>1, <4>2
    <3> QED
      BY <2>2, <3>1, <3>2
  <2> QED
    BY <2>1, <2>2
<1>6. Waits'
  <2> SUFFICES ASSUME NEW e \in 1..Len(decodes'), decodes'[e].waiting
               PROVE  /\ decodes'[e].at \in Parsers
                      /\ <<e, decodes'[e].at>> \in client'[ClientOf(decodes'[e].at)].pending
    BY DEF Waits
  <2>1. CASE e = d
    BY <1>0, <1>1, <2>1 DEF job
  <2>2. CASE e # d
    <3>1. e \in 1..Len(decodes) /\ decodes'[e] = decodes[e]
      BY <2>2
    <3>2. /\ decodes[e].at \in Parsers
          /\ <<e, decodes[e].at>> \in client[ClientOf(decodes[e].at)].pending
      BY <3>1 DEF Jobs, Waits
    <3>3. ClientOf(decodes[e].at) \in Clients
      BY DEF ClientOf, Clients
    <3> QED
      BY <1>1, <3>1, <3>2, <3>3
  <2> QED
    BY <2>1, <2>2
<1>7. Owned'
  <2> SUFFICES ASSUME NEW b \in Clients, NEW j \in client'[b].pending
               PROVE  /\ j[1] \in 1..Len(decodes')
                      /\ decodes'[j[1]].waiting /\ decodes'[j[1]].at = j[2]
                      /\ ClientOf(j[2]) = b
    BY DEF Owned
  <2>1. CASE j \in client[b].pending
    <3>1. /\ j[1] \in 1..Len(decodes) /\ decodes[j[1]].waiting
          /\ decodes[j[1]].at = j[2] /\ ClientOf(j[2]) = b
      BY <2>1 DEF Jobs, Owned
    <3> QED
      BY <1>1, <3>1
  <2>2. CASE j \notin client[b].pending
    <3>1. b = c /\ j = job
      BY <1>1, <2>2
    <3> QED
      BY <1>0, <1>2, <3>1
  <2> QED
    BY <2>1, <2>2
<1>8. Texts'
  <2> SUFFICES ASSUME NEW b \in Clients, NEW g \in 1..Len(queue'[b]),
                      NEW m \in Range(queue'[b][g])
               PROVE  /\ m.job[1] \in 1..Len(decodes')
                      /\ decodes'[m.job[1]].at # "over"
                           => m.doc = decodes'[m.job[1]].doc
    BY DEF Texts, Live
  <2>1. CASE b = c /\ m = message
    BY <1>2, <2>1
  <2>2. CASE ~(b = c /\ m = message)
    <3>1. g \in 1..Len(queue[b]) /\ m \in Range(queue[b][g])
      BY <1>1, <2>2
    <3>2. /\ m.job[1] \in 1..Len(decodes)
          /\ decodes[m.job[1]].at # "over" => m.doc = decodes[m.job[1]].doc
      BY <3>1 DEF Jobs, Texts, Live
    <3> QED
      BY <3>2
  <2> QED
    BY <2>1, <2>2
<1> QED
  BY <1>5, <1>6, <1>7, <1>8 DEF Jobs

(* The decodes that wait for the jobs in Settled go on, the others stay.   *)
DecodesResolve(Settled) ==
  /\ Len(decodes') = Len(decodes)
  /\ \A d \in 1..Len(decodes) :
       /\ ~(\E j \in Settled : j[1] = d) => decodes'[d] = decodes[d]
       /\ (\E j \in Settled : j[1] = d) =>
            Same(decodes[d], decodes'[d]) /\ ~decodes'[d].waiting

(* The jobs in Settled are no longer pending, and no message is posted.    *)
WorkersResolve(c, Settled) ==
  /\ client'[c].pending = client[c].pending \ Settled
  /\ \A b \in Clients \ {c} : client'[b] = client[b]
  /\ \A b \in Clients : /\ Len(queue'[b]) = Len(queue[b])
                        /\ \A g \in 1..Len(queue[b]) :
                             Range(queue'[b][g]) \subseteq Range(queue[b][g])

(* The decodes that still wait keep their jobs.                            *)
LEMMA ResolveJobs ==
  ASSUME TypeOK, Jobs, NEW c \in Clients, NEW Settled \in SUBSET client[c].pending,
         DecodesResolve(Settled), WorkersResolve(c, Settled)
  PROVE  Waits' /\ Owned' /\ Texts'
<1>1. Len(decodes) \in Nat /\ Len(decodes') = Len(decodes)
      /\ \A b \in Clients : client[b].pending \subseteq Job
  BY DEF TypeOK, DecodesResolve
<1>2. \A b \in Clients : /\ client'[b].pending \subseteq client[b].pending
                         /\ b = c => client'[b].pending = client[b].pending \ Settled
                         /\ b # c => client'[b].pending = client[b].pending
  BY DEF WorkersResolve
<1>3. Waits'
  <2> SUFFICES ASSUME NEW e \in 1..Len(decodes'), decodes'[e].waiting
               PROVE  /\ decodes'[e].at \in Parsers
                      /\ <<e, decodes'[e].at>> \in client'[ClientOf(decodes'[e].at)].pending
    BY DEF Waits
  <2>1. e \in 1..Len(decodes) /\ ~(\E j \in Settled : j[1] = e) /\ decodes'[e] = decodes[e]
    BY <1>1 DEF DecodesResolve
  <2>2. /\ decodes[e].at \in Parsers
        /\ <<e, decodes[e].at>> \in client[ClientOf(decodes[e].at)].pending
    BY <2>1 DEF Jobs, Waits
  <2>3. ClientOf(decodes[e].at) \in Clients /\ <<e, decodes[e].at>> \notin Settled
    BY <2>1 DEF ClientOf, Clients
  <2> QED
    BY <1>2, <2>1, <2>2, <2>3
<1>4. Owned'
  <2> SUFFICES ASSUME NEW b \in Clients, NEW j \in client'[b].pending
               PROVE  /\ j[1] \in 1..Len(decodes')
                      /\ decodes'[j[1]].waiting /\ decodes'[j[1]].at = j[2]
                      /\ ClientOf(j[2]) = b
    BY DEF Owned
  <2>1. j \in client[b].pending /\ j \in Job
    BY <1>1, <1>2
  <2>2. /\ j[1] \in 1..Len(decodes) /\ decodes[j[1]].waiting
        /\ decodes[j[1]].at = j[2] /\ ClientOf(j[2]) = b
    BY <2>1 DEF Jobs, Owned
  <2>3. ASSUME NEW k \in Settled, k[1] = j[1] PROVE FALSE
    <3>1. k \in client[c].pending /\ k \in Job
      BY <1>1
    <3>2. decodes[k[1]].at = k[2] /\ ClientOf(k[2]) = c
      BY <3>1 DEF Jobs, Owned
    <3>3. k[2] = j[2] /\ b = c
      BY <2>2, <2>3, <3>2
    <3>4. k = j
      BY <2>1, <2>3, <3>1, <3>3 DEF Job
    <3> QED
      BY <1>2, <3>3, <3>4
  <2>4. decodes'[j[1]] = decodes[j[1]]
    BY <2>2, <2>3 DEF DecodesResolve
  <2> QED
    BY <1>1, <2>2, <2>4
<1>5. Texts'
  <2> SUFFICES ASSUME NEW b \in Clients, NEW g \in 1..Len(queue'[b]),
                      NEW m \in Range(queue'[b][g])
               PROVE  /\ m.job[1] \in 1..Len(decodes')
                      /\ decodes'[m.job[1]].at # "over"
                           => m.doc = decodes'[m.job[1]].doc
    BY DEF Texts, Live
  <2>1. g \in 1..Len(queue[b]) /\ m \in Range(queue[b][g])
    BY DEF WorkersResolve
  <2>2. /\ m.job[1] \in 1..Len(decodes)
        /\ decodes[m.job[1]].at # "over" => m.doc = decodes[m.job[1]].doc
    BY <2>1 DEF Jobs, Texts, Live
  <2>3. CASE \E j \in Settled : j[1] = m.job[1]
    <3>1. decodes[m.job[1]].waiting
      BY <2>3 DEF Jobs, Owned
    <3>2. decodes[m.job[1]].at # "over"
      BY <2>2, <3>1 DEF Jobs, Waits, Parsers
    <3>3. decodes'[m.job[1]].doc = decodes[m.job[1]].doc
      BY <2>2, <2>3 DEF DecodesResolve, Same
    <3> QED
      BY <1>1, <2>2, <3>2, <3>3
  <2>4. CASE ~(\E j \in Settled : j[1] = m.job[1])
    BY <1>1, <2>2, <2>4 DEF DecodesResolve
  <2> QED
    BY <2>3, <2>4
<1> QED
  BY <1>3, <1>4, <1>5

(* What the client hears from a worker.                                    *)
Heard(c, g) == Head(queue[c][g])
HeardJobs(c, g) == JobOf(c, Heard(c, g).job)
HeardAnswer(c, g) == Answer(Heard(c, g).doc, Heard(c, g).job[2])

(* What hearing it does to the client and to the queues.                   *)
MessageEffect(c, g) ==
  /\ Heard(c, g) \in Range(queue[c][g]) /\ Heard(c, g) \in Message
  /\ HeardAnswer(c, g) \in Results
  /\ HeardJobs(c, g) \in SUBSET client[c].pending
  /\ client' \in [Clients -> [worker : Nat, pending : SUBSET Job]]
  /\ queue' \in [Clients -> Seq(Seq(Message))]
  /\ client'[c].worker = client[c].worker
  /\ \A b \in Clients \ {c} : queue'[b] = queue[b]
  /\ \A h \in 1..Len(queue[c]) : h # g => queue'[c][h] = queue[c][h]
  /\ Range(queue[c][g]) = Range(queue'[c][g]) \cup {Heard(c, g)}
  /\ WorkersResolve(c, HeardJobs(c, g))

(* A worker's message takes one job from the queue, and from the pending   *)
(* ones if it is there.                                                    *)
LEMMA MessageFacts ==
  ASSUME TypeOK, NEW c \in Clients, NEW g \in 1..Len(queue[c]), WorkerMessage(c, g)
  PROVE  MessageEffect(c, g)
<1> DEFINE q == queue[c]
           r == [q EXCEPT ![g] = Tail(q[g])]
           for == HeardJobs(c, g)
           new == [client[c] EXCEPT !.pending = client[c].pending \ for]
<1>1. /\ client \in [Clients -> [worker : Nat, pending : SUBSET Job]]
      /\ queue \in [Clients -> Seq(Seq(Message))]
  BY DEF TypeOK
<1>2. /\ client[c] \in [worker : Nat, pending : SUBSET Job]
      /\ q \in Seq(Seq(Message)) /\ q[g] \in Seq(Message)
  BY <1>1
<1>3. q[g] # <<>>
  BY DEF WorkerMessage
<1>4. queue' = [queue EXCEPT ![c] = r]
  BY DEF WorkerMessage
<1>5. client' = [client EXCEPT ![c] = new]
  BY DEF WorkerMessage, HeardJobs, Heard
<1>6. /\ Tail(q[g]) \in Seq(Message) /\ Heard(c, g) \in Message
      /\ Range(q[g]) = Range(Tail(q[g])) \cup {Heard(c, g)}
  BY <1>2, <1>3, RangeTail DEF Heard
<1>7. Heard(c, g) \in Range(q[g])
  BY <1>6
<1>8. HeardAnswer(c, g) \in Results
  <2>1. Heard(c, g).doc \in SomeDoc /\ Heard(c, g).job[2] \in Parsers
    BY <1>6 DEF Message, Job
  <2> QED
    BY <2>1, AnswerType DEF HeardAnswer
<1>9. for \in SUBSET client[c].pending
  BY DEF HeardJobs, JobOf
<1>10. /\ r \in Seq(Seq(Message)) /\ Len(r) = Len(q) /\ r[g] = Tail(q[g])
       /\ \A h \in 1..Len(q) : h # g => r[h] = q[h]
  <2>1. g \in 1..Len(q)
    OBVIOUS
  <2> HIDE DEF q
  <2> QED
    BY <1>2, <1>6, <2>1
<1>11. /\ new \in [worker : Nat, pending : SUBSET Job]
       /\ new.worker = client[c].worker
       /\ new.pending = client[c].pending \ for
  <2> HIDE DEF for
  <2> QED
    BY <1>2
<1>12. /\ client' \in [Clients -> [worker : Nat, pending : SUBSET Job]]
       /\ queue' \in [Clients -> Seq(Seq(Message))]
       /\ client'[c] = new /\ queue'[c] = r
       /\ \A b \in Clients \ {c} : client'[b] = client[b] /\ queue'[b] = queue[b]
  <2> HIDE DEF new, r
  <2> QED
    BY <1>1, <1>4, <1>5, <1>10, <1>11
<1>13. q = queue[c] /\ for = HeardJobs(c, g)
  OBVIOUS
<1> HIDE DEF q, r, new, for
<1>14. \A h \in 1..Len(queue[c]) : Range(queue'[c][h]) \subseteq Range(queue[c][h])
  <2> SUFFICES ASSUME NEW h \in 1..Len(queue[c])
               PROVE  Range(r[h]) \subseteq Range(q[h])
    BY <1>12, <1>13
  <2>1. CASE h = g
    BY <1>6, <1>10, <2>1
  <2>2. CASE h # g
    BY <1>10, <1>13, <2>2
  <2> QED
    BY <2>1, <2>2
<1>15. WorkersResolve(c, for)
  <2>1. ASSUME NEW b \in Clients
        PROVE  /\ Len(queue'[b]) = Len(queue[b])
               /\ \A h \in 1..Len(queue[b]) :
                    Range(queue'[b][h]) \subseteq Range(queue[b][h])
    <3>1. CASE b = c
      BY <1>10, <1>12, <1>13, <1>14, <3>1
    <3>2. CASE b # c
      BY <1>12, <3>2
    <3> QED
      BY <3>1, <3>2
  <2> QED
    BY <1>11, <1>12, <2>1 DEF WorkersResolve
<1> QED
  BY <1>6, <1>7, <1>8, <1>9, <1>10, <1>11, <1>12, <1>13, <1>15 DEF MessageEffect

(* The jobs after a worker's message.                                      *)
LEMMA MessageJobs ==
  ASSUME TypeOK, Jobs, NEW c \in Clients, NEW g \in 1..Len(queue[c]),
         MessageEffect(c, g), DecodesResolve(HeardJobs(c, g))
  PROVE  Jobs'
<1> DEFINE for == HeardJobs(c, g)
<1>1. /\ for \in SUBSET client[c].pending
      /\ client'[c].pending = client[c].pending \ for
      /\ client'[c].worker = client[c].worker
      /\ \A b \in Clients \ {c} : client'[b] = client[b] /\ queue'[b] = queue[b]
      /\ \A b \in Clients : Len(queue'[b]) = Len(queue[b])
      /\ \A h \in 1..Len(queue[c]) : h # g => queue'[c][h] = queue[c][h]
      /\ Range(queue[c][g]) = Range(queue'[c][g]) \cup {Heard(c, g)}
  BY DEF MessageEffect, WorkersResolve
<1>2. Waits' /\ Owned' /\ Texts'
  BY ResolveJobs DEF MessageEffect
<1>3. Posted'
  <2> SUFFICES ASSUME NEW b \in Clients
               PROVE  /\ client'[b].worker <= Len(queue'[b])
                      /\ \A j \in client'[b].pending :
                           /\ client'[b].worker # 0
                           /\ \E m \in Range(queue'[b][client'[b].worker]) : m.job = j
    BY DEF Posted
  <2>1. CASE b # c
    BY <1>1, <2>1 DEF Jobs, Posted
  <2>2. CASE b = c
    <3>1. client'[c].worker <= Len(queue'[c])
      BY <1>1 DEF Jobs, Posted
    <3>2. ASSUME NEW j \in client'[c].pending
          PROVE  /\ client'[c].worker # 0
                 /\ \E m \in Range(queue'[c][client'[c].worker]) : m.job = j
      <4>1. j \in client[c].pending /\ j # Heard(c, g).job
        BY <1>1, <3>2 DEF HeardJobs, JobOf
      <4>2. client[c].worker # 0 /\ client[c].worker <= Len(queue[c])
        BY <4>1 DEF Jobs, Posted
      <4>3. PICK m \in Range(queue[c][client[c].worker]) : m.job = j
        BY <4>1 DEF Jobs, Posted
      <4>4. client[c].worker \in 1..Len(queue[c])
        BY <4>2 DEF TypeOK
      <4>5. CASE client[c].worker = g
        <5>1. m \in Range(queue'[c][g])
          BY <1>1, <4>1, <4>3, <4>5
        <5> QED
          BY <1>1, <4>2, <4>3, <4>5, <5>1
      <4>6. CASE client[c].worker # g
        BY <1>1, <4>2, <4>3, <4>4, <4>6
      <4> QED
        BY <4>5, <4>6
    <3> QED
      BY <2>2, <3>1, <3>2
  <2> QED
    BY <2>1, <2>2
<1> QED
  BY <1>2, <1>3 DEF Jobs

(* A worker that fails leaves nothing pending.                             *)
LEMMA ErrorJobs ==
  ASSUME TypeOK, Jobs, NEW c \in Clients,
         queue' = queue,
         client' = [client EXCEPT ![c] = [worker |-> 0, pending |-> {}]],
         DecodesResolve(client[c].pending)
  PROVE  /\ Jobs'
         /\ client' \in [Clients -> [worker : Nat, pending : SUBSET Job]]
<1>1. /\ client \in [Clients -> [worker : Nat, pending : SUBSET Job]]
      /\ queue \in [Clients -> Seq(Seq(Message))]
  BY DEF TypeOK
<1>2. /\ client'[c].worker = 0 /\ client'[c].pending = {}
      /\ \A b \in Clients \ {c} : client'[b] = client[b]
      /\ client' \in [Clients -> [worker : Nat, pending : SUBSET Job]]
  BY <1>1
<1>3. WorkersResolve(c, client[c].pending)
  BY <1>2 DEF WorkersResolve
<1>4. Waits' /\ Owned' /\ Texts'
  BY <1>3, ResolveJobs
<1>5. Posted'
  <2> SUFFICES ASSUME NEW b \in Clients
               PROVE  /\ client'[b].worker <= Len(queue'[b])
                      /\ \A j \in client'[b].pending :
                           /\ client'[b].worker # 0
                           /\ \E m \in Range(queue'[b][client'[b].worker]) : m.job = j
    BY DEF Posted
  <2>1. CASE b # c
    BY <1>2, <2>1 DEF Jobs, Posted
  <2>2. CASE b = c
    <3>1. Len(queue[c]) \in Nat
      BY <1>1
    <3> QED
      BY <1>2, <2>2, <3>1
  <2> QED
    BY <2>1, <2>2
<1> QED
  BY <1>2, <1>4, <1>5 DEF Jobs

-----------------------------------------------------------------------------
(* Every step keeps the panes true to the bodies                           *)

(* The decodes that go on keep their body, and find out what it says.      *)
Steady ==
  /\ Len(decodes') = Len(decodes)
  /\ \A d \in 1..Len(decodes) :
       /\ decodes'[d].at # "over" <=> decodes[d].at # "over"
       /\ decodes[d].at # "over" =>
            /\ Same(decodes[d], decodes'[d])
            /\ decodes'[d].at = "markup" => decodes[d].doc.media = "html"
            /\ decodes'[d].parsed # NoResult
                 => Sound(decodes'[d].parsed, decodes[d].doc)

(* A pane's ticket, if it has one, is one of the decodes.                  *)
LEMMA TicketOf ==
  ASSUME TypeOK, Shown, NEW s \in Sides
  PROVE  /\ pane[s] \in Pane /\ pane[s].decode \in Nat
         /\ pane[s].decode # 0 => pane[s].decode \in 1..Len(decodes)
<1>1. pane[s] \in Pane /\ Len(decodes) \in Nat
  BY DEF TypeOK
<1>2. pane[s].decode \in Nat
  BY <1>1 DEF Pane
<1>3. pane[s].decode <= Len(decodes)
  BY DEF Shown, PaneOf
<1> QED
  BY <1>1, <1>2, <1>3

(* Moving decodes on changes nothing for the panes.                        *)
LEMMA SteadyPanes ==
  ASSUME TypeOK, Panes, Steady, UNCHANGED <<store, pane>>
  PROVE  Panes'
<1>1. Versioned'
  BY DEF Panes, Versioned
<1>2. Sourced'
  <2> SUFFICES ASSUME NEW d \in 1..Len(decodes'), decodes'[d].at # "over"
               PROVE  LET dec == decodes'[d]
                      IN /\ dec.id \in Exchanges /\ dec.side \in Sides /\ dec.ver # 0
                         /\ store'[dec.id].body[dec.side].ver # 0
                         /\ dec.doc = store'[dec.id].body[dec.side].doc
                         /\ dec.at = "markup" => dec.doc.media = "html"
                         /\ dec.parsed # NoResult => Sound(dec.parsed, dec.doc)
    BY DEF Sourced, Live
  <2>1. /\ d \in 1..Len(decodes) /\ decodes[d].at # "over"
        /\ Same(decodes[d], decodes'[d])
        /\ decodes'[d].at = "markup" => decodes[d].doc.media = "html"
        /\ decodes'[d].parsed # NoResult => Sound(decodes'[d].parsed, decodes[d].doc)
    BY DEF Steady
  <2> QED
    BY <2>1 DEF Panes, Sourced, Live, Same
<1>3. Attached'
  <2> SUFFICES ASSUME NEW d \in 1..Len(decodes'), decodes'[d].at # "over",
                      ~decodes'[d].cancelled
               PROVE  LET p == pane'[decodes'[d].side]
                      IN /\ p.decode = d /\ p.id = decodes'[d].id
                         /\ p.body.ver = decodes'[d].ver
    BY DEF Attached, Live
  <2>1. /\ d \in 1..Len(decodes) /\ decodes[d].at # "over"
        /\ Same(decodes[d], decodes'[d])
    BY DEF Steady
  <2> QED
    BY <2>1 DEF Panes, Attached, Live, Same
<1>4. Shown'
  <2> SUFFICES ASSUME NEW s \in Sides PROVE PaneOf(s)'
    BY DEF Shown
  <2>1. pane[s].decode \in Nat /\ (pane[s].decode # 0 => pane[s].decode \in 1..Len(decodes))
    BY TicketOf DEF Panes
  <2>2. PaneOf(s)
    BY DEF Panes, Shown
  <2>3. pane[s].decode # 0 =>
          /\ decodes'[pane[s].decode].at # "over" <=> decodes[pane[s].decode].at # "over"
          /\ decodes[pane[s].decode].at # "over" =>
               Same(decodes[pane[s].decode], decodes'[pane[s].decode])
    BY <2>1 DEF Steady
  <2>4. Backed(pane[s]) => Backed(pane[s])'
    BY <2>3 DEF Backed, Live, Same
  <2>5. pane[s].decode # 0 /\ decodes'[pane[s].decode].at # "over"
          => decodes'[pane[s].decode].side = s
    BY <2>2, <2>3 DEF PaneOf, Live, Same
  <2>6. pane' = pane /\ store' = store /\ Len(decodes') = Len(decodes)
    BY DEF Steady
  <2> QED
    BY <2>2, <2>4, <2>5, <2>6 DEF PaneOf, EntryFits, Live
<1> QED
  BY <1>1, <1>2, <1>3, <1>4 DEF Panes

(* What a step of the store leaves of a body.                              *)
LEMMA GrowsFacts ==
  ASSUME NEW b \in Body, NEW c \in Body, Grows(b, c), b.ver = 0 => b = NoBody
  PROVE  /\ c.ver = 0 => c = NoBody
         /\ b.ver # 0 => c.ver # 0 /\ c.doc = b.doc
         /\ \A p \in Body : p.ver <= b.ver /\ (p.ver = b.ver => p = b)
              => p.ver <= c.ver /\ (p.ver = c.ver => p = c)
<1>1. b.ver \in Nat /\ c.ver \in Nat /\ \A p \in Body : p.ver \in Nat
  BY DEF Body
<1>2. b.ver <= c.ver
  BY <1>1 DEF Grows
<1>3. c.ver = b.ver => c = b
  BY <1>1 DEF Grows
<1>4. c.ver = 0 => c = NoBody
  BY <1>1, <1>2, <1>3
<1>5. b.ver # 0 => c.ver # 0 /\ c.doc = b.doc
  BY <1>1 DEF Grows
<1>6. ASSUME NEW p \in Body, p.ver <= b.ver, p.ver = b.ver => p = b
      PROVE  p.ver <= c.ver /\ (p.ver = c.ver => p = c)
  BY <1>1, <1>2, <1>3, <1>6
<1> QED
  BY <1>4, <1>5, <1>6

(* The same for every body of the store.                                   *)
LEMMA StoreFacts ==
  ASSUME TypeOK, Versioned, StoreGrows, store' \in StoreType,
         NEW x \in Exchanges, NEW s \in Sides, NEW b, NEW c,
         b = store[x].body[s], c = store'[x].body[s]
  PROVE  /\ c.ver = 0 => c = NoBody
         /\ b.ver # 0 => c.ver # 0 /\ c.doc = b.doc
         /\ \A p \in Body : p.ver <= b.ver /\ (p.ver = b.ver => p = b)
              => p.ver <= c.ver /\ (p.ver = c.ver => p = c)
<1>1. b \in Body /\ c \in Body
  BY DEF TypeOK, StoreType
<1>2. Grows(b, c)
  BY DEF StoreGrows
<1>3. b.ver = 0 => b = NoBody
  BY DEF Versioned
<1> QED
  BY <1>1, <1>2, <1>3, GrowsFacts

(* A pane that stays on its body, with an entry made from that body.       *)
Stays(s) ==
  /\ pane'[s].id = pane[s].id /\ pane'[s].body = pane[s].body
  /\ pane'[s].decode = pane[s].decode
  /\ pane[s].id = 0 => pane'[s] = NoPane
  /\ Len(decodes') = Len(decodes)
  /\ pane[s].decode # 0 /\ decodes'[pane[s].decode].at # "over"
       => decodes'[pane[s].decode].side = s
  /\ pane'[s].entry.result # NoResult =>
       /\ pane[s].id # 0 /\ store[pane[s].id].body[s].ver # 0
       /\ Sound(pane'[s].entry.result, store[pane[s].id].body[s].doc)
  /\ pane[s].body.atEnd => EntryFits(pane'[s]) \/ Backed(pane[s])'

(* It still shows a version of its exchange's body.                        *)
LEMMA StaysPane ==
  ASSUME TypeOK, Versioned, Shown, StoreGrows, store' \in StoreType,
         NEW s \in Sides, Stays(s)
  PROVE  PaneOf(s)'
<1>1. PaneOf(s) /\ pane[s] \in Pane
  BY DEF Shown, TypeOK
<1>2. pane[s].id \in Exchanges \cup {0} /\ pane[s].body \in Body
  BY <1>1 DEF Pane
<1>3. CASE pane[s].id = 0
  <2>1. pane'[s] = NoPane
    BY <1>3 DEF Stays
  <2>2. /\ pane'[s].id = 0 /\ pane'[s].body.ver = 0 /\ pane'[s].body = NoBody
        /\ pane'[s].body.atEnd = FALSE /\ pane'[s].decode = 0
        /\ pane'[s].entry.result = NoResult
    BY <2>1, Nothings
  <2>3. pane'[s].decode <= Len(decodes')
    BY <1>1 DEF PaneOf, Stays
  <2> QED
    BY <2>1, <2>2, <2>3 DEF PaneOf
<1>4. CASE pane[s].id # 0
  <2>0. SUFFICES ASSUME NEW b, NEW c, b = store[pane[s].id].body[s],
                        c = store'[pane[s].id].body[s]
                 PROVE  PaneOf(s)'
    OBVIOUS
  <2>1. pane[s].id \in Exchanges
    BY <1>2, <1>4
  <2>2. /\ b.ver # 0 => c.ver # 0 /\ c.doc = b.doc
        /\ \A p \in Body : p.ver <= b.ver /\ (p.ver = b.ver => p = b)
              => p.ver <= c.ver /\ (p.ver = c.ver => p = c)
    BY <2>0, <2>1, StoreFacts
  <2>3. /\ pane[s].body.ver <= b.ver
        /\ pane[s].body.ver = b.ver => pane[s].body = b
        /\ pane[s].body.ver # 0 => pane[s].body.doc = b.doc
        /\ pane[s].body.ver = 0 => pane[s].body = NoBody
        /\ pane[s].decode <= Len(decodes)
    BY <1>1, <1>4, <2>0 DEF PaneOf
  <2>4. b \in Body
    BY <2>0, <2>1 DEF TypeOK
  <2>5. b.ver \in Nat /\ pane[s].body.ver \in Nat
    BY <1>2, <2>4 DEF Body
  <2>6. /\ pane[s].body.ver <= c.ver
        /\ pane[s].body.ver = c.ver => pane[s].body = c
        /\ pane[s].body.ver # 0 => pane[s].body.doc = c.doc
    BY <1>2, <2>2, <2>3, <2>5
  <2>7. pane'[s].entry.result # NoResult =>
          c.ver # 0 /\ Sound(pane'[s].entry.result, c.doc)
    BY <2>0, <2>2 DEF Stays
  <2>8. pane[s].body.atEnd => EntryFits(pane[s])' \/ Backed(pane[s])'
    BY DEF Stays, EntryFits
  <2>9. /\ pane'[s].id = pane[s].id /\ pane'[s].body = pane[s].body
        /\ pane'[s].decode = pane[s].decode /\ Len(decodes') = Len(decodes)
        /\ pane[s].decode # 0 /\ decodes'[pane[s].decode].at # "over"
             => decodes'[pane[s].decode].side = s
        /\ c = store'[pane'[s].id].body[s]
    BY <2>0 DEF Stays
  <2> QED
    BY <1>4, <2>3, <2>6, <2>7, <2>8, <2>9 DEF PaneOf, Live
<1> QED
  BY <1>3, <1>4

(* A decode that goes on is still of its body after the store has grown.   *)
LEMMA StaysSourced ==
  ASSUME TypeOK, Versioned, Sourced, StoreGrows, store' \in StoreType,
         Len(decodes') = Len(decodes),
         \A d \in 1..Len(decodes) :
           decodes'[d].at # "over" => decodes'[d] = decodes[d]
  PROVE  Versioned' /\ Sourced'
<1>1. Versioned'
  <2> SUFFICES ASSUME NEW x \in Exchanges, NEW s \in Sides,
                      store'[x].body[s].ver = 0
               PROVE  store'[x].body[s] = NoBody
    BY DEF Versioned
  <2> QED
    BY StoreFacts
<1>2. Sourced'
  <2> SUFFICES ASSUME NEW d \in 1..Len(decodes'), decodes'[d].at # "over"
               PROVE  LET dec == decodes'[d]
                      IN /\ dec.id \in Exchanges /\ dec.side \in Sides /\ dec.ver # 0
                         /\ store'[dec.id].body[dec.side].ver # 0
                         /\ dec.doc = store'[dec.id].body[dec.side].doc
                         /\ dec.at = "markup" => dec.doc.media = "html"
                         /\ dec.parsed # NoResult => Sound(dec.parsed, dec.doc)
    BY DEF Sourced, Live
  <2>1. d \in 1..Len(decodes) /\ decodes'[d] = decodes[d] /\ Live(d)
    BY DEF Live
  <2> DEFINE dec == decodes[d]
  <2>2. /\ dec.id \in Exchanges /\ dec.side \in Sides /\ dec.ver # 0
        /\ store[dec.id].body[dec.side].ver # 0
        /\ dec.doc = store[dec.id].body[dec.side].doc
        /\ dec.at = "markup" => dec.doc.media = "html"
        /\ dec.parsed # NoResult => Sound(dec.parsed, dec.doc)
    BY <2>1 DEF Sourced
  <2>3. /\ store'[dec.id].body[dec.side].ver # 0
        /\ store'[dec.id].body[dec.side].doc = store[dec.id].body[dec.side].doc
    BY <2>2, StoreFacts
  <2> QED
    BY <2>1, <2>2, <2>3
<1> QED
  BY <1>1, <1>2

(* Events about the exchanges leave the panes as true as they were.        *)
LEMMA GrowsPanes ==
  ASSUME TypeOK, Panes, StoreGrows, store' \in StoreType, UNCHANGED <<pane, decodes>>
  PROVE  Panes'
<1>1. Versioned' /\ Sourced'
  BY StaysSourced DEF Panes
<1>2. Attached'
  BY DEF Panes, Attached, Live
<1>3. Shown'
  <2> SUFFICES ASSUME NEW s \in Sides PROVE PaneOf(s)'
    BY DEF Shown
  <2>1. PaneOf(s)
    BY DEF Panes, Shown
  <2>2. Backed(pane[s]) => Backed(pane[s])'
    BY DEF Backed, Live
  <2>3. Stays(s)
    BY <2>1, <2>2 DEF Stays, PaneOf, Live
  <2> QED
    BY <2>3, StaysPane DEF Panes
<1> QED
  BY <1>1, <1>2, <1>3 DEF Panes

(* A decode that settles gives its pane an entry of the body it shows.     *)
LEMMA SettlePanes ==
  ASSUME TypeOK, Panes, NEW d \in 1..Len(decodes), NEW entry \in Entry, Live(d),
         Settle(d, entry), StoreGrows, store' \in StoreType,
         entry.ver = decodes[d].ver,
         entry.result # NoResult => Sound(entry.result, decodes[d].doc)
  PROVE  Panes'
<1> DEFINE dec == decodes[d]
<1>1. /\ dec.id \in Exchanges /\ dec.side \in Sides /\ dec.ver # 0
      /\ store[dec.id].body[dec.side].ver # 0
      /\ dec.doc = store[dec.id].body[dec.side].doc
  BY DEF Panes, Sourced
<1>2. /\ Len(decodes') = Len(decodes) /\ decodes'[d] = Over
      /\ \A e \in 1..Len(decodes) : e # d => decodes'[e] = decodes[e]
      /\ \A s \in Sides :
           dec.cancelled \/ s # dec.side => pane'[s] = pane[s]
      /\ ~dec.cancelled =>
           /\ pane'[dec.side].entry = entry /\ pane'[dec.side].id = pane[dec.side].id
           /\ pane'[dec.side].body = pane[dec.side].body
           /\ pane'[dec.side].decode = pane[dec.side].decode
  BY <1>1, SettleFacts
<1>3. \A e \in 1..Len(decodes) : decodes'[e].at # "over" => e # d /\ decodes'[e] = decodes[e]
  BY <1>2, Nothings
<1>4. \A s \in Sides : /\ pane'[s].id = pane[s].id /\ pane'[s].body = pane[s].body
                       /\ pane'[s].decode = pane[s].decode
  BY <1>2
<1>5. Versioned' /\ Sourced'
  BY <1>2, <1>3, StaysSourced DEF Panes
<1>6. Attached'
  <2> SUFFICES ASSUME NEW e \in 1..Len(decodes'), decodes'[e].at # "over",
                      ~decodes'[e].cancelled
               PROVE  LET p == pane'[decodes'[e].side]
                      IN /\ p.decode = e /\ p.id = decodes'[e].id
                         /\ p.body.ver = decodes'[e].ver
    BY DEF Attached, Live
  <2>1. e \in 1..Len(decodes) /\ decodes'[e] = decodes[e]
    BY <1>2, <1>3
  <2>2. decodes[e].side \in Sides
    BY <2>1 DEF Panes, Sourced, Live
  <2> QED
    BY <1>4, <2>1, <2>2 DEF Panes, Attached, Live
<1>7. Shown'
  <2> SUFFICES ASSUME NEW s \in Sides PROVE PaneOf(s)'
    BY DEF Shown
  <2>1. PaneOf(s)
    BY DEF Panes, Shown
  <2>2. pane[s].decode \in Nat /\ (pane[s].decode # 0 => pane[s].decode \in 1..Len(decodes))
    BY TicketOf DEF Panes
  <2>3. pane[s].decode # 0 /\ decodes'[pane[s].decode].at # "over"
          => decodes'[pane[s].decode].side = s
    BY <1>3, <2>1, <2>2 DEF PaneOf, Live
  <2>4. CASE ~dec.cancelled /\ s = dec.side
    <3>1. pane[s].decode = d /\ pane[s].id = dec.id /\ pane[s].body.ver = dec.ver
      BY <2>4 DEF Panes, Attached
    <3>2. pane[s].id # 0
      BY <1>1, <3>1, ViewAssumption
    <3>3. pane'[s].entry = entry
      BY <1>2, <2>4
    <3>4. EntryFits(pane'[s])
      <4>1. entry # NoEntry
        BY <1>1, Nothings
      <4> QED
        BY <1>4, <3>1, <3>3, <4>1 DEF EntryFits
    <3>5. Stays(s)
      BY <1>1, <1>2, <1>4, <2>3, <2>4, <3>1, <3>2, <3>3, <3>4 DEF Stays
    <3> QED
      BY <3>5, StaysPane DEF Panes
  <2>5. CASE ~(~dec.cancelled /\ s = dec.side)
    <3>1. pane'[s] = pane[s]
      BY <1>2, <2>5
    <3>2. Backed(pane[s]) => Backed(pane[s])'
      <4> SUFFICES ASSUME Backed(pane[s]) PROVE Backed(pane[s])'
        OBVIOUS
      <4>1. /\ pane[s].decode # 0 /\ Live(pane[s].decode)
            /\ ~decodes[pane[s].decode].cancelled
        BY DEF Backed
      <4>2. decodes[pane[s].decode].side = s
        BY <2>1, <4>1 DEF PaneOf
      <4>3. pane[s].decode # d
        BY <2>5, <4>1, <4>2
      <4>4. decodes'[pane[s].decode] = decodes[pane[s].decode]
        BY <1>2, <2>2, <4>1, <4>3
      <4> QED
        BY <3>1, <4>4 DEF Backed, Live
    <3>3. Stays(s)
      BY <1>2, <2>1, <2>3, <3>1, <3>2 DEF Stays, PaneOf
    <3> QED
      BY <3>3, StaysPane DEF Panes
  <2> QED
    BY <2>4, <2>5
<1> QED
  BY <1>5, <1>6, <1>7 DEF Panes

(* The body that a commit renders, and the decode of it that starts.       *)
LEMMA StartedDecode ==
  ASSUME TypeOK, Versioned, NEW s \in Sides, Decodes(s)
  PROVE  /\ selectedId \in Exchanges /\ Rendered(s).id = selectedId
         /\ Rendered(s).body = store[selectedId].body[s]
         /\ Rendered(s).body.ver # 0
<1>1. Rendered(s).body.atEnd
  BY DEF Decodes
<1>2. Rendered(s).id # 0
  BY <1>1, RenderedFacts, Nothings
<1>3. /\ selectedId \in Exchanges /\ Rendered(s).id = selectedId
      /\ Rendered(s).body = store[selectedId].body[s]
  BY <1>2, RenderedFacts
<1>4. Rendered(s).body.ver # 0
  BY <1>1, <1>3, Nothings DEF Versioned
<1> QED
  BY <1>3, <1>4

(* The pane of side s after a commit.                                      *)
LEMMA CommitPaneOf ==
  ASSUME TypeOK, Panes, Commit, NEW s \in Sides
  PROVE  PaneOf(s)'
<1>0. SUFFICES ASSUME NEW p, NEW r, p = CommitPane(s), r = Rendered(s)
               PROVE  PaneOf(s)'
  OBVIOUS
<1>1. /\ p \in Pane /\ p.id = r.id /\ p.body = r.body /\ p.decode = Ticket(s)
      /\ p.id = pane[s].id => p.entry = pane[s].entry
      /\ p.id # pane[s].id => p.entry = NoEntry
      /\ r = NoPane /\ Ticket(s) = 0 /\ p.entry = NoEntry => p = NoPane
  BY <1>0, CommitPaneFacts
<1>2. /\ r.id = 0 => r = NoPane
      /\ r.id # 0 => /\ selectedId \in Exchanges /\ r.id = selectedId
                     /\ r.body = store[selectedId].body[s]
  BY <1>0, RenderedFacts
<1>3. pane'[s] = p /\ store' = store
  BY <1>0, CommitFacts DEF Commit
<1>4. PaneOf(s) /\ Versioned
  BY DEF Panes, Shown
<1>5. /\ pane[s].decode \in Nat
      /\ pane[s].decode # 0 => pane[s].decode \in 1..Len(decodes)
  BY TicketOf DEF Panes
<1>6. Len(decodes) \in Nat /\ Len(decodes') \in Nat /\ Len(decodes) <= Len(decodes')
  BY CommitFacts
<1>7. ~Restart(s) => /\ Ticket(s) = pane[s].decode /\ p.entry = pane[s].entry
                     /\ p.id = pane[s].id /\ p.body = pane[s].body
  <2> SUFFICES ASSUME ~Restart(s)
               PROVE  /\ Ticket(s) = pane[s].decode /\ p.entry = pane[s].entry
                      /\ p.id = pane[s].id /\ p.body = pane[s].body
    OBVIOUS
  <2>1. pane[s].id = r.id /\ pane[s].body.ver = r.body.ver
    BY <1>0 DEF Restart, SameBody
  <2>2. Ticket(s) = pane[s].decode
    BY TicketFacts
  <2>3. pane[s].body = r.body
    <3>1. CASE r.id = 0
      BY <1>2, <1>4, <2>1, <3>1 DEF PaneOf
    <3>2. CASE r.id # 0
      BY <1>2, <1>4, <2>1, <3>2 DEF PaneOf
    <3> QED
      BY <3>1, <3>2
  <2> QED
    BY <1>1, <2>1, <2>2, <2>3
<1>8. p.id = 0 => p = NoPane
  <2> SUFFICES ASSUME p.id = 0 PROVE p = NoPane
    OBVIOUS
  <2>1. r = NoPane
    BY <1>1, <1>2
  <2>2. ~Decodes(s)
    BY <1>0, <2>1, Nothings DEF Decodes
  <2>3. pane[s].id = 0 => pane[s] = NoPane
    BY <1>4 DEF PaneOf
  <2>4. Ticket(s) = 0
    BY <1>7, <2>2, <2>3, TicketFacts, Nothings
  <2>5. p.entry = NoEntry
    BY <1>1, <2>3, Nothings
  <2> QED
    BY <1>1, <2>1, <2>4, <2>5
<1>9. /\ p.body.ver = 0 => p.body = NoBody
      /\ p.id # 0 => /\ p.body = store[p.id].body[s]
                     /\ p.body.ver <= store[p.id].body[s].ver
  <2>1. p.body \in Body
    BY <1>1 DEF Pane
  <2>2. p.body.ver \in Nat
    BY <2>1 DEF Body
  <2>3. p.id # 0 => p.body = store[p.id].body[s] /\ p.id \in Exchanges
    BY <1>1, <1>2
  <2>4. p.id # 0 => p.body.ver <= store[p.id].body[s].ver
    BY <2>2, <2>3
  <2> QED
    BY <1>4, <1>8, <2>3, <2>4, Nothings DEF Versioned
<1>10. p.decode <= Len(decodes')
  <2>1. CASE ~Restart(s)
    BY <1>1, <1>5, <1>6, <1>7, <2>1
  <2>2. CASE Restart(s) /\ ~Decodes(s)
    BY <1>1, <1>6, <2>2, TicketFacts
  <2>3. CASE Decodes(s)
    BY <1>1, <1>6, <2>3, CommitFacts
  <2> QED
    BY <2>1, <2>2, <2>3
<1>11. p.decode # 0 /\ decodes'[p.decode].at # "over" => decodes'[p.decode].side = s
  <2> SUFFICES ASSUME p.decode # 0, decodes'[p.decode].at # "over"
               PROVE  decodes'[p.decode].side = s
    OBVIOUS
  <2>1. CASE ~Restart(s)
    <3>1. p.decode = pane[s].decode /\ p.decode \in 1..Len(decodes)
      BY <1>1, <1>5, <1>7, <2>1
    <3>2. /\ decodes'[p.decode].at = decodes[p.decode].at
          /\ decodes'[p.decode].side = decodes[p.decode].side
      BY <3>1, CommitFacts
    <3> QED
      BY <1>4, <3>1, <3>2 DEF PaneOf, Live
  <2>2. CASE Restart(s) /\ ~Decodes(s)
    BY <1>1, <2>2, TicketFacts
  <2>3. CASE Decodes(s)
    <3>1. decodes'[p.decode] = NewDecode(s)
      BY <1>1, <2>3, CommitFacts
    <3> QED
      BY <3>1, NewDecodeFacts
  <2> QED
    BY <2>1, <2>2, <2>3
<1>12. p.entry.result # NoResult =>
         /\ p.id # 0 /\ store[p.id].body[s].ver # 0
         /\ Sound(p.entry.result, store[p.id].body[s].doc)
  <2> SUFFICES ASSUME p.entry.result # NoResult
               PROVE  /\ p.id # 0 /\ store[p.id].body[s].ver # 0
                      /\ Sound(p.entry.result, store[p.id].body[s].doc)
    OBVIOUS
  <2>1. p.id = pane[s].id /\ p.entry = pane[s].entry
    BY <1>1, Nothings
  <2> QED
    BY <1>4, <2>1 DEF PaneOf
<1>13. p.body.atEnd => EntryFits(p) \/ Backed(pane[s])'
  <2> SUFFICES ASSUME p.body.atEnd, ~EntryFits(p) PROVE Backed(pane[s])'
    OBVIOUS
  <2>1. CASE ~Restart(s)
    <3>1. p.entry = pane[s].entry /\ p.body = pane[s].body /\ p.id = pane[s].id
          /\ p.decode = pane[s].decode
      BY <1>1, <1>7, <2>1
    <3>2. Backed(pane[s])
      BY <1>4, <3>1 DEF PaneOf, EntryFits
    <3>3. SUFFICES ASSUME NEW e, e = pane[s].decode PROVE Backed(pane[s])'
      OBVIOUS
    <3>4. /\ e # 0 /\ Live(e) /\ ~decodes[e].cancelled
          /\ decodes[e].ver = p.body.ver /\ decodes[e].id = p.id
      BY <3>1, <3>2, <3>3 DEF Backed
    <3>5. e \in 1..Len(decodes) /\ decodes[e].side = s
      BY <1>4, <1>5, <3>3, <3>4 DEF PaneOf
    <3>6. ~Cancelled(e)
      <4> SUFFICES ASSUME NEW t \in Sides, Restart(t), pane[t].decode = e PROVE FALSE
        BY DEF Cancelled
      <4>1. decodes[e].side = t
        BY <3>4 DEF Panes, Shown, PaneOf
      <4> QED
        BY <2>1, <3>5, <4>1
    <3>7. /\ decodes'[e].cancelled = (decodes[e].cancelled \/ (Live(e) /\ Cancelled(e)))
          /\ decodes'[e].at = decodes[e].at /\ decodes'[e].ver = decodes[e].ver
          /\ decodes'[e].id = decodes[e].id
      BY <3>5, CommitFacts
    <3>8. ~decodes'[e].cancelled
      BY <3>4, <3>6, <3>7
    <3> QED
      BY <1>3, <3>1, <3>3, <3>4, <3>7, <3>8 DEF Backed, Live
  <2>2. CASE Restart(s)
    <3>1. Decodes(s)
      BY <1>0, <1>1, <2>2 DEF Decodes
    <3>2. /\ decodes'[p.decode] = NewDecode(s) /\ p.decode # 0
      BY <1>1, <1>6, <3>1, CommitFacts
    <3>3. p.id = selectedId
      BY <1>0, <1>1, <1>4, <3>1, StartedDecode
    <3> QED
      BY <1>0, <1>1, <1>3, <3>2, <3>3, NewDecodeFacts DEF Backed, Live
  <2> QED
    BY <2>1, <2>2
<1>14. p.body.atEnd => EntryFits(pane[s])' \/ Backed(pane[s])'
  BY <1>3, <1>13 DEF EntryFits
<1> QED
  BY <1>3, <1>8, <1>9, <1>10, <1>11, <1>12, <1>14 DEF PaneOf, Live

(* A commit cancels the decodes of the bodies that left the panes, and     *)
(* starts those of the finished bodies that came.                          *)
LEMMA CommitPanes ==
  ASSUME TypeOK, Panes, Commit
  PROVE  Panes'
<1>1. store' = store /\ Versioned
  BY DEF Commit, Panes
<1>2. Versioned'
  BY <1>1 DEF Versioned
<1>3. Len(decodes) \in Nat /\ Len(decodes') \in Nat
  BY CommitFacts
<1>4. \A d \in 1..Len(decodes') : d \in 1..Len(decodes) \/ d \in (Len(decodes) + 1)..Len(decodes')
  BY <1>3
<1>5. Sourced'
  <2> SUFFICES ASSUME NEW d \in 1..Len(decodes'), decodes'[d].at # "over"
               PROVE  LET dec == decodes'[d]
                      IN /\ dec.id \in Exchanges /\ dec.side \in Sides /\ dec.ver # 0
                         /\ store'[dec.id].body[dec.side].ver # 0
                         /\ dec.doc = store'[dec.id].body[dec.side].doc
                         /\ dec.at = "markup" => dec.doc.media = "html"
                         /\ dec.parsed # NoResult => Sound(dec.parsed, dec.doc)
    BY DEF Sourced, Live
  <2>1. CASE d \in 1..Len(decodes)
    <3>1. /\ decodes'[d].id = decodes[d].id /\ decodes'[d].side = decodes[d].side
          /\ decodes'[d].ver = decodes[d].ver /\ decodes'[d].doc = decodes[d].doc
          /\ decodes'[d].at = decodes[d].at /\ decodes'[d].parsed = decodes[d].parsed
      BY <2>1, CommitFacts
    <3> QED
      BY <1>1, <2>1, <3>1 DEF Panes, Sourced, Live
  <2>2. CASE d \in (Len(decodes) + 1)..Len(decodes')
    <3>1. PICK s \in Sides : Decodes(s) /\ decodes'[d] = NewDecode(s)
      BY <2>2, CommitFacts
    <3>2. /\ selectedId \in Exchanges
          /\ Rendered(s).body = store[selectedId].body[s]
          /\ Rendered(s).body.ver # 0
      BY <1>1, <3>1, StartedDecode
    <3> QED
      BY <1>1, <3>1, <3>2, NewDecodeFacts
  <2> QED
    BY <1>4, <2>1, <2>2
<1>6. Attached'
  <2> SUFFICES ASSUME NEW d \in 1..Len(decodes'), decodes'[d].at # "over",
                      ~decodes'[d].cancelled
               PROVE  LET p == pane'[decodes'[d].side]
                      IN /\ p.decode = d /\ p.id = decodes'[d].id
                         /\ p.body.ver = decodes'[d].ver
    BY DEF Attached, Live
  <2>1. \A s \in Sides : /\ pane'[s].id = Rendered(s).id
                         /\ pane'[s].body = Rendered(s).body
                         /\ pane'[s].decode = Ticket(s)
    BY CommitFacts, CommitPaneFacts
  <2>2. CASE d \in 1..Len(decodes)
    <3>1. /\ decodes'[d].id = decodes[d].id /\ decodes'[d].side = decodes[d].side
          /\ decodes'[d].ver = decodes[d].ver /\ decodes'[d].at = decodes[d].at
          /\ decodes'[d].cancelled = (decodes[d].cancelled \/ (Live(d) /\ Cancelled(d)))
      BY <2>2, CommitFacts
    <3>2. Live(d) /\ ~decodes[d].cancelled /\ ~Cancelled(d)
      BY <3>1 DEF Live
    <3>3. SUFFICES ASSUME NEW s, s = decodes[d].side
                   PROVE  LET p == pane'[s]
                          IN /\ p.decode = d /\ p.id = decodes[d].id
                             /\ p.body.ver = decodes[d].ver
      BY <3>1
    <3>4. s \in Sides
      BY <2>2, <3>2, <3>3 DEF Panes, Sourced
    <3>5. pane[s].decode = d /\ pane[s].id = decodes[d].id /\ pane[s].body.ver = decodes[d].ver
      BY <2>2, <3>2, <3>3 DEF Panes, Attached
    <3>6. ~Restart(s)
      BY <3>2, <3>4, <3>5 DEF Cancelled
    <3>7. Ticket(s) = d
      BY <3>4, <3>5, <3>6, TicketFacts
    <3>8. pane[s].id = Rendered(s).id /\ pane[s].body.ver = Rendered(s).body.ver
      BY <3>6 DEF Restart, SameBody
    <3> QED
      BY <2>1, <3>4, <3>5, <3>7, <3>8
  <2>3. CASE d \in (Len(decodes) + 1)..Len(decodes')
    <3>1. PICK s \in Sides : Decodes(s) /\ Ticket(s) = d /\ decodes'[d] = NewDecode(s)
      BY <2>3, CommitFacts
    <3>2. Rendered(s).id = selectedId
      BY <1>1, <3>1, StartedDecode
    <3>3. /\ decodes'[d].side = s /\ decodes'[d].id = selectedId
          /\ decodes'[d].ver = Rendered(s).body.ver
      BY <3>1, NewDecodeFacts
    <3> QED
      BY <2>1, <3>1, <3>2, <3>3
  <2> QED
    BY <1>4, <2>2, <2>3
<1>7. Shown'
  BY CommitPaneOf DEF Shown
<1> QED
  BY <1>2, <1>5, <1>6, <1>7 DEF Panes

-----------------------------------------------------------------------------
(* The invariant                                                           *)

(* What a worker answers was made from the text it was sent.               *)
LEMMA AnswerSound ==
  ASSUME NEW doc \in SomeDoc, NEW at \in Parsers,
         at = "markup" => doc.media = "html", Answer(doc, at) # NoResult
  PROVE  Sound(Answer(doc, at), doc)
<1>1. CASE at = "ndjson"
  <2>1. Answer(doc, at) = [doc |-> doc, kind |-> "ndjson", rich |-> TRUE,
                           cut |-> doc.nd = "cut"]
    BY <1>1 DEF Answer, NdjsonAnswer
  <2> QED
    BY <2>1 DEF Sound, Kinds
<1>2. CASE at = "json"
  <2>1. Answer(doc, at) = [doc |-> doc, kind |-> "json", rich |-> doc.js # "null",
                           cut |-> doc.js = "cut"]
    BY <1>2 DEF Answer, JsonAnswer
  <2> DEFINE tree == doc.js # "null"
             cut == doc.js = "cut"
  <2>2. ~tree => doc.js = "null"
    OBVIOUS
  <2>3. Answer(doc, at) = [doc |-> doc, kind |-> "json", rich |-> tree, cut |-> cut]
    BY <2>1
  <2> HIDE DEF tree, cut
  <2>4. Answer(doc, at).doc = doc /\ Answer(doc, at).kind = "json"
    BY <2>3
  <2>5. Answer(doc, at).rich = tree
    BY <2>3
  <2> QED
    BY <2>2, <2>4, <2>5 DEF Sound, Kinds
<1>3. CASE at = "markup"
  <2>1. Answer(doc, at) = [doc |-> doc, kind |-> doc.media, rich |-> TRUE, cut |-> FALSE]
    BY <1>3 DEF Answer, MarkupAnswer
  <2> QED
    BY <1>3, <2>1 DEF Sound, Kinds
<1> QED
  BY <1>1, <1>2, <1>3 DEF Parsers

(* What decodeBody resolves to was made from its body.                     *)
LEMMA ResultSound ==
  ASSUME NEW dec, dec.parsed # NoResult => Sound(dec.parsed, dec.doc)
  PROVE  Sound(Result(dec), dec.doc)
<1>1. CASE dec.parsed # NoResult
  BY <1>1 DEF Result
<1>2. CASE dec.parsed = NoResult
  <2> DEFINE kind == PlainKind(dec.doc)
  <2>1. Result(dec) = [doc |-> dec.doc, kind |-> kind, rich |-> FALSE, cut |-> FALSE]
    BY <1>2 DEF Result
  <2>2. kind \in {"html", "image", "binary", "text"}
    BY DEF PlainKind
  <2> HIDE DEF kind
  <2> QED
    BY <2>1, <2>2 DEF Sound, Kinds
<1> QED
  BY <1>1, <1>2

(* A job is posted, or cannot be.                                          *)
LEMMA PostInv ==
  ASSUME Inv, NEW d \in 1..Len(decodes), Post(d)
  PROVE  Inv'
<1> DEFINE new == [decodes[d] EXCEPT !.waiting = TRUE]
<1>1. TypeOK /\ Jobs /\ Panes /\ decodes[d] \in Decode
  BY DEF Inv, TypeOK
<1>2. decodes' = [decodes EXCEPT ![d] = new]
  BY DEF Post
<1>3. /\ new \in Decode /\ Same(decodes[d], new) /\ new.at = decodes[d].at
      /\ new.waiting = TRUE /\ new.parsed = decodes[d].parsed
  BY <1>1 DEF Decode, Same
<1> HIDE DEF new
<1>4. /\ decodes' \in Seq(Decode) /\ Len(decodes') = Len(decodes)
      /\ \A e \in 1..Len(decodes) : e # d => decodes'[e] = decodes[e]
      /\ decodes'[d] = new
  BY <1>1, <1>2, <1>3, MoveFacts
<1>5. UNCHANGED <<store, selectedId, tab, pane>>
  BY DEF Post, ui
<1>6. Jobs'
  BY <1>1, <1>3, <1>4, PostJobs DEF Same
<1>7. TypeOK'
  <2>1. PostEffect(d, ClientOf(decodes[d].at))
    <3>1. SUFFICES ASSUME NEW c, c = ClientOf(decodes[d].at) PROVE PostEffect(d, c)
      OBVIOUS
    <3> QED
      BY <1>1, <3>1, PostFacts DEF Jobs
  <2>2. /\ client' \in [Clients -> [worker : Nat, pending : SUBSET Job]]
        /\ queue' \in [Clients -> Seq(Seq(Message))]
    BY <2>1 DEF PostEffect
  <2> QED
    BY <1>1, <1>4, <1>5, <2>2 DEF TypeOK
<1>8. Steady
  <2> SUFFICES ASSUME NEW e \in 1..Len(decodes)
               PROVE  /\ decodes'[e].at # "over" <=> decodes[e].at # "over"
                      /\ decodes[e].at # "over" =>
                           /\ Same(decodes[e], decodes'[e])
                           /\ decodes'[e].at = "markup" => decodes[e].doc.media = "html"
                           /\ decodes'[e].parsed # NoResult
                                => Sound(decodes'[e].parsed, decodes[e].doc)
    BY <1>4 DEF Steady
  <2>1. /\ Same(decodes[e], decodes'[e]) /\ decodes'[e].at = decodes[e].at
        /\ decodes'[e].parsed = decodes[e].parsed
    BY <1>3, <1>4 DEF Same
  <2> QED
    BY <1>1, <2>1 DEF Panes, Sourced, Live
<1>9. Panes'
  BY <1>1, <1>5, <1>8, SteadyPanes
<1> QED
  BY <1>6, <1>7, <1>9 DEF Inv

(* A decode that does not wait goes on to another stage.                   *)
LEMMA MoveInv ==
  ASSUME Inv, NEW d \in 1..Len(decodes), NEW at \in Stages \ {"over"},
         Live(d), ~decodes[d].waiting, at = "markup" => decodes[d].doc.media = "html",
         decodes' = [decodes EXCEPT ![d] = [decodes[d] EXCEPT !.at = at]],
         UNCHANGED <<store, ui, pane, workers>>
  PROVE  Inv'
<1> DEFINE new == [decodes[d] EXCEPT !.at = at]
<1>1. TypeOK /\ Jobs /\ Panes /\ decodes[d] \in Decode /\ Len(decodes) \in Nat
  BY DEF Inv, TypeOK
<1>2. /\ new \in Decode /\ Same(decodes[d], new) /\ new.at = at
      /\ new.waiting = decodes[d].waiting /\ new.parsed = decodes[d].parsed
  BY <1>1 DEF Decode, Same
<1>3. decodes' = [decodes EXCEPT ![d] = new]
  OBVIOUS
<1> HIDE DEF new
<1>4. /\ decodes' \in Seq(Decode) /\ Len(decodes') = Len(decodes)
      /\ \A e \in 1..Len(decodes) : e # d => decodes'[e] = decodes[e]
      /\ decodes'[d] = new
  BY <1>1, <1>2, <1>3, MoveFacts
<1>5. Quiet
  <2>1. ASSUME NEW e \in 1..Len(decodes)
        PROVE  /\ decodes'[e].waiting = decodes[e].waiting
               /\ decodes[e].waiting => decodes'[e].at = decodes[e].at
               /\ decodes'[e].at # "over" => /\ decodes[e].at # "over"
                                             /\ decodes'[e].doc = decodes[e].doc
    BY <1>2, <1>4 DEF Same, Live
  <2> QED
    BY <1>1, <1>4, <2>1 DEF Quiet
<1>6. Jobs'
  BY <1>1, <1>5, QuietJobs
<1>7. TypeOK'
  BY <1>1, <1>4 DEF TypeOK, ui, workers
<1>8. Steady
  <2> SUFFICES ASSUME NEW e \in 1..Len(decodes)
               PROVE  /\ decodes'[e].at # "over" <=> decodes[e].at # "over"
                      /\ decodes[e].at # "over" =>
                           /\ Same(decodes[e], decodes'[e])
                           /\ decodes'[e].at = "markup" => decodes[e].doc.media = "html"
                           /\ decodes'[e].parsed # NoResult
                                => Sound(decodes'[e].parsed, decodes[e].doc)
    BY <1>4 DEF Steady
  <2>1. /\ Same(decodes[e], decodes'[e]) /\ decodes'[e].parsed = decodes[e].parsed
        /\ e # d => decodes'[e].at = decodes[e].at
        /\ e = d => decodes'[e].at = at
    BY <1>2, <1>4 DEF Same
  <2> QED
    BY <1>1, <2>1 DEF Panes, Sourced, Live
<1>9. Panes'
  BY <1>1, <1>8, SteadyPanes
<1> QED
  BY <1>6, <1>7, <1>9 DEF Inv

(* A decode is over: its result, or that it has none, is the pane's entry. *)
LEMMA SettleInv ==
  ASSUME Inv, NEW d \in 1..Len(decodes), NEW entry \in Entry, Live(d),
         ~decodes[d].waiting, Settle(d, entry), StoreGrows, store' \in StoreType,
         entry.ver = decodes[d].ver,
         entry.result # NoResult => Sound(entry.result, decodes[d].doc),
         UNCHANGED <<ui, workers>>
  PROVE  Inv'
<1>1. TypeOK /\ Jobs /\ Panes /\ Len(decodes) \in Nat
  BY DEF Inv, TypeOK
<1>2. decodes[d].side \in Sides
  BY <1>1 DEF Panes, Sourced
<1>3. /\ decodes' \in Seq(Decode) /\ Len(decodes') = Len(decodes)
      /\ decodes'[d] = Over
      /\ \A e \in 1..Len(decodes) : e # d => decodes'[e] = decodes[e]
      /\ pane' \in [Sides -> Pane]
  BY <1>1, <1>2, SettleFacts
<1>4. TypeOK'
  BY <1>1, <1>3 DEF TypeOK, StoreType, ui, workers
<1>5. Quiet
  <2>1. ASSUME NEW e \in 1..Len(decodes)
        PROVE  /\ decodes'[e].waiting = decodes[e].waiting
               /\ decodes[e].waiting => decodes'[e].at = decodes[e].at
               /\ decodes'[e].at # "over" => /\ decodes[e].at # "over"
                                             /\ decodes'[e].doc = decodes[e].doc
    <3>1. CASE e = d
      <4>1. decodes[d].waiting \in BOOLEAN
        <5>1. decodes[d] \in Decode
          BY <1>1 DEF TypeOK
        <5> QED
          BY <5>1 DEF Decode
      <4> QED
        BY <1>3, <3>1, <4>1, Nothings
    <3>2. CASE e # d
      BY <1>3, <3>2
    <3> QED
      BY <3>1, <3>2
  <2> QED
    BY <1>1, <1>3, <2>1 DEF Quiet
<1>6. Jobs'
  BY <1>1, <1>5, QuietJobs
<1>7. Panes'
  BY <1>1, SettlePanes
<1> QED
  BY <1>4, <1>6, <1>7 DEF Inv

(* A store that does not change has its type, and grows by nothing.        *)
LEMMA StoreStays ==
  ASSUME TypeOK, store' = store
  PROVE  store' \in StoreType /\ StoreGrows
BY DEF TypeOK, StoreType, StoreGrows, Grows

(* A promise reaction: a job is posted or cannot be, or the decode is over.*)
LEMMA MicrotaskInv ==
  ASSUME Inv, Microtask
  PROVE  Inv'
<1>1. /\ TypeOK /\ Jobs /\ Panes /\ Len(decodes) \in Nat
      /\ DOMAIN decodes = 1..Len(decodes)
  BY DEF Inv, TypeOK
<1>2. PICK d \in 1..Len(decodes) : Post(d) \/ PostThrows(d) \/ Finish(d)
  BY <1>1 DEF Microtask
<1>3. CASE Post(d)
  BY <1>3, PostInv
<1>4. CASE PostThrows(d)
  <2> DEFINE at == NextParser(decodes[d].at)
  <2>1. at \in {"json", "finish"}
    BY DEF NextParser
  <2>2. decodes' = [decodes EXCEPT ![d] = [decodes[d] EXCEPT !.at = at]]
    BY <1>4 DEF PostThrows
  <2>3. Live(d) /\ ~decodes[d].waiting /\ UNCHANGED <<store, ui, pane, workers>>
    BY <1>4 DEF PostThrows, Live
  <2> HIDE DEF at
  <2>4. at \in Stages \ {"over"} /\ at # "markup"
    BY <2>1 DEF Stages, Parsers
  <2> QED
    BY <2>2, <2>3, <2>4, MoveInv
<1>5. CASE Finish(d)
  <2> DEFINE dec == decodes[d]
             entry == [ver |-> dec.ver, result |-> Result(dec)]
  <2>1. dec \in Decode
    BY <1>1 DEF TypeOK
  <2>2. dec.at = "finish" /\ Live(d)
    BY <1>5 DEF Finish, Live
  <2>3. ~dec.waiting
    BY <1>1, <2>2 DEF Jobs, Waits, Parsers
  <2>4. /\ dec.id \in Exchanges /\ dec.side \in Sides
        /\ dec.parsed # NoResult => Sound(dec.parsed, dec.doc)
    BY <1>1, <2>2 DEF Panes, Sourced
  <2>5. Sound(Result(dec), dec.doc)
    BY <2>4, ResultSound
  <2>6. Result(dec) \in Results /\ dec.ver \in Nat
    BY <2>1, ResultType DEF Decode
  <2>7. entry \in Entry /\ entry.ver = dec.ver /\ entry.result = Result(dec)
    BY <2>6 DEF Entry
  <2>8. Settle(d, entry) /\ UNCHANGED <<ui, workers>>
    BY <1>5 DEF Finish
  <2>9. store' = store \/ store' = SetBodyDecodedBytes(dec.id, dec.side)
    BY <1>5 DEF Finish
  <2>10. store' \in StoreType /\ StoreGrows
    BY <1>1, <2>4, <2>9, SizedFacts DEF Panes
  <2> HIDE DEF entry
  <2> QED
    BY <2>2, <2>3, <2>5, <2>7, <2>8, <2>10, SettleInv
<1> QED
  BY <1>2, <1>3, <1>4, <1>5

(* Decompression yields the bytes or fails the decode.                     *)
LEMMA InflateInv ==
  ASSUME Inv, NEW d \in 1..Len(decodes), Inflate(d)
  PROVE  Inv'
<1>1. TypeOK /\ Jobs /\ Panes /\ decodes[d] \in Decode
  BY DEF Inv, TypeOK
<1>2. Live(d) /\ ~decodes[d].waiting /\ UNCHANGED <<store, ui, workers>>
  BY <1>1 DEF Inflate, Live, Jobs, Waits, Parsers
<1>3. CASE /\ decodes' = [decodes EXCEPT ![d].at = FirstParser(decodes[d].doc)]
           /\ UNCHANGED pane
  <2> DEFINE at == FirstParser(decodes[d].doc)
  <2>1. at \in Parsers \cup {"finish"} /\ (at = "markup" => decodes[d].doc.media = "html")
    BY DEF FirstParser, Parsers
  <2>2. decodes' = [decodes EXCEPT ![d] = [decodes[d] EXCEPT !.at = at]]
    BY <1>3
  <2> HIDE DEF at
  <2>3. at \in Stages \ {"over"}
    BY <2>1 DEF Stages, Parsers
  <2> QED
    BY <1>2, <1>3, <2>1, <2>2, <2>3, MoveInv
<1>4. CASE Settle(d, [ver |-> decodes[d].ver, result |-> NoResult])
  <2> DEFINE entry == [ver |-> decodes[d].ver, result |-> NoResult]
  <2>1. decodes[d].ver \in Nat
    BY <1>1 DEF Decode
  <2>2. entry \in Entry /\ entry.ver = decodes[d].ver /\ entry.result = NoResult
    BY <2>1, Nothings DEF Entry
  <2>3. Settle(d, entry)
    BY <1>4
  <2>4. store' \in StoreType /\ StoreGrows
    BY <1>1, <1>2, StoreStays
  <2> HIDE DEF entry
  <2> QED
    BY <1>2, <2>2, <2>3, <2>4, SettleInv
<1> QED
  BY <1>3, <1>4 DEF Inflate

(* React commits a render.                                                 *)
LEMMA CommitInv ==
  ASSUME Inv, Commit
  PROVE  Inv'
<1>1. TypeOK /\ Jobs /\ Panes
  BY DEF Inv
<1>2. UNCHANGED <<store, selectedId, tab, client, queue>>
  BY DEF Commit, ui, workers
<1>3. /\ decodes' \in Seq(Decode) /\ Len(decodes') \in Nat /\ Len(decodes) <= Len(decodes')
      /\ pane' = [s \in Sides |-> CommitPane(s)]
  BY <1>1, CommitFacts
<1>4. TypeOK'
  <2>1. \A s \in Sides : CommitPane(s) \in Pane
    BY <1>1, CommitPaneFacts
  <2>2. pane' \in [Sides -> Pane]
    BY <1>3, <2>1
  <2> QED
    BY <1>1, <1>2, <1>3, <2>2 DEF TypeOK
<1>5. Quiet
  <2>1. ASSUME NEW e \in 1..Len(decodes)
        PROVE  /\ decodes'[e].waiting = decodes[e].waiting
               /\ decodes[e].waiting => decodes'[e].at = decodes[e].at
               /\ decodes'[e].at # "over" => /\ decodes[e].at # "over"
                                             /\ decodes'[e].doc = decodes[e].doc
    BY <1>1, CommitFacts
  <2>2. ASSUME NEW e \in (Len(decodes) + 1)..Len(decodes')
        PROVE  ~decodes'[e].waiting
    <3>1. PICK s \in Sides : Decodes(s) /\ decodes'[e] = NewDecode(s)
      BY <1>1, CommitFacts
    <3> QED
      BY <1>1, <3>1, NewDecodeFacts
  <2> QED
    BY <1>3, <2>1, <2>2 DEF Quiet
<1>6. Jobs'
  BY <1>1, <1>2, <1>5, QuietJobs DEF workers
<1>7. Panes'
  BY <1>1, CommitPanes
<1> QED
  BY <1>4, <1>6, <1>7 DEF Inv

(* Decodes that are answered go on, and a sound answer leaves the panes as *)
(* they should be.                                                         *)
LEMMA AnsweredPanes ==
  ASSUME TypeOK, Panes, NEW Settled, DecodesResolve(Settled),
         UNCHANGED <<store, pane>>,
         \A d \in 1..Len(decodes) : (\E j \in Settled : j[1] = d) =>
           /\ Live(d)
           /\ decodes'[d].at \in {"json", "finish"}
           /\ decodes'[d].parsed # NoResult => Sound(decodes'[d].parsed, decodes[d].doc)
  PROVE  Panes'
<1>1. Steady
  <2> SUFFICES ASSUME NEW e \in 1..Len(decodes)
               PROVE  /\ decodes'[e].at # "over" <=> decodes[e].at # "over"
                      /\ decodes[e].at # "over" =>
                           /\ Same(decodes[e], decodes'[e])
                           /\ decodes'[e].at = "markup" => decodes[e].doc.media = "html"
                           /\ decodes'[e].parsed # NoResult
                                => Sound(decodes'[e].parsed, decodes[e].doc)
    BY DEF Steady, DecodesResolve
  <2>1. CASE ~(\E j \in Settled : j[1] = e)
    <3>1. decodes'[e] = decodes[e]
      BY <2>1 DEF DecodesResolve
    <3> QED
      BY <3>1 DEF Panes, Sourced, Live, Same
  <2>2. CASE \E j \in Settled : j[1] = e
    <3>1. Same(decodes[e], decodes'[e])
      BY <2>2 DEF DecodesResolve
    <3> QED
      BY <2>2, <3>1 DEF Live
  <2> QED
    BY <2>1, <2>2
<1> QED
  BY <1>1, SteadyPanes

(* A worker's answer reaches the decode that waits for it, or nobody.      *)
LEMMA MessageInv ==
  ASSUME Inv, NEW c \in Clients, NEW g \in 1..Len(queue[c]), WorkerMessage(c, g)
  PROVE  Inv'
<1>1. TypeOK /\ Jobs /\ Panes
  BY DEF Inv
<1>2. MessageEffect(c, g)
  BY <1>1, MessageFacts
<1> DEFINE Settled == HeardJobs(c, g)
           answer == HeardAnswer(c, g)
<1>3. Answered(Settled, answer)
  BY DEF Answered, WorkerMessage, HeardJobs, HeardAnswer, Heard
<1>4. UNCHANGED <<store, selectedId, tab, pane>>
  BY DEF WorkerMessage, ui
<1>5. answer \in Results
  BY <1>2 DEF MessageEffect
<1> HIDE DEF Settled, answer
<1>6. /\ decodes' \in Seq(Decode) /\ Len(decodes') = Len(decodes)
      /\ \A d \in 1..Len(decodes) :
           /\ ~(\E j \in Settled : j[1] = d) => decodes'[d] = decodes[d]
           /\ (\E j \in Settled : j[1] = d) =>
                /\ Same(decodes[d], decodes'[d])
                /\ ~decodes'[d].waiting /\ decodes'[d].parsed = answer
                /\ decodes'[d].at \in {"json", "finish"}
  <2>1. AnswerEffect(Settled, answer)
    BY <1>1, <1>3, <1>5, ResolveFacts
  <2> QED
    BY <2>1 DEF AnswerEffect
<1>7. DecodesResolve(Settled)
  BY <1>6 DEF DecodesResolve
<1>8. Jobs'
  BY <1>1, <1>2, <1>7, MessageJobs DEF Settled
<1>9. TypeOK'
  BY <1>1, <1>2, <1>4, <1>6 DEF TypeOK, MessageEffect
<1>10. ASSUME NEW d \in 1..Len(decodes), \E j \in Settled : j[1] = d
       PROVE  /\ Live(d)
              /\ decodes'[d].at \in {"json", "finish"}
              /\ decodes'[d].parsed # NoResult => Sound(decodes'[d].parsed, decodes[d].doc)
  <2>1. PICK j \in client[c].pending : j = Heard(c, g).job /\ j[1] = d
    BY <1>10 DEF Settled, HeardJobs, JobOf
  <2>2. decodes[d].waiting /\ decodes[d].at = j[2] /\ j[2] \in Parsers
    <3>1. decodes[d].waiting /\ decodes[d].at = j[2]
      BY <1>1, <2>1 DEF Jobs, Owned
    <3> QED
      BY <1>1, <3>1 DEF Jobs, Waits
  <2>3. Live(d)
    BY <2>2 DEF Live, Parsers
  <2>4. Heard(c, g).doc = decodes[d].doc
    BY <1>1, <1>2, <2>1, <2>3 DEF MessageEffect, Jobs, Texts
  <2>5. answer = Answer(decodes[d].doc, decodes[d].at)
    BY <2>1, <2>2, <2>4 DEF answer, HeardAnswer
  <2>6. decodes[d].doc \in SomeDoc
    <3>1. decodes[d] \in Decode
      BY <1>1 DEF TypeOK
    <3> QED
      BY <3>1 DEF Decode
  <2>7. decodes[d].at = "markup" => decodes[d].doc.media = "html"
    BY <1>1, <2>3 DEF Panes, Sourced
  <2>8. answer # NoResult => Sound(answer, decodes[d].doc)
    BY <2>2, <2>5, <2>6, <2>7, AnswerSound
  <2> QED
    BY <1>6, <1>10, <2>3, <2>8
<1>11. Panes'
  BY <1>1, <1>4, <1>7, <1>10, AnsweredPanes
<1> QED
  BY <1>8, <1>9, <1>11 DEF Inv

(* A worker fails: every pending job is rejected, and its decode goes on.  *)
LEMMA ErrorInv ==
  ASSUME Inv, NEW c \in Clients, NEW g, WorkerError(c, g)
  PROVE  Inv'
<1>1. TypeOK /\ Jobs /\ Panes
  BY DEF Inv
<1>2. client' = [client EXCEPT ![c] = [worker |-> 0, pending |-> {}]]
  <2>1. client[c].pending \ client[c].pending = {}
    OBVIOUS
  <2> QED
    BY <2>1 DEF WorkerError, Rejected
<1>3. UNCHANGED <<store, selectedId, tab, pane, queue>>
  BY DEF WorkerError, ui
<1> DEFINE Settled == client[c].pending
<1>4. Answered(Settled, NoResult)
  BY DEF Answered, WorkerError, Rejected
<1> HIDE DEF Settled
<1>5. /\ decodes' \in Seq(Decode) /\ Len(decodes') = Len(decodes)
      /\ \A d \in 1..Len(decodes) :
           /\ ~(\E j \in Settled : j[1] = d) => decodes'[d] = decodes[d]
           /\ (\E j \in Settled : j[1] = d) =>
                /\ Same(decodes[d], decodes'[d])
                /\ ~decodes'[d].waiting /\ decodes'[d].parsed = NoResult
                /\ decodes'[d].at \in {"json", "finish"}
  <2>1. NoResult \in Results
    BY Nothings
  <2>2. AnswerEffect(Settled, NoResult)
    BY <1>1, <1>4, <2>1, ResolveFacts
  <2> QED
    BY <2>2 DEF AnswerEffect
<1>6. DecodesResolve(Settled)
  BY <1>5 DEF DecodesResolve
<1>7. Jobs' /\ client' \in [Clients -> [worker : Nat, pending : SUBSET Job]]
  BY <1>1, <1>2, <1>3, <1>6, ErrorJobs DEF Settled
<1>8. TypeOK'
  BY <1>1, <1>3, <1>5, <1>7 DEF TypeOK
<1>9. ASSUME NEW d \in 1..Len(decodes), \E j \in Settled : j[1] = d
      PROVE  /\ Live(d)
             /\ decodes'[d].at \in {"json", "finish"}
             /\ decodes'[d].parsed # NoResult => Sound(decodes'[d].parsed, decodes[d].doc)
  <2>1. PICK j \in client[c].pending : j[1] = d
    BY <1>9 DEF Settled
  <2>2. decodes[d].waiting
    BY <1>1, <2>1 DEF Jobs, Owned
  <2>3. Live(d)
    BY <1>1, <2>2 DEF Live, Parsers, Jobs, Waits
  <2> QED
    BY <1>5, <1>9, <2>3
<1>10. Panes'
  BY <1>1, <1>3, <1>6, <1>9, AnsweredPanes
<1> QED
  BY <1>7, <1>8, <1>10 DEF Inv

(* Events and the user leave the panes, the decodes and the workers alone. *)
LEMMA OutsideInv ==
  ASSUME Inv, TypeOK', StoreGrows, store' \in StoreType, UNCHANGED <<pane, decodes, workers>>
  PROVE  Inv'
<1>1. TypeOK /\ Jobs /\ Panes /\ Len(decodes) \in Nat
  BY DEF Inv, TypeOK
<1>2. Quiet
  BY <1>1 DEF Quiet
<1>3. Jobs'
  BY <1>1, <1>2, QuietJobs
<1>4. Panes'
  BY <1>1, GrowsPanes
<1> QED
  BY <1>3, <1>4 DEF Inv

(* Nothing has arrived, nothing is selected.                               *)
LEMMA InitInv == Init => Inv
<1> SUFFICES ASSUME Init PROVE Inv
  OBVIOUS
<1>1. TypeOK
  <2>1. store \in StoreType
    BY Nothings DEF Init, StoreType
  <2>2. pane \in [Sides -> Pane]
    BY Nothings DEF Init
  <2>3. decodes \in Seq(Decode) /\ queue \in [Clients -> Seq(Seq(Message))]
    BY DEF Init
  <2>4. client \in [Clients -> [worker : Nat, pending : SUBSET Job]]
    BY DEF Init
  <2> QED
    BY <2>1, <2>2, <2>3, <2>4 DEF Init, TypeOK, StoreType
<1>2. Len(decodes) = 0 /\ 1..Len(decodes) = {}
  BY DEF Init
<1>3. Jobs
  <2>1. \A c \in Clients : client[c].worker = 0 /\ client[c].pending = {}
    BY DEF Init
  <2>2. \A c \in Clients : Len(queue[c]) = 0 /\ 1..Len(queue[c]) = {}
    BY DEF Init
  <2> QED
    BY <1>2, <2>1, <2>2 DEF Jobs, Posted, Waits, Owned, Texts
<1>4. Panes
  <2>1. \A s \in Sides : pane[s] = NoPane
    BY DEF Init
  <2>2. \A x \in Exchanges : \A s \in Sides : store[x].body[s] = NoBody
    BY DEF Init
  <2>3. ASSUME NEW s \in Sides PROVE PaneOf(s)
    BY <1>2, <2>1, Nothings DEF PaneOf
  <2> QED
    BY <1>2, <2>2, <2>3 DEF Panes, Versioned, Sourced, Attached, Shown
<1> QED
  BY <1>1, <1>3, <1>4 DEF Inv

(* The invariant always holds.                                             *)
LEMMA InvAlways == FairSpec => []Inv
<1>1. ASSUME Inv, [Next]_vars PROVE Inv'
  <2>1. TypeOK /\ Panes
    BY <1>1 DEF Inv
  <2>2. DOMAIN decodes = 1..Len(decodes) /\ \A c \in Clients : DOMAIN queue[c] = 1..Len(queue[c])
    BY <2>1 DEF TypeOK
  <2>3. CASE Microtask
    BY <1>1, <2>3, MicrotaskInv
  <2>4. CASE Task
    <3>1. CASE Commit
      BY <1>1, <3>1, CommitInv
    <3>2. ASSUME NEW d \in DOMAIN decodes, Inflate(d) PROVE Inv'
      BY <1>1, <2>2, <3>2, InflateInv
    <3>3. ASSUME NEW c \in Clients, NEW g \in DOMAIN queue[c], WorkerMessage(c, g) PROVE Inv'
      BY <1>1, <2>2, <3>3, MessageInv
    <3> QED
      BY <2>4, <3>1, <3>2, <3>3 DEF Task
  <2>5. CASE Fault
    BY <1>1, <2>5, ErrorInv DEF Fault
  <2>6. CASE Events
    <3>1. store' \in StoreType /\ StoreGrows /\ UNCHANGED <<ui, pane, decodes, workers>>
      BY <2>1, <2>6, EventFacts DEF Panes
    <3>2. TypeOK'
      BY <2>1, <3>1 DEF TypeOK, StoreType, ui, workers
    <3> QED
      BY <1>1, <3>1, <3>2, OutsideInv
  <2>7. CASE User
    <3>1. UNCHANGED <<store, pane, decodes, workers>>
      BY <2>7 DEF User, SetTab, Select
    <3>2. selectedId' \in Exchanges \cup {0} /\ tab' \in {"bodies", "other"}
      BY <2>1, <2>7 DEF User, SetTab, Select, TypeOK
    <3>3. TypeOK'
      BY <2>1, <3>1, <3>2 DEF TypeOK, workers
    <3> QED
      BY <1>1, <2>1, <3>1, <3>3, StoreStays, OutsideInv
  <2>8. CASE UNCHANGED vars
    <3>1. UNCHANGED <<store, ui, pane, decodes, workers>>
      BY <2>8 DEF vars, ui, workers
    <3>2. TypeOK'
      BY <2>1, <3>1 DEF TypeOK, ui, workers
    <3> QED
      BY <1>1, <2>1, <3>1, <3>2, StoreStays, OutsideInv
  <2> QED
    BY <1>1, <2>3, <2>4, <2>5, <2>6, <2>7, <2>8 DEF Next
<1> QED
  BY <1>1, InitInv, PTL DEF FairSpec

-----------------------------------------------------------------------------
(* What the invariant says of the panes                                    *)

(* A waiting decode's job is pending, and a pending job is posted to the   *)
(* worker in use (NoOrphanJob), however many workers failed.               *)
THEOREM NoOrphanJobHolds == FairSpec => []NoOrphanJob
<1>1. ASSUME Inv PROVE NoOrphanJob
  <2>1. Posted /\ Waits /\ DOMAIN decodes = 1..Len(decodes)
    BY <1>1 DEF Inv, Jobs, TypeOK
  <2> QED
    BY <2>1 DEF Posted, Waits, NoOrphanJob
<1> QED
  BY <1>1, InvAlways, PTL

(* An entry that counts was made from the body in the pane.                *)
LEMMA ResultFacts ==
  ASSUME Inv, NEW s \in Sides, NEW r, r = ResultOf(pane[s]), r # NoResult
  PROVE  Sound(r, pane[s].body.doc) /\ r \in Results
<1>1. PaneOf(s) /\ pane[s] \in Pane
  BY DEF Inv, Panes, Shown, TypeOK
<1>2. pane[s].body.atEnd /\ r = pane[s].entry.result
  BY DEF ResultOf
<1>3. pane[s].body.ver # 0
  BY <1>1, <1>2, Nothings DEF PaneOf
<1>4. Sound(r, pane[s].body.doc)
  BY <1>1, <1>2, <1>3 DEF PaneOf
<1>5. pane[s].entry \in Entry
  BY <1>1 DEF Pane
<1>6. r \in Results
  BY <1>2, <1>5 DEF Entry
<1> QED
  BY <1>4, <1>6

(* What a pane shows was made from the body it shows, and a skeleton is    *)
(* backed by a decode of that body (ResultIsOfBody), whichever order the   *)
(* answers, the commits and the selections came in.                        *)
THEOREM ResultIsOfBodyHolds == FairSpec => []ResultIsOfBody
<1>1. ASSUME Inv PROVE ResultIsOfBody
  <2> SUFFICES ASSUME NEW s \in Sides
               PROVE  /\ ResultOf(pane[s]) # NoResult => ResultOf(pane[s]).doc = pane[s].body.doc
                      /\ Loading(pane[s]) => Backed(pane[s])
    BY DEF ResultIsOfBody, Backed
  <2>1. ResultOf(pane[s]) # NoResult => Sound(ResultOf(pane[s]), pane[s].body.doc)
    BY <1>1, ResultFacts
  <2>2. PaneOf(s)
    BY <1>1 DEF Inv, Panes, Shown
  <2> QED
    BY <2>1, <2>2 DEF Sound, Loading, PaneOf
<1> QED
  BY <1>1, InvAlways, PTL

(* The modes that may be in force on a body of a kind.                     *)
ModesOf(kind) ==
  CASE kind \in {"json", "ndjson"} -> {"tree", "hex", "text"}
    [] kind = "html" -> {"formatted", "hex", "text"}
    [] kind = "image" -> {"rendered", "hex"}
    [] kind = "text" -> {"text", "hex"}
    [] kind = "binary" -> {"summary", "hex"}

(* Every kind offers a mode that no other one precedes.                    *)
LEMMA ModesFacts ==
  ASSUME NEW kind \in Kinds, NEW textOk
  PROVE  /\ SelectableModes(kind, textOk) \subseteq ModesOf(kind)
         /\ DefaultMode(kind, textOk) \in SelectableModes(kind, textOk)
<1> DEFINE modes == SelectableModes(kind, textOk)
           First(m) == m \in modes /\ \A n \in modes : ModePrecedence[m] <= ModePrecedence[n]
<1>1. /\ ModePrecedence["tree"] = 10 /\ ModePrecedence["formatted"] = 10
      /\ ModePrecedence["rendered"] = 10 /\ ModePrecedence["text"] = 30
      /\ ModePrecedence["hex"] = 40 /\ ModePrecedence["summary"] = 50
  BY DEF ModePrecedence
<1>2. ASSUME NEW m, First(m), kind # "binary" PROVE DefaultMode(kind, textOk) \in modes
  <2>1. DefaultMode(kind, textOk)
          = CHOOSE k \in modes : \A n \in modes : ModePrecedence[k] <= ModePrecedence[n]
    BY <1>2 DEF DefaultMode
  <2>2. \E k \in modes : \A n \in modes : ModePrecedence[k] <= ModePrecedence[n]
    BY <1>2
  <2> HIDE DEF modes
  <2> QED
    BY <2>1, <2>2
<1>3. CASE kind \in {"json", "ndjson"}
  <2>1. modes = {"tree", "hex"} \cup (IF textOk THEN {"text"} ELSE {})
    BY <1>3 DEF SelectableModes
  <2>2. First("tree")
    BY <1>1, <2>1
  <2>3. modes \subseteq ModesOf(kind)
    BY <1>3, <2>1 DEF ModesOf
  <2> QED
    BY <1>2, <1>3, <2>2, <2>3
<1>4. CASE kind = "html"
  <2>1. modes = {"formatted", "hex"} \cup (IF textOk THEN {"text"} ELSE {})
    BY <1>4 DEF SelectableModes
  <2>2. First("formatted")
    BY <1>1, <2>1
  <2>3. modes \subseteq ModesOf(kind)
    BY <1>4, <2>1 DEF ModesOf
  <2> QED
    BY <1>2, <1>4, <2>2, <2>3
<1>5. CASE kind = "image"
  <2>1. modes = {"rendered", "hex"}
    BY <1>5 DEF SelectableModes
  <2>2. First("rendered")
    BY <1>1, <2>1
  <2>3. modes \subseteq ModesOf(kind)
    BY <1>5, <2>1 DEF ModesOf
  <2> QED
    BY <1>2, <1>5, <2>2, <2>3
<1>6. CASE kind = "text"
  <2>1. modes = {"text", "hex"}
    BY <1>6 DEF SelectableModes
  <2>2. First("text")
    BY <1>1, <2>1
  <2>3. modes \subseteq ModesOf(kind)
    BY <1>6, <2>1 DEF ModesOf
  <2> QED
    BY <1>2, <1>6, <2>2, <2>3
<1>7. CASE kind = "binary"
  <2>1. modes = {"summary", "hex"}
    BY <1>7 DEF SelectableModes
  <2>2. DefaultMode(kind, textOk) = "summary"
    BY <1>7 DEF DefaultMode
  <2> QED
    BY <1>7, <2>1, <2>2 DEF ModesOf
<1> QED
  BY <1>3, <1>4, <1>5, <1>6, <1>7 DEF Kinds

(* The mode in force is one the selector offers, whatever is stored.       *)
LEMMA ResolvedMode ==
  ASSUME NEW kind \in Kinds, NEW textOk, NEW stored
  PROVE  /\ ResolveMode(stored, kind, textOk) \in SelectableModes(kind, textOk)
         /\ ResolveMode(stored, kind, textOk) \in ModesOf(kind)
BY ModesFacts DEF ResolveMode

(* The copy button copies what is on show.                                 *)
CopyFits(r, m) ==
  LET view == ViewOf(r, m)
      copy == CopyOf(r, m)
  IN /\ view = "hex" => copy = "hex"
     /\ view \in {"tree", "markup"} => copy = "pretty"
     /\ view = "image" => copy = "image"
     /\ view = "summary" => copy = None
     /\ view = "text" => copy = "raw" \/ (copy = "pretty" /\ r.doc.js = "null")

(* It does, in every mode of the kind.                                     *)
LEMMA CopyCoherent ==
  ASSUME NEW r \in Results, Sound(r, r.doc), NEW m \in ModesOf(r.kind)
  PROVE  CopyFits(r, m)
<1>1. r.rich \in BOOLEAN
  BY DEF Results
<1>2. CASE m = "hex"
  <2>1. ViewOf(r, m) = "hex" /\ CopyOf(r, m) = "hex"
    BY <1>2 DEF ViewOf, CopyOf
  <2> QED
    BY <2>1 DEF CopyFits
<1>3. CASE r.kind \in {"json", "ndjson"} /\ m # "hex"
  <2>1. m \in {"tree", "text"}
    BY <1>3 DEF ModesOf
  <2>2. CopyOf(r, m) = (IF m = "tree" THEN "pretty" ELSE "raw")
    BY <1>3, <2>1 DEF CopyOf
  <2>3. ViewOf(r, m) = (IF m = "tree" /\ r.rich THEN "tree" ELSE "text")
    BY <1>1, <1>3, <2>1 DEF ViewOf
  <2>4. ~r.rich => r.doc.js = "null"
    BY <1>3 DEF Sound
  <2> QED
    BY <1>1, <2>1, <2>2, <2>3, <2>4 DEF CopyFits
<1>4. CASE r.kind = "html" /\ m # "hex"
  <2>1. m \in {"formatted", "text"}
    BY <1>4 DEF ModesOf
  <2>2. CopyOf(r, m) = (IF m = "formatted" /\ r.rich THEN "pretty" ELSE "raw")
    BY <1>4, <2>1 DEF CopyOf
  <2>3. ViewOf(r, m) = (IF m = "formatted" /\ r.rich THEN "markup" ELSE "text")
    BY <1>1, <1>4, <2>1 DEF ViewOf
  <2> QED
    BY <1>1, <2>1, <2>2, <2>3 DEF CopyFits
<1>5. CASE r.kind = "image" /\ m # "hex"
  <2>1. m = "rendered"
    BY <1>5 DEF ModesOf
  <2>2. CopyOf(r, m) = "image" /\ ViewOf(r, m) = "image"
    BY <1>5, <2>1 DEF CopyOf, ViewOf
  <2> QED
    BY <2>2 DEF CopyFits
<1>6. CASE r.kind = "text" /\ m # "hex"
  <2>1. m = "text"
    BY <1>6 DEF ModesOf
  <2>2. CopyOf(r, m) = "raw" /\ ViewOf(r, m) = "text"
    BY <1>6, <2>1 DEF CopyOf, ViewOf
  <2> QED
    BY <2>2 DEF CopyFits
<1>7. CASE r.kind = "binary" /\ m # "hex"
  <2>1. m = "summary"
    BY <1>7 DEF ModesOf
  <2>2. CopyOf(r, m) = None /\ ViewOf(r, m) = "summary"
    BY <1>7, <2>1 DEF CopyOf, ViewOf
  <2> QED
    BY <2>2 DEF CopyFits
<1>8. r.kind \in Kinds
  BY DEF Sound
<1> QED
  BY <1>2, <1>3, <1>4, <1>5, <1>6, <1>7, <1>8 DEF Kinds

(* One place of a tuple of conditions holds.                               *)
OnlyOne(parts) == Cardinality({i \in DOMAIN parts : parts[i]}) = 1

(* One of seven conditions holds, and excludes the others.                 *)
OneOf(a, b, c, d, e, f, g) ==
  /\ a \/ b \/ c \/ d \/ e \/ f \/ g
  /\ a => ~b /\ ~c /\ ~d /\ ~e /\ ~f /\ ~g
  /\ b => ~c /\ ~d /\ ~e /\ ~f /\ ~g
  /\ c => ~d /\ ~e /\ ~f /\ ~g
  /\ d => ~e /\ ~f /\ ~g
  /\ e => ~f /\ ~g
  /\ f => ~g

(* The set of the places that hold is then a singleton.                    *)
LEMMA OnePart ==
  ASSUME NEW parts, DOMAIN parts = 1..7,
         OneOf(parts[1], parts[2], parts[3], parts[4], parts[5], parts[6], parts[7])
  PROVE  OnlyOne(parts)
<1>1. \E k \in 1..7 : \A i \in 1..7 : parts[i] <=> i = k
  <2>1. \A i \in 1..7 : i \in {1, 2, 3, 4, 5, 6, 7}
    OBVIOUS
  <2> QED
    BY <2>1 DEF OneOf
<1>2. PICK k \in 1..7 : {i \in DOMAIN parts : parts[i]} = {k}
  BY <1>1
<1>3. Cardinality({k}) = 1
  BY FS_Singleton
<1> QED
  BY <1>2, <1>3 DEF OnlyOne

(* A mounted pane shows exactly one panel, in a mode that its body offers, *)
(* and the copy button copies what is on show (ViewCoherent).              *)
THEOREM ViewCoherentHolds == FairSpec => []ViewCoherent
<1>1. ASSUME Inv, NEW s \in Sides, NEW p, p = pane[s]
      PROVE  /\ OnlyOne(<<Loading(p), Streaming(p), Interrupted(p), ErrorOnly(p),
                          Empty(p), Undecodable(p), Content(p)>>)
             /\ Banner(p) => Undecodable(p) \/ Content(p)
  <2>1. p \in Pane
    BY <1>1 DEF Inv, TypeOK
  <2>2. p.err \in BOOLEAN /\ p.body \in Body
    BY <2>1 DEF Pane
  <2>3. p.body.atEnd \in BOOLEAN
    BY <2>2 DEF Body
  <2>4. p.body = NoBody => ~p.body.atEnd
    BY Nothings
  <2>5. ResultOf(p) # NoResult => p.body.atEnd
    BY DEF ResultOf
  <2>6. /\ Loading(p) \in BOOLEAN /\ Streaming(p) \in BOOLEAN /\ Interrupted(p) \in BOOLEAN
        /\ ErrorOnly(p) \in BOOLEAN /\ Empty(p) \in BOOLEAN /\ Undecodable(p) \in BOOLEAN
        /\ Content(p) \in BOOLEAN
    BY DEF Loading, Streaming, Interrupted, ErrorOnly, Empty, Undecodable, Content
  <2>7. Loading(p) => p.body.atEnd
    BY DEF Loading
  <2> DEFINE parts == <<Loading(p), Streaming(p), Interrupted(p), ErrorOnly(p),
                        Empty(p), Undecodable(p), Content(p)>>
  <2>8. OneOf(Loading(p), Streaming(p), Interrupted(p), ErrorOnly(p),
              Empty(p), Undecodable(p), Content(p))
    BY <2>2, <2>3, <2>4, <2>5, <2>6, <2>7
       DEF OneOf, Streaming, Interrupted, ErrorOnly, Empty, Undecodable, Content
  <2>9. Banner(p) => Undecodable(p) \/ Content(p)
    BY DEF Banner, Undecodable, Content
  <2>10. OnlyOne(parts)
    <3>1. /\ parts[1] = Loading(p) /\ parts[2] = Streaming(p) /\ parts[3] = Interrupted(p)
          /\ parts[4] = ErrorOnly(p) /\ parts[5] = Empty(p) /\ parts[6] = Undecodable(p)
          /\ parts[7] = Content(p) /\ DOMAIN parts = 1..7
      OBVIOUS
    <3> HIDE DEF parts
    <3>2. OneOf(parts[1], parts[2], parts[3], parts[4], parts[5], parts[6], parts[7])
      BY <2>8, <3>1
    <3> QED
      BY <3>1, <3>2, OnePart
  <2> QED
    BY <2>9, <2>10
<1>2. ASSUME Inv, NEW s \in Sides, NEW r, r = ResultOf(pane[s]), r # NoResult, NEW stored
      PROVE  LET m == ResolveMode(stored, r.kind, r.doc.textOk)
             IN m \in SelectableModes(r.kind, r.doc.textOk) /\ CopyFits(r, m)
  <2>1. Sound(r, r.doc) /\ r \in Results /\ r.kind \in Kinds
    BY <1>2, ResultFacts DEF Sound
  <2> QED
    BY <2>1, ResolvedMode, CopyCoherent
<1>3. ASSUME Inv PROVE ViewCoherent
  BY <1>1, <1>2, <1>3 DEF ViewCoherent, CopyFits, OnlyOne
<1> QED
  BY <1>3, InvAlways, PTL
=============================================================================
