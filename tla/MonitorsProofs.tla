---------------------------- MODULE MonitorsProofs ---------------------------
(***************************************************************************)
(* Proofs about Monitors: the printer leaves no gap and the recorder loses *)
(* no event it has taken, for any services, clients and broadcast buffer.  *)
(***************************************************************************)
EXTENDS Monitors, TLAPS

Events == [id : 1..MaxIds, direction : Directions, kind : Kinds]
Cursor == [on : BOOLEAN, from : Nat \ {0}, next : Nat \ {0}]
Cursors == [Services -> [Receivers -> Cursor]]
Counts == [Services -> [1..MaxIds -> [Directions -> Nat]]]

TypeOK ==
  /\ sent \in [Services -> Seq(Events)]
  /\ owner \in Seq(Services) /\ Len(owner) <= MaxIds
  /\ rx \in Cursors
  /\ printed \in [Services -> Seq(Nat)]
  /\ counters \in Counts

(* The printer and the recorder of a service subscribe once, and a cursor  *)
(* stays between where it began and the end of what was published.         *)
SubscribedOnce ==
  \A s \in Services : \A r \in {"logger", "writer"} :
    /\ s \notin monitored => rx[s][r] = Unsubscribed
    /\ rx[s][r].from <= rx[s][r].next
    /\ rx[s][r].next <= Len(sent[s]) + 1

(* An exchange id belongs to the service that gave it out.                 *)
Owned ==
  \A s \in Services : \A p \in 1..Len(sent[s]) :
    LET id == sent[s][p].id IN id <= Len(owner) /\ owner[id] = s

(* All but body data are published once, head events under their own name. *)
Once ==
  \A s \in Services :
    /\ \A p, q \in 1..Len(sent[s]) :
         sent[s][p] = sent[s][q] /\ sent[s][p].kind # "BodyData" => p = q
    /\ \A p \in 1..Len(sent[s]) :
         sent[s][p].kind \in {"Request", "Response"}
           => sent[s][p].direction = sent[s][p].kind

(* The file of the event at position p of s has a name made of that event, *)
(* and of a sequence number that was counted.                              *)
NameOf(s, p, name) ==
  LET e == sent[s][p]
  IN /\ e.kind \in {"Request", "Response"} => name = <<e.id, e.kind>>
     /\ e.kind = "BodyData" =>
          \E n \in 1..counters[s][e.id][e.direction] :
            name = <<e.id, e.direction, "data", n>>
     /\ e.kind = "Error" => name = <<e.id, e.direction, "error">>

(* Every file is of an event its writer has passed, under that event's     *)
(* name.                                                                   *)
FilesNamed ==
  \A f \in files :
    \E s \in Services : \E p \in 1..Len(sent[s]) :
      /\ f.event = <<s, p>>
      /\ p < rx[s]["writer"].next
      /\ NameOf(s, p, f.name)

(* The inductive invariant.                                                *)
Inv == /\ TypeOK /\ SubscribedOnce /\ Owned /\ Once
       /\ PrintedComplete /\ FilesNamed /\ RecordingComplete

-----------------------------------------------------------------------------
(* The receivers                                                           *)

(* A cursor set, moved, or dropped.                                        *)
CursorAt(f, s, r, c) == [f EXCEPT ![s][r] = c]
NextAt(f, s, r, n) == [f EXCEPT ![s][r].next = n]
OffAt(f, s, r) == [f EXCEPT ![s][r].on = FALSE]

(* What setting the cursor of one receiver does to all of them.            *)
LEMMA CursorSet ==
  ASSUME NEW f \in Cursors, NEW s \in Services, NEW r \in Receivers,
         NEW c \in Cursor, NEW g, g = CursorAt(f, s, r, c)
  PROVE  /\ g \in Cursors /\ g[s][r] = c
         /\ \A q \in Receivers \ {r} : g[s][q] = f[s][q]
         /\ \A t \in Services \ {s} : g[t] = f[t]
<1> DEFINE h == [f[s] EXCEPT ![r] = c]
<1>1. f \in [Services -> [Receivers -> Cursor]]
  BY DEF Cursors
<1>2. /\ h \in [Receivers -> Cursor] /\ h[r] = c
      /\ \A q \in Receivers \ {r} : h[q] = f[s][q]
  BY <1>1
<1>3. g = [f EXCEPT ![s] = h]
  BY DEF CursorAt
<1> HIDE DEF h
<1>4. /\ g \in [Services -> [Receivers -> Cursor]] /\ g[s] = h
      /\ \A t \in Services \ {s} : g[t] = f[t]
  BY <1>1, <1>2, <1>3
<1> QED
  BY <1>2, <1>4 DEF Cursors

(* ... and moving it, or dropping the receiver.                            *)
LEMMA CursorMoved ==
  ASSUME NEW f \in Cursors, NEW s \in Services, NEW r \in Receivers,
         NEW n \in Nat \ {0}, NEW g, g = NextAt(f, s, r, n)
  PROVE  /\ g \in Cursors
         /\ g[s][r].next = n /\ g[s][r].from = f[s][r].from
         /\ \A q \in Receivers \ {r} : g[s][q] = f[s][q]
         /\ \A t \in Services \ {s} : g[t] = f[t]
<1> DEFINE c == [f[s][r] EXCEPT !.next = n]
<1>1. f[s][r] \in Cursor
  BY DEF Cursors
<1>2. c \in Cursor /\ c.next = n /\ c.from = f[s][r].from
  BY <1>1 DEF Cursor
<1>3. g = CursorAt(f, s, r, c)
  BY DEF CursorAt, NextAt
<1> HIDE DEF c
<1> QED
  BY <1>2, <1>3, CursorSet

(* Dropping one receiver leaves its cursor and the others alone.           *)
LEMMA ReceiverDropped ==
  ASSUME NEW f \in Cursors, NEW s \in Services, NEW r \in Receivers,
         NEW g, g = OffAt(f, s, r)
  PROVE  /\ g \in Cursors
         /\ g[s][r].next = f[s][r].next /\ g[s][r].from = f[s][r].from
         /\ \A q \in Receivers \ {r} : g[s][q] = f[s][q]
         /\ \A t \in Services \ {s} : g[t] = f[t]
<1> DEFINE c == [f[s][r] EXCEPT !.on = FALSE]
<1>1. f[s][r] \in Cursor
  BY DEF Cursors
<1>2. c \in Cursor /\ c.next = f[s][r].next /\ c.from = f[s][r].from
  BY <1>1 DEF Cursor
<1>3. g = CursorAt(f, s, r, c)
  BY DEF CursorAt, OffAt
<1> HIDE DEF c
<1> QED
  BY <1>2, <1>3, CursorSet

(* A new receiver starts after everything sent before.                     *)
LEMMA SubscribedType ==
  ASSUME TypeOK, NEW s \in Services
  PROVE  /\ Subscribed(s) \in Cursor /\ Unsubscribed \in Cursor
         /\ Subscribed(s).from = Len(sent[s]) + 1
         /\ Subscribed(s).next = Len(sent[s]) + 1
         /\ ~Unsubscribed.on /\ Unsubscribed.from = 1 /\ Unsubscribed.next = 1
<1>1. Len(sent[s]) + 1 \in Nat \ {0}
  BY DEF TypeOK
<1> QED
  BY <1>1 DEF Subscribed, Unsubscribed, Cursor

-----------------------------------------------------------------------------
(* Steps that leave the cursors of printer and recorder where they are and *)
(* publish nothing.                                                        *)
LEMMA Frame ==
  ASSUME Inv, UNCHANGED <<sent, owner, printed, counters, files>>,
         rx' \in Cursors, monitored \subseteq monitored',
         \A s \in Services : \A r \in {"logger", "writer"} :
           /\ rx'[s][r].from = rx[s][r].from /\ rx'[s][r].next = rx[s][r].next
           /\ s \notin monitored => rx'[s][r] = rx[s][r]
  PROVE  Inv'
<1>1. TypeOK'
  BY DEF Inv, TypeOK
<1>2. SubscribedOnce'
  BY DEF Inv, SubscribedOnce
<1>3. (Owned /\ Once)'
  BY DEF Inv, Owned, Once
<1>4. PrintedComplete' /\ RecordingComplete'
  BY DEF Inv, PrintedComplete, RecordingComplete
<1>5. \A s, p, name : NameOf(s, p, name)' <=> NameOf(s, p, name)
  BY DEF NameOf
<1>6. FilesNamed'
  BY <1>5 DEF Inv, FilesNamed
<1> QED
  BY <1>1, <1>2, <1>3, <1>4, <1>6 DEF Inv

(* A step that sends, receives and writes nothing keeps the invariant.     *)
LEMMA Idle ==
  ASSUME Inv, UNCHANGED <<sent, owner, printed, counters, files, rx>>,
         monitored \subseteq monitored'
  PROVE  Inv'
<1>1. rx' \in Cursors
  BY DEF Inv, TypeOK
<1> QED
  BY <1>1, Frame

(* The clients of the web API leave the two tasks alone.                   *)
LEMMA ClientInv ==
  ASSUME Inv, NEW s \in Services, NEW c \in Clients,
         ClientSubscribes(s, c) \/ ClientRecv(s, c) \/ ClientLeaves(s, c)
  PROVE  Inv'
<1>1. rx \in Cursors /\ c \in Receivers
  BY DEF Inv, TypeOK, Receivers
<1>2. UNCHANGED <<sent, owner, printed, counters, files, monitored>>
  BY DEF ClientSubscribes, ClientRecv, ClientLeaves
<1>3. /\ rx' \in Cursors
      /\ \A q \in Receivers \ {c} : rx'[s][q] = rx[s][q]
      /\ \A t \in Services \ {s} : rx'[t] = rx[t]
  <2>1. CASE ClientSubscribes(s, c)
    <3>1. rx' = CursorAt(rx, s, c, Subscribed(s))
      BY <2>1 DEF ClientSubscribes, CursorAt
    <3>2. Subscribed(s) \in Cursor
      BY SubscribedType DEF Inv
    <3> QED
      BY <1>1, <3>1, <3>2, CursorSet
  <2>2. CASE ClientLeaves(s, c)
    <3>1. rx' = CursorAt(rx, s, c, Unsubscribed)
      BY <2>2 DEF ClientLeaves, CursorAt
    <3>2. Unsubscribed \in Cursor
      BY SubscribedType DEF Inv
    <3> QED
      BY <1>1, <3>1, <3>2, CursorSet
  <2>3. CASE ClientRecv(s, c)
    <3>1. PICK n \in {Oldest(s), rx[s][c].next + 1} : rx' = NextAt(rx, s, c, n)
      BY <2>3 DEF ClientRecv, Advance, NextAt
    <3>2. n \in Nat \ {0}
      BY <1>1, MonitorsAssumption DEF Oldest, Inv, TypeOK, Cursors, Cursor
    <3> QED
      BY <1>1, <3>1, <3>2, CursorMoved
  <2> QED
    BY <2>1, <2>2, <2>3
<1>4. \A t \in Services : \A r \in {"logger", "writer"} : rx'[t][r] = rx[t][r]
  <2>1. \A r \in {"logger", "writer"} : r \in Receivers \ {c}
    BY MonitorsAssumption DEF Receivers
  <2> QED
    BY <1>3, <2>1
<1> QED
  BY <1>2, <1>3, <1>4, Frame

(* A task that receives was started.                                       *)
LEMMA AwaitsMonitored ==
  ASSUME Inv, NEW s \in Services, NEW r \in {"logger", "writer"}, Awaits(s, r)
  PROVE  s \in monitored /\ r \in Receivers
BY DEF Inv, SubscribedOnce, Awaits, Unsubscribed, Receivers

(* A task that ends drops its receiver, and nothing it wrote.              *)
LEMMA TaskEndsInv ==
  ASSUME Inv, NEW s \in Services, NEW r \in {"logger", "writer"}, Awaits(s, r),
         TaskEnds(s, r), UNCHANGED <<sent, owner, printed, counters, files, monitored>>
  PROVE  Inv'
<1>1. s \in monitored /\ r \in Receivers /\ rx \in Cursors
  BY AwaitsMonitored DEF Inv, TypeOK
<1>2. rx' = OffAt(rx, s, r)
  BY DEF TaskEnds, OffAt
<1>3. /\ rx' \in Cursors
      /\ rx'[s][r].next = rx[s][r].next /\ rx'[s][r].from = rx[s][r].from
      /\ \A q \in Receivers \ {r} : rx'[s][q] = rx[s][q]
      /\ \A t \in Services \ {s} : rx'[t] = rx[t]
  BY <1>1, <1>2, ReceiverDropped
<1>4. {"logger", "writer"} \subseteq Receivers
  BY DEF Receivers
<1> QED
  BY <1>1, <1>3, <1>4, Frame

-----------------------------------------------------------------------------
(* Publishing appends one event of an exchange of the service, and it is   *)
(* new unless it is body data.                                             *)
LEMMA SentGrows ==
  ASSUME Inv, NEW s \in Services, NEW e \in Events,
         sent' = [sent EXCEPT ![s] = Append(@, e)],
         owner' \in Seq(Services), Len(owner') <= MaxIds,
         Len(owner) <= Len(owner'), \A i \in 1..Len(owner) : owner'[i] = owner[i],
         e.id <= Len(owner'), owner'[e.id] = s,
         e.kind # "BodyData" => \A p \in 1..Len(sent[s]) : sent[s][p] # e,
         e.kind \in {"Request", "Response"} => e.direction = e.kind,
         UNCHANGED <<monitored, rx, printed, counters, files>>
  PROVE  Inv'
<1>1. sent \in [Services -> Seq(Events)] /\ owner \in Seq(Services)
  BY DEF Inv, TypeOK
<1>2. /\ \A t \in Services \ {s} : sent'[t] = sent[t]
      /\ sent'[s] = Append(sent[s], e)
  BY <1>1
<1>3. /\ Len(sent'[s]) = Len(sent[s]) + 1 /\ sent'[s] \in Seq(Events)
      /\ \A p \in 1..Len(sent[s]) : sent'[s][p] = sent[s][p]
      /\ sent'[s][Len(sent[s]) + 1] = e
      /\ Len(sent[s]) \in Nat
  BY <1>1, <1>2
<1>4. \A t \in Services : /\ Len(sent[t]) \in Nat /\ Len(sent'[t]) \in Nat
                          /\ Len(sent[t]) <= Len(sent'[t])
                          /\ \A p \in 1..Len(sent[t]) : sent'[t][p] = sent[t][p]
  BY <1>1, <1>2, <1>3
<1>5. TypeOK'
  <2>1. sent' \in [Services -> Seq(Events)]
    BY <1>1
  <2> QED
    BY <2>1 DEF Inv, TypeOK
<1>6. SubscribedOnce'
  <2>1. rx \in [Services -> [Receivers -> Cursor]]
    BY DEF Inv, TypeOK, Cursors
  <2>2. \A t \in Services : \A r \in {"logger", "writer"} :
          rx[t][r].next \in Nat
    BY <2>1 DEF Cursor, Receivers
  <2> QED
    BY <1>4, <2>2 DEF Inv, SubscribedOnce
<1>7. Owned'
  <2> SUFFICES ASSUME NEW t \in Services, NEW p \in 1..Len(sent'[t])
               PROVE  sent'[t][p].id <= Len(owner') /\ owner'[sent'[t][p].id] = t
    BY DEF Owned
  <2>1. CASE t = s /\ p = Len(sent[s]) + 1
    BY <1>3, <2>1
  <2>2. CASE ~(t = s /\ p = Len(sent[s]) + 1)
    <3>1. p \in 1..Len(sent[t])
      BY <1>2, <1>3, <2>2
    <3>2. sent'[t][p] = sent[t][p] /\ sent[t][p] \in Events
      BY <1>1, <1>4, <3>1
    <3>3. sent[t][p].id <= Len(owner) /\ owner[sent[t][p].id] = t
      BY <3>1 DEF Inv, Owned
    <3>4. sent[t][p].id \in 1..MaxIds
      BY <3>2 DEF Events
    <3>5. sent[t][p].id \in 1..Len(owner) /\ Len(owner) \in Nat /\ Len(owner') \in Nat
      BY <1>1, <3>3, <3>4, MonitorsAssumption
    <3> QED
      BY <3>2, <3>3, <3>5
  <2> QED
    BY <2>1, <2>2
<1>8. Once'
  <2> SUFFICES ASSUME NEW t \in Services
               PROVE  /\ \A p, q \in 1..Len(sent'[t]) :
                           sent'[t][p] = sent'[t][q] /\ sent'[t][p].kind # "BodyData"
                             => p = q
                      /\ \A p \in 1..Len(sent'[t]) :
                           sent'[t][p].kind \in {"Request", "Response"}
                             => sent'[t][p].direction = sent'[t][p].kind
    BY DEF Once
  <2>1. /\ \A p, q \in 1..Len(sent[t]) :
             sent[t][p] = sent[t][q] /\ sent[t][p].kind # "BodyData" => p = q
        /\ \A p \in 1..Len(sent[t]) :
             sent[t][p].kind \in {"Request", "Response"}
               => sent[t][p].direction = sent[t][p].kind
    BY DEF Inv, Once
  <2>2. CASE t # s
    BY <1>2, <2>1, <2>2
  <2>3. CASE t = s
    <3>1. \A p \in 1..Len(sent'[s]) : p \in 1..Len(sent[s]) \/ p = Len(sent[s]) + 1
      BY <1>3
    <3> QED
      BY <1>3, <2>1, <2>3, <3>1
  <2> QED
    BY <2>2, <2>3
<1>9. PrintedComplete' /\ RecordingComplete'
  BY DEF Inv, PrintedComplete, RecordingComplete
<1>10. FilesNamed'
  <2> SUFFICES ASSUME NEW f \in files
               PROVE  \E t \in Services : \E p \in 1..Len(sent'[t]) :
                        /\ f.event = <<t, p>> /\ p < rx[t]["writer"].next
                        /\ NameOf(t, p, f.name)'
    BY DEF FilesNamed
  <2>a. PICK t \in Services : \E p \in 1..Len(sent[t]) :
          /\ f.event = <<t, p>> /\ p < rx[t]["writer"].next
          /\ NameOf(t, p, f.name)
    BY DEF Inv, FilesNamed
  <2>1. PICK p \in 1..Len(sent[t]) :
          /\ f.event = <<t, p>> /\ p < rx[t]["writer"].next
          /\ NameOf(t, p, f.name)
    BY <2>a
  <2>2. p \in 1..Len(sent'[t]) /\ sent'[t][p] = sent[t][p]
    BY <1>4
  <2>3. NameOf(t, p, f.name)'
    BY <2>1, <2>2 DEF NameOf
  <2> QED
    BY <2>1, <2>2, <2>3
<1> QED
  BY <1>5, <1>6, <1>7, <1>8, <1>9, <1>10 DEF Inv

(* An exchange starts: its id has not been given to anyone.                *)
LEMMA AcceptInv ==
  ASSUME Inv, NEW s \in Services, NEW id \in 1..MaxIds, Accept(s, id)
  PROVE  Inv'
<1> DEFINE e == Event(id, "Request", "Request")
<1>1. e \in Events /\ e.id = id /\ e.kind = "Request" /\ e.direction = "Request"
  BY DEF Event, Events, Directions, Kinds
<1>2. /\ owner \in Seq(Services) /\ id = Len(owner) + 1
      /\ owner' = Append(owner, s) /\ Len(owner) < MaxIds
  BY DEF Inv, TypeOK, Accept, NewId
<1>3. /\ owner' \in Seq(Services) /\ Len(owner') = Len(owner) + 1
      /\ \A i \in 1..Len(owner) : owner'[i] = owner[i]
      /\ owner'[Len(owner) + 1] = s /\ Len(owner) \in Nat
  BY <1>2
<1>4. \A p \in 1..Len(sent[s]) : sent[s][p] # e
  BY <1>1, <1>2, <1>3 DEF Inv, Owned
<1>5. Len(owner) <= Len(owner') /\ Len(owner') <= MaxIds /\ e.id <= Len(owner')
      /\ owner'[e.id] = s
  BY <1>1, <1>2, <1>3, MonitorsAssumption
<1>6. /\ sent' = [sent EXCEPT ![s] = Append(@, e)]
      /\ UNCHANGED <<monitored, rx, printed, counters, files>>
  BY DEF Accept
<1> HIDE DEF e
<1> QED
  BY <1>1, <1>3, <1>4, <1>5, <1>6, SentGrows

(* Publisher::send                                                         *)
LEMMA PublishInv ==
  ASSUME Inv, NEW s \in Services, NEW e \in Events, Publish(s, e)
  PROVE  Inv'
<1>1. owner \in Seq(Services) /\ Len(owner) <= MaxIds /\ Len(owner) \in Nat
      /\ owner' = owner
  BY DEF Inv, TypeOK, Publish
<1>2. /\ \E p \in 1..Len(sent[s]) : sent[s][p] = Event(e.id, "Request", "Request")
      /\ e.kind \in {"Request", "Response"} => e.direction = e.kind
      /\ e.kind # "BodyData" => \A p \in 1..Len(sent[s]) : sent[s][p] # e
  BY DEF Publish, MayPublish
<1>3. e.id <= Len(owner) /\ owner[e.id] = s
  BY <1>2 DEF Inv, Owned, Event
<1>4. /\ sent' = [sent EXCEPT ![s] = Append(@, e)]
      /\ UNCHANGED <<monitored, rx, printed, counters, files>>
  BY DEF Publish
<1>5. /\ owner' \in Seq(Services) /\ Len(owner') <= MaxIds
      /\ Len(owner) <= Len(owner') /\ e.id <= Len(owner') /\ owner'[e.id] = s
      /\ \A i \in 1..Len(owner) : owner'[i] = owner[i]
  BY <1>1, <1>3
<1> QED
  BY <1>2, <1>4, <1>5, SentGrows

-----------------------------------------------------------------------------
(* The printer                                                             *)

(* run_logger: it prints the event it has come to, or stops.               *)
LEMMA LoggerRecvInv ==
  ASSUME Inv, NEW s \in Services, LoggerRecv(s)
  PROVE  Inv'
<1> DEFINE c == rx[s]["logger"]
<1>1. /\ Awaits(s, "logger")
      /\ UNCHANGED <<process, exit, monitored, owner, sent, counters, files>>
  BY DEF LoggerRecv
<1>2. CASE Lagged(s, "logger")
  BY <1>1, <1>2, TaskEndsInv DEF LoggerRecv
<1>3. CASE ~Lagged(s, "logger")
  <2>1. s \in monitored /\ "logger" \in Receivers /\ "writer" \in Receivers
    BY <1>1, AwaitsMonitored DEF Receivers
  <2>2. rx \in Cursors /\ printed \in [Services -> Seq(Nat)]
    BY DEF Inv, TypeOK
  <2>3. c \in Cursor /\ c.next \in Nat /\ c.from \in Nat /\ c.next + 1 \in Nat \ {0}
    BY <2>1, <2>2 DEF Cursors, Cursor
  <2>4. /\ printed' = [printed EXCEPT ![s] = Append(@, c.next)]
        /\ rx' = NextAt(rx, s, "logger", c.next + 1)
    BY <1>3 DEF LoggerRecv, Advance, NextAt
  <2>a. c.next + 1 \in Nat \ {0} /\ rx' = NextAt(rx, s, "logger", c.next + 1)
    BY <2>3, <2>4
  <2>b. printed[s] = [i \in 1..(c.next - c.from) |-> c.from + i - 1]
    BY DEF Inv, PrintedComplete
  <2>c. c = rx[s]["logger"]
    OBVIOUS
  <2> HIDE DEF c
  <2>5. /\ rx' \in Cursors
        /\ rx'[s]["logger"].next = c.next + 1 /\ rx'[s]["logger"].from = c.from
        /\ \A q \in Receivers \ {"logger"} : rx'[s][q] = rx[s][q]
        /\ \A t \in Services \ {s} : rx'[t] = rx[t]
    <3> DEFINE m == c.next + 1
    <3>1. m \in Nat \ {0} /\ rx' = NextAt(rx, s, "logger", m)
      BY <2>a
    <3>2. rx \in Cursors /\ "logger" \in Receivers
      BY <2>1, <2>2
    <3> HIDE DEF m
    <3>3. /\ rx' \in Cursors
          /\ rx'[s]["logger"].next = m /\ rx'[s]["logger"].from = rx[s]["logger"].from
          /\ \A q \in Receivers \ {"logger"} : rx'[s][q] = rx[s][q]
          /\ \A t \in Services \ {s} : rx'[t] = rx[t]
      BY <3>1, <3>2, CursorMoved
    <3> QED
      BY <2>c, <3>3 DEF m
  <2>6. \A t \in Services : rx'[t]["writer"] = rx[t]["writer"]
    BY <2>1, <2>5
  <2>7. c.from <= c.next /\ c.next <= Len(sent[s]) /\ Len(sent[s]) \in Nat
    BY <1>1, <2>c DEF Inv, SubscribedOnce, Awaits, TypeOK
  <2>8. TypeOK'
    <3>1. printed' \in [Services -> Seq(Nat)]
      BY <2>2, <2>3, <2>4
    <3> QED
      BY <1>1, <2>5, <3>1 DEF Inv, TypeOK
  <2>9. SubscribedOnce'
    <3> SUFFICES ASSUME NEW t \in Services, NEW r \in {"logger", "writer"}
                 PROVE  /\ t \notin monitored => rx'[t][r] = Unsubscribed
                        /\ rx'[t][r].from <= rx'[t][r].next
                        /\ rx'[t][r].next <= Len(sent[t]) + 1
      BY <1>1 DEF SubscribedOnce
    <3>1. CASE t = s /\ r = "logger"
      BY <2>1, <2>3, <2>5, <2>7, <3>1
    <3>2. CASE ~(t = s /\ r = "logger")
      <4>1. rx'[t][r] = rx[t][r]
        BY <2>1, <2>5, <3>2
      <4> QED
        BY <4>1 DEF Inv, SubscribedOnce
    <3> QED
      BY <3>1, <3>2
  <2>10. PrintedComplete'
    <3> SUFFICES ASSUME NEW t \in Services
                 PROVE  printed'[t] = [i \in 1..(rx'[t]["logger"].next - rx'[t]["logger"].from)
                                         |-> rx'[t]["logger"].from + i - 1]
      BY DEF PrintedComplete
    <3>1. CASE t # s
      <4>1. printed'[t] = printed[t] /\ rx'[t] = rx[t]
        BY <2>2, <2>4, <2>5, <3>1
      <4> QED
        BY <4>1 DEF Inv, PrintedComplete
    <3>2. CASE t = s
      <4> DEFINE n == c.next - c.from
      <4>1. printed[s] = [i \in 1..n |-> c.from + i - 1] /\ n \in Nat
        BY <2>3, <2>7, <2>b
      <4>2. printed'[s] = Append(printed[s], c.next)
        BY <2>2, <2>4
      <4>3. printed[s] \in Seq(Nat) /\ Len(printed[s]) = n
        <5>1. DOMAIN printed[s] = 1..n /\ n \in Nat /\ printed[s] \in Seq(Nat)
          BY <2>2, <4>1
        <5> HIDE DEF n
        <5> QED
          BY <5>1
      <4>4. (c.next + 1) - c.from = n + 1 /\ c.next = c.from + (n + 1) - 1
        BY <2>3
      <4> HIDE DEF n
      <4>5. Append(printed[s], c.next) = [i \in 1..(n + 1) |-> c.from + i - 1]
        <5>1. Append(printed[s], c.next)
                = [i \in 1..(n + 1) |-> IF i = n + 1 THEN c.next ELSE printed[s][i]]
          BY <4>1, <4>3, <2>3
        <5>2. \A i \in 1..(n + 1) :
                (IF i = n + 1 THEN c.next ELSE printed[s][i]) = c.from + i - 1
          BY <4>1, <4>4
        <5> QED
          BY <5>1, <5>2
      <4>6. 1..(n + 1) = 1..(rx'[s]["logger"].next - rx'[s]["logger"].from)
        <5>1. rx'[s]["logger"].next = c.next + 1 /\ rx'[s]["logger"].from = c.from
          BY <2>5
        <5> QED
          BY ONLY <5>1, <4>4
      <4> QED
        BY <2>5, <3>2, <4>2, <4>5, <4>6
    <3> QED
      BY <3>1, <3>2
  <2>11. Owned' /\ Once' /\ RecordingComplete'
    BY <1>1, <2>6 DEF Inv, Owned, Once, RecordingComplete
  <2>12. FilesNamed'
    <3>1. \A t, p, name : NameOf(t, p, name)' <=> NameOf(t, p, name)
      BY <1>1 DEF NameOf
    <3> QED
      BY <1>1, <2>6, <3>1 DEF Inv, FilesNamed
  <2> QED
    BY <2>8, <2>9, <2>10, <2>11, <2>12 DEF Inv
<1> QED
  BY <1>2, <1>3

-----------------------------------------------------------------------------
(* The recorder                                                            *)

(* One more file of an exchange's direction.                               *)
CountedAt(f, s, id, d) == [f EXCEPT ![s][id][d] = @ + 1]

(* What Writer::data_seq does to the counters: one of them goes up.        *)
LEMMA Counted ==
  ASSUME NEW f \in Counts, NEW s \in Services, NEW id \in 1..MaxIds,
         NEW d \in Directions, NEW g, g = CountedAt(f, s, id, d)
  PROVE  /\ g \in Counts /\ g[s][id][d] = f[s][id][d] + 1
         /\ \A t \in Services, i \in 1..MaxIds, q \in Directions :
              f[t][i][q] <= g[t][i][q]
<1> DEFINE a == [f[s][id] EXCEPT ![d] = @ + 1]
           b == [f[s] EXCEPT ![id] = a]
<1>1. f \in [Services -> [1..MaxIds -> [Directions -> Nat]]]
  BY DEF Counts
<1>2. f[s] \in [1..MaxIds -> [Directions -> Nat]] /\ f[s][id] \in [Directions -> Nat]
  BY <1>1
<1>3. /\ a \in [Directions -> Nat] /\ a[d] = f[s][id][d] + 1
      /\ \A q \in Directions : f[s][id][q] <= a[q]
  BY <1>2
<1>4. g = [f EXCEPT ![s] = b]
  BY DEF CountedAt
<1> HIDE DEF a
<1>5. /\ b \in [1..MaxIds -> [Directions -> Nat]] /\ b[id] = a
      /\ \A i \in (1..MaxIds) \ {id} : b[i] = f[s][i]
  BY <1>2, <1>3
<1> HIDE DEF b
<1>6. /\ g \in [Services -> [1..MaxIds -> [Directions -> Nat]]] /\ g[s] = b
      /\ \A t \in Services \ {s} : g[t] = f[t]
  BY <1>1, <1>4, <1>5
<1>7. ASSUME NEW t \in Services, NEW i \in 1..MaxIds, NEW q \in Directions
      PROVE  f[t][i][q] <= g[t][i][q]
  <2>1. f[t][i][q] \in Nat
    BY <1>1
  <2>2. CASE t = s /\ i = id
    BY <1>3, <1>5, <1>6, <2>2
  <2>3. CASE ~(t = s /\ i = id)
    <3>1. g[t][i] = f[t][i]
      BY <1>5, <1>6, <2>3
    <3> QED
      BY <2>1, <3>1
  <2> QED
    BY <2>2, <2>3
<1>8. g[s][id][d] = f[s][id][d] + 1
  BY <1>3, <1>5, <1>6
<1> QED
  BY <1>6, <1>7, <1>8 DEF Counts

(* The counters are numbers.                                               *)
LEMMA CountType ==
  ASSUME NEW f \in Counts, NEW s \in Services, NEW id \in 1..MaxIds,
         NEW d \in Directions
  PROVE  f[s][id][d] \in Nat
<1>1. f[s] \in [1..MaxIds -> [Directions -> Nat]]
  BY DEF Counts
<1>2. f[s][id] \in [Directions -> Nat]
  BY <1>1
<1> QED
  BY <1>2

(* File names of different kinds of event differ.                          *)
LEMMA NamesApart ==
  ASSUME NEW a, NEW b, NEW c, NEW d, NEW i
  PROVE  /\ <<a, b>> # <<c, d, "error">> /\ <<a, b>> # <<c, d, "data", i>>
         /\ <<a, b, "error">> # <<c, d, "data", i>>
<1>1. Len(<<a, b>>) = 2 /\ Len(<<a, b, "error">>) = 3 /\ Len(<<c, d, "error">>) = 3
      /\ Len(<<c, d, "data", i>>) = 4
  OBVIOUS
<1> QED
  BY <1>1

(* A name already used goes on describing its event when counters go up.   *)
LEMMA NameKept ==
  ASSUME TypeOK, NEW t \in Services, NEW p \in 1..Len(sent[t]), NEW name,
         NameOf(t, p, name), sent' = sent, counters' \in Counts,
         \A u \in Services, i \in 1..MaxIds, q \in Directions :
              counters[u][i][q] <= counters'[u][i][q]
  PROVE  NameOf(t, p, name)'
<1> DEFINE e == sent[t][p]
<1>1. e \in Events /\ sent'[t][p] = e /\ sent[t][p] = e
  BY DEF TypeOK
<1> HIDE DEF e
<1>2. e.id \in 1..MaxIds /\ e.direction \in Directions
  BY <1>1 DEF Events
<1>3. counters \in Counts
  BY DEF TypeOK
<1>4. /\ counters[t][e.id][e.direction] \in Nat
      /\ counters'[t][e.id][e.direction] \in Nat
      /\ counters[t][e.id][e.direction] <= counters'[t][e.id][e.direction]
  BY <1>2, <1>3, CountType
<1> DEFINE k == counters[t][e.id][e.direction]
           l == counters'[t][e.id][e.direction]
<1>5. \A i \in 1..k : i \in 1..l
  <2>1. k \in Nat /\ l \in Nat /\ k <= l
    BY <1>4
  <2> QED
    BY ONLY <2>1
<1>6. CASE e.kind = "BodyData"
  <2>1. PICK i \in 1..k : name = <<e.id, e.direction, "data", i>>
    BY <1>1, <1>6 DEF NameOf
  <2>2. i \in 1..l
    BY <1>5
  <2> QED
    BY <1>1, <1>6, <2>1, <2>2 DEF NameOf
<1>7. CASE e.kind # "BodyData"
  BY <1>1, <1>7 DEF NameOf
<1> QED
  BY <1>6, <1>7

(* The name Writer::event_filename makes has not been used: another event  *)
(* of the same exchange and direction has another kind or number, and no   *)
(* other service has events of that exchange.                              *)
LEMMA FreshName ==
  ASSUME Inv, NEW s \in Services, Awaits(s, "writer"), NEW f \in files
  PROVE  f.name # FileName(s, sent[s][rx[s]["writer"].next])
<1> DEFINE n == rx[s]["writer"].next
           e == sent[s][n]
<1>1. n \in 1..Len(sent[s])
  <2>1. rx[s]["writer"] \in Cursor /\ Len(sent[s]) \in Nat
    BY DEF Inv, TypeOK, Cursors, Receivers
  <2>2. n <= Len(sent[s])
    BY DEF Awaits
  <2> QED
    BY <2>1, <2>2 DEF Cursor
<1>2. PICK t \in Services : \E p \in 1..Len(sent[t]) :
        /\ p < rx[t]["writer"].next /\ NameOf(t, p, f.name)
  BY DEF Inv, FilesNamed
<1>3. PICK p \in 1..Len(sent[t]) :
        p < rx[t]["writer"].next /\ NameOf(t, p, f.name)
  BY <1>2
<1> DEFINE x == sent[t][p]
<1>4. e \in Events /\ x \in Events
  BY <1>1 DEF Inv, TypeOK
<1>5. n = rx[s]["writer"].next /\ e = sent[s][n] /\ x = sent[t][p]
  OBVIOUS
<1>6. owner[e.id] = s /\ owner[x.id] = t
  BY <1>1 DEF Inv, Owned
<1>7. p < n \/ t # s
  BY <1>3
<1> HIDE DEF e, x, n
<1>8. e.kind \in Kinds /\ x.kind \in Kinds
  BY <1>4 DEF Events
<1> SUFFICES ASSUME f.name = FileName(s, e) PROVE FALSE
  BY <1>5
<1>a. \/ x.kind \in {"Request", "Response"} /\ f.name = <<x.id, x.kind>>
      \/ x.kind = "Error" /\ f.name = <<x.id, x.direction, "error">>
      \/ /\ x.kind = "BodyData"
         /\ \E i \in 1..counters[t][x.id][x.direction] :
              f.name = <<x.id, x.direction, "data", i>>
  BY <1>3, <1>5, <1>8 DEF NameOf, Kinds
<1>9. CASE e.kind = "BodyData"
  <2>1. f.name = <<e.id, e.direction, "data", DataSeq(s, e)>>
    BY <1>9 DEF FileName
  <2>2. x.kind = "BodyData"
    BY <1>a, <2>1, NamesApart
  <2>3. PICK i \in 1..counters[t][x.id][x.direction] :
          f.name = <<x.id, x.direction, "data", i>>
    BY <1>a, <2>2
  <2>4. x.id = e.id /\ x.direction = e.direction /\ i = DataSeq(s, e)
    BY <2>1, <2>3
  <2>5. t = s
    BY <1>6, <2>4
  <2>6. counters[s][e.id][e.direction] \in Nat
    BY <1>4, CountType DEF Inv, TypeOK, Events
  <2> QED
    BY <2>4, <2>5, <2>6 DEF DataSeq
<1>10. CASE e.kind = "Error"
  <2>1. f.name = <<e.id, e.direction, "error">>
    BY <1>10 DEF FileName
  <2>2. x.kind = "Error"
    BY <1>a, <2>1, NamesApart
  <2>3. f.name = <<x.id, x.direction, "error">>
    BY <1>a, <2>2
  <2>4. x.id = e.id /\ x.direction = e.direction
    BY <2>1, <2>3
  <2>5. x = e /\ t = s
    BY <1>4, <1>6, <1>10, <2>2, <2>4 DEF Events
  <2>6. p = n
    BY <1>1, <1>5, <1>10, <2>5 DEF Inv, Once
  <2> QED
    BY <1>1, <1>7, <2>5, <2>6
<1>11. CASE e.kind \in {"Request", "Response"}
  <2>1. f.name = <<e.id, e.kind>>
    BY <1>11 DEF FileName
  <2>2. x.kind \in {"Request", "Response"}
    BY <1>a, <2>1, NamesApart
  <2>3. f.name = <<x.id, x.kind>>
    BY <1>a, <2>2
  <2>4. x.id = e.id /\ x.kind = e.kind
    BY <2>1, <2>3
  <2>5. t = s
    BY <1>6, <2>4
  <2>6. x.direction = x.kind /\ e.direction = e.kind
    BY <1>1, <1>5, <1>11, <2>2 DEF Inv, Once
  <2>7. x = e
    BY <1>4, <2>4, <2>6 DEF Events
  <2>8. p = n
    BY <1>1, <1>5, <1>11, <2>5, <2>7 DEF Inv, Once
  <2> QED
    BY <1>1, <1>7, <2>5, <2>8
<1> QED
  BY <1>8, <1>9, <1>10, <1>11 DEF Kinds

(* Writer::run: the next event goes into a file of its own.                *)
LEMMA WriterRecvInv ==
  ASSUME Inv, NEW s \in Services, WriterRecv(s)
  PROVE  Inv'
<1>0. SUFFICES ASSUME NEW c, NEW n, NEW e, NEW name, c = rx[s]["writer"],
                    n = c.next, e = sent[s][n], name = FileName(s, e)
             PROVE  Inv'
  OBVIOUS
<1>1. /\ Awaits(s, "writer")
      /\ UNCHANGED <<process, exit, monitored, ended, owner, sent, printed>>
  BY DEF WriterRecv
<1>2. s \in monitored /\ "logger" \in Receivers /\ "writer" \in Receivers
  BY <1>0, <1>1, AwaitsMonitored DEF Receivers
<1>3. rx \in Cursors /\ counters \in Counts
  BY DEF Inv, TypeOK
<1>4. c \in Cursor /\ n \in Nat \ {0} /\ c.from \in Nat \ {0} /\ n + 1 \in Nat \ {0}
  BY <1>0, <1>2, <1>3 DEF Cursors, Cursor
<1>5. n <= Len(sent[s]) /\ Len(sent[s]) \in Nat /\ c.from <= n
  BY <1>0, <1>1 DEF Awaits, Inv, TypeOK, SubscribedOnce
<1>6. e \in Events /\ e.id \in 1..MaxIds /\ e.direction \in Directions
      /\ e.kind \in Kinds
  <2>1. e \in Events
    BY <1>0, <1>4, <1>5 DEF Inv, TypeOK
  <2> QED
    BY <2>1 DEF Events
<1>7. /\ files' = {f \in files : f.name # name} \cup {[name |-> name, event |-> <<s, n>>]}
      /\ rx' = NextAt(rx, s, "writer", n + 1)
      /\ e.kind = "BodyData" => counters' = CountedAt(counters, s, e.id, e.direction)
      /\ e.kind # "BodyData" => counters' = counters
  BY <1>0 DEF WriterRecv, Write, Advance, NextAt, CountedAt
<1>8. \A f \in files : f.name # name
  BY <1>0, <1>1, FreshName
<1>9. n = c.next /\ e = sent[s][n] /\ name = FileName(s, e) /\ c = rx[s]["writer"]
  BY <1>0
<1>10. /\ counters' \in Counts
       /\ \A u \in Services, i \in 1..MaxIds, q \in Directions :
            counters[u][i][q] <= counters'[u][i][q]
       /\ e.kind = "BodyData"
            => counters'[s][e.id][e.direction] = counters[s][e.id][e.direction] + 1
  <2>1. CASE e.kind = "BodyData"
    <3>1. counters' = CountedAt(counters, s, e.id, e.direction)
      BY <1>7, <2>1
    <3> QED
      BY <1>3, <1>6, <3>1, Counted
  <2>2. CASE e.kind # "BodyData"
    <3>1. counters' = counters
      BY <1>7, <2>2
    <3>2. \A u \in Services, i \in 1..MaxIds, q \in Directions :
            counters[u][i][q] \in Nat
      BY <1>3, CountType
    <3> QED
      BY <1>3, <2>2, <3>1, <3>2
  <2> QED
    BY <2>1, <2>2
<1>11. files' = files \cup {[name |-> name, event |-> <<s, n>>]}
  BY <1>7, <1>8
<1>12. /\ rx' \in Cursors
       /\ rx'[s]["writer"].next = n + 1 /\ rx'[s]["writer"].from = c.from
       /\ \A q \in Receivers \ {"writer"} : rx'[s][q] = rx[s][q]
       /\ \A t \in Services \ {s} : rx'[t] = rx[t]
  <2> DEFINE m == n + 1
  <2>1. m \in Nat \ {0} /\ rx' = NextAt(rx, s, "writer", m)
    BY <1>4, <1>7
  <2> HIDE DEF m
  <2>2. /\ rx' \in Cursors
        /\ rx'[s]["writer"].next = m /\ rx'[s]["writer"].from = rx[s]["writer"].from
        /\ \A q \in Receivers \ {"writer"} : rx'[s][q] = rx[s][q]
        /\ \A t \in Services \ {s} : rx'[t] = rx[t]
    BY <1>2, <1>3, <2>1, CursorMoved
  <2> QED
    BY <1>9, <2>2 DEF m
<1>13. \A t \in Services : rx'[t]["logger"] = rx[t]["logger"]
  BY <1>2, <1>12
<1>14. TypeOK'
  BY <1>1, <1>10, <1>12 DEF Inv, TypeOK
<1>15. SubscribedOnce'
  <2> SUFFICES ASSUME NEW t \in Services, NEW r \in {"logger", "writer"}
               PROVE  /\ t \notin monitored => rx'[t][r] = Unsubscribed
                      /\ rx'[t][r].from <= rx'[t][r].next
                      /\ rx'[t][r].next <= Len(sent[t]) + 1
    BY <1>1 DEF SubscribedOnce
  <2>1. CASE t = s /\ r = "writer"
    BY <1>2, <1>4, <1>5, <1>12, <2>1
  <2>2. CASE ~(t = s /\ r = "writer")
    <3>1. rx'[t][r] = rx[t][r]
      BY <1>2, <1>12, <2>2
    <3> QED
      BY <3>1 DEF Inv, SubscribedOnce
  <2> QED
    BY <2>1, <2>2
<1>16. Owned' /\ Once' /\ PrintedComplete'
  <2>1. Owned' /\ Once'
    BY <1>1 DEF Inv, Owned, Once
  <2>2. PrintedComplete'
    BY <1>1, <1>13 DEF Inv, PrintedComplete
  <2> QED
    BY <2>1, <2>2
<1>17. \A t \in Services : rx[t]["writer"].next \in Nat /\ rx'[t]["writer"].next \in Nat
         /\ rx[t]["writer"].next <= rx'[t]["writer"].next
  <2> SUFFICES ASSUME NEW t \in Services
               PROVE  /\ rx[t]["writer"].next \in Nat /\ rx'[t]["writer"].next \in Nat
                      /\ rx[t]["writer"].next <= rx'[t]["writer"].next
    OBVIOUS
  <2>1. rx[t]["writer"].next \in Nat
    BY <1>2, <1>3 DEF Cursors, Cursor
  <2>2. CASE t = s
    BY <1>4, <1>9, <1>12, <2>2
  <2>3. CASE t # s
    BY <1>12, <2>1, <2>3
  <2> QED
    BY <2>2, <2>3
<1>18. FilesNamed'
  <2> SUFFICES ASSUME NEW f \in files'
               PROVE  \E t \in Services : \E p \in 1..Len(sent[t]) :
                        /\ f.event = <<t, p>> /\ p < rx'[t]["writer"].next
                        /\ NameOf(t, p, f.name)'
    BY <1>1 DEF FilesNamed
  <2>1. CASE f \in files
    <3>1. PICK t \in Services : \E p \in 1..Len(sent[t]) :
            /\ f.event = <<t, p>> /\ p < rx[t]["writer"].next
            /\ NameOf(t, p, f.name)
      BY <2>1 DEF Inv, FilesNamed
    <3>2. PICK p \in 1..Len(sent[t]) :
            /\ f.event = <<t, p>> /\ p < rx[t]["writer"].next
            /\ NameOf(t, p, f.name)
      BY <3>1
    <3>3. NameOf(t, p, f.name)'
      BY <1>1, <1>10, <3>2, NameKept DEF Inv
    <3>4. p < rx'[t]["writer"].next
      BY <1>17, <3>2
    <3> QED
      BY <3>2, <3>3, <3>4
  <2>2. CASE f = [name |-> name, event |-> <<s, n>>]
    <3>1. f.event = <<s, n>> /\ f.name = FileName(s, e)
      BY <1>9, <2>2
    <3>2. n \in 1..Len(sent[s]) /\ n < rx'[s]["writer"].next
      BY <1>4, <1>5, <1>12
    <3>3. sent'[s][n] = e
      BY <1>1, <1>9
    <3>4. NameOf(s, n, f.name)'
      <4>1. CASE e.kind = "BodyData"
        <5> DEFINE k == counters'[s][e.id][e.direction]
        <5>1. f.name = <<e.id, e.direction, "data", k>>
          BY <1>10, <3>1, <4>1 DEF FileName, DataSeq
        <5>2. counters[s][e.id][e.direction] \in Nat
          BY <1>3, <1>6, CountType
        <5>3. k \in 1..k
          BY <1>10, <4>1, <5>2
        <5> QED
          BY <3>3, <4>1, <5>1, <5>3 DEF NameOf
      <4>2. CASE e.kind # "BodyData"
        <5>1. e.kind \in {"Request", "Response"} => f.name = <<e.id, e.kind>>
          BY <3>1 DEF FileName
        <5>2. e.kind = "Error" => f.name = <<e.id, e.direction, "error">>
          BY <3>1 DEF FileName
        <5> QED
          BY <3>3, <4>2, <5>1, <5>2 DEF NameOf
      <4> QED
        BY <4>1, <4>2
    <3> QED
      BY ONLY <3>1, <3>2, <3>4, s \in Services
  <2> QED
    BY <1>11, <2>1, <2>2
<1>19. RecordingComplete'
  <2> SUFFICES ASSUME NEW t \in Services,
                      NEW p \in rx'[t]["writer"].from..(rx'[t]["writer"].next - 1)
               PROVE  \E f \in files' : f.event = <<t, p>>
    BY DEF RecordingComplete
  <2>1. CASE t = s /\ p = n
    <3> DEFINE g == [name |-> name, event |-> <<s, n>>]
    <3>1. g \in files' /\ g.event = <<t, p>>
      BY <1>11, <2>1
    <3> QED
      BY <3>1
  <2>2. CASE ~(t = s /\ p = n)
    <3>1. p \in rx[t]["writer"].from..(rx[t]["writer"].next - 1)
      BY <1>4, <1>9, <1>12, <2>2
    <3> QED
      BY <1>11, <3>1 DEF Inv, RecordingComplete
  <2> QED
    BY <2>1, <2>2
<1> QED
  BY <1>14, <1>15, <1>16, <1>18, <1>19 DEF Inv

-----------------------------------------------------------------------------
(* main                                                                    *)

(* The printer and the recorder of a service subscribe at the end of what  *)
(* it has published, and have taken nothing.                               *)
LEMMA StartMonitorsInv ==
  ASSUME Inv, NEW s \in Services, StartMonitors(s)
  PROVE  Inv'
<1>0. SUFFICES ASSUME NEW c, NEW d,
                      c = IF PrintMessages THEN Subscribed(s) ELSE rx[s]["logger"],
                      d = IF RecordExamples THEN Subscribed(s) ELSE rx[s]["writer"]
               PROVE  Inv'
  OBVIOUS
<1>1. /\ s \notin monitored /\ monitored' = monitored \cup {s}
      /\ UNCHANGED <<exit, ended, owner, sent, printed, counters, files>>
  BY DEF StartMonitors
<1>2. rx \in Cursors /\ "logger" \in Receivers /\ "writer" \in Receivers
  BY DEF Inv, TypeOK, Receivers
<1>3. rx[s]["logger"] = Unsubscribed /\ rx[s]["writer"] = Unsubscribed
  BY <1>1 DEF Inv, SubscribedOnce
<1>4. /\ c \in Cursor /\ c.from = c.next /\ c.next <= Len(sent[s]) + 1
      /\ d \in Cursor /\ d.from = d.next /\ d.next <= Len(sent[s]) + 1
  <2>1. \A x \in {Subscribed(s), Unsubscribed} :
          x \in Cursor /\ x.from = x.next /\ x.next <= Len(sent[s]) + 1
    <3>1. Len(sent[s]) \in Nat
      BY DEF Inv, TypeOK
    <3> QED
      BY <3>1, SubscribedType DEF Inv
  <2>2. c \in {Subscribed(s), Unsubscribed} /\ d \in {Subscribed(s), Unsubscribed}
    BY <1>0, <1>3
  <2> QED
    BY <2>1, <2>2
<1>5. rx' = CursorAt(CursorAt(rx, s, "logger", c), s, "writer", d)
  <2>1. rx' = [rx EXCEPT ![s]["logger"] = c, ![s]["writer"] = d]
    BY <1>0 DEF StartMonitors
  <2> QED
    BY <1>2, <2>1 DEF CursorAt
<1>6. /\ rx' \in Cursors /\ rx'[s]["logger"] = c /\ rx'[s]["writer"] = d
      /\ \A t \in Services \ {s} : rx'[t] = rx[t]
  <2>0. SUFFICES ASSUME NEW g, g = CursorAt(rx, s, "logger", c)
                 PROVE  /\ rx' \in Cursors
                        /\ rx'[s]["logger"] = c /\ rx'[s]["writer"] = d
                        /\ \A t \in Services \ {s} : rx'[t] = rx[t]
    OBVIOUS
  <2>1. /\ g \in Cursors /\ g[s]["logger"] = c
        /\ \A t \in Services \ {s} : g[t] = rx[t]
    BY <1>2, <1>4, <2>0, CursorSet
  <2>2. rx' = CursorAt(g, s, "writer", d)
    BY <1>5, <2>0
  <2>3. /\ rx' \in Cursors /\ rx'[s]["writer"] = d
        /\ \A q \in Receivers \ {"writer"} : rx'[s][q] = g[s][q]
        /\ \A t \in Services \ {s} : rx'[t] = g[t]
    <3>1. g \in Cursors /\ "writer" \in Receivers /\ d \in Cursor
      BY <1>2, <1>4, <2>1
    <3> QED
      BY <2>2, <3>1, CursorSet
  <2> QED
    BY <1>2, <2>1, <2>3
<1>7. TypeOK' /\ Owned' /\ Once'
  BY <1>1, <1>6 DEF Inv, TypeOK, Owned, Once
<1>8. SubscribedOnce'
  <2> SUFFICES ASSUME NEW t \in Services, NEW r \in {"logger", "writer"}
               PROVE  /\ t \notin monitored' => rx'[t][r] = Unsubscribed
                      /\ rx'[t][r].from <= rx'[t][r].next
                      /\ rx'[t][r].next <= Len(sent[t]) + 1
    BY <1>1 DEF SubscribedOnce
  <2>1. CASE t = s
    <3>1. t \in monitored' /\ rx'[t][r] \in {c, d}
      BY <1>1, <1>6, <2>1
    <3>2. c.from <= c.next /\ d.from <= d.next
      BY <1>4 DEF Cursor
    <3> QED
      BY <1>4, <2>1, <3>1, <3>2
  <2>2. CASE t # s
    <3>1. rx'[t][r] = rx[t][r] /\ (t \notin monitored' => t \notin monitored)
      BY <1>1, <1>6, <2>2
    <3> QED
      BY <3>1 DEF Inv, SubscribedOnce
  <2> QED
    BY <2>1, <2>2
<1>9. PrintedComplete'
  <2> SUFFICES ASSUME NEW t \in Services
               PROVE  printed[t] = [i \in 1..(rx'[t]["logger"].next - rx'[t]["logger"].from)
                                      |-> rx'[t]["logger"].from + i - 1]
    BY <1>1 DEF PrintedComplete
  <2>1. CASE t # s
    BY <1>6, <2>1 DEF Inv, PrintedComplete
  <2>2. CASE t = s
    <3>1. Unsubscribed.next = 1 /\ Unsubscribed.from = 1
      BY SubscribedType DEF Inv
    <3>a. printed[s] = [i \in 1..(rx[s]["logger"].next - rx[s]["logger"].from)
                          |-> rx[s]["logger"].from + i - 1]
      BY DEF Inv, PrintedComplete
    <3>b. rx[s]["logger"].next = 1 /\ rx[s]["logger"].from = 1
      BY <1>3, <3>1
    <3>2. printed[s] = [i \in 1..(1 - 1) |-> 1 + i - 1]
      BY ONLY <3>a, <3>b
    <3>3. rx'[s]["logger"].next - rx'[s]["logger"].from = 0
      BY <1>4, <1>6 DEF Cursor
    <3> DEFINE k == rx'[s]["logger"].next - rx'[s]["logger"].from
               a == rx'[s]["logger"].from
    <3>4. k = 0
      BY <3>3
    <3> HIDE DEF k, a
    <3>5. [i \in 1..(1 - 1) |-> 1 + i - 1] = [i \in 1..k |-> a + i - 1]
      BY <3>4
    <3> QED
      BY <2>2, <3>2, <3>5 DEF k, a
  <2> QED
    BY <2>1, <2>2
<1>10. RecordingComplete'
  <2> SUFFICES ASSUME NEW t \in Services,
                      NEW p \in rx'[t]["writer"].from..(rx'[t]["writer"].next - 1)
               PROVE  \E f \in files : f.event = <<t, p>>
    BY <1>1 DEF RecordingComplete
  <2>1. CASE t # s
    BY <1>6, <2>1 DEF Inv, RecordingComplete
  <2>2. CASE t = s
    BY <1>4, <1>6, <2>2 DEF Cursor
  <2> QED
    BY <2>1, <2>2
<1>11. FilesNamed'
  <2> SUFFICES ASSUME NEW f \in files
               PROVE  \E t \in Services : \E p \in 1..Len(sent[t]) :
                        /\ f.event = <<t, p>> /\ p < rx'[t]["writer"].next
                        /\ NameOf(t, p, f.name)'
    BY <1>1 DEF FilesNamed
  <2>1. PICK t \in Services : \E p \in 1..Len(sent[t]) :
          /\ f.event = <<t, p>> /\ p < rx[t]["writer"].next
          /\ NameOf(t, p, f.name)
    BY DEF Inv, FilesNamed
  <2>2. PICK p \in 1..Len(sent[t]) :
          /\ f.event = <<t, p>> /\ p < rx[t]["writer"].next
          /\ NameOf(t, p, f.name)
    BY <2>1
  <2>3. t # s
    <3>1. Unsubscribed.next = 1
      BY SubscribedType DEF Inv
    <3> QED
      BY <1>3, <2>2, <3>1
  <2>4. NameOf(t, p, f.name)'
    BY <1>1, <2>2 DEF NameOf
  <2> QED
    BY <1>6, <2>2, <2>3, <2>4
<1> QED
  BY <1>7, <1>8, <1>9, <1>10, <1>11 DEF Inv

-----------------------------------------------------------------------------
(* The invariant                                                           *)

(* It holds before main has started anything.                              *)
LEMMA InitInv ==
  ASSUME Init
  PROVE  Inv
<1>1. TypeOK
  BY MonitorsAssumption DEF Init, TypeOK, Unsubscribed, Cursors, Cursor, Counts
<1>2. \A s \in Services : Len(sent[s]) = 0
  BY DEF Init
<1>3. \A s \in Services : \A r \in {"logger", "writer"} : rx[s][r] = Unsubscribed
  BY DEF Init, Receivers
<1>4. Unsubscribed.next = 1 /\ Unsubscribed.from = 1
  BY DEF Unsubscribed
<1>5. SubscribedOnce /\ Owned /\ Once
  BY <1>2, <1>3, <1>4 DEF SubscribedOnce, Owned, Once
<1>6. FilesNamed /\ RecordingComplete
  BY <1>3, <1>4 DEF Init, FilesNamed, RecordingComplete
<1>7. PrintedComplete
  BY <1>3, <1>4 DEF Init, PrintedComplete
<1> QED
  BY <1>1, <1>5, <1>6, <1>7 DEF Inv

(* Every step of every task keeps it.                                      *)
LEMMA NextInv ==
  ASSUME Inv, [Next]_vars
  PROVE  Inv'
<1>1. ASSUME NEW s \in Services, NEW id \in 1..MaxIds, Accept(s, id)
      PROVE  Inv'
  BY <1>1, AcceptInv
<1>2. ASSUME NEW s \in Services, NEW id \in 1..MaxIds, NEW d \in Directions,
             NEW kind \in Kinds, Publish(s, Event(id, d, kind))
      PROVE  Inv'
  <2>1. Event(id, d, kind) \in Events
    BY DEF Event, Events
  <2> QED
    BY <1>2, <2>1, PublishInv
<1>3. ASSUME NEW s \in Services, NEW c \in Clients,
             ClientSubscribes(s, c) \/ ClientRecv(s, c) \/ ClientLeaves(s, c)
      PROVE  Inv'
  BY <1>3, ClientInv
<1>4. ASSUME NEW s \in Services, LoggerRecv(s)
      PROVE  Inv'
  BY <1>4, LoggerRecvInv
<1>5. ASSUME NEW s \in Services, WriterRecv(s)
      PROVE  Inv'
  BY <1>5, WriterRecvInv
<1>6. ASSUME NEW s \in Services, WriterFails(s)
      PROVE  Inv'
  BY <1>6, TaskEndsInv DEF WriterFails
<1>7. ASSUME NEW s \in Services, StartMonitors(s)
      PROVE  Inv'
  BY <1>7, StartMonitorsInv
<1>8. ASSUME NEW s \in Services, ServiceFails(s)
      PROVE  Inv'
  BY <1>8, Idle DEF ServiceFails
<1>9. CASE Exit \/ Signal
  BY <1>9, Idle DEF Exit, Signal
<1>10. CASE UNCHANGED vars
  BY <1>10, Idle DEF vars
<1> QED
  BY <1>1, <1>2, <1>3, <1>4, <1>5, <1>6, <1>7, <1>8, <1>9, <1>10 DEF Next

(* The inductive invariant holds in every behaviour.                       *)
LEMMA Invariance == Spec => []Inv
<1>1. Init => Inv
  BY InitInv
<1>2. Inv /\ [Next]_vars => Inv'
  BY NextInv
<1> QED
  BY <1>1, <1>2, PTL DEF Spec

(* The printer leaves no gap: what run_logger has printed of a service is  *)
(* every event from its subscription to where it has come, in order, for   *)
(* any buffer size and any number of services and clients.                 *)
THEOREM PrintedCompleteHolds == Spec => []PrintedComplete
<1>1. Inv => PrintedComplete
  BY DEF Inv
<1> QED
  BY <1>1, Invariance, PTL

(* The recorder loses nothing: every event Writer::run has taken since it  *)
(* subscribed is in a file of its own, although the recorders of all       *)
(* services write to one directory.                                        *)
THEOREM RecordingCompleteHolds == Spec => []RecordingComplete
<1>1. Inv => RecordingComplete
  BY DEF Inv
<1> QED
  BY <1>1, Invariance, PTL
=============================================================================
