------------------------------ MODULE Monitors ------------------------------
(***************************************************************************)
(* The receivers of a service's event broadcast and the process around     *)
(* them: the message printer, the example recorder, the clients of the     *)
(* /service/{name}/events stream, and main(), which ends the process when  *)
(* one of its tasks ends.                                                  *)
(*                                                                         *)
(*   src/src/proxy/monitor.rs   Publisher, run_logger, Writer              *)
(*   src/src/server/events.rs   handle_events, json_stream                 *)
(*   src/src/main.rs            main, start_event_printer,                 *)
(*                              start_example_recorder                     *)
(*   src/src/proxy/group.rs     start_services                             *)
(*                                                                         *)
(* The broadcast keeps its last BufSize events. A receiver that falls      *)
(* further behind is told so (Lagged) and goes on with the oldest kept.    *)
(* Exchanges are the environment: each publishes its Request event first,  *)
(* its Response event once and at most one Error per direction (see        *)
(* Exchange and BodyPipeline).                                             *)
(***************************************************************************)
EXTENDS Naturals, Sequences, Functions

CONSTANTS
  Services,        (* names of the configured services                     *)
  Clients,         (* clients of the event stream                          *)
  Watched,         (* services whose event stream they ask for             *)
  PrintMessages,   (* PRINT_MESSAGES is set                                *)
  RecordExamples,  (* RECORD_EXAMPLES names a directory                    *)
  BufSize,         (* BUFSIZE                                              *)
  MaxIds,          (* bound on the exchanges                               *)
  MaxEvents        (* bound on the events of all services                  *)

ASSUME MonitorsAssumption ==
  /\ Clients \cap {"logger", "writer"} = {}
  /\ Watched \subseteq Services
  /\ PrintMessages \in BOOLEAN
  /\ RecordExamples \in BOOLEAN
  /\ BufSize \in Nat \ {0}
  /\ MaxIds \in Nat
  /\ MaxEvents \in Nat

Directions == {"Request", "Response"}
Kinds == {"Request", "Response", "BodyData", "Error"}
Receivers == {"logger", "writer"} \cup Clients

VARIABLES
  process,    (* "starting", "running" (in select!) or "exited"            *)
  exit,       (* why it exited                                             *)
  monitored,  (* services whose printer and recorder were started          *)
  ended,      (* <<service, task>> pairs of proxy_join_set that have ended *)
  owner,      (* the service of each exchange id given out                 *)
  sent,       (* history: the events published by each service             *)
  rx,         (* the receivers: subscribed from, and next event to read    *)
  printed,    (* history: positions the printer has printed                *)
  counters,   (* Writer.frame_counters of each service                     *)
  files       (* the files of the directory: name and event                *)

vars == <<process, exit, monitored, ended, owner, sent, rx, printed, counters,
          files>>

Unsubscribed == [on |-> FALSE, from |-> 1, next |-> 1]

Init ==
  /\ process = "starting" /\ exit = "none"
  /\ monitored = {} /\ ended = {}
  /\ owner = <<>>
  /\ sent = [s \in Services |-> <<>>]
  /\ rx = [s \in Services |-> [r \in Receivers |-> Unsubscribed]]
  /\ printed = [s \in Services |-> <<>>]
  /\ counters = [s \in Services |-> [id \in 1..MaxIds |->
                                       [d \in Directions |-> 0]]]
  /\ files = {}

-----------------------------------------------------------------------------
(* Publishing                                                              *)

(* Fault: each service counts its exchanges for itself.                    *)
NewIdPerService(s, id) ==
  id = Len(SelectSeq(owner, LAMBDA o : o = s)) + 1

(* ExchangeMeta::new: ids are unique in the process.                       *)
NewId(s, id) == id = Len(owner) + 1

Event(id, d, kind) == [id |-> id, direction |-> d, kind |-> kind]

(* The environment: what exchange id can publish next on s.                *)
MayPublish(s, e) ==
  LET past == {sent[s][i] : i \in 1..Len(sent[s])}
  IN /\ e.kind # "Request" => Event(e.id, "Request", "Request") \in past
     /\ e.kind \in {"Request", "Response"} => e.direction = e.kind
     /\ e.kind # "BodyData" => e \notin past

(* How many events there were, for the bound.                              *)
Published == FoldFunctionOnSet(+, 0, [s \in Services |-> Len(sent[s])], Services)

Receiving(s) == \E r \in Receivers : rx[s][r].on

(* An exchange starts and publishes its Request event. A publication finds *)
(* a receiver or fails, which is the exchange's affair.                    *)
Accept(s, id) ==
  /\ process # "exited" /\ Receiving(s)
  /\ Len(owner) < MaxIds /\ Published < MaxEvents
  /\ NewId(s, id)
  /\ owner' = Append(owner, s)
  /\ sent' = [sent EXCEPT ![s] = Append(@, Event(id, "Request", "Request"))]
  /\ UNCHANGED <<process, exit, monitored, ended, rx, printed, counters, files>>

(* Publisher::send                                                         *)
Publish(s, e) ==
  /\ process # "exited" /\ Receiving(s) /\ Published < MaxEvents
  /\ e.kind # "Request" /\ MayPublish(s, e)
  /\ sent' = [sent EXCEPT ![s] = Append(@, e)]
  /\ UNCHANGED <<process, exit, monitored, ended, owner, rx, printed, counters,
                 files>>

-----------------------------------------------------------------------------
(* Receiving                                                               *)

(* The position of the oldest event the broadcast still holds.             *)
Oldest(s) == IF Len(sent[s]) > BufSize THEN Len(sent[s]) - BufSize + 1 ELSE 1

Awaits(s, r) ==
  process # "exited" /\ rx[s][r].on /\ rx[s][r].next <= Len(sent[s])

Lagged(s, r) == rx[s][r].next < Oldest(s)

(* Publisher::subscribe: the events from now on.                           *)
Subscribed(s) == [on |-> TRUE, from |-> Len(sent[s]) + 1,
                  next |-> Len(sent[s]) + 1]

Advance(s, r) == rx' = [rx EXCEPT ![s][r].next = @ + 1]

(* A task of proxy_join_set returns; its receiver is dropped.              *)
TaskEnds(s, task) ==
  /\ ended' = ended \cup {<<s, task>>}
  /\ rx' = [rx EXCEPT ![s][task].on = FALSE]

(* handle_events                                                           *)
ClientSubscribes(s, c) ==
  /\ process # "exited" /\ s \in Watched /\ ~rx[s][c].on
  /\ rx' = [rx EXCEPT ![s][c] = Subscribed(s)]
  /\ UNCHANGED <<process, exit, monitored, ended, owner, sent, printed,
                 counters, files>>

(* json_stream, filter_map: a lagged receive is logged and passed over.    *)
ClientRecv(s, c) ==
  /\ Awaits(s, c)
  /\ IF Lagged(s, c)
     THEN rx' = [rx EXCEPT ![s][c].next = Oldest(s)]
     ELSE Advance(s, c)
  /\ UNCHANGED <<process, exit, monitored, ended, owner, sent, printed,
                 counters, files>>

ClientLeaves(s, c) ==
  /\ process # "exited" /\ rx[s][c].on
  /\ rx' = [rx EXCEPT ![s][c] = Unsubscribed]
  /\ UNCHANGED <<process, exit, monitored, ended, owner, sent, printed,
                 counters, files>>

(* Fault: the printer passes over a lag.                                   *)
LoggerRecvSkips(s) ==
  /\ Awaits(s, "logger")
  /\ IF Lagged(s, "logger")
     THEN /\ rx' = [rx EXCEPT ![s]["logger"].next = Oldest(s)]
          /\ UNCHANGED <<ended, printed>>
     ELSE /\ printed' = [printed EXCEPT ![s] = Append(@, rx[s]["logger"].next)]
          /\ Advance(s, "logger")
          /\ UNCHANGED ended
  /\ UNCHANGED <<process, exit, monitored, owner, sent, counters, files>>

(* run_logger: `?` on a lagged receive ends the task.                      *)
LoggerRecv(s) ==
  /\ Awaits(s, "logger")
  /\ IF Lagged(s, "logger")
     THEN TaskEnds(s, "logger") /\ UNCHANGED printed
     ELSE /\ printed' = [printed EXCEPT ![s] = Append(@, rx[s]["logger"].next)]
          /\ Advance(s, "logger")
          /\ UNCHANGED ended
  /\ UNCHANGED <<process, exit, monitored, owner, sent, counters, files>>

(* Writer::data_seq                                                        *)
DataSeq(s, e) == counters[s][e.id][e.direction] + 1

(* Writer::event_filename                                                  *)
FileName(s, e) ==
  CASE e.kind \in {"Request", "Response"} -> <<e.id, e.kind>>
    [] e.kind = "BodyData" -> <<e.id, e.direction, "data", DataSeq(s, e)>>
    [] e.kind = "Error"    -> <<e.id, e.direction, "error">>

(* fs::write: a file of that name is replaced.                             *)
Write(name, event) ==
  files' = {f \in files : f.name # name} \cup {[name |-> name, event |-> event]}

(* Writer::run: receive, name the file, write it. A lagged receive and a   *)
(* failed write end the task.                                              *)
WriterRecv(s) ==
  /\ Awaits(s, "writer")
  /\ ~Lagged(s, "writer")
  /\ LET p == rx[s]["writer"].next
         e == sent[s][p]
     IN /\ Write(FileName(s, e), <<s, p>>)
        /\ counters' = IF e.kind = "BodyData"
                       THEN [counters EXCEPT ![s][e.id][e.direction] = @ + 1]
                       ELSE counters
  /\ Advance(s, "writer")
  /\ UNCHANGED <<process, exit, monitored, ended, owner, sent, printed>>

WriterFails(s) ==
  /\ Awaits(s, "writer")
  /\ TaskEnds(s, "writer")
  /\ UNCHANGED <<process, exit, monitored, owner, sent, printed, counters, files>>

-----------------------------------------------------------------------------
(* main                                                                    *)

(* The services are already running when the loop of main subscribes the   *)
(* printer and the recorder of each.                                       *)
StartMonitors(s) ==
  /\ process = "starting" /\ s \notin monitored
  /\ monitored' = monitored \cup {s}
  /\ rx' = [rx EXCEPT
       ![s]["logger"] = IF PrintMessages THEN Subscribed(s) ELSE @,
       ![s]["writer"] = IF RecordExamples THEN Subscribed(s) ELSE @]
  /\ process' = IF monitored' = Services THEN "running" ELSE process
  /\ UNCHANGED <<exit, ended, owner, sent, printed, counters, files>>

(* Service::run: bind, accept() or peer_addr() fails.                      *)
ServiceFails(s) ==
  /\ process # "exited" /\ <<s, "service">> \notin ended
  /\ ended' = ended \cup {<<s, "service">>}
  /\ UNCHANGED <<process, exit, monitored, owner, sent, rx, printed, counters,
                 files>>

(* Fault: main waits for the services only.                                *)
ExitOnServicesOnly ==
  /\ process = "running"
  /\ \E t \in ended : t[2] = "service"
  /\ process' = "exited" /\ exit' = "task"
  /\ UNCHANGED <<monitored, ended, owner, sent, rx, printed, counters, files>>

(* select!: join_next() gives the first task that has ended.               *)
Exit ==
  /\ process = "running" /\ ended # {}
  /\ process' = "exited" /\ exit' = "task"
  /\ UNCHANGED <<monitored, ended, owner, sent, rx, printed, counters, files>>

(* select!: SIGTERM or ctrl-c.                                             *)
Signal ==
  /\ process = "running"
  /\ process' = "exited" /\ exit' = "signal"
  /\ UNCHANGED <<monitored, ended, owner, sent, rx, printed, counters, files>>

Next ==
  \/ \E s \in Services :
       \/ \E id \in 1..MaxIds : Accept(s, id)
       \/ \E id \in 1..MaxIds, d \in Directions, kind \in Kinds :
            Publish(s, Event(id, d, kind))
       \/ \E c \in Clients :
            ClientSubscribes(s, c) \/ ClientRecv(s, c) \/ ClientLeaves(s, c)
       \/ LoggerRecv(s) \/ WriterRecv(s) \/ WriterFails(s)
       \/ StartMonitors(s) \/ ServiceFails(s)
  \/ Exit \/ Signal

Spec == Init /\ [][Next]_vars

(* main runs: its loop does not wait, and select! is polled when a task    *)
(* ends.                                                                   *)
FairSpec ==
  /\ Spec
  /\ WF_vars(Exit)
  /\ \A s \in Services : WF_vars(StartMonitors(s))

-----------------------------------------------------------------------------
(* Every event the recorder has taken since it subscribed is in a file of  *)
(* its own: none is skipped when it falls behind, and no file is written   *)
(* over, although the recorders of all services share one directory and    *)
(* name the files by exchange, direction and sequence number (Writer).     *)
RecordingComplete ==
  \A s \in Services :
    \A p \in rx[s]["writer"].from..(rx[s]["writer"].next - 1) :
      \E f \in files : f.event = <<s, p>>

(* The printer prints every event from the one it subscribed at to the one *)
(* it has reached, in order: it stops rather than leave a gap.             *)
PrintedComplete ==
  \A s \in Services :
    LET r == rx[s]["logger"]
    IN printed[s] = [i \in 1..(r.next - r.from) |-> r.from + i - 1]

(* The process does not go on half dead: when the task of a service, a     *)
(* printer or a recorder has ended, main ends the process.                 *)
FailFast == (ended # {}) ~> (process = "exited")
=============================================================================
