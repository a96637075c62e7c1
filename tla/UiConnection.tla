---------------------------- MODULE UiConnection ----------------------------
(***************************************************************************)
(* How the page finds its services, subscribes to the feed of one of them  *)
(* and tells the user how the connection is doing.                         *)
(*                                                                         *)
(*   src/ui/src/components/app-shell.tsx  ShellInner's effects, ListPanel  *)
(*   src/ui/src/api/sse.ts, api/info.ts   EventSource, /info               *)
(*   src/ui/src/lib/connection-toast.ts   which toast a change warrants    *)
(*                                                                         *)
(* Store updates take effect at once, React's effects only when it gets    *)
(* to them (Commit): in between the page still holds the subscription of   *)
(* the values it last committed.                                           *)
(***************************************************************************)
EXTENDS Naturals, Sequences

CONSTANTS
  Services,    (* service names                                            *)
  Protocols,   (* protocols a service can have                             *)
  MaxListed,   (* bound on the services /info lists                        *)
  MaxErrors    (* bound on the errors of event sources                     *)

None == "none"

ASSUME ConnectionAssumption ==
  /\ None \notin Services \cup Protocols
  /\ MaxListed \in Nat /\ MaxErrors \in Nat

VARIABLES
  fetches,         (* /info requests: React's StrictMode mounts twice      *)
  info,            (* the services /info listed, empty before it answers   *)
  service,         (* the store's service, protocol and connection         *)
  protocol,
  connection,
  committed,       (* the values the effects last ran for                  *)
  sources,         (* the EventSource of each service, if there is one     *)
  prevConnection,
  toasts,          (* the connection toasts of the present feed so far     *)
  timer,           (* the 300 ms timer of the connecting hint is armed     *)
  showConnecting,
  errors           (* how many errors there have been                      *)

feedVars == <<sources, prevConnection, toasts, connection>>
hintVars == <<timer, showConnecting>>
vars == <<fetches, info, service, protocol, committed, feedVars, hintVars,
          errors>>


(* A listing is the services of /info in their order, each once.           *)
Listings ==
  {l \in UNION {[1..n -> Services \X Protocols] : n \in 0..MaxListed} :
     \A i, j \in DOMAIN l : l[i][1] = l[j][1] => i = j}

Current == [service |-> service, info |-> info, connection |-> connection]
Settled == committed = Current

Init ==
  /\ fetches \in {<<"pending">>, <<"cancelled", "pending">>}
  /\ info = <<>>
  /\ service = None /\ protocol = None /\ connection = "connecting"
  /\ committed = [service |-> None, info |-> <<>>, connection |-> None]
  /\ sources = [s \in Services |-> None]
  /\ prevConnection = None /\ toasts = <<>>
  /\ timer = FALSE /\ showConnecting = FALSE
  /\ errors = 0

-----------------------------------------------------------------------------
(* fetchInfo().then: a cancelled effect ignores the answer, and a service  *)
(* that was chosen meanwhile stays.                                        *)
FetchAnswers(i, listing) ==
  /\ fetches[i] # "settled"
  /\ fetches' = [fetches EXCEPT ![i] = "settled"]
  /\ IF fetches[i] = "cancelled"
     THEN UNCHANGED <<info, service, protocol>>
     ELSE /\ info' = listing
          /\ IF listing = <<>> \/ service # None
             THEN UNCHANGED <<service, protocol>>
             ELSE service' = listing[1][1] /\ protocol' = listing[1][2]
  /\ UNCHANGED <<committed, feedVars, hintVars, errors>>

(* .catch: /info failed.                                                   *)
FetchFails(i) ==
  /\ fetches[i] # "settled"
  /\ fetches' = [fetches EXCEPT ![i] = "settled"]
  /\ UNCHANGED <<info, service, protocol, committed, feedVars, hintVars, errors>>

(* The service picker offers what /info listed.                            *)
setService(s) ==
  /\ \E i \in DOMAIN info : info[i][1] = s
  /\ service' = s
  /\ UNCHANGED <<fetches, info, protocol, committed, feedVars, hintVars, errors>>

-----------------------------------------------------------------------------
(* Fault: every failed attempt to reconnect is announced.                  *)
connectionToastAgain(prev, next) ==
  CASE next = "reconnecting"                          -> "error"
    [] next = "open" /\ prev = "reconnecting"         -> "success"
    [] OTHER                                          -> None

connectionToast(prev, next) ==
  CASE next = "reconnecting" /\ prev # "reconnecting" -> "error"
    [] next = "open" /\ prev = "reconnecting"         -> "success"
    [] OTHER                                          -> None

(* notifyConnection, prevConnection and setConnection; a feed that has     *)
(* shown the toasts `shown` shows another one where the change warrants it.*)
onStatusChange(status, shown) ==
  /\ toasts' = IF connectionToast(prevConnection, status) = None THEN shown
               ELSE Append(shown, connectionToast(prevConnection, status))
  /\ prevConnection' = status
  /\ connection' = status

(* The browser's EventSource: it opens, or fails and tries again by        *)
(* itself, or gives up for good when the answer is not an event stream.    *)
SourceEvent(s, from, to, status) ==
  /\ sources[s] \in from
  /\ sources' = [sources EXCEPT ![s] = to]
  /\ onStatusChange(status, toasts)
  /\ UNCHANGED <<fetches, info, service, protocol, committed, hintVars>>

Opens(s) ==
  SourceEvent(s, {"connecting"}, "open", "open") /\ UNCHANGED errors

Fails(s) ==
  /\ errors < MaxErrors /\ errors' = errors + 1
  /\ \E to \in {"connecting", "closed"} :
       SourceEvent(s, {"connecting", "open"}, to, "reconnecting")

-----------------------------------------------------------------------------
ProtocolOf(s) ==
  IF \A i \in DOMAIN info : info[i][1] # s THEN None
  ELSE info[CHOOSE i \in DOMAIN info : info[i][1] = s][2]

(* Fault: a feed that reconnects is a status of its own.                   *)
connDotStatusAsIs(status) == status

(* connDotStatus: a feed that reconnects reads as connecting.              *)
connDotStatus(status) == IF status = "reconnecting" THEN "connecting" ELSE status

(* Fault: the effect's cleanup does not close the old source.              *)
ResubscribeOpen(old, new) == [sources EXCEPT ![new] = "connecting"]

(* The cleanup of subscribeToEvents, and the next subscription.            *)
Resubscribe(old, new) ==
  [s \in Services |-> IF s = new THEN "connecting"
                      ELSE IF s = old THEN None ELSE sources[s]]

ProtocolEffect ==
  IF (committed.info # info \/ committed.service # service) /\ service # None
  THEN protocol' = ProtocolOf(service) ELSE UNCHANGED protocol

(* Fault: the hint outlives the status it was shown for.                   *)
HintEffectKeepsHint ==
  IF committed.connection # connection
  THEN timer' = (connDotStatus(connection) = "connecting")
       /\ UNCHANGED showConnecting
  ELSE UNCHANGED hintVars

(* ListPanel: the hint is taken back and the timer set anew whenever the   *)
(* status changes.                                                         *)
HintEffect ==
  IF committed.connection # connection
  THEN /\ timer' = (connDotStatus(connection) = "connecting")
       /\ showConnecting' = FALSE
  ELSE UNCHANGED hintVars

FeedEffect ==
  IF committed.service # service /\ service # None
  THEN /\ sources' = Resubscribe(committed.service, service)
       /\ onStatusChange("connecting", <<>>)
  ELSE UNCHANGED feedVars

(* React runs the effects whose dependencies have changed.                 *)
Commit ==
  /\ ~Settled
  /\ committed' = Current
  /\ HintEffect /\ ProtocolEffect /\ FeedEffect
  /\ UNCHANGED <<fetches, info, service, errors>>

TimerFires ==
  /\ timer
  /\ timer' = FALSE /\ showConnecting' = TRUE
  /\ UNCHANGED <<fetches, info, service, protocol, committed, feedVars, errors>>

Next ==
  \/ \E i \in DOMAIN fetches :
       FetchFails(i) \/ \E l \in Listings : FetchAnswers(i, l)
  \/ \E s \in Services : setService(s) \/ Opens(s) \/ Fails(s)
  \/ Commit \/ TimerFires

Spec == Init /\ [][Next]_vars

(* React gets to its effects and the browser to its timers; nothing is     *)
(* assumed of the network, the backend or the user.                        *)
FairSpec == Spec /\ WF_vars(Commit) /\ WF_vars(TimerFires)

-----------------------------------------------------------------------------
(* The page is of one service, however often and fast the user switches    *)
(* and whenever /info answers: once the effects have run there is one      *)
(* EventSource, that of the chosen service; the status shown is its        *)
(* status; and the protocol that decides how bodies are shown is its       *)
(* protocol.                                                               *)
OneService ==
  /\ committed.service = service =>
       /\ {s \in Services : sources[s] # None} = {service} \ {None}
       /\ service # None => (connection = "open" <=> sources[service] = "open")
  /\ Settled /\ service # None => protocol = ProtocolOf(service)

(* A loss of the feed is announced once, however often the browser retries *)
(* in vain, and a recovery only after a loss of this very feed, whatever   *)
(* the feed before it went through; the last toast of a feed that is lost  *)
(* is the loss.                                                            *)
RecoveryFollowsLoss ==
  /\ \A i \in DOMAIN toasts :
       toasts[i] = "error" <=> (i = 1 \/ toasts[i - 1] = "success")
  /\ connection = "reconnecting"
       <=> (toasts # <<>> /\ toasts[Len(toasts)] = "error")

(* The connecting hint is gone once the feed is open, although its timer   *)
(* may fire between the change and the effect that clears it.              *)
HintHonest == Settled /\ connection = "open" => ~showConnecting /\ ~timer

(* A page that stays without a feed says so.                               *)
HintAppears ==
  <>[](connection = "reconnecting") => <>[](showConnecting)

=============================================================================
