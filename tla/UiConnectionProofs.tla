-------------------------- MODULE UiConnectionProofs -------------------------
(***************************************************************************)
(* Proofs about UiConnection: the page is of one service, its connecting   *)
(* hint is honest, and a recovery is announced only after a loss, for      *)
(* every set of services and any number of errors.                         *)
(***************************************************************************)
EXTENDS UiConnection, TLAPS

Statuses == {"connecting", "open", "reconnecting"}
SourceStates == {None, "connecting", "open", "closed"}

TypeOK ==
  /\ fetches \in [DOMAIN fetches -> {"pending", "cancelled", "settled"}]
  /\ info \in Listings
  /\ service \in Services \cup {None}
  /\ connection \in Statuses
  /\ committed \in [service : Services \cup {None}, info : Listings,
                    connection : Statuses \cup {None}]
  /\ sources \in [Services -> SourceStates]
  /\ prevConnection \in Statuses \cup {None}
  /\ toasts \in Seq({"error", "success"})
  /\ timer \in BOOLEAN /\ showConnecting \in BOOLEAN

(* Only one /info request is waited for, and the page knows no service     *)
(* until it answers.                                                       *)
OneAnswer ==
  /\ \A i, j \in DOMAIN fetches :
       fetches[i] = "pending" /\ fetches[j] = "pending" => i = j
  /\ (\E i \in DOMAIN fetches : fetches[i] = "pending")
       => info = <<>> /\ committed.info = <<>>
  /\ info = <<>> => service = None
  /\ service = None => committed.service = None

(* The feed is that of the service the effects last ran for, and so is the *)
(* status; the protocol is too unless the listing has changed since.       *)
FeedOfCommitted ==
  /\ \A s \in Services : sources[s] # None <=> s = committed.service
  /\ committed.service = None => connection = "connecting"
  /\ committed.service # None
       => (connection = "open" <=> sources[committed.service] = "open")
  /\ committed.service # None /\ committed.info = info
       => protocol = ProtocolOf(committed.service)

(* The timer runs and the hint shows only for a status the effect of the   *)
(* hint has seen and that is not "open".                                   *)
HintOfCommitted == committed.connection = "open" => ~timer /\ ~showConnecting

(* The toasts are those of the status that was last announced.             *)
ToastOfStatus ==
  /\ \/ prevConnection = connection
     \/ prevConnection = None /\ connection = "connecting"
  /\ RecoveryFollowsLoss

(* The inductive invariant.                                                *)
Inv == TypeOK /\ OneAnswer /\ FeedOfCommitted /\ HintOfCommitted /\ ToastOfStatus

(* Before the first answer nothing is shown.                               *)
LEMMA InitInv == Init => Inv
<1> SUFFICES ASSUME Init PROVE Inv
  OBVIOUS
<1>1. <<>> \in Listings
  BY ConnectionAssumption DEF Listings
<1>2. None \notin Services
  BY ConnectionAssumption
<1>3. fetches \in [DOMAIN fetches -> {"pending", "cancelled", "settled"}]
  BY DEF Init
<1>4. \A i, j \in DOMAIN fetches :
        fetches[i] = "pending" /\ fetches[j] = "pending" => i = j
  BY DEF Init
<1>5. ToastOfStatus /\ toasts \in Seq({"error", "success"})
  BY DEF Init, ToastOfStatus, RecoveryFollowsLoss
<1>6. TypeOK
  BY <1>1, <1>3, <1>5 DEF Init, TypeOK, Statuses, SourceStates
<1> QED
  BY <1>2, <1>4, <1>5, <1>6
     DEF Init, Inv, OneAnswer, FeedOfCommitted, HintOfCommitted, None

-----------------------------------------------------------------------------
(* What the last answer of /info lists first can be chosen.                *)
LEMMA ListingFirst ==
  ASSUME NEW l \in Listings, l # <<>>
  PROVE  l[1][1] \in Services
<1>1. PICK n \in 0..MaxListed : l \in [1..n -> Services \X Protocols]
  BY ConnectionAssumption DEF Listings
<1>2. n # 0
  BY <1>1
<1> QED
  BY <1>1, <1>2

(* An answer of /info that is waited for finds the page without a service.  *)
LEMMA FetchAnswersInv ==
  ASSUME Inv, NEW i \in DOMAIN fetches, NEW l \in Listings, FetchAnswers(i, l)
  PROVE  Inv'
<1> USE DEF feedVars, hintVars
<1>1. UNCHANGED <<committed, sources, prevConnection, toasts, connection, timer,
                  showConnecting>>
  BY DEF FetchAnswers
<1>2. /\ fetches' = [fetches EXCEPT ![i] = "settled"]
      /\ fetches[i] # "settled"
  BY DEF FetchAnswers
<1>3. DOMAIN fetches' = DOMAIN fetches
  BY <1>2
<1>4. CASE fetches[i] = "cancelled"
  <2>1. UNCHANGED <<info, service, protocol>>
    BY <1>4 DEF FetchAnswers
  <2>2. TypeOK'
    BY <1>1, <1>2, <1>3, <2>1 DEF Inv, TypeOK
  <2>3. OneAnswer'
    BY <1>1, <1>2, <1>3, <2>1 DEF Inv, TypeOK, OneAnswer
  <2>4. (FeedOfCommitted /\ HintOfCommitted /\ ToastOfStatus)'
    BY <1>1, <2>1
       DEF Inv, FeedOfCommitted, HintOfCommitted, ToastOfStatus,
           RecoveryFollowsLoss, ProtocolOf
  <2> QED
    BY <2>2, <2>3, <2>4 DEF Inv
<1>5. CASE fetches[i] # "cancelled"
  <2>1. fetches[i] = "pending"
    BY <1>2, <1>5 DEF Inv, TypeOK
  <2>2. info = <<>> /\ committed.info = <<>> /\ service = None
        /\ committed.service = None
    BY <2>1 DEF Inv, OneAnswer
  <2>3. /\ info' = l
        /\ l = <<>> => service' = service
        /\ l # <<>> => service' = l[1][1]
    BY <1>5, <2>2 DEF FetchAnswers
  <2>4. service' \in Services \cup {None} /\ (l # <<>> => service' \in Services)
    BY <2>2, <2>3, ListingFirst
  <2>5. TypeOK'
    BY <1>1, <1>2, <1>3, <2>3, <2>4 DEF Inv, TypeOK
  <2>6. \A j \in DOMAIN fetches' : fetches'[j] # "pending"
    BY <1>2, <1>3, <2>1 DEF Inv, TypeOK, OneAnswer
  <2>7. OneAnswer'
    BY <1>1, <2>2, <2>3, <2>4, <2>6, ConnectionAssumption DEF OneAnswer
  <2>8. (FeedOfCommitted /\ HintOfCommitted /\ ToastOfStatus)'
    BY <1>1, <2>2
       DEF Inv, FeedOfCommitted, HintOfCommitted, ToastOfStatus,
           RecoveryFollowsLoss
  <2> QED
    BY <2>5, <2>7, <2>8 DEF Inv
<1> QED
  BY <1>4, <1>5

(* A fetch that fails is settled, and changes nothing else.                *)
LEMMA FetchFailsInv ==
  ASSUME Inv, NEW i \in DOMAIN fetches, FetchFails(i)
  PROVE  Inv'
<1> USE DEF feedVars, hintVars, FetchFails
<1>1. DOMAIN fetches' = DOMAIN fetches
  OBVIOUS
<1>2. TypeOK' /\ OneAnswer'
  BY <1>1 DEF Inv, TypeOK, OneAnswer
<1>3. (FeedOfCommitted /\ HintOfCommitted /\ ToastOfStatus)'
  BY DEF Inv, FeedOfCommitted, HintOfCommitted, ToastOfStatus,
         RecoveryFollowsLoss, ProtocolOf
<1> QED
  BY <1>2, <1>3 DEF Inv

(* Choosing another service waits for the commit.                          *)
LEMMA SetServiceInv ==
  ASSUME Inv, NEW s \in Services, setService(s)
  PROVE  Inv'
<1> USE DEF feedVars, hintVars, setService
<1>1. s # None /\ info # <<>>
  BY ConnectionAssumption
<1>2. TypeOK' /\ OneAnswer'
  BY <1>1 DEF Inv, TypeOK, OneAnswer
<1>3. (FeedOfCommitted /\ HintOfCommitted /\ ToastOfStatus)'
  BY DEF Inv, FeedOfCommitted, HintOfCommitted, ToastOfStatus,
         RecoveryFollowsLoss, ProtocolOf
<1> QED
  BY <1>2, <1>3 DEF Inv

-----------------------------------------------------------------------------
(* A change of status keeps toasts and status together: one that the feed  *)
(* on show reports, and the first one of a feed that begins.               *)
LEMMA StatusChange ==
  ASSUME Inv, NEW status \in Statuses, NEW shown,
         onStatusChange(status, shown),
         \/ status \in {"open", "reconnecting"} /\ shown = toasts
         \/ status = "connecting" /\ shown = <<>>
  PROVE  /\ connection' = status /\ prevConnection' = status
         /\ toasts' \in Seq({"error", "success"})
         /\ ToastOfStatus'
<1> USE DEF onStatusChange, connectionToast, Inv, TypeOK, ToastOfStatus,
            RecoveryFollowsLoss, Statuses, None
<1>1. connection' = status /\ prevConnection' = status
  OBVIOUS
<1>2. CASE status = "connecting"
  BY <1>1, <1>2
<1>3. CASE status = "reconnecting" /\ prevConnection # "reconnecting"
  <2>1. toasts' = Append(toasts, "error") /\ connection # "reconnecting"
    BY <1>3
  <2>2. toasts # <<>> => toasts[Len(toasts)] = "success"
    BY <2>1
  <2> QED
    BY <1>1, <1>3, <2>1, <2>2
<1>4. CASE status = "open" /\ prevConnection = "reconnecting"
  <2>1. toasts' = Append(toasts, "success") /\ connection = "reconnecting"
    BY <1>4
  <2>2. toasts # <<>> /\ toasts[Len(toasts)] = "error"
    BY <2>1
  <2> QED
    BY <1>1, <1>4, <2>1, <2>2
<1>5. CASE \/ status = "reconnecting" /\ prevConnection = "reconnecting"
           \/ status = "open" /\ prevConnection # "reconnecting"
  <2>1. toasts' = toasts
    BY <1>5
  <2> QED
    BY <1>1, <1>5, <2>1
<1> QED
  BY <1>2, <1>3, <1>4, <1>5

(* An event of the source changes the status with it.                      *)
LEMMA SourceEventInv ==
  ASSUME Inv, NEW s \in Services, NEW to \in {"connecting", "open", "closed"},
         NEW status \in {"open", "reconnecting"}, to = "open" <=> status = "open",
         NEW from \in SUBSET {"connecting", "open"},
         SourceEvent(s, from, to, status)
  PROVE  Inv'
<1> USE DEF hintVars
<1>1. /\ UNCHANGED <<fetches, info, service, protocol, committed, timer,
                     showConnecting>>
      /\ sources' = [sources EXCEPT ![s] = to]
      /\ onStatusChange(status, toasts)
      /\ sources[s] # None
  BY DEF SourceEvent, None
<1>2. /\ connection' = status /\ prevConnection' = status
      /\ toasts' \in Seq({"error", "success"})
      /\ ToastOfStatus'
  BY <1>1, StatusChange DEF Statuses
<1>3. committed.service = s /\ s # None
  BY <1>1, ConnectionAssumption DEF Inv, FeedOfCommitted
<1>4. TypeOK'
  BY <1>1, <1>2 DEF Inv, TypeOK, Statuses, SourceStates
<1>5. OneAnswer' /\ HintOfCommitted'
  BY <1>1 DEF Inv, OneAnswer, HintOfCommitted
<1>6. ProtocolOf(s)' = ProtocolOf(s)
  BY <1>1 DEF ProtocolOf
<1>7. FeedOfCommitted'
  BY <1>1, <1>2, <1>3, <1>6 DEF Inv, TypeOK, FeedOfCommitted, None
<1> QED
  BY <1>2, <1>4, <1>5, <1>7 DEF Inv

(* The source opens.                                                       *)
LEMMA OpensInv ==
  ASSUME Inv, NEW s \in Services, Opens(s)
  PROVE  Inv'
BY SourceEventInv DEF Opens

(* The source fails.                                                       *)
LEMMA FailsInv ==
  ASSUME Inv, NEW s \in Services, Fails(s)
  PROVE  Inv'
BY SourceEventInv DEF Fails

-----------------------------------------------------------------------------
(* A commit closes the old source and opens the new one.                   *)
LEMMA CommitInv ==
  ASSUME Inv, Commit
  PROVE  Inv'
<1> USE DEF feedVars, hintVars
<1>1. /\ committed' = [service |-> service, info |-> info,
                       connection |-> connection]
      /\ UNCHANGED <<fetches, info, service>>
  BY DEF Commit, Current
<1>2. /\ committed'.service = service /\ committed'.info = info
      /\ committed'.connection = connection
  BY <1>1
<1>3. HintOfCommitted' /\ timer' \in BOOLEAN /\ showConnecting' \in BOOLEAN
  BY <1>2 DEF Commit, HintEffect, HintOfCommitted, connDotStatus, Inv, TypeOK
<1>4. OneAnswer'
  BY <1>1, <1>2 DEF Inv, OneAnswer
<1>5. ProtocolOf(service)' = ProtocolOf(service)
  BY <1>1 DEF ProtocolOf
<1>6. service # None => protocol' = ProtocolOf(service)
  BY DEF Commit, ProtocolEffect, Inv, FeedOfCommitted
<1>7. CASE committed.service # service /\ service # None
  <2>1. sources' = Resubscribe(committed.service, service)
        /\ onStatusChange("connecting", <<>>)
    BY <1>7 DEF Commit, FeedEffect
  <2>2. /\ connection' = "connecting" /\ prevConnection' = "connecting"
        /\ toasts' \in Seq({"error", "success"})
        /\ ToastOfStatus'
    BY <2>1, StatusChange DEF Statuses
  <2>3. TypeOK'
    BY <1>1, <1>3, <2>1, <2>2
       DEF Inv, TypeOK, Resubscribe, Statuses, SourceStates
  <2>4. FeedOfCommitted'
    BY <1>1, <1>2, <1>5, <1>6, <1>7, <2>1, <2>2
       DEF Inv, TypeOK, FeedOfCommitted, Resubscribe, None
  <2> QED
    BY <1>3, <1>4, <2>2, <2>3, <2>4 DEF Inv
<1>8. CASE ~(committed.service # service /\ service # None)
  <2>1. UNCHANGED <<sources, prevConnection, toasts, connection>>
    BY <1>8 DEF Commit, FeedEffect
  <2>2. committed.service = service
    BY <1>8 DEF Inv, OneAnswer
  <2>3. TypeOK' /\ ToastOfStatus'
    BY <1>1, <1>3, <2>1 DEF Inv, TypeOK, ToastOfStatus, RecoveryFollowsLoss
  <2>4. FeedOfCommitted'
    BY <1>1, <1>2, <1>5, <1>6, <2>1, <2>2 DEF Inv, FeedOfCommitted
  <2> QED
    BY <1>3, <1>4, <2>3, <2>4 DEF Inv
<1> QED
  BY <1>7, <1>8

(* The hint's timer fires.                                                 *)
LEMMA TimerFiresInv ==
  ASSUME Inv, TimerFires
  PROVE  Inv'
BY DEF TimerFires, feedVars, hintVars, Inv, TypeOK, OneAnswer, FeedOfCommitted,
       HintOfCommitted, ToastOfStatus, RecoveryFollowsLoss, ProtocolOf

(* Every step keeps the invariant.                                         *)
LEMMA NextInv == Inv /\ [Next]_vars => Inv'
<1> SUFFICES ASSUME Inv, [Next]_vars PROVE Inv'
  OBVIOUS
<1>1. CASE UNCHANGED vars
  BY <1>1 DEF vars, feedVars, hintVars, Inv, TypeOK, OneAnswer,
              FeedOfCommitted, HintOfCommitted, ToastOfStatus,
              RecoveryFollowsLoss, ProtocolOf
<1> QED
  BY <1>1, FetchAnswersInv, FetchFailsInv, SetServiceInv, OpensInv, FailsInv,
     CommitInv, TimerFiresInv
     DEF Next

(* It always holds.                                                        *)
LEMMA Invariance == Spec => []Inv
BY InitInv, NextInv, PTL DEF Spec

-----------------------------------------------------------------------------
(* The page is of one service (app-shell.tsx, ShellInner's effects): once  *)
(* they have run there is one EventSource, that of the chosen service,     *)
(* whose status and protocol are the ones shown.                           *)
THEOREM OneServiceHolds == Spec => []OneService
<1>1. Inv => OneService
  BY ConnectionAssumption
     DEF Inv, TypeOK, OneAnswer, FeedOfCommitted, OneService, Settled, Current
<1> QED
  BY <1>1, Invariance, PTL

(* ListPanel's hint and its timer are gone once the effects have run for   *)
(* an open feed.                                                           *)
THEOREM HintHonestHolds == Spec => []HintHonest
<1>1. Inv => HintHonest
  BY DEF Inv, HintOfCommitted, HintHonest, Settled, Current
<1> QED
  BY <1>1, Invariance, PTL

(* connectionToast and prevConnection: of the toasts of a feed every one   *)
(* that tells of a loss is the first or follows a recovery, every other    *)
(* one follows a loss, and a feed that is lost has told so.                *)
THEOREM RecoveryFollowsLossHolds == Spec => []RecoveryFollowsLoss
<1>1. Inv => RecoveryFollowsLoss
  BY DEF Inv, ToastOfStatus
<1> QED
  BY <1>1, Invariance, PTL
=============================================================================
