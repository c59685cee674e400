------------------------ MODULE IntegrationDeliveries ------------------------
(***************************************************************************)
(* Events on their way to an organisation's webhook subscribers:            *)
(* modules/integrations' integration.go, store.go and housekeeping.go.      *)
(*                                                                         *)
(* Each event starts one delivery per subscriber, in memory.  A delivery    *)
(* waits for one of the process's slots, keeps it through its attempts and  *)
(* the pauses between them, and writes one row when it ends.  Connectors    *)
(* are edited and removed meanwhile, the log is pruned, and the process     *)
(* may stop.  What a subscriber answers may be lost after it has taken the  *)
(* event; it tells repetitions by the event's id.                           *)
(***************************************************************************)
EXTENDS Integers, FiniteSets

CONSTANTS
    Events,
    Subscribers,   \* connectors of the webhook provider
    Slots,         \* maxConcurrentDeliveries
    MaxTries       \* len(deliveryBackoff) + 1

ASSUME DeliveriesAssumption == Slots \in Nat \ {0} /\ MaxTries \in Nat \ {0}

VARIABLES
    subscriber,    \* the row of workspace.integrations
    dispatched,    \* events DispatchEvent was called for
    delivery,      \* deliver at work, one for each event and subscriber
    taken,         \* how often a subscriber has taken an event
    unheard,       \* those of whose answers one was lost
    log            \* integration_deliveries: rows that say OK and rows that say FAILED

deliveryVars == <<subscriber, dispatched, delivery, taken, unheard, log>>

-----------------------------------------------------------------------------
(* The tables and the goroutines *)

Deliveries == Events \X Subscribers
NoConnector == [exists |-> FALSE, active |-> FALSE, failing |-> FALSE]
ConnectorRows == [exists : BOOLEAN, active : BOOLEAN, failing : BOOLEAN]

AtWork == {"sending", "paused"}
Stages == AtWork \cup {"none", "waiting", "over"}
NotStarted == [stage |-> "none", try |-> 0]

DeliveriesTypeOK ==
    /\ subscriber \in [Subscribers -> ConnectorRows]
    /\ dispatched \subseteq Events
    /\ delivery \in [Deliveries -> [stage : Stages, try : 0 .. MaxTries]]
    /\ taken \in [Deliveries -> Nat]
    /\ unheard \subseteq Deliveries
    /\ log \in [Deliveries -> [ok : Nat, failed : Nat]]

DeliveriesInit ==
    /\ subscriber = [s \in Subscribers |-> NoConnector]
    /\ dispatched = {}
    /\ delivery = [d \in Deliveries |-> NotStarted]
    /\ taken = [d \in Deliveries |-> 0]
    /\ unheard = {}
    /\ log = [d \in Deliveries |-> [ok |-> 0, failed |-> 0]]

\* deliverySlots: what a delivery takes it gives back however it returns.
Busy == {d \in Deliveries : delivery[d].stage \in AtWork}

-----------------------------------------------------------------------------
(* The administrator and the housekeeping *)

CreateConnector(s) ==
    /\ ~subscriber[s].exists /\ \A e \in Events : delivery[<<e, s>>] = NotStarted
    /\ subscriber' = [subscriber EXCEPT ![s] = [exists |-> TRUE, active |-> TRUE, failing |-> FALSE]]
    /\ UNCHANGED <<dispatched, delivery, taken, unheard, log>>

\* Update: the status, which is the administrator's intent and nothing else.
SwitchConnector(s, active) ==
    /\ subscriber[s].exists
    /\ subscriber' = [subscriber EXCEPT ![s].active = active]
    /\ UNCHANGED <<dispatched, delivery, taken, unheard, log>>

\* Delete: its log goes with it; deliveries at work go on.
RemoveConnector(s) ==
    /\ subscriber[s].exists
    /\ subscriber' = [subscriber EXCEPT ![s] = NoConnector]
    /\ log' = [d \in Deliveries |-> IF d[2] = s THEN [ok |-> 0, failed |-> 0] ELSE log[d]]
    /\ UNCHANGED <<dispatched, delivery, taken, unheard>>

\* deleteDeliveriesBefore: rows past their half year, of deliveries long over.
PruneLog(d) ==
    /\ delivery[d].stage = "over" /\ log[d].ok + log[d].failed > 0
    /\ log' = [log EXCEPT ![d] = [ok |-> 0, failed |-> 0]]
    /\ UNCHANGED <<subscriber, dispatched, delivery, taken, unheard>>

-----------------------------------------------------------------------------
(* DispatchEvent *)

\* dispatchTargets: active, and their secret can be read.
Targets(unreadable) == {s \in Subscribers : subscriber[s].active} \ unreadable

\* One goroutine for each.  A secret that cannot be read is noted as an error.
DispatchEvent(e) ==
    /\ e \notin dispatched
    /\ dispatched' = dispatched \cup {e}
    /\ \E unreadable \in SUBSET {s \in Subscribers : subscriber[s].active},
          noted \in SUBSET Subscribers :
         /\ noted \subseteq unreadable
         /\ delivery' = [d \in Deliveries |->
                           IF d[1] = e /\ d[2] \in Targets(unreadable)
                           THEN [stage |-> "waiting", try |-> 0] ELSE delivery[d]]
         /\ subscriber' = [s \in Subscribers |-> IF s \in noted
                             THEN [subscriber[s] EXCEPT !.failing = TRUE] ELSE subscriber[s]]
    /\ UNCHANGED <<taken, unheard, log>>

-----------------------------------------------------------------------------
(* deliver *)

\* noteError, noteSuccess and recordDelivery: each does nothing when the connector
\* is gone, and each may fail without a word.
Note(s, failing) ==
    \/ subscriber[s].exists /\ subscriber' = [subscriber EXCEPT ![s].failing = failing]
    \/ UNCHANGED subscriber

RecordDelivery(d, outcome) ==
    \/ subscriber[d[2]].exists /\ log' = [log EXCEPT ![d][outcome] = @ + 1]
    \/ UNCHANGED log

EndsWell(d) ==
    /\ delivery' = [delivery EXCEPT ![d].stage = "over"]
    /\ Note(d[2], FALSE) /\ RecordDelivery(d, "ok")

EndsBadly(d) ==
    /\ delivery' = [delivery EXCEPT ![d].stage = "over"]
    /\ Note(d[2], TRUE) /\ RecordDelivery(d, "failed")

TakeSlot(d) ==
    /\ delivery[d].stage = "waiting" /\ Cardinality(Busy) < Slots
    /\ delivery' = [delivery EXCEPT ![d] = [stage |-> "sending", try |-> 1]]
    /\ UNCHANGED <<subscriber, dispatched, taken, unheard, log>>

\* deliveryQueueWait passes.
GiveUpWaiting(d) ==
    /\ delivery[d].stage = "waiting"
    /\ EndsBadly(d)
    /\ UNCHANGED <<dispatched, taken, unheard>>

\* attemptDelivery, and its answer is that the event was taken.
Accepted(d) ==
    /\ delivery[d].stage = "sending"
    /\ taken' = [taken EXCEPT ![d] = @ + 1]
    /\ EndsWell(d)
    /\ UNCHANGED <<dispatched, unheard>>

\* Its answer is one that will not change, or the network guard refuses.
Refused(d) ==
    /\ delivery[d].stage = "sending"
    /\ EndsBadly(d)
    /\ UNCHANGED <<dispatched, taken, unheard>>

\* Slip: each attempt writes its row.
TryAgainLogged(d) ==
    IF delivery[d].try < MaxTries
    THEN delivery' = [delivery EXCEPT ![d].stage = "paused"]
         /\ Note(d[2], TRUE) /\ RecordDelivery(d, "failed")
    ELSE EndsBadly(d)

\* A failure worth another attempt, if one is left.
TryAgain(d) ==
    IF delivery[d].try < MaxTries
    THEN delivery' = [delivery EXCEPT ![d].stage = "paused"] /\ UNCHANGED <<subscriber, log>>
    ELSE EndsBadly(d)

\* Refused for now, unreachable, or no answer in dispatchTimeout; in the last case
\* the event may have been taken.
NotNow(d, lost) ==
    /\ delivery[d].stage = "sending"
    /\ taken' = [taken EXCEPT ![d] = IF lost THEN @ + 1 ELSE @]
    /\ unheard' = IF lost THEN unheard \cup {d} ELSE unheard
    /\ TryAgain(d)
    /\ UNCHANGED dispatched

\* deliveryBackoff passes; the slot was kept.
Resend(d) ==
    /\ delivery[d].stage = "paused"
    /\ delivery' = [delivery EXCEPT ![d] = [stage |-> "sending", try |-> @.try + 1]]
    /\ UNCHANGED <<subscriber, dispatched, taken, unheard, log>>

\* The process stops: what was in memory is gone, without a row.
ProcessStops ==
    /\ \E d \in Deliveries : delivery[d].stage \in AtWork \cup {"waiting"}
    /\ delivery' = [d \in Deliveries |-> IF delivery[d].stage \in AtWork \cup {"waiting"}
                                         THEN [delivery[d] EXCEPT !.stage = "over"] ELSE delivery[d]]
    /\ UNCHANGED <<subscriber, dispatched, taken, unheard, log>>

-----------------------------------------------------------------------------
DeliveriesNext ==
    \/ \E s \in Subscribers : CreateConnector(s) \/ RemoveConnector(s)
    \/ \E s \in Subscribers, active \in BOOLEAN : SwitchConnector(s, active)
    \/ \E e \in Events : DispatchEvent(e)
    \/ \E d \in Deliveries : PruneLog(d) \/ TakeSlot(d) \/ GiveUpWaiting(d)
    \/ \E d \in Deliveries : Accepted(d) \/ Refused(d) \/ Resend(d)
    \/ \E d \in Deliveries, lost \in BOOLEAN : NotNow(d, lost)
    \/ ProcessStops

DeliveriesSpec == DeliveriesInit /\ [][DeliveriesNext]_deliveryVars

-----------------------------------------------------------------------------
(* Properties *)

\* The log answers "did this reach them": at most one row for an event and a
\* subscriber, OK only if the subscriber took it, and a subscriber whose answers
\* were all heard never takes an event twice, nor one the log calls FAILED.
\* deliver, through retries, removal of the connector and a restart.
RowPerEvent ==
    \A d \in Deliveries :
        /\ log[d].ok + log[d].failed <= 1
        /\ log[d].ok > 0 => taken[d] > 0
        /\ d \notin unheard => taken[d] <= 1
        /\ d \notin unheard /\ log[d].failed > 0 => taken[d] = 0
=============================================================================
