---------------------------- MODULE UrtuuChannel ----------------------------
(***************************************************************************)
(* The transport of one Urtuu link: modules/urtuu/channel/exchange.go and  *)
(* store.go.                                                               *)
(*                                                                         *)
(* A link joins a parent installation, which only answers, to a child,     *)
(* which only dials.  Either side writes signed envelopes into its outbox  *)
(* with one delivery row for the link.  The child runs conversations: it   *)
(* pushes what it has to report together with the acknowledgements it      *)
(* owes, and then pulls.  A conversation may fail at any point, and two of *)
(* them may overlap (the exchange loop and an operator's "sync now").      *)
(*                                                                         *)
(* Time is kept as ages.  Every age stops growing at Horizon; each         *)
(* threshold the code compares with lies below it where it matters, so the *)
(* comparison comes out as in the code.                                    *)
(***************************************************************************)
EXTENDS Integers, FiniteSets

CONSTANTS
    Down,            \* envelopes the parent sends
    Up,              \* envelopes the child sends
    Conversations,   \* rounds the child may have open at the same moment
    BatchLimit,      \* envelopes (and acknowledgements) in one batch
    MaxAge,          \* wire.MaxAge: how old an accepted envelope may be
    MaxSkew,         \* wire.MaxSkew: how far in the future it may be dated
    InboxRetention,  \* how long an inbox row is kept
    MaxPause,        \* the cap of the retry backoff
    Stamps,          \* ages an envelope may show, by the receiver's clock, when queued
    Horizon,         \* bound: ages stop growing here
    MaxFaults,       \* bound: conversations that may break off
    SettleMayFail    \* whether HandlePush's settling UPDATE may fail

Envelopes == Down \cup Up

ASSUME ChannelAssumption ==
    /\ Down \cap Up = {}
    /\ BatchLimit \in Nat \ {0}
    /\ MaxAge \in Nat
    /\ MaxSkew \in Nat
    /\ InboxRetention \in Nat
    /\ MaxPause \in Nat \ {0}
    /\ Stamps \subseteq Int
    /\ Horizon \in Nat
    /\ MaxFaults \in Nat
    /\ SettleMayFail \in BOOLEAN

\* 180 days against 7 days and 5 minutes: housekeeping.go says the two "together
\* are the replay defence".
ASSUME RetentionOutlastsAge == MaxAge + MaxSkew <= InboxRetention

VARIABLES
    delivery,  \* the sender's urtuu_deliveries row: "none", "waiting", "settled"
    pause,     \* next_attempt_at - NOW(), zero when due
    age,       \* receiver's now - created_at
    inbox,     \* the receiver's urtuu_inbox row: "absent", "held", "swept" (was held once)
    held,      \* now - received_at
    acked,     \* inbox rows whose acked_at is set
    link,      \* the status of the link's row on each side
    conv,      \* the conversations in progress
    faults     \* conversations broken off so far

vars == <<delivery, pause, age, inbox, held, acked, link, conv, faults>>

Sides == {"parent", "child"}
SentBy(side) == IF side = "parent" THEN Down ELSE Up
SenderOf(m) == IF m \in Down THEN "parent" ELSE "child"

(* Where a conversation stands.  "booked" and "reported": the child's push; *)
(* "accepting": inside HandlePush; "answered" and "settled": the child with *)
(* the parent's answer; "asking", "polling": the pull, outside and inside   *)
(* HandlePull; "offered": the child accepting what the pull brought.        *)
Stages == {"idle", "booked", "reported", "accepting", "answered", "settled",
           "asking", "polling", "offered"}

Round == [at : Stages, carry : SUBSET Envelopes, acks : SUBSET Down, got : SUBSET Envelopes]

Idle == [at |-> "idle", carry |-> {}, acks |-> {}, got |-> {}]

TypeOK ==
    /\ delivery \in [Envelopes -> {"none", "waiting", "settled"}]
    /\ pause \in [Envelopes -> 0 .. MaxPause]
    /\ age \in [Envelopes -> Int]
    /\ inbox \in [Envelopes -> {"absent", "held", "swept"}]
    /\ held \in [Envelopes -> 0 .. Horizon]
    /\ acked \subseteq Envelopes
    /\ link \in [Sides -> {"active", "revoked"}]
    /\ conv \in [Conversations -> Round]
    /\ faults \in 0 .. MaxFaults

Init ==
    /\ delivery = [m \in Envelopes |-> "none"]
    /\ pause = [m \in Envelopes |-> 0]
    /\ age = [m \in Envelopes |-> 0]
    /\ inbox = [m \in Envelopes |-> "absent"]
    /\ held = [m \in Envelopes |-> 0]
    /\ acked = {}
    /\ link = [s \in Sides |-> "active"]
    /\ conv = [w \in Conversations |-> Idle]
    /\ faults = 0

-----------------------------------------------------------------------------
(* The tables *)

\* A LIMIT: as many of S as one batch carries.
Batches(S) == {b \in SUBSET S :
                 Cardinality(b) = IF Cardinality(S) < BatchLimit
                                  THEN Cardinality(S) ELSE BatchLimit}

\* What pendingCount counts and dueEnvelopes takes for the link.
Due(side) == {m \in SentBy(side) : delivery[m] = "waiting" /\ pause[m] = 0}

\* Booking the next attempt, committed before anything is sent.  The schedule
\* (30 seconds doubling up to six hours) is any pause up to the cap.
Booked(b) == {p \in [Envelopes -> 0 .. MaxPause] :
                \A m \in Envelopes : IF m \in b THEN p[m] > 0 ELSE p[m] = pause[m]}

\* markDelivered: only rows still undelivered, so repeating it is harmless.
Settled(S) == [m \in Envelopes |->
                 IF m \in S /\ delivery[m] = "waiting" THEN "settled" ELSE delivery[m]]

\* The child's inbox rows it has not acknowledged, oldest received first.
Unacked == {m \in Down : inbox[m] = "held" /\ m \notin acked}
OldestUnacked == {b \in Batches(Unacked) :
                    \A m \in b, n \in Unacked \ b : held[n] <= held[m]}

\* Slip: the age limit forgotten.
FreshByDateOnly(m) == -MaxSkew <= age[m]

\* Envelope.Fresh by the receiver's clock.
Fresh(m) == age[m] <= MaxAge /\ -MaxSkew <= age[m]

-----------------------------------------------------------------------------
(* Queueing *)

\* An envelope is signed and queued, in a transaction of its own or the
\* caller's: the outbox row, and a delivery row only while the link is live.
Queue(m) ==
    /\ delivery[m] = "none"
    /\ link[SenderOf(m)] = "active"
    /\ delivery' = [delivery EXCEPT ![m] = "waiting"]
    /\ \E a \in Stamps : age' = [age EXCEPT ![m] = a]
    /\ UNCHANGED <<pause, inbox, held, acked, link, conv, faults>>

-----------------------------------------------------------------------------
(* The child's push *)

\* push: dueEnvelopes, on a link activeChildLinks still lists.
Book(w) ==
    /\ conv[w].at = "idle"
    /\ link["child"] = "active"
    /\ \E b \in Batches(Due("child")) :
         /\ pause' \in Booked(b)
         /\ conv' = [conv EXCEPT ![w] = [Idle EXCEPT !.at = "booked", !.carry = b]]
    /\ UNCHANGED <<delivery, age, inbox, held, acked, link, faults>>

\* Slip: acknowledgements struck off as they are sent.
ReportAndForget(w) ==
    /\ conv[w].at = "booked"
    /\ \E b \in OldestUnacked :
         /\ LET next == IF conv[w].carry = {} /\ b = {} THEN "asking" ELSE "reported"
            IN  conv' = [conv EXCEPT ![w] = [@ EXCEPT !.at = next, !.acks = b]]
         /\ acked' = acked \cup b
    /\ UNCHANGED <<delivery, pause, age, inbox, held, link, faults>>

\* push: unacked, and the request, unless there is nothing to say.
Report(w) ==
    /\ conv[w].at = "booked"
    /\ \E b \in OldestUnacked :
         LET next == IF conv[w].carry = {} /\ b = {} THEN "asking" ELSE "reported"
         IN  conv' = [conv EXCEPT ![w] = [@ EXCEPT !.at = next, !.acks = b]]
    /\ UNCHANGED <<delivery, pause, age, inbox, held, acked, link, faults>>

\* push: the answer is in; what it names is delivered.
SettleReport(w) ==
    /\ conv[w].at = "answered"
    /\ delivery' = Settled(conv[w].got)
    /\ conv' = [conv EXCEPT ![w].at = "settled"]
    /\ UNCHANGED <<pause, age, inbox, held, acked, link, faults>>

\* push: "the parent settled these when it answered".
SettleAcks(w) ==
    /\ conv[w].at = "settled"
    /\ acked' = acked \cup {m \in conv[w].acks : inbox[m] = "held"}
    /\ conv' = [conv EXCEPT ![w] = [Idle EXCEPT !.at = "asking"]]
    /\ UNCHANGED <<delivery, pause, age, inbox, held, link, faults>>

-----------------------------------------------------------------------------
(* The parent's handlers *)

\* Slip: a batch that will be refused settles nothing.
TakeReportWhole(w) ==
    /\ conv[w].at = "reported"
    /\ link["parent"] = "active"
    /\ delivery' = IF \A m \in conv[w].carry : Fresh(m)
                    THEN Settled(conv[w].acks) ELSE delivery
    /\ conv' = [conv EXCEPT ![w].at = "accepting"]
    /\ UNCHANGED <<pause, age, inbox, held, acked, link, faults>>

\* HandlePush: authenticate, then markDelivered(batch.Ack), whose failure is
\* logged and passed over.
TakeReport(w) ==
    /\ conv[w].at = "reported"
    /\ link["parent"] = "active"
    /\ \/ delivery' = Settled(conv[w].acks)
       \/ SettleMayFail /\ UNCHANGED delivery
    /\ conv' = [conv EXCEPT ![w].at = "accepting"]
    /\ UNCHANGED <<pause, age, inbox, held, acked, link, faults>>

\* HandlePush: markAcked(accepted), its failure too only logged, and the answer.
AnswerReport(w) ==
    /\ conv[w].at = "accepting"
    /\ conv[w].carry = {}
    /\ acked' \in {acked, acked \cup {m \in conv[w].got : inbox[m] = "held"}}
    /\ conv' = [conv EXCEPT ![w].at = "answered"]
    /\ UNCHANGED <<delivery, pause, age, inbox, held, link, faults>>

\* HandlePull: authenticate, before the long poll.
AskPull(w) ==
    /\ conv[w].at = "asking"
    /\ link["parent"] = "active"
    /\ conv' = [conv EXCEPT ![w].at = "polling"]
    /\ UNCHANGED <<delivery, pause, age, inbox, held, acked, link, faults>>

\* Slip: delivered when sent, the alternative store.go argues against.
OfferAndSettle(w) ==
    /\ conv[w].at = "polling"
    /\ \E b \in Batches(Due("parent")) :
         /\ pause' \in Booked(b)
         /\ delivery' = Settled(b)
         /\ conv' = [conv EXCEPT ![w] = [@ EXCEPT !.at = "offered", !.carry = b]]
    /\ UNCHANGED <<age, inbox, held, acked, link, faults>>

\* HandlePull: something is due, or the window has closed; dueEnvelopes and the
\* answer.
OfferEnvelopes(w) ==
    /\ conv[w].at = "polling"
    /\ \E b \in Batches(Due("parent")) :
         /\ pause' \in Booked(b)
         /\ conv' = [conv EXCEPT ![w] = [@ EXCEPT !.at = "offered", !.carry = b]]
    /\ UNCHANGED <<delivery, age, inbox, held, acked, link, faults>>

\* authenticate: 401 or 403, and the round is over.
TurnAway(w) ==
    /\ conv[w].at \in {"reported", "asking"}
    /\ link["parent"] # "active"
    /\ conv' = [conv EXCEPT ![w] = Idle]
    /\ UNCHANGED <<delivery, pause, age, inbox, held, acked, link, faults>>

-----------------------------------------------------------------------------
(* accept, run by the parent on a push and by the child on a pull *)

\* The envelope is dealt with, and named in the answer.
Named(w, m) == [conv[w] EXCEPT !.carry = @ \ {m}, !.got = @ \cup {m}]

\* Slip: only what was new is named in the answer.
AcceptNew(w, m) ==
    /\ conv[w].at \in {"accepting", "offered"}
    /\ m \in conv[w].carry
    /\ Fresh(m)
    /\ IF inbox[m] = "held"
       THEN /\ conv' = [conv EXCEPT ![w].carry = @ \ {m}]
            /\ UNCHANGED <<inbox, held>>
       ELSE /\ conv' = [conv EXCEPT ![w] = Named(w, m)]
            /\ inbox' = [inbox EXCEPT ![m] = "held"]
            /\ held' = [held EXCEPT ![m] = 0]
    /\ UNCHANGED <<delivery, pause, age, acked, link, faults>>

\* One envelope verified and stored; ON CONFLICT DO NOTHING makes a repeat
\* change nothing, and it is named in the answer all the same.
AcceptEnvelope(w, m) ==
    /\ conv[w].at \in {"accepting", "offered"}
    /\ m \in conv[w].carry
    /\ Fresh(m)
    /\ IF inbox[m] = "held"
       THEN UNCHANGED <<inbox, held>>
       ELSE /\ inbox' = [inbox EXCEPT ![m] = "held"]
            /\ held' = [held EXCEPT ![m] = 0]
    /\ conv' = [conv EXCEPT ![w] = Named(w, m)]
    /\ UNCHANGED <<delivery, pause, age, acked, link, faults>>

\* One envelope outside the window: the batch is refused and nothing is named,
\* though what was stored before it stays stored.
RefuseBatch(w, m) ==
    /\ conv[w].at \in {"accepting", "offered"}
    /\ m \in conv[w].carry
    /\ ~ Fresh(m)
    /\ conv' = [conv EXCEPT ![w] = Idle]
    /\ UNCHANGED <<delivery, pause, age, inbox, held, acked, link, faults>>

\* pull returns; the acknowledgements wait for the next push.
EndRound(w) ==
    /\ conv[w].at = "offered"
    /\ conv[w].carry = {}
    /\ conv' = [conv EXCEPT ![w] = Idle]
    /\ UNCHANGED <<delivery, pause, age, inbox, held, acked, link, faults>>

-----------------------------------------------------------------------------
(* Faults, time, administration *)

\* Slip: a report that timed out is taken for delivered.
BreakOffSettled(w) ==
    /\ conv[w].at # "idle"
    /\ faults < MaxFaults
    /\ faults' = faults + 1
    /\ delivery' = Settled(conv[w].carry)
    /\ conv' = [conv EXCEPT ![w] = Idle]
    /\ UNCHANGED <<pause, age, inbox, held, acked, link>>

\* A lost request or response, a timeout, a failed statement, or the crash of
\* either side: nothing of a conversation is kept anywhere but in memory.
BreakOff(w) ==
    /\ conv[w].at # "idle"
    /\ faults < MaxFaults
    /\ faults' = faults + 1
    /\ conv' = [conv EXCEPT ![w] = Idle]
    /\ UNCHANGED <<delivery, pause, age, inbox, held, acked, link>>

Older(a) == IF a < Horizon THEN a + 1 ELSE a

\* Slip: a due envelope's pause counted on below zero.
TickOn ==
    /\ age' = [m \in Envelopes |-> IF delivery[m] = "none" THEN age[m] ELSE Older(age[m])]
    /\ held' = [m \in Envelopes |-> IF inbox[m] = "held" THEN Older(held[m]) ELSE held[m]]
    /\ pause' = [m \in Envelopes |-> IF delivery[m] = "waiting" THEN pause[m] - 1 ELSE 0]
    /\ UNCHANGED <<delivery, inbox, acked, link, conv, faults>>

Tick ==
    /\ age' = [m \in Envelopes |-> IF delivery[m] = "none" THEN age[m] ELSE Older(age[m])]
    /\ held' = [m \in Envelopes |-> IF inbox[m] = "held" THEN Older(held[m]) ELSE held[m]]
    /\ pause' = [m \in Envelopes |-> IF pause[m] > 0 THEN pause[m] - 1 ELSE 0]
    /\ UNCHANGED <<delivery, inbox, acked, link, conv, faults>>

\* sweepOnce: the inbox rows of one side past their retention, acknowledged or not.
SweepInbox(side) ==
    LET gone == {m \in Envelopes \ SentBy(side) :
                   inbox[m] = "held" /\ held[m] > InboxRetention}
    IN  /\ gone # {}
        /\ inbox' = [m \in Envelopes |-> IF m \in gone THEN "swept" ELSE inbox[m]]
        /\ held' = [m \in Envelopes |-> IF m \in gone THEN 0 ELSE held[m]]
        /\ acked' = acked \ gone
        /\ UNCHANGED <<delivery, pause, age, link, conv, faults>>

\* handleRevoke, by either side's administrator; the other side is not told.
Revoke(side) ==
    /\ link[side] = "active"
    /\ link' = [link EXCEPT ![side] = "revoked"]
    /\ UNCHANGED <<delivery, pause, age, inbox, held, acked, conv, faults>>

-----------------------------------------------------------------------------
Converse(w) ==
    \/ Book(w) \/ Report(w) \/ SettleReport(w) \/ SettleAcks(w)
    \/ TakeReport(w) \/ AnswerReport(w) \/ AskPull(w) \/ OfferEnvelopes(w)
    \/ TurnAway(w) \/ EndRound(w)
    \/ \E m \in Envelopes : AcceptEnvelope(w, m) \/ RefuseBatch(w, m)

Next ==
    \/ \E m \in Envelopes : Queue(m)
    \/ \E w \in Conversations : Converse(w) \/ BreakOff(w)
    \/ Tick
    \/ \E side \in Sides : SweepInbox(side) \/ Revoke(side)

Spec == Init /\ [][Next]_vars

(* StartHousekeeping starts exchangeLoop, which starts a round after every   *)
(* round; each call of a round has a timeout, and time passes.  Nothing else *)
(* is promised: administrators need not act and faults need not happen.      *)
Fairness == WF_vars(Tick) /\ \A w \in Conversations : WF_vars(Converse(w))

FairSpec == Spec /\ Fairness

-----------------------------------------------------------------------------
(* Properties *)

\* No delivery is closed for an envelope its receiver never stored: store.go's
\* "a lost response costs a repeat rather than a loss".
SettledIsStored ==
    \A m \in Envelopes : delivery[m] = "settled" => inbox[m] # "absent"

\* What the child has marked acknowledged, and so will never mention again, the
\* parent has closed: exchange.go's "the parent settled these when it answered,
\* so this side can stop repeating them".
AckedIsSettled ==
    \A m \in Down : m \in acked => delivery[m] = "settled"

\* The replay defence: an inbox row that retention removed never comes back, so
\* no envelope is handed to a reader as new twice, however often it is repeated.
StoredOnce ==
    [][\A m \in Envelopes : inbox[m] = "swept" => inbox'[m] = "swept"]_vars

LinkUp == \A s \in Sides : link[s] = "active"

\* While everything queued is acceptable, everything queued on a live link is
\* delivered and the sender learns of it, whatever finitely many conversations
\* break off.
EverythingSettles ==
    \A m \in Envelopes :
        delivery[m] = "waiting" ~>
            \/ delivery[m] = "settled"
            \/ ~ LinkUp
            \/ \E n \in Envelopes : delivery[n] = "waiting" /\ ~ Fresh(n)

\* What the child holds is settled at the parent even while the child's own
\* reports are refused for their age: HandlePush takes "the acknowledgements
\* first" so that a refused batch "should still settle the deliveries".
HeldSettles ==
    \A m \in Down :
        inbox[m] = "held" ~> (delivery[m] = "settled" \/ ~ LinkUp \/ inbox[m] = "swept")

\* The link keeps the promise of UrtuuDelivery.
Promise == INSTANCE UrtuuDelivery WITH
    sent <- {m \in Envelopes : delivery[m] # "none"},
    stored <- {m \in Envelopes : inbox[m] # "absent"},
    settled <- {m \in Envelopes : delivery[m] = "settled"}

\* Storing follows queueing, settling follows storing, and no step undoes one:
\* what the senders of tasks and code lists may rely on.
KeepsPromise == Promise!DSpec
=============================================================================
