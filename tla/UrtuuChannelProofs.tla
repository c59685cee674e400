------------------------- MODULE UrtuuChannelProofs -------------------------
(***************************************************************************)
(* Theorems about UrtuuChannel, for every set of envelopes, every number   *)
(* of overlapping conversations and every bound.                           *)
(*                                                                         *)
(* The inductive invariant has three parts beside the types: what a        *)
(* conversation carries, names and acknowledges is really queued or really *)
(* stored; the acknowledgements past HandlePush's settling are settled;    *)
(* and an inbox row is never older than its envelope by more than MaxSkew, *)
(* so that a row old enough to be swept belongs to an envelope too old to  *)
(* be accepted again.                                                      *)
(***************************************************************************)
EXTENDS UrtuuChannel, TLAPS

Queued(m) == delivery[m] # "none"
Stored(m) == inbox[m] # "absent"

\* The conversation is inside the push, so that what it carries goes up.
Pushing(w) == conv[w].at \in {"booked", "reported", "accepting"}

StoredIsQueued == \A m \in Envelopes : Stored(m) => Queued(m)

\* What a conversation holds in memory is backed by the tables.
CarryIsQueued == \A w \in Conversations : \A m \in conv[w].carry : Queued(m)
GotIsStored == \A w \in Conversations : \A m \in conv[w].got : Stored(m)
AcksAreStored == \A w \in Conversations : \A m \in conv[w].acks : Stored(m)

BackedByTables == StoredIsQueued /\ CarryIsQueued /\ GotIsStored /\ AcksAreStored

\* A push carries and names only what the child sends.
PushGoesUp ==
    \A w \in Conversations :
        /\ Pushing(w) => conv[w].carry \subseteq Up
        /\ Pushing(w) \/ conv[w].at = "answered" => conv[w].got \subseteq Up

\* Past HandlePush's settling, the acknowledgements of a push are settled.
AcksAreSettled ==
    \A w \in Conversations :
        conv[w].at \in {"accepting", "answered", "settled"} =>
            \A m \in conv[w].acks : delivery[m] = "settled"

\* An inbox row is no older than its envelope, but for the skew; a row that is
\* gone left an envelope past its age.
AgesAgree ==
    \A m \in Envelopes :
        /\ inbox[m] = "held" => held[m] <= age[m] + MaxSkew
        /\ inbox[m] = "swept" => MaxAge < age[m]

-----------------------------------------------------------------------------
(* The tables' operators *)

\* A LIMITed batch is taken from the rows it is selected from.
LEMMA BatchesAreSubsets ==
    ASSUME NEW S, NEW b \in Batches(S)
    PROVE  b \subseteq S
BY DEF Batches

\* Settling closes undelivered rows of the given envelopes and no others, and
\* never opens one.
LEMMA SettledFacts ==
    ASSUME TypeOK, NEW S
    PROVE  /\ Settled(S) \in [Envelopes -> {"none", "waiting", "settled"}]
           /\ \A m \in Envelopes :
                /\ Settled(S)[m] = "none" <=> delivery[m] = "none"
                /\ delivery[m] = "settled" => Settled(S)[m] = "settled"
                /\ Settled(S)[m] = "settled" => delivery[m] = "settled" \/ m \in S
                /\ m \in S /\ Queued(m) => Settled(S)[m] = "settled"
BY DEF Settled, TypeOK, Queued

-----------------------------------------------------------------------------
(* Types *)

LEMMA InitTypes == Init => TypeOK
BY ChannelAssumption DEF Init, TypeOK, Round, Idle, Stages, Sides, Envelopes

LEMMA StepTypes == TypeOK /\ [Next]_vars => TypeOK'
<1> SUFFICES ASSUME TypeOK, [Next]_vars
             PROVE  TypeOK'
    OBVIOUS
<1> USE ChannelAssumption
<1>1. ASSUME NEW m \in Envelopes, Queue(m)
      PROVE  TypeOK'
    BY <1>1 DEF Queue, TypeOK
<1>2. ASSUME NEW w \in Conversations, Book(w)
      PROVE  TypeOK'
    <2>1. PICK b \in Batches(Due("child")) :
              conv' = [conv EXCEPT ![w] = [Idle EXCEPT !.at = "booked", !.carry = b]]
        BY <1>2 DEF Book
    <2>2. b \subseteq Envelopes
        BY <2>1, BatchesAreSubsets DEF Due, SentBy, Envelopes
    <2>3. pause' \in [Envelopes -> 0 .. MaxPause]
        BY <1>2 DEF Book, Booked
    <2> QED
        BY <1>2, <2>1, <2>2, <2>3 DEF Book, TypeOK, Round, Idle, Stages
<1>3. ASSUME NEW w \in Conversations, Report(w)
      PROVE  TypeOK'
    <2>1. PICK b \in OldestUnacked :
              \E x \in {"asking", "reported"} :
                 conv' = [conv EXCEPT ![w] = [@ EXCEPT !.at = x, !.acks = b]]
        BY <1>3 DEF Report
    <2>2. b \subseteq Down
        BY <2>1, BatchesAreSubsets DEF OldestUnacked, Unacked
    <2>3. PICK x \in {"asking", "reported"} :
              conv' = [conv EXCEPT ![w] = [@ EXCEPT !.at = x, !.acks = b]]
        BY <2>1
    <2>4. [conv[w] EXCEPT !.at = x, !.acks = b] \in Round
        BY <2>2, ZenonT(60) DEF TypeOK, Round, Stages
    <2> QED
        BY <1>3, <2>3, <2>4 DEF Report, TypeOK
<1>4. ASSUME NEW w \in Conversations, SettleReport(w)
      PROVE  TypeOK'
    BY <1>4, SettledFacts DEF SettleReport, TypeOK, Round, Stages
<1>5. ASSUME NEW w \in Conversations, SettleAcks(w)
      PROVE  TypeOK'
    BY <1>5 DEF SettleAcks, TypeOK, Round, Idle, Stages, Envelopes
<1>6. ASSUME NEW w \in Conversations, TakeReport(w)
      PROVE  TypeOK'
    BY <1>6, SettledFacts, SMTT(30) DEF TakeReport, TypeOK, Round, Stages
<1>7. ASSUME NEW w \in Conversations, AnswerReport(w)
      PROVE  TypeOK'
    BY <1>7, SMTT(30) DEF AnswerReport, TypeOK, Round, Stages
<1>8. ASSUME NEW w \in Conversations, AskPull(w)
      PROVE  TypeOK'
    BY <1>8 DEF AskPull, TypeOK, Round, Stages
<1>9. ASSUME NEW w \in Conversations, OfferEnvelopes(w)
      PROVE  TypeOK'
    <2>1. PICK b \in Batches(Due("parent")) :
              conv' = [conv EXCEPT ![w] = [@ EXCEPT !.at = "offered", !.carry = b]]
        BY <1>9 DEF OfferEnvelopes
    <2>2. b \subseteq Envelopes
        BY <2>1, BatchesAreSubsets DEF Due, SentBy, Envelopes
    <2>3. pause' \in [Envelopes -> 0 .. MaxPause]
        BY <1>9 DEF OfferEnvelopes, Booked
    <2>4. [conv[w] EXCEPT !.at = "offered", !.carry = b] \in Round
        BY <2>2, ZenonT(60) DEF TypeOK, Round, Stages
    <2> QED
        BY <1>9, <2>1, <2>3, <2>4 DEF OfferEnvelopes, TypeOK
<1>10. ASSUME NEW w \in Conversations, TurnAway(w) \/ EndRound(w)
       PROVE  TypeOK'
    BY <1>10 DEF TurnAway, EndRound, TypeOK, Round, Idle, Stages
<1>11. ASSUME NEW w \in Conversations, NEW m \in Envelopes, AcceptEnvelope(w, m)
       PROVE  TypeOK'
    <2>1. inbox' \in [Envelopes -> {"absent", "held", "swept"}]
        BY <1>11 DEF AcceptEnvelope, TypeOK
    <2>2. held' \in [Envelopes -> 0 .. Horizon]
        BY <1>11 DEF AcceptEnvelope, TypeOK
    <2>3. Named(w, m) \in Round
        BY DEF Named, TypeOK, Round
    <2>4. conv' \in [Conversations -> Round]
        BY <1>11, <2>3 DEF AcceptEnvelope, TypeOK
    <2> QED
        BY <1>11, <2>1, <2>2, <2>4 DEF AcceptEnvelope, TypeOK
<1>12. ASSUME NEW w \in Conversations, NEW m \in Envelopes, RefuseBatch(w, m)
       PROVE  TypeOK'
    BY <1>12 DEF RefuseBatch, TypeOK, Round, Idle, Stages
<1>13. ASSUME NEW w \in Conversations, BreakOff(w)
       PROVE  TypeOK'
    BY <1>13 DEF BreakOff, TypeOK, Round, Idle, Stages
<1>14. CASE Tick
    BY <1>14 DEF Tick, Older, TypeOK
<1>15. ASSUME NEW side \in Sides, SweepInbox(side)
       PROVE  TypeOK'
    BY <1>15 DEF SweepInbox, TypeOK
<1>16. ASSUME NEW side \in Sides, Revoke(side)
       PROVE  TypeOK'
    BY <1>16 DEF Revoke, TypeOK, Sides
<1>17. CASE UNCHANGED vars
    BY <1>17 DEF vars, TypeOK
<1> QED
    BY <1>1, <1>2, <1>3, <1>4, <1>5, <1>6, <1>7, <1>8, <1>9, <1>10, <1>11, <1>12,
       <1>13, <1>14, <1>15, <1>16, <1>17 DEF Next, Converse

\* Every state of a link is well typed: the ages and pauses stay within their
\* bounds and conversations within their stages.
THEOREM TypeCorrect == Spec => []TypeOK
<1>1. Init => TypeOK
    BY InitTypes
<1>2. TypeOK /\ [Next]_vars => TypeOK'
    BY StepTypes
<1> QED
    BY <1>1, <1>2, PTL DEF Spec

-----------------------------------------------------------------------------
(* Nothing is taken back *)

\* A queued envelope stays queued, a settled delivery settled, and an envelope
\* once stored is never again as if it had not been.
NothingTakenBack ==
    \A m \in Envelopes :
        /\ Queued(m) => Queued(m)'
        /\ Stored(m) => Stored(m)'
        /\ delivery[m] = "settled" => delivery'[m] = "settled"

LEMMA StepKeeps == TypeOK /\ [Next]_vars => NothingTakenBack
<1> SUFFICES ASSUME TypeOK, [Next]_vars
             PROVE  NothingTakenBack
    OBVIOUS
<1> USE DEF NothingTakenBack, Queued, Stored
<1>1. ASSUME NEW m \in Envelopes, Queue(m)
      PROVE  NothingTakenBack
    BY <1>1 DEF Queue, TypeOK
<1>2. ASSUME NEW w \in Conversations,
             \/ Book(w) \/ Report(w) \/ SettleAcks(w) \/ AnswerReport(w) \/ AskPull(w)
             \/ OfferEnvelopes(w) \/ TurnAway(w) \/ EndRound(w) \/ BreakOff(w)
      PROVE  NothingTakenBack
    BY <1>2 DEF Book, Report, SettleAcks, AnswerReport, AskPull, OfferEnvelopes,
                TurnAway, EndRound, BreakOff
<1>3. ASSUME NEW w \in Conversations, SettleReport(w) \/ TakeReport(w)
      PROVE  NothingTakenBack
    BY <1>3, SettledFacts DEF SettleReport, TakeReport
<1>4. ASSUME NEW w \in Conversations, NEW m \in Envelopes,
             AcceptEnvelope(w, m) \/ RefuseBatch(w, m)
      PROVE  NothingTakenBack
    BY <1>4 DEF AcceptEnvelope, RefuseBatch, TypeOK
<1>5. CASE Tick
    BY <1>5 DEF Tick
<1>6. ASSUME NEW side \in Sides, SweepInbox(side) \/ Revoke(side)
      PROVE  NothingTakenBack
    BY <1>6 DEF SweepInbox, Revoke, TypeOK
<1>7. CASE UNCHANGED vars
    BY <1>7 DEF vars
<1> QED
    BY <1>1, <1>2, <1>3, <1>4, <1>5, <1>6, <1>7 DEF Next, Converse

-----------------------------------------------------------------------------
(* What conversations hold is backed by the tables *)

LinkInv == SettledIsStored /\ BackedByTables

LEMMA InitLinkInv == Init => LinkInv
BY DEF Init, LinkInv, SettledIsStored, BackedByTables, StoredIsQueued, CarryIsQueued,
       GotIsStored, AcksAreStored, Queued, Stored, Idle

\* The conversations' part of LinkInv carries over a step that gives one
\* conversation a round whose contents are backed, and leaves the others.
LEMMA BackedRound ==
    ASSUME TypeOK, LinkInv, NothingTakenBack,
           NEW w \in Conversations, NEW r \in Round,
           conv' = [conv EXCEPT ![w] = r],
           \A m \in r.carry : Queued(m)',
           \A m \in r.got : Stored(m)',
           \A m \in r.acks : Stored(m)'
    PROVE  (CarryIsQueued /\ GotIsStored /\ AcksAreStored)'
<1>1. \A v \in Conversations : conv'[v] = IF v = w THEN r ELSE conv[v]
    BY DEF TypeOK
<1>2. \A v \in Conversations :
         /\ conv[v].carry \subseteq Envelopes
         /\ conv[v].got \subseteq Envelopes
         /\ conv[v].acks \subseteq Envelopes
    BY DEF TypeOK, Round, Envelopes
<1> QED
    BY <1>1, <1>2 DEF LinkInv, BackedByTables, CarryIsQueued, GotIsStored, AcksAreStored,
                      NothingTakenBack

LEMMA StepLinkInv == TypeOK /\ LinkInv /\ [Next]_vars => LinkInv'
<1> SUFFICES ASSUME TypeOK, LinkInv, [Next]_vars
             PROVE  LinkInv'
    OBVIOUS
<1>0. NothingTakenBack
    BY StepKeeps
<1>a. ASSUME (SettledIsStored /\ StoredIsQueued)',
             (CarryIsQueued /\ GotIsStored /\ AcksAreStored)'
      PROVE  LinkInv'
    BY <1>a DEF LinkInv, BackedByTables
<1>b. ASSUME UNCHANGED <<delivery, inbox>>
      PROVE  (SettledIsStored /\ StoredIsQueued)'
    BY <1>b DEF LinkInv, BackedByTables, SettledIsStored, StoredIsQueued, Queued, Stored
<1>c. ASSUME UNCHANGED conv
      PROVE  (CarryIsQueued /\ GotIsStored /\ AcksAreStored)'
    BY <1>0, <1>c DEF LinkInv, BackedByTables, CarryIsQueued, GotIsStored, AcksAreStored,
                      NothingTakenBack, TypeOK, Round, Envelopes
<1>d. \A w \in Conversations :
         /\ conv[w] \in Round
         /\ \A m \in conv[w].carry : m \in Envelopes /\ Queued(m)
         /\ \A m \in conv[w].got : m \in Envelopes /\ Stored(m)
         /\ \A m \in conv[w].acks : m \in Envelopes /\ Stored(m)
    BY DEF TypeOK, Round, Envelopes, LinkInv, BackedByTables, CarryIsQueued, GotIsStored,
           AcksAreStored
<1>e. Idle \in Round
    BY DEF Idle, Round, Stages
<1>1. ASSUME NEW m \in Envelopes, Queue(m)
      PROVE  LinkInv'
    <2>1. (SettledIsStored /\ StoredIsQueued)'
        BY <1>1 DEF Queue, TypeOK, LinkInv, BackedByTables, SettledIsStored, StoredIsQueued,
                    Queued, Stored
    <2> QED
        BY <1>1, <1>a, <1>c, <2>1 DEF Queue
<1>2. ASSUME NEW w \in Conversations, Book(w)
      PROVE  LinkInv'
    <2>1. PICK b \in Batches(Due("child")) :
              conv' = [conv EXCEPT ![w] = [Idle EXCEPT !.at = "booked", !.carry = b]]
        BY <1>2 DEF Book
    <2>2. \A m \in b : m \in Envelopes /\ Queued(m)
        BY <2>1, BatchesAreSubsets DEF Due, SentBy, Envelopes, Queued
    <2>3. [Idle EXCEPT !.at = "booked", !.carry = b] \in Round
        BY <2>2 DEF Idle, Round, Stages
    <2>4. (CarryIsQueued /\ GotIsStored /\ AcksAreStored)'
        BY <1>0, <2>1, <2>2, <2>3, BackedRound DEF Idle, NothingTakenBack
    <2> QED
        BY <1>2, <1>a, <1>b, <2>4 DEF Book
<1>3. ASSUME NEW w \in Conversations, Report(w)
      PROVE  LinkInv'
    <2>1. PICK b \in OldestUnacked, x \in {"asking", "reported"} :
              conv' = [conv EXCEPT ![w] = [@ EXCEPT !.at = x, !.acks = b]]
        BY <1>3 DEF Report
    <2>2. b \subseteq Down /\ \A m \in b : m \in Envelopes /\ Stored(m)
        BY <2>1, BatchesAreSubsets DEF OldestUnacked, Unacked, Envelopes, Stored
    <2>3. [conv[w] EXCEPT !.at = x, !.acks = b] \in Round
        BY <1>d, <2>2 DEF Round, Stages
    <2>4. (CarryIsQueued /\ GotIsStored /\ AcksAreStored)'
        BY <1>0, <1>d, <2>1, <2>2, <2>3, BackedRound DEF NothingTakenBack, Round
    <2> QED
        BY <1>3, <1>a, <1>b, <2>4 DEF Report
<1>4. ASSUME NEW w \in Conversations, SettleReport(w)
      PROVE  LinkInv'
    <2>1. (SettledIsStored /\ StoredIsQueued)'
        BY <1>4, <1>d, SettledFacts DEF SettleReport, LinkInv, BackedByTables,
           SettledIsStored, StoredIsQueued, Queued, Stored
    <2>2. [conv[w] EXCEPT !.at = "settled"] \in Round
        BY <1>d DEF Round, Stages
    <2>3. (CarryIsQueued /\ GotIsStored /\ AcksAreStored)'
        BY <1>0, <1>4, <1>d, <2>2, BackedRound DEF SettleReport, NothingTakenBack, Round
    <2> QED
        BY <1>a, <2>1, <2>3
<1>5. ASSUME NEW w \in Conversations, SettleAcks(w)
      PROVE  LinkInv'
    <2>1. [Idle EXCEPT !.at = "asking"] \in Round
        BY DEF Idle, Round, Stages
    <2>2. (CarryIsQueued /\ GotIsStored /\ AcksAreStored)'
        BY <1>0, <1>5, <2>1, BackedRound DEF SettleAcks, Idle
    <2> QED
        BY <1>5, <1>a, <1>b, <2>2 DEF SettleAcks
<1>6. ASSUME NEW w \in Conversations, TakeReport(w)
      PROVE  LinkInv'
    <2>1. (SettledIsStored /\ StoredIsQueued)'
        BY <1>6, <1>d, SettledFacts DEF TakeReport, LinkInv, BackedByTables,
           SettledIsStored, StoredIsQueued, Queued, Stored
    <2>2. [conv[w] EXCEPT !.at = "accepting"] \in Round
        BY <1>d DEF Round, Stages
    <2>3. (CarryIsQueued /\ GotIsStored /\ AcksAreStored)'
        BY <1>0, <1>6, <1>d, <2>2, BackedRound DEF TakeReport, NothingTakenBack, Round
    <2> QED
        BY <1>a, <2>1, <2>3
<1>7. ASSUME NEW w \in Conversations, NEW x \in {"answered", "polling"},
             conv' = [conv EXCEPT ![w].at = x], UNCHANGED <<delivery, inbox>>
      PROVE  LinkInv'
    <2>1. [conv[w] EXCEPT !.at = x] \in Round
        BY <1>d DEF Round, Stages
    <2>2. (CarryIsQueued /\ GotIsStored /\ AcksAreStored)'
        BY <1>0, <1>7, <1>d, <2>1, BackedRound DEF NothingTakenBack, Round
    <2> QED
        BY <1>7, <1>a, <1>b, <2>2
<1>8. ASSUME NEW w \in Conversations, OfferEnvelopes(w)
      PROVE  LinkInv'
    <2>1. PICK b \in Batches(Due("parent")) :
              conv' = [conv EXCEPT ![w] = [@ EXCEPT !.at = "offered", !.carry = b]]
        BY <1>8 DEF OfferEnvelopes
    <2>2. \A m \in b : m \in Envelopes /\ Queued(m)
        BY <2>1, BatchesAreSubsets DEF Due, SentBy, Envelopes, Queued
    <2>3. [conv[w] EXCEPT !.at = "offered", !.carry = b] \in Round
        BY <1>d, <2>2 DEF Round, Stages
    <2>4. (CarryIsQueued /\ GotIsStored /\ AcksAreStored)'
        BY <1>0, <1>d, <2>1, <2>2, <2>3, BackedRound DEF NothingTakenBack, Round
    <2> QED
        BY <1>8, <1>a, <1>b, <2>4 DEF OfferEnvelopes
<1>9. ASSUME NEW w \in Conversations, conv' = [conv EXCEPT ![w] = Idle],
             UNCHANGED <<delivery, inbox>>
      PROVE  LinkInv'
    <2>1. (CarryIsQueued /\ GotIsStored /\ AcksAreStored)'
        BY <1>0, <1>9, <1>e, BackedRound DEF Idle
    <2> QED
        BY <1>9, <1>a, <1>b, <2>1
<1>10. ASSUME NEW w \in Conversations, NEW m \in Envelopes, AcceptEnvelope(w, m)
       PROVE  LinkInv'
    <2>1. m \in conv[w].carry /\ Queued(m) /\ Stored(m)'
        BY <1>10, <1>d DEF AcceptEnvelope, Stored, TypeOK
    <2>2. (SettledIsStored /\ StoredIsQueued)'
        BY <1>10, <1>0, <2>1 DEF AcceptEnvelope, NothingTakenBack, TypeOK, LinkInv,
           BackedByTables, SettledIsStored, StoredIsQueued, Queued, Stored
    <2>3. Named(w, m) \in Round
        BY <1>d DEF Named, Round
    <2>4. /\ Named(w, m).carry \subseteq conv[w].carry
          /\ Named(w, m).got = conv[w].got \cup {m}
          /\ Named(w, m).acks = conv[w].acks
        BY <1>d DEF Named, Round
    <2>5. (CarryIsQueued /\ GotIsStored /\ AcksAreStored)'
        BY <1>10, <1>0, <1>d, <2>1, <2>3, <2>4, BackedRound DEF AcceptEnvelope,
           NothingTakenBack
    <2> QED
        BY <1>a, <2>2, <2>5
<1>11. CASE Tick
    BY <1>11, <1>a, <1>b, <1>c DEF Tick
<1>12. ASSUME NEW side \in Sides, SweepInbox(side)
       PROVE  LinkInv'
    <2>1. (SettledIsStored /\ StoredIsQueued)'
        BY <1>12 DEF SweepInbox, TypeOK, LinkInv, BackedByTables, SettledIsStored,
                     StoredIsQueued, Queued, Stored
    <2> QED
        BY <1>12, <1>a, <1>c, <2>1 DEF SweepInbox
<1>13. ASSUME NEW side \in Sides, Revoke(side)
       PROVE  LinkInv'
    BY <1>13, <1>a, <1>b, <1>c DEF Revoke
<1>14. CASE UNCHANGED vars
    BY <1>14, <1>a, <1>b, <1>c DEF vars
<1> QED
    BY <1>1, <1>2, <1>3, <1>4, <1>5, <1>6, <1>7, <1>8, <1>9, <1>10, <1>11, <1>12, <1>13,
       <1>14 DEF Next, Converse, AnswerReport, AskPull, TurnAway, EndRound, RefuseBatch,
                 BreakOff

\* No delivery is ever closed for an envelope its receiver has not stored, with
\* any number of conversations at once and wherever they break off.
THEOREM NoSettledLoss == Spec => []SettledIsStored
<1>1. Init => TypeOK /\ LinkInv
    BY InitTypes, InitLinkInv
<1>2. TypeOK /\ LinkInv /\ [Next]_vars => (TypeOK /\ LinkInv)'
    BY StepTypes, StepLinkInv
<1>3. LinkInv => SettledIsStored
    BY DEF LinkInv
<1> QED
    BY <1>1, <1>2, <1>3, PTL DEF Spec

-----------------------------------------------------------------------------
(* Ages, and the replay defence *)

LEMMA InitAges == Init => AgesAgree
BY DEF Init, AgesAgree

LEMMA StepAges == TypeOK /\ LinkInv /\ AgesAgree /\ [Next]_vars => AgesAgree'
<1> SUFFICES ASSUME TypeOK, LinkInv, AgesAgree, [Next]_vars
             PROVE  AgesAgree'
    OBVIOUS
<1> USE ChannelAssumption
<1>a. ASSUME UNCHANGED <<age, inbox, held>>
      PROVE  AgesAgree'
    BY <1>a DEF AgesAgree
<1>1. ASSUME NEW m \in Envelopes, Queue(m)
      PROVE  AgesAgree'
    <2>1. inbox[m] = "absent"
        BY <1>1 DEF Queue, LinkInv, BackedByTables, StoredIsQueued, Queued, Stored
    <2>2. \A n \in Envelopes : n # m => age'[n] = age[n]
        BY <1>1 DEF Queue, TypeOK
    <2> QED
        BY <1>1, <2>1, <2>2 DEF Queue, AgesAgree
<1>2. ASSUME NEW w \in Conversations, NEW m \in Envelopes, AcceptEnvelope(w, m)
      PROVE  AgesAgree'
    <2>1. CASE inbox[m] = "held"
        BY <1>2, <2>1, <1>a DEF AcceptEnvelope
    <2>2. CASE inbox[m] # "held"
        <3>1. /\ inbox' = [inbox EXCEPT ![m] = "held"]
              /\ held' = [held EXCEPT ![m] = 0]
              /\ age' = age
              /\ 0 <= age[m] + MaxSkew
            BY <1>2, <2>2 DEF AcceptEnvelope, Fresh, TypeOK
        <3> QED
            BY <3>1 DEF AgesAgree, TypeOK
    <2> QED
        BY <2>1, <2>2
<1>3. CASE Tick
    <2>1. ASSUME NEW m \in Envelopes
          PROVE  /\ inbox'[m] = "held" => held'[m] <= age'[m] + MaxSkew
                 /\ inbox'[m] = "swept" => MaxAge < age'[m]
        <3>1. CASE inbox[m] = "absent"
            BY <1>3, <3>1 DEF Tick
        <3>2. CASE Stored(m)
            <4>1. Queued(m)
                BY <3>2 DEF LinkInv, BackedByTables, StoredIsQueued
            <4>2. /\ age'[m] = Older(age[m])
                  /\ inbox'[m] = inbox[m]
                  /\ inbox[m] = "held" => held'[m] = Older(held[m])
                BY <1>3, <4>1 DEF Tick, Queued
            <4>3. age[m] \in Int /\ held[m] \in Int
                BY DEF TypeOK
            <4>4. /\ inbox[m] = "held" => held[m] <= age[m] + MaxSkew
                  /\ inbox[m] = "swept" => MaxAge < age[m]
                BY DEF AgesAgree
            <4> QED
                BY <4>2, <4>3, <4>4 DEF Older
        <3> QED
            BY <3>1, <3>2 DEF Stored
    <2> QED
        BY <2>1 DEF AgesAgree
<1>4. ASSUME NEW side \in Sides, SweepInbox(side)
      PROVE  AgesAgree'
    <2>1. ASSUME NEW m \in Envelopes
          PROVE  /\ inbox'[m] = "held" => held'[m] <= age'[m] + MaxSkew
                 /\ inbox'[m] = "swept" => MaxAge < age'[m]
        <3>1. age[m] \in Int /\ held[m] \in Int
            BY DEF TypeOK
        <3>2. /\ inbox[m] = "held" => held[m] <= age[m] + MaxSkew
              /\ inbox[m] = "swept" => MaxAge < age[m]
            BY DEF AgesAgree
        <3>3. \/ inbox'[m] = inbox[m] /\ held'[m] = held[m]
              \/ inbox[m] = "held" /\ held[m] > InboxRetention /\ inbox'[m] = "swept"
            BY <1>4 DEF SweepInbox
        <3>4. age'[m] = age[m]
            BY <1>4 DEF SweepInbox
        <3> QED
            BY <3>1, <3>2, <3>3, <3>4, RetentionOutlastsAge
    <2> QED
        BY <2>1 DEF AgesAgree
<1> QED
    BY <1>a, <1>1, <1>2, <1>3, <1>4 DEF Next, Converse, Book, Report, SettleReport, SettleAcks,
       TakeReport, AnswerReport, AskPull, OfferEnvelopes, TurnAway, EndRound, RefuseBatch,
       BreakOff, Revoke, vars

\* The replay defence holds for every MaxAge, MaxSkew and retention with MaxAge +
\* MaxSkew <= InboxRetention, and whatever the clocks and the repeats: a row that
\* retention removed is never written again.
THEOREM ReplayDefence == Spec => StoredOnce
<1> DEFINE A == \A m \in Envelopes : inbox[m] = "swept" => inbox'[m] = "swept"
<1>1. Init => TypeOK /\ LinkInv /\ AgesAgree
    BY InitTypes, InitLinkInv, InitAges
<1>2. TypeOK /\ LinkInv /\ AgesAgree /\ [Next]_vars => (TypeOK /\ LinkInv /\ AgesAgree)'
    BY StepTypes, StepLinkInv, StepAges
<1>3. ASSUME TypeOK, AgesAgree, [Next]_vars
      PROVE  A
    <2>a. ASSUME UNCHANGED inbox
          PROVE  A
        BY <2>a
    <2>1. ASSUME NEW w \in Conversations, NEW m \in Envelopes, AcceptEnvelope(w, m)
          PROVE  A
        <3>1. age[m] \in Int /\ age[m] <= MaxAge
            BY <1>3, <2>1 DEF AcceptEnvelope, Fresh, TypeOK
        <3>2. inbox[m] # "swept"
            BY <1>3, <3>1, ChannelAssumption DEF AgesAgree
        <3> QED
            BY <1>3, <2>1, <3>2 DEF AcceptEnvelope, TypeOK
    <2>2. ASSUME NEW side \in Sides, SweepInbox(side)
          PROVE  A
        BY <2>2 DEF SweepInbox
    <2> QED
        BY <1>3, <2>a, <2>1, <2>2 DEF Next, Converse, Queue, Book, Report, SettleReport,
           SettleAcks, TakeReport, AnswerReport, AskPull, OfferEnvelopes, TurnAway, EndRound,
           RefuseBatch, BreakOff, Tick, Revoke, vars
<1>4. TypeOK /\ LinkInv /\ AgesAgree /\ [Next]_vars => [A]_vars
    BY <1>3
<1> QED
    BY <1>1, <1>2, <1>4, PTL DEF Spec, StoredOnce

-----------------------------------------------------------------------------
(* The abstract link *)

LEMMA StepPromise == TypeOK /\ LinkInv /\ [Next]_vars => [Promise!DNext]_(Promise!dvars)
<1> SUFFICES ASSUME TypeOK, LinkInv, [Next]_vars
             PROVE  Promise!DNext \/ UNCHANGED Promise!dvars
    BY DEF Promise!dvars
<1> DEFINE sent == {m \in Envelopes : delivery[m] # "none"}
           stored == {m \in Envelopes : inbox[m] # "absent"}
           settled == {m \in Envelopes : delivery[m] = "settled"}
<1>a. ASSUME UNCHANGED <<delivery, inbox>>
      PROVE  UNCHANGED Promise!dvars
    BY <1>a DEF Promise!dvars
<1>1. ASSUME NEW m \in Envelopes, Queue(m)
      PROVE  Promise!Send(m)
    BY <1>1 DEF Queue, TypeOK, Promise!Send
<1>2. ASSUME NEW S, S \subseteq stored, delivery' = Settled(S), UNCHANGED inbox
      PROVE  Promise!Settle(S)
    <2>1. sent' = sent
        BY <1>2, SettledFacts
    <2>2. settled' = settled \cup S
        <3>1. \A m \in S : m \in Envelopes /\ Queued(m)
            BY <1>2 DEF LinkInv, BackedByTables, StoredIsQueued, Stored
        <3> QED
            BY <1>2, <3>1, SettledFacts
    <2> QED
        BY <1>2, <2>1, <2>2 DEF Promise!Settle
<1>3. ASSUME NEW w \in Conversations, SettleReport(w) \/ TakeReport(w)
      PROVE  Promise!DNext \/ UNCHANGED Promise!dvars
    <2>1. conv[w].got \subseteq stored /\ conv[w].acks \subseteq stored
        BY DEF TypeOK, Round, Envelopes, LinkInv, BackedByTables, GotIsStored, AcksAreStored,
               Stored
    <2>2. CASE UNCHANGED delivery
        BY <1>3, <1>a, <2>2 DEF SettleReport, TakeReport
    <2>3. CASE delivery' # delivery
        <3>1. PICK S \in SUBSET Envelopes : S \subseteq stored /\ delivery' = Settled(S)
            BY <1>3, <2>1, <2>3 DEF SettleReport, TakeReport
        <3>2. Promise!Settle(S)
            BY <1>2, <1>3, <3>1 DEF SettleReport, TakeReport
        <3> QED
            BY <3>2 DEF Promise!DNext
    <2> QED
        BY <2>2, <2>3
<1>4. ASSUME NEW w \in Conversations, NEW m \in Envelopes, AcceptEnvelope(w, m)
      PROVE  Promise!Store(m) \/ UNCHANGED Promise!dvars
    <2>1. Queued(m)
        BY <1>4 DEF AcceptEnvelope, LinkInv, BackedByTables, CarryIsQueued
    <2>2. sent' = sent /\ settled' = settled
        BY <1>4 DEF AcceptEnvelope
    <2>3. CASE inbox[m] = "absent"
        <3>1. stored' = stored \cup {m}
            BY <1>4, <2>3 DEF AcceptEnvelope, TypeOK
        <3> QED
            BY <2>1, <2>2, <2>3, <3>1 DEF Promise!Store, Queued
    <2>4. CASE inbox[m] # "absent"
        <3>1. stored' = stored
            BY <1>4, <2>4 DEF AcceptEnvelope, TypeOK
        <3> QED
            BY <2>2, <3>1 DEF Promise!dvars
    <2> QED
        BY <2>3, <2>4
<1>5. ASSUME NEW side \in Sides, SweepInbox(side)
      PROVE  UNCHANGED Promise!dvars
    BY <1>5 DEF SweepInbox, Promise!dvars
<1> QED
    BY <1>a, <1>1, <1>3, <1>4, <1>5 DEF Next, Converse, Book, Report, SettleAcks,
       AnswerReport, AskPull, OfferEnvelopes, TurnAway, EndRound, RefuseBatch, BreakOff,
       Tick, Revoke, vars, Promise!DNext

\* The link implements what UrtuuDelivery promises its users: every step of it
\* sends, stores or settles as that module allows, or changes nothing it speaks of.
THEOREM LinkKeepsPromise == Spec => KeepsPromise
<1>1. Init => TypeOK /\ LinkInv
    BY InitTypes, InitLinkInv
<1>2. TypeOK /\ LinkInv /\ [Next]_vars => (TypeOK /\ LinkInv)'
    BY StepTypes, StepLinkInv
<1>3. Init => Promise!DInit
    BY DEF Init, Promise!DInit
<1>4. TypeOK /\ LinkInv /\ [Next]_vars => [Promise!DNext]_(Promise!dvars)
    BY StepPromise
<1> QED
    BY <1>1, <1>2, <1>3, <1>4, PTL DEF Spec, KeepsPromise, Promise!DSpec

-----------------------------------------------------------------------------
(* Acknowledgements *)

AckInv == AckedIsSettled /\ AcksAreSettled /\ PushGoesUp

LEMMA InitAckInv == Init => AckInv
BY DEF Init, AckInv, AckedIsSettled, AcksAreSettled, PushGoesUp, Pushing, Idle

\* The conversations' part of AckInv carries over a step that gives one
\* conversation a round with the right contents, and leaves the others.
LEMMA AckRound ==
    ASSUME TypeOK, AckInv, NothingTakenBack,
           NEW w \in Conversations, NEW r \in Round,
           conv' = [conv EXCEPT ![w] = r],
           r.at \in {"booked", "reported", "accepting"} => r.carry \subseteq Up,
           r.at \in {"booked", "reported", "accepting", "answered"} => r.got \subseteq Up,
           r.at \in {"accepting", "answered", "settled"} =>
               \A m \in r.acks : delivery'[m] = "settled"
    PROVE  (AcksAreSettled /\ PushGoesUp)'
<1>1. \A v \in Conversations : conv'[v] = IF v = w THEN r ELSE conv[v]
    BY DEF TypeOK
<1>2. \A v \in Conversations : conv[v].acks \subseteq Envelopes
    BY DEF TypeOK, Round, Envelopes
<1>3. AcksAreSettled'
    BY <1>1, <1>2 DEF AckInv, AcksAreSettled, NothingTakenBack
<1>4. PushGoesUp'
    BY <1>1 DEF AckInv, PushGoesUp, Pushing
<1> QED
    BY <1>3, <1>4

LEMMA StepAckInv ==
    ASSUME SettleMayFail = FALSE
    PROVE  TypeOK /\ LinkInv /\ AckInv /\ [Next]_vars => AckInv'
<1> SUFFICES ASSUME TypeOK, LinkInv, AckInv, [Next]_vars
             PROVE  AckInv'
    OBVIOUS
<1>0. NothingTakenBack
    BY StepKeeps
<1>a. ASSUME AckedIsSettled', (AcksAreSettled /\ PushGoesUp)'
      PROVE  AckInv'
    BY <1>a DEF AckInv
<1>b. ASSUME acked' \subseteq acked
      PROVE  AckedIsSettled'
    BY <1>0, <1>b DEF AckInv, AckedIsSettled, NothingTakenBack, Envelopes
<1>c. ASSUME UNCHANGED conv
      PROVE  (AcksAreSettled /\ PushGoesUp)'
    BY <1>0, <1>c DEF AckInv, AcksAreSettled, PushGoesUp, Pushing, NothingTakenBack,
                      TypeOK, Round, Envelopes
<1>d. \A w \in Conversations :
         /\ conv[w] \in Round
         /\ Pushing(w) => conv[w].carry \subseteq Up
         /\ Pushing(w) \/ conv[w].at = "answered" => conv[w].got \subseteq Up
         /\ conv[w].at \in {"accepting", "answered", "settled"} =>
                \A m \in conv[w].acks : delivery[m] = "settled"
         /\ \A m \in conv[w].acks : m \in Envelopes /\ Queued(m)
    BY DEF TypeOK, Round, AckInv, PushGoesUp, AcksAreSettled, LinkInv, BackedByTables,
           AcksAreStored, StoredIsQueued, Envelopes
<1>1. ASSUME NEW w \in Conversations, Book(w)
      PROVE  AckInv'
    <2>1. PICK b \in Batches(Due("child")) :
              conv' = [conv EXCEPT ![w] = [Idle EXCEPT !.at = "booked", !.carry = b]]
        BY <1>1 DEF Book
    <2>2. b \subseteq Up
        BY <2>1, BatchesAreSubsets DEF Due, SentBy
    <2>3. [Idle EXCEPT !.at = "booked", !.carry = b] \in Round
        BY <2>2 DEF Idle, Round, Stages, Envelopes
    <2>4. (AcksAreSettled /\ PushGoesUp)'
        BY <1>0, <2>1, <2>2, <2>3, AckRound DEF Idle
    <2> QED
        BY <1>1, <1>a, <1>b, <2>4 DEF Book
<1>2. ASSUME NEW w \in Conversations, Report(w)
      PROVE  AckInv'
    <2>1. PICK b \in OldestUnacked, x \in {"asking", "reported"} :
              conv' = [conv EXCEPT ![w] = [@ EXCEPT !.at = x, !.acks = b]]
        BY <1>2 DEF Report
    <2>2. b \subseteq Down
        BY <2>1, BatchesAreSubsets DEF OldestUnacked, Unacked
    <2>3. [conv[w] EXCEPT !.at = x, !.acks = b] \in Round
        BY <1>d, <2>2 DEF Round, Stages
    <2>4. (AcksAreSettled /\ PushGoesUp)'
        BY <1>0, <1>2, <1>d, <2>1, <2>3, AckRound DEF Report, Pushing, Round
    <2> QED
        BY <1>2, <1>a, <1>b, <2>4 DEF Report
<1>3. ASSUME NEW w \in Conversations, SettleReport(w)
      PROVE  AckInv'
    <2>1. [conv[w] EXCEPT !.at = "settled"] \in Round
        BY <1>d DEF Round, Stages
    <2>2. \A m \in conv[w].acks : delivery'[m] = "settled"
        BY <1>0, <1>3, <1>d DEF SettleReport, NothingTakenBack
    <2>3. (AcksAreSettled /\ PushGoesUp)'
        BY <1>0, <1>3, <1>d, <2>1, <2>2, AckRound DEF SettleReport, Round
    <2> QED
        BY <1>3, <1>a, <1>b, <2>3 DEF SettleReport
<1>4. ASSUME NEW w \in Conversations, SettleAcks(w)
      PROVE  AckInv'
    <2>1. [Idle EXCEPT !.at = "asking"] \in Round
        BY DEF Idle, Round, Stages
    <2>2. (AcksAreSettled /\ PushGoesUp)'
        BY <1>0, <1>4, <2>1, AckRound DEF SettleAcks, Idle
    <2>3. AckedIsSettled'
        BY <1>4, <1>d DEF SettleAcks, AckInv, AckedIsSettled
    <2> QED
        BY <1>a, <2>2, <2>3
<1>5. ASSUME NEW w \in Conversations, TakeReport(w)
      PROVE  AckInv'
    <2>1. delivery' = Settled(conv[w].acks)
        BY <1>5 DEF TakeReport
    <2>2. \A m \in conv[w].acks : delivery'[m] = "settled"
        BY <1>d, <2>1, SettledFacts
    <2>3. [conv[w] EXCEPT !.at = "accepting"] \in Round
        BY <1>d DEF Round, Stages
    <2>4. (AcksAreSettled /\ PushGoesUp)'
        BY <1>0, <1>5, <1>d, <2>2, <2>3, AckRound DEF TakeReport, Pushing, Round
    <2> QED
        BY <1>5, <1>a, <1>b, <2>4 DEF TakeReport
<1>6. ASSUME NEW w \in Conversations, AnswerReport(w)
      PROVE  AckInv'
    <2>1. [conv[w] EXCEPT !.at = "answered"] \in Round
        BY <1>d DEF Round, Stages
    <2>2. (AcksAreSettled /\ PushGoesUp)'
        BY <1>0, <1>6, <1>d, <2>1, AckRound DEF AnswerReport, Pushing, Round
    <2>3. acked' \subseteq acked \cup Up
        BY <1>6, <1>d DEF AnswerReport, Pushing
    <2>4. AckedIsSettled'
        BY <1>6, <2>3, ChannelAssumption DEF AnswerReport, AckInv, AckedIsSettled
    <2> QED
        BY <1>a, <2>2, <2>4
<1>7. ASSUME NEW w \in Conversations, AskPull(w)
      PROVE  AckInv'
    <2>1. [conv[w] EXCEPT !.at = "polling"] \in Round
        BY <1>d DEF Round, Stages
    <2>2. (AcksAreSettled /\ PushGoesUp)'
        BY <1>0, <1>7, <2>1, AckRound DEF AskPull, Round
    <2> QED
        BY <1>7, <1>a, <1>b, <2>2 DEF AskPull
<1>8. ASSUME NEW w \in Conversations, OfferEnvelopes(w)
      PROVE  AckInv'
    <2>1. PICK b \in Batches(Due("parent")) :
              conv' = [conv EXCEPT ![w] = [@ EXCEPT !.at = "offered", !.carry = b]]
        BY <1>8 DEF OfferEnvelopes
    <2>2. b \subseteq Envelopes
        BY <2>1, BatchesAreSubsets DEF Due, SentBy, Envelopes
    <2>3. [conv[w] EXCEPT !.at = "offered", !.carry = b] \in Round
        BY <1>d, <2>2 DEF Round, Stages
    <2>4. (AcksAreSettled /\ PushGoesUp)'
        BY <1>0, <2>1, <2>3, AckRound DEF Round
    <2> QED
        BY <1>8, <1>a, <1>b, <2>4 DEF OfferEnvelopes
<1>9. ASSUME NEW w \in Conversations, conv' = [conv EXCEPT ![w] = Idle], UNCHANGED acked
      PROVE  AckInv'
    <2>1. Idle \in Round
        BY DEF Idle, Round, Stages
    <2>2. (AcksAreSettled /\ PushGoesUp)'
        BY <1>0, <1>9, <2>1, AckRound DEF Idle
    <2> QED
        BY <1>9, <1>a, <1>b, <2>2
<1>10. ASSUME NEW w \in Conversations, NEW m \in Envelopes, AcceptEnvelope(w, m)
       PROVE  AckInv'
    <2>1. Named(w, m) \in Round
        BY <1>d DEF Named, Round
    <2>2. /\ Named(w, m).at = conv[w].at
          /\ Named(w, m).carry = conv[w].carry \ {m}
          /\ Named(w, m).got = conv[w].got \cup {m}
          /\ Named(w, m).acks = conv[w].acks
        BY <1>d DEF Named, Round
    <2>3. delivery' = delivery /\ conv[w].at \in {"accepting", "offered"}
        BY <1>10 DEF AcceptEnvelope
    <2>4. conv[w].at = "accepting" =>
              Named(w, m).carry \subseteq Up /\ Named(w, m).got \subseteq Up
        BY <1>10, <1>d, <2>2 DEF AcceptEnvelope, Pushing
    <2>5. (AcksAreSettled /\ PushGoesUp)'
        BY <1>10, <1>0, <1>d, <2>1, <2>2, <2>3, <2>4, AckRound DEF AcceptEnvelope
    <2> QED
        BY <1>10, <1>a, <1>b, <2>5 DEF AcceptEnvelope
<1>11. ASSUME \/ \E m \in Envelopes : Queue(m)
              \/ Tick
              \/ \E side \in Sides : SweepInbox(side) \/ Revoke(side)
              \/ UNCHANGED vars
       PROVE  AckInv'
    BY <1>11, <1>a, <1>b, <1>c DEF Queue, Tick, SweepInbox, Revoke, vars
<1> QED
    BY <1>1, <1>2, <1>3, <1>4, <1>5, <1>6, <1>7, <1>8, <1>9, <1>10, <1>11
       DEF Next, Converse, TurnAway, EndRound, RefuseBatch, BreakOff

\* When HandlePush's settling does not fail, an acknowledgement the child has
\* struck off is one the parent has settled, whatever else breaks off and
\* however many conversations overlap.
THEOREM AcksReachTheParent ==
    ASSUME SettleMayFail = FALSE
    PROVE  Spec => []AckedIsSettled
<1>1. Init => TypeOK /\ LinkInv /\ AckInv
    BY InitTypes, InitLinkInv, InitAckInv
<1>2. TypeOK /\ LinkInv /\ AckInv /\ [Next]_vars => (TypeOK /\ LinkInv /\ AckInv)'
    BY StepTypes, StepLinkInv, StepAckInv
<1>3. AckInv => AckedIsSettled
    BY DEF AckInv
<1> QED
    BY <1>1, <1>2, <1>3, PTL DEF Spec
=============================================================================
