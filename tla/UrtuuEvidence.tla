----------------------------- MODULE UrtuuEvidence -----------------------------
(***************************************************************************)
(* The documents a task refers to: modules/urtuu/evidence.go, and the      *)
(* requests of handlers.go and envelopes.go that rewrite the list.         *)
(*                                                                         *)
(* The column holds the whole list.  A request that attaches a document    *)
(* reads the row, files or finds the document, and writes the list back;   *)
(* after its move, of a task taken from another installation, it reads the *)
(* row again, asks the register how far each document is signed, writes    *)
(* the list back and reports it upward.  Of a task given to another, whose *)
(* row here is a mirror, that report overwrites the list.  No write looks  *)
(* at what the row holds by then.                                          *)
(***************************************************************************)


CONSTANTS
    Filed,      \* documents filed at this installation
    Foreign,    \* documents filed elsewhere
    Movers      \* requests that move the task and may overlap

ASSUME EvidenceAssumption == Filed \cap Foreign = {}

VARIABLES
    mirror,     \* whether the task was given to the other installation, or taken from it
    shown,      \* the documents app: how far a document is signed
    evidence,   \* urtuu_tasks.evidence: what the list says of each document
    arrived,    \* the list as the assignment brought it or the other side sent it last
    mover,      \* the requests: the list as they read it, and as they will write it
    attached,   \* documents whose attaching statement was executed
    overtaken   \* references overwritten by a list that was older than they

evidenceVars == <<mirror, shown, evidence, arrived, mover, attached, overtaken>>

Refs == Filed \cup Foreign
Lists == [Refs -> {"none", "unsigned", "signed"}]
NotMoving == [stage |-> "idle", seen |-> [d \in Refs |-> "none"], list |-> [d \in Refs |-> "none"]]

EvidenceTypeOK ==
    /\ mirror \in BOOLEAN
    /\ shown \in [Filed -> {"unsigned", "signed", "gone"}]
    /\ evidence \in Lists /\ arrived \in Lists
    /\ mover \in [Movers -> [stage : {"idle", "read", "moved", "refreshed"},
                            seen : Lists, list : Lists]]
    /\ attached \subseteq Filed
    /\ overtaken \subseteq Refs

\* receiveAssignment stores the references as they came; a task that is given away
\* carries what was attached when it was raised.
EvidenceInit ==
    /\ mirror \in BOOLEAN
    /\ shown = [d \in Filed |-> "unsigned"]
    /\ arrived \in IF mirror
                  THEN {l \in Lists : \A d \in Filed : l[d] # "signed"}
                  ELSE {l \in Lists : \A d \in Refs : d \in Filed <=> l[d] = "none"}
    /\ evidence = arrived
    /\ mover = [m \in Movers |-> NotMoving]
    /\ attached = {d \in Filed : arrived[d] # "none"} /\ overtaken = {}

\* The register goes on without the task.
SignDocument(d) ==
    /\ shown[d] = "unsigned"
    /\ shown' = [shown EXCEPT ![d] = "signed"]
    /\ UNCHANGED <<mirror, evidence, arrived, mover, attached, overtaken>>

LoseDocument(d) ==
    /\ shown[d] # "gone"
    /\ shown' = [shown EXCEPT ![d] = "gone"]
    /\ UNCHANGED <<mirror, evidence, arrived, mover, attached, overtaken>>

\* transition: getTask.
ReadTask(m) ==
    /\ mover[m].stage = "idle"
    /\ mover' = [mover EXCEPT ![m] = [stage |-> "read", seen |-> evidence, list |-> evidence]]
    /\ UNCHANGED <<mirror, shown, evidence, arrived, attached, overtaken>>

\* withEvidence: a document already in the list is not taken in again.
WithEvidence(list, d) == IF list[d] = "none" THEN [list EXCEPT ![d] = shown[d]] ELSE list

\* The column is written whole: what was attached since it was read is lost, and
\* what the other side sent since.
Overwritten(m) == {d \in attached : mover[m].seen[d] = "none"}
                  \cup {d \in Foreign : mover[m].seen[d] # arrived[d]}

\* attachDocument, of a document the register can show, and the UPDATE.
AttachDocument(m, d) ==
    /\ mover[m].stage = "read" /\ shown[d] # "gone"
    /\ attached' = attached \cup {d}
    /\ evidence' = WithEvidence(mover[m].list, d)
    /\ overtaken' = Overwritten(m) \ {d}
    /\ mover' = [mover EXCEPT ![m] = NotMoving]
    /\ UNCHANGED <<mirror, shown, arrived>>

\* move, whose answer is the row as it is after the commit.  It may follow an
\* attachment of the same request or come without one.  Of a mirror there is
\* nothing to report upward, and reportUp returns before it refreshes.
MoveTask(m) ==
    /\ ~mirror /\ mover[m].stage = "idle"
    /\ mover' = [mover EXCEPT ![m] = [stage |-> "moved", seen |-> evidence, list |-> evidence]]
    /\ UNCHANGED <<mirror, shown, evidence, arrived, attached, overtaken>>

\* The task may not move, or the caller goes away, or the process.
MoverStops(m) ==
    /\ mover[m].stage # "idle"
    /\ mover' = [mover EXCEPT ![m] = NotMoving]
    /\ UNCHANGED <<mirror, shown, evidence, arrived, attached, overtaken>>

\* Slip: a reference that no longer resolves is dropped.
RefreshedFound(list) ==
    [d \in Refs |-> CASE d \in Foreign \/ list[d] = "none" -> list[d]
                      [] shown[d] = "gone" -> "none"
                      [] OTHER -> shown[d]]

\* refreshEvidence: documents filed here as the register shows them now; one that
\* it cannot show, and one filed elsewhere, as the list has it.
Refreshed(list) ==
    [d \in Refs |-> IF d \in Foreign \/ list[d] = "none" THEN list[d]
                    ELSE IF shown[d] = "gone" THEN list[d] ELSE shown[d]]

Refresh(m) ==
    /\ mover[m].stage = "moved"
    /\ mover' = [mover EXCEPT ![m].stage = "refreshed", ![m].list = Refreshed(@)]
    /\ UNCHANGED <<mirror, shown, evidence, arrived, attached, overtaken>>

\* saveEvidence; the report upward carries the same list.
SaveEvidence(m) ==
    /\ mover[m].stage = "refreshed"
    /\ evidence' = mover[m].list
    /\ overtaken' = Overwritten(m)
    /\ mover' = [mover EXCEPT ![m] = NotMoving]
    /\ UNCHANGED <<mirror, shown, arrived, attached>>

\* receiveUpdate of the other side's news: the list it holds, in which what was
\* sent down is as it was sent.  (News without a list leave the column.)
ReceiveUpdate(list) ==
    /\ mirror
    /\ \A d \in Filed : list[d] = arrived[d]
    /\ evidence' = list /\ arrived' = list
    /\ overtaken' = {d \in attached : list[d] = "none"}
    /\ UNCHANGED <<mirror, shown, mover, attached>>

EvidenceNext ==
    \/ \E d \in Filed : SignDocument(d) \/ LoseDocument(d)
    \/ \E m \in Movers : ReadTask(m) \/ MoveTask(m) \/ MoverStops(m)
    \/ \E m \in Movers : Refresh(m) \/ SaveEvidence(m)
    \/ \E m \in Movers, d \in Filed : AttachDocument(m, d)
    \/ \E list \in Lists : ReceiveUpdate(list)

EvidenceSpec == EvidenceInit /\ [][EvidenceNext]_evidenceVars

-----------------------------------------------------------------------------
(* Properties *)

\* "A reference that has stopped resolving is a fact worth keeping, not one to
\* erase": what was attached stays in the list through any refreshing, and what
\* the other side sent stays as it came.  What a list older than it overwrote is
\* not covered: a request that had read before, or the news from below, which
\* know nothing of a document attached here after the task was given away.
EvidenceStays ==
    /\ \A d \in attached \ overtaken : evidence[d] # "none"
    /\ \A d \in Foreign \ overtaken : evidence[d] = arrived[d]
=============================================================================
