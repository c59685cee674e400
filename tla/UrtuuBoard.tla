----------------------------- MODULE UrtuuBoard -----------------------------
(***************************************************************************)
(* One piece of work travelling over the boards of several installations:  *)
(* modules/urtuu/handlers.go, tasks.go and envelopes.go.                   *)
(*                                                                         *)
(* A task row is the root of the work, or what an office was given by one  *)
(* above it, or a mirror: the row an office keeps for work it sent below.  *)
(* A mirror follows the task.update envelopes of the office it was sent    *)
(* to; when every mirror under a task is complete, the task rolls up.      *)
(*                                                                         *)
(* A handler commits its transactions one by one and holds what is left to *)
(* do in memory only: "todo" is that memory.  Envelopes between offices    *)
(* keep the promise of UrtuuDelivery: once queued they are there to be     *)
(* read, in any order.  A reader may be called again for an envelope it    *)
(* has dealt with, when marking it read fails.                             *)
(***************************************************************************)
EXTENDS Sequences, FiniteSets, UrtuuStatus

CONSTANTS
    Offices,      \* the installations
    Links,        \* pairs <<superior, subordinate>>; the graph may have cycles
    Service,      \* the line: a service request needs an answer, an assignment does not
    Careful,      \* what the operators refrain from although the code allows it
    Late,         \* offices the work's code has not reached yet
    MaxBranches,  \* bound: links named in one request
    MaxRows,      \* bound: task rows over all boards
    MaxOpen,      \* bound: handlers and readers with something left to do at once
    MaxFaults     \* bound: handler steps of handlers and readers lost to a crash or an error

Pairs == Offices \X Offices

ASSUME BoardAssumption ==
    /\ Links \subseteq Pairs
    /\ Service \in BOOLEAN
    /\ Late \subseteq Offices
    /\ Careful \subseteq {"close", "mirrors", "delegate"}
    /\ MaxBranches \in Nat
    /\ MaxRows \in Nat
    /\ MaxOpen \in Nat \ {0}
    /\ MaxFaults \in Nat

(* Of a row: "to" the office a mirror stands for (empty otherwise), "parent" the *)
(* task it is a branch of, "origin" the mirror above that it was made from,     *)
(* "chain" the offices passed through, "answer" whether there is one.  Its      *)
(* events: "done", it was COMPLETED here; "rolled", by a roll-up.               *)
VARIABLES
    rows,    \* urtuu_tasks, all offices together; a row's index is its id
    mail,    \* envelopes queued and not yet marked read
    todo,    \* what running handlers and readers have left to do
    knows,   \* the offices whose code list has the work's code
    faults   \* steps lost so far

vars == <<rows, mail, todo, knows, faults>>

Rows == 1 .. Len(rows)

\* target_peer_id is set: the row stands for work done at another office.
IsMirror(i) == rows[i].to # {}

\* Slip: the row is looked for among the tasks nobody has touched.
TakenUntouched(i) == {j \in Rows : rows[j].origin = i /\ rows[j].status = "RECEIVED"}

\* What was made of mirror i at the office it was sent to.
TakenAs(i) == {j \in Rows : rows[j].origin = i}

Branches(i) == {j \in Rows : rows[j].parent = i /\ IsMirror(j)}

Assigned(i) == [kind |-> "assigned", row |-> i, status |-> "RECEIVED", answer |-> FALSE]
Update(i, s, a) == [kind |-> "update", row |-> i, status |-> s, answer |-> a]

\* Continuations: "delegated" is the second half of handleDelegate, "report" is
\* reportUp with the state it was called with, "count" and "complete" are rollUp.
Work(do, i) == [do |-> do, row |-> i, status |-> "RECEIVED", answer |-> FALSE, up |-> 0]
Report(i, s, a, up) == [do |-> "report", row |-> i, status |-> s, answer |-> a, up |-> up]

Room == Cardinality(todo) < MaxOpen

\* What a move leaves to do: reportUp does nothing for work that was raised here.
Then(i, s, a, up) ==
    IF rows[i].origin # 0 THEN {Report(i, s, a, up)}
    ELSE IF up # 0 THEN {Work("count", up)} ELSE {}

Row == [at : Offices, to : {{}} \cup {{p} : p \in Offices}, parent : 0 .. MaxRows,
        origin : 0 .. MaxRows, chain : Seq(Offices), status : Statuses,
        answer : BOOLEAN, done : BOOLEAN, rolled : BOOLEAN]
Mail == [kind : {"assigned", "update"}, row : 1 .. MaxRows, status : Statuses,
         answer : BOOLEAN]
Todo == [do : {"delegated", "report", "count", "complete"}, row : 1 .. MaxRows,
         status : Statuses, answer : BOOLEAN, up : 0 .. MaxRows]

TypeOK ==
    /\ rows \in Seq(Row)
    /\ Len(rows) <= MaxRows
    /\ mail \subseteq Mail
    /\ todo \subseteq Todo
    /\ knows \subseteq Offices
    /\ faults \in 0 .. MaxFaults

Init ==
    /\ rows = <<>>
    /\ mail = {}
    /\ todo = {}
    /\ knows = Offices \ Late
    /\ faults = 0

-----------------------------------------------------------------------------
(* Raising and delegating *)

\* The lists of links a request may name; nothing keeps one from being named twice.
PeerLists(o) ==
    UNION {[1 .. n -> {p \in Offices : <<o, p>> \in Links}] : n \in 0 .. MaxBranches}

\* Slip: the mirrors start in a state the schema does not know.
MirrorsSent(i, row, q) ==
    [k \in DOMAIN q |->
        [at |-> row.at, to |-> {q[k]}, parent |-> i, origin |-> 0, chain |-> row.chain,
         status |-> "SENT", answer |-> FALSE, done |-> FALSE, rolled |-> FALSE]]

\* Slip: the mirrors start where the task is.
MirrorsInherit(i, row, q) ==
    [k \in DOMAIN q |->
        [at |-> row.at, to |-> {q[k]}, parent |-> i, origin |-> 0, chain |-> row.chain,
         status |-> row.status, answer |-> FALSE, done |-> FALSE, rolled |-> FALSE]]

\* sendDown for each link named: the mirrors of row i, with the ids from n on.
Mirrors(i, row, q) ==
    [k \in DOMAIN q |->
        [at |-> row.at, to |-> {q[k]}, parent |-> i, origin |-> 0, chain |-> row.chain,
         status |-> "RECEIVED", answer |-> FALSE, done |-> FALSE, rolled |-> FALSE]]

Sent(n, q) == {Assigned(n + k) : k \in DOMAIN q}

\* handleCreateTask, once: the root, its mirrors and the envelopes in one transaction.
Raise(o, q) ==
    /\ rows = <<>>
    /\ Len(q) < MaxRows
    /\ LET root == [at |-> o, to |-> {}, parent |-> 0, origin |-> 0, chain |-> <<o>>,
                    status |-> IF q = <<>> THEN "RECEIVED" ELSE "DELEGATED",
                    answer |-> FALSE, done |-> FALSE, rolled |-> FALSE]
       IN  rows' = <<root>> \o Mirrors(1, root, q)
    /\ mail' = Sent(1, q)
    /\ UNCHANGED <<todo, knows, faults>>

\* handleDelegate: the branches and their envelopes, whatever state the task is in.
Delegate(i, q) ==
    /\ q # <<>>
    /\ Room
    /\ Len(rows) + Len(q) <= MaxRows
    /\ "mirrors" \in Careful => ~ IsMirror(i)
    /\ "delegate" \in Careful =>
          CanMoveTo(rows[i].status, "DELEGATED") /\ \A t \in todo : t.row # i
    /\ rows' = rows \o Mirrors(i, rows[i], q)
    /\ mail' = mail \cup Sent(Len(rows), q)
    /\ todo' = todo \cup {Work("delegated", i)}
    /\ UNCHANGED <<knows, faults>>

-----------------------------------------------------------------------------
(* Moving a task *)

\* Slip: the constraint names one of the two final states.
HasAnswerToClose(i, to, answer) ==
    Service /\ ~ IsMirror(i) /\ to = "CLOSED" => answer

\* The schema: a service request is not finished without an answer, a mirror apart.
HasAnswer(i, to, answer) ==
    Service /\ ~ IsMirror(i) /\ to \in {"COMPLETED", "CLOSED"} => answer

\* move, under the row's lock.
MayMove(i, to, answer) == CanMoveTo(rows[i].status, to) /\ HasAnswer(i, to, answer)

\* The row above to roll up once row i is complete, if any.
Above(i, to) == IF to = "COMPLETED" THEN rows[i].parent ELSE 0

\* transition, when the request carries an answer: it is written by itself, and
\* stays whatever becomes of the move after it.
GiveAnswer(i) ==
    /\ Service
    /\ ~ rows[i].answer
    /\ "mirrors" \in Careful => ~ IsMirror(i)
    /\ rows' = [rows EXCEPT ![i] = [@ EXCEPT !.answer = TRUE]]
    /\ UNCHANGED <<mail, todo, knows, faults>>

\* transition and handleAssign: the move, and then the report.
Act(i, to) ==
    /\ to \in {"ACCEPTED", "IN_PROGRESS", "COMPLETED", "RETURNED", "CLOSED"}
    /\ "mirrors" \in Careful /\ IsMirror(i) => to = "CLOSED"
    /\ "close" \in Careful /\ to = "CLOSED" => rows[i].origin = 0 /\ ~ IsMirror(i)
    /\ MayMove(i, to, rows[i].answer)
    /\ Room
    /\ rows' = [rows EXCEPT ![i] = [@ EXCEPT !.status = to,
                                            !.done = rows[i].done \/ to = "COMPLETED"]]
    /\ todo' = todo \cup Then(i, to, rows[i].answer, Above(i, to))
    /\ UNCHANGED <<mail, knows, faults>>

\* handleDelegate's move, refused when the task is not where it was thought to be.
FinishDelegate(t) ==
    /\ t.do = "delegated"
    /\ LET i == t.row
       IN  IF CanMoveTo(rows[i].status, "DELEGATED")
           THEN /\ rows' = [rows EXCEPT ![i] = [@ EXCEPT !.status = "DELEGATED"]]
                /\ todo' = (todo \ {t}) \cup Then(i, "DELEGATED", rows[i].answer, 0)
           ELSE /\ todo' = todo \ {t}
                /\ UNCHANGED rows
    /\ UNCHANGED <<mail, knows, faults>>

\* reportUp, to the office the task came from if it came from one.
ReportUp(t) ==
    /\ t.do = "report"
    /\ mail' = mail \cup {Update(rows[t.row].origin, t.status, t.answer)}
    /\ todo' = (todo \ {t}) \cup (IF t.up = 0 THEN {} ELSE {Work("count", t.up)})
    /\ UNCHANGED <<rows, knows, faults>>

-----------------------------------------------------------------------------
(* Rolling up *)

\* Slip: a branch is awaited until it is closed.
OutstandingUnclosed(i) == {j \in Branches(i) : rows[j].status # "CLOSED"}

\* Slip: returned branches counted as finished.
OutstandingOpen(i) == {j \in Branches(i) : rows[j].status \notin {"COMPLETED", "RETURNED"}}

Outstanding(i) == {j \in Branches(i) : rows[j].status # "COMPLETED"}

\* gatherAnswers: on the service line, what the branches said, unless there is
\* an answer already.
Gathered(i) == rows[i].answer \/ (Service /\ \E j \in Branches(i) : rows[j].answer)

\* rollUp: the count, and the answers when nothing is outstanding.
CountBranches(t) ==
    /\ t.do = "count"
    /\ IF Outstanding(t.row) = {}
       THEN /\ rows' = [rows EXCEPT ![t.row] = [@ EXCEPT !.answer = Gathered(t.row)]]
            /\ todo' = (todo \ {t}) \cup {Work("complete", t.row)}
       ELSE /\ todo' = todo \ {t}
            /\ UNCHANGED rows
    /\ UNCHANGED <<mail, knows, faults>>

\* rollUp: the move, and then the report and the row above.
RollUp(t) ==
    /\ t.do = "complete"
    /\ LET i == t.row
       IN  IF MayMove(i, "COMPLETED", rows[i].answer)
           THEN /\ rows' = [rows EXCEPT ![i] = [@ EXCEPT !.status = "COMPLETED",
                                                    !.done = TRUE, !.rolled = TRUE]]
                /\ todo' = (todo \ {t}) \cup
                           Then(i, "COMPLETED", rows[i].answer, rows[i].parent)
           ELSE /\ todo' = todo \ {t}
                /\ UNCHANGED rows
    /\ UNCHANGED <<mail, knows, faults>>

-----------------------------------------------------------------------------
(* Reading what arrives *)

\* ProcessInbox marks the envelope read, or fails to and offers it again.
MarkRead(m, others) ==
    \/ mail' = others /\ UNCHANGED faults
    \/ faults < MaxFaults /\ faults' = faults + 1 /\ mail' = others \cup {m}

\* Slip: only the office the work comes from is looked at.
PassedThroughJustNow(chain, office) == chain[Len(chain)] = office

\* The cycle guard.
PassedThrough(chain, office) == \E k \in DOMAIN chain : chain[k] = office

\* lookupCode: the code of the work is in use here.
Known(office) == office \in knows

\* Why work is not taken.
AssignmentRefusal(chain, office) == PassedThrough(chain, office) \/ ~Known(office)

\* receiveAssignment: one row per mirror however often it is read.
ReadAssigned(m) ==
    /\ m.kind = "assigned"
    /\ LET mirror == rows[m.row]
           office == CHOOSE p \in mirror.to : TRUE
           taken == [at |-> office, to |-> {}, parent |-> 0, origin |-> m.row,
                     chain |-> Append(mirror.chain, office), status |-> "RECEIVED",
                     answer |-> FALSE, done |-> FALSE, rolled |-> FALSE]
       IN  IF AssignmentRefusal(mirror.chain, office)
           THEN /\ MarkRead(m, (mail \ {m}) \cup {Update(m.row, "RETURNED", FALSE)})
                /\ UNCHANGED rows
           ELSE /\ MarkRead(m, mail \ {m})
                /\ IF TakenAs(m.row) = {}
                   THEN Len(rows) < MaxRows /\ rows' = Append(rows, taken)
                   ELSE UNCHANGED rows
    /\ UNCHANGED <<todo, knows>>

\* receiveUpdate: the mirror follows, unless the news is old; then the roll-up.
ReadUpdate(m) ==
    /\ m.kind = "update"
    /\ Room
    /\ LET i == m.row
       IN  IF SupersededBy(rows[i].status, m.status)
           THEN /\ rows' = [rows EXCEPT ![i] = [@ EXCEPT !.status = m.status,
                                                    !.answer = rows[i].answer \/ m.answer]]
                /\ todo' = todo \cup {Work("count", rows[i].parent)}
           ELSE UNCHANGED <<rows, todo>>
    /\ MarkRead(m, mail \ {m})
    /\ UNCHANGED knows

\* The code list arrives.
LearnCode(o) ==
    /\ o \notin knows
    /\ knows' = knows \cup {o}
    /\ UNCHANGED <<rows, mail, todo, faults>>

\* A crash, or an error that is only logged, ends a handler between two commits.
Lose(t) ==
    /\ faults < MaxFaults
    /\ faults' = faults + 1
    /\ todo' = todo \ {t}
    /\ UNCHANGED <<rows, mail, knows>>

-----------------------------------------------------------------------------
Operate ==
    \/ \E o \in Offices : \E q \in PeerLists(o) : Raise(o, q)
    \/ \E i \in Rows : \E q \in PeerLists(rows[i].at) : Delegate(i, q)
    \/ \E i \in Rows : GiveAnswer(i) \/ \E to \in Statuses : Act(i, to)

Continue == \E t \in todo : FinishDelegate(t) \/ ReportUp(t) \/ CountBranches(t) \/ RollUp(t)

Read == \E m \in mail : ReadAssigned(m) \/ ReadUpdate(m)

Next ==
    \/ Operate
    \/ Continue
    \/ Read
    \/ \E o \in Offices : LearnCode(o)
    \/ \E t \in todo : Lose(t)

Spec == Init /\ [][Next]_vars

(* The loop drains the inbox every round and a handler runs to its end unless *)
(* it is lost; what operators do is up to them.                               *)
FairSpec == Spec /\ WF_vars(Continue) /\ WF_vars(Read)

-----------------------------------------------------------------------------
(* Properties *)

\* Nothing is under way: every envelope is read and every handler has ended.
Quiet == mail = {} /\ todo = {}

\* Every office the task was sent to has done its part.
DoneBelow(i) ==
    Branches(i) # {} /\ \A b \in Branches(i) : \E j \in TakenAs(b) : rows[j].done

\* A row's branches are at its own office, and what was taken from a mirror is at
\* the office the mirror stands for.
Connected(i) ==
    /\ rows[i].parent # 0 <=> IsMirror(i)
    /\ rows[i].parent # 0 =>
          rows[i].parent \in Rows /\ rows[rows[i].parent].at = rows[i].at
    /\ rows[i].origin # 0 =>
          rows[i].origin \in Rows /\ rows[rows[i].origin].to = {rows[i].at}

\* The boards fit together: branches belong to a task of the same office, work
\* taken belongs to a mirror made for that office, every envelope on the way names
\* such a mirror, and no handler holds the id of a row that is not there.
BoardsConnect ==
    /\ \A i \in Rows : Connected(i)
    /\ \A m \in mail : m.row \in Rows /\ IsMirror(m.row)
    /\ \A t \in todo :
          /\ t.row \in Rows /\ t.up \in Rows \cup {0}
          /\ t.do = "report" => rows[t.row].origin # 0

\* However often an assignment is read, and whatever was done to the work in
\* between, an office makes one task of it.
TakenOnce ==
    \A i, j \in Rows : rows[i].origin = rows[j].origin /\ rows[i].origin # 0 => i = j

\* Work never comes back to an office it has passed through, so that a graph of
\* links with cycles is safe: the origin chain of every task names each office once.
NoOfficeTwice ==
    \A i \in Rows : \A k, l \in DOMAIN rows[i].chain :
        rows[i].chain[k] = rows[i].chain[l] => k = l

\* However late and in whatever order its news arrives, a mirror never claims
\* more than the office doing the work has done (a refusal apart).
MirrorNotAhead ==
    \A i \in Rows : IsMirror(i) /\ rows[i].status \notin {"RECEIVED", "RETURNED"} =>
        \E j \in TakenAs(i) : Rank(rows[i].status) <= Rank(rows[j].status)

\* Once everything sent has been read and nothing was lost, no mirror is behind:
\* reordering costs intermediate news only.
MirrorCatchesUp ==
    Quiet /\ faults = 0 =>
        \A j \in Rows : rows[j].origin # 0 =>
            Rank(rows[rows[j].origin].status) = Rank(rows[j].status)

\* A task that rolled up is really done below: at every office it was sent to.
RolledUpIsDone ==
    \A i \in Rows : rows[i].rolled => DoneBelow(i)

\* On the service line the answer arrives with the completion: no office above
\* sees a request fulfilled with nothing to tell the applicant.
AnswerTravels ==
    Service => \A i \in Rows : IsMirror(i) /\ rows[i].status = "COMPLETED" => rows[i].answer

Delegated(i) == i \in Rows /\ rows[i].status = "DELEGATED"

\* A delegated task "reaches COMPLETED by itself once every child task has"
\* (wire/status.go), or leaves the state by hand, if no step of the way is lost.
DelegatedCompletes ==
    \A i \in 1 .. MaxRows :
        Delegated(i) /\ DoneBelow(i) ~> (~ Delegated(i) \/ faults > 0)

\* urtuu.go of Rank: it is there "so that two updates arriving out of order settle
\* the same way round", that is, the mirror ends where the task below is.
UpdatesSettle ==
    Quiet /\ faults = 0 =>
        \A j \in Rows : rows[j].origin # 0 =>
            rows[rows[j].origin].status = rows[j].status
=============================================================================
