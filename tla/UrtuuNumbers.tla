----------------------------- MODULE UrtuuNumbers -----------------------------
(***************************************************************************)
(* The registers of tasks: modules/urtuu/numbers.go, and the transactions  *)
(* that take numbers from it, handleCreateTask and handleDelegate of       *)
(* handlers.go and receiveAssignment of envelopes.go.                      *)
(*                                                                         *)
(* A register is a line of work in a year; its counter is one row, and a   *)
(* transaction that has taken a number from it holds the row until it      *)
(* ends.  Raising a task takes a number for the task, of the year in which *)
(* the request came, and one for each mirror, of the year it is by then.   *)
(***************************************************************************)
EXTENDS Integers

CONSTANTS
    Lines,      \* lines of work
    Raisers,    \* transactions that may be open at the same moment
    MaxYear,    \* bound: years
    MaxNumber   \* bound: numbers taken in a register

ASSUME NumbersAssumption == Lines # {} /\ MaxYear \in Nat \ {0} /\ MaxNumber \in Nat

VARIABLES
    year,       \* the year it is
    counter,    \* urtuu_numbers.next, committed
    raising,    \* the transactions
    filed       \* numbers on committed tasks, each with its register

numbersVars == <<year, counter, raising, filed>>

Years == 1 .. MaxYear
Registers == Lines \X Years

\* at: the year of the request.  row: the counters as the transaction left them,
\* 0 where it did not touch one.  numbers: what it took.
Raises == [open : BOOLEAN, line : Lines, at : Years,
           row : [Registers -> Nat], numbers : SUBSET (Registers \X (Nat \ {0}))]

NumbersTypeOK ==
    /\ year \in Nat
    /\ counter \in [Registers -> Nat]
    /\ raising \in [Raisers -> Raises]
    /\ filed \subseteq Registers \X (Nat \ {0})

Untouched == [g \in Registers |-> 0]

NotRaising == [open |-> FALSE, line |-> CHOOSE l \in Lines : TRUE, at |-> 1,
               row |-> Untouched, numbers |-> {}]

NumbersInit ==
    /\ year = 1
    /\ counter = Untouched
    /\ raising = [t \in Raisers |-> NotRaising]
    /\ filed = {}

NewYear ==
    /\ year < MaxYear
    /\ year' = year + 1
    /\ UNCHANGED <<counter, raising, filed>>

\* A transaction begins, with the line of its task and the time of its request.
BeginRaise(t, line) ==
    /\ ~raising[t].open
    /\ raising' = [raising EXCEPT ![t] = [open |-> TRUE, line |-> line, at |-> year,
                                          row |-> Untouched, numbers |-> {}]]
    /\ UNCHANGED <<year, counter, filed>>

\* No other transaction has touched the row.
RowIsFree(t, g) == \A s \in Raisers \ {t} : raising[s].open => raising[s].row[g] = 0

\* Slip: the counter is advanced outside the transaction.
TakeAtOnce(t, g) ==
    /\ raising[t].open /\ RowIsFree(t, g)
    /\ counter[g] < MaxNumber
    /\ counter' = [counter EXCEPT ![g] = @ + 1]
    /\ raising' = [raising EXCEPT ![t].numbers = @ \cup {<<g, counter[g] + 1>>}]
    /\ UNCHANGED <<year, filed>>

\* nextNumber: INSERT ... ON CONFLICT DO UPDATE SET next = next + 1.
NextNumber(t, g) ==
    LET n == 1 + (IF raising[t].row[g] # 0 THEN raising[t].row[g] ELSE counter[g])
    IN  /\ raising[t].open /\ RowIsFree(t, g)
        /\ n <= MaxNumber
        /\ raising' = [raising EXCEPT ![t].row[g] = n,
                                      ![t].numbers = @ \cup {<<g, n>>}]
        /\ UNCHANGED <<year, counter, filed>>

\* handleCreateTask: the task itself comes first.
NumberTask(t) == raising[t].numbers = {} /\ NextNumber(t, <<raising[t].line, raising[t].at>>)

\* sendDown, and receiveAssignment.
NumberMirror(t) == NextNumber(t, <<raising[t].line, year>>)

CommitRaise(t) ==
    /\ raising[t].open
    /\ counter' = [g \in Registers |-> IF raising[t].row[g] # 0 THEN raising[t].row[g] ELSE counter[g]]
    /\ filed' = filed \cup raising[t].numbers
    /\ raising' = [raising EXCEPT ![t] = NotRaising]
    /\ UNCHANGED year

\* A code that is not open on the link, a task that is there already, a caller who
\* goes away.
RollBackRaise(t) ==
    /\ raising[t].open
    /\ raising' = [raising EXCEPT ![t] = NotRaising]
    /\ UNCHANGED <<year, counter, filed>>

NumbersNext ==
    \/ NewYear
    \/ \E t \in Raisers, line \in Lines : BeginRaise(t, line)
    \/ \E t \in Raisers : NumberTask(t) \/ NumberMirror(t) \/ CommitRaise(t) \/ RollBackRaise(t)

NumbersSpec == NumbersInit /\ [][NumbersNext]_numbersVars

-----------------------------------------------------------------------------
(* Properties *)

\* "A transaction that rolls back gives its number back rather than leaving a gap
\* in a register somebody audits": the numbers of each register run from 1 to its
\* counter, however many transactions overlap and whenever the year turns.
RegisterHasNoGap ==
    \A g \in Registers : {f \in filed : f[1] = g} = {g} \X (1 .. counter[g])
=============================================================================
