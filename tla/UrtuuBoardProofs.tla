-------------------------- MODULE UrtuuBoardProofs --------------------------
(***************************************************************************)
(* Theorems about UrtuuBoard, for every set of installations, every graph  *)
(* of links, whatever the operators refrain from and every bound.          *)
(*                                                                         *)
(* What an action does to the boards is one of two things: it rewrites     *)
(* status and answer of one row and leaves where the row belongs alone,    *)
(* or it adds rows after those there are.  So the first invariant is kept  *)
(* by two lemmas about the boards, and by an argument about ids for the    *)
(* envelopes and the handlers.                                             *)
(*                                                                         *)
(* The second half is about news.  StepFrom says where everything a step   *)
(* changes comes from: a mirror follows an envelope, an envelope repeats a *)
(* handler, a handler repeats its task.  Each action is shown to be such a *)
(* step once, and the invariants about news follow from StepFrom alone.    *)
(***************************************************************************)
EXTENDS UrtuuBoard, SequenceTheorems, TLAPS

ChainNamesOnce(i) ==
    \A k, l \in DOMAIN rows[i].chain : rows[i].chain[k] = rows[i].chain[l] => k = l

BoardInv == TypeOK /\ BoardsConnect /\ TakenOnce /\ NoOfficeTwice

\* Where row i belongs is as it was.
Stays(i) ==
    /\ rows'[i].at = rows[i].at
    /\ rows'[i].to = rows[i].to
    /\ rows'[i].parent = rows[i].parent
    /\ rows'[i].origin = rows[i].origin
    /\ rows'[i].chain = rows[i].chain

\* No row is removed and none is moved.
Grows == Len(rows) <= Len(rows') /\ \A i \in Rows : Stays(i)

BoardTypes == rows \in Seq(Row) /\ Len(rows) <= MaxRows

\* What the invariant says of an envelope and of a handler.
MailFits(m) == m \in Mail /\ m.row \in Rows /\ IsMirror(m.row)
Fits(t) ==
    /\ t \in Todo
    /\ t.row \in Rows
    /\ t.up \in Rows \cup {0}
    /\ t.do = "report" => rows[t.row].origin # 0

-----------------------------------------------------------------------------
(* The boards *)

\* A row is where its type says.
LEMMA RowTypes ==
    ASSUME BoardTypes, NEW i \in Rows
    PROVE  rows[i] \in Row /\ Len(rows) \in Nat
BY ElementOfSeq, LenProperties DEF BoardTypes, Rows

\* Rewriting a row changes that row.
LEMMA RowReplaced ==
    ASSUME BoardTypes, NEW i \in Rows, NEW r \in Row, rows' = [rows EXCEPT ![i] = r]
    PROVE  /\ BoardTypes'
           /\ Len(rows') = Len(rows)
           /\ \A j \in Rows : rows'[j] = IF j = i THEN r ELSE rows[j]
<1>1. rows \in Seq(Row) /\ i \in 1 .. Len(rows)
    BY DEF BoardTypes, Rows
<1> QED
    BY <1>1, ExceptSeq DEF BoardTypes, Rows

\* Rewriting status, answer and events of a row leaves every row where it was.
LEMMA RewriteGrows ==
    ASSUME BoardTypes, NEW i \in Rows, NEW r \in Row,
           rows' = [rows EXCEPT ![i] = r],
           r.at = rows[i].at, r.to = rows[i].to, r.parent = rows[i].parent,
           r.origin = rows[i].origin, r.chain = rows[i].chain
    PROVE  BoardTypes' /\ Len(rows') = Len(rows) /\ Grows
<1>1. /\ BoardTypes'
      /\ Len(rows') = Len(rows)
      /\ \A j \in Rows : rows'[j] = IF j = i THEN r ELSE rows[j]
    BY RowReplaced
<1>2. \A j \in Rows : Stays(j)
    BY <1>1 DEF Stays
<1>3. Len(rows) \in Nat
    BY RowTypes
<1> QED
    BY <1>1, <1>2, <1>3 DEF Grows

\* Boards whose rows all stay where they are keep every property of where they are.
LEMMA StaysKeeps ==
    ASSUME BoardInv, BoardTypes', Len(rows') = Len(rows), Grows
    PROVE  (\A i \in Rows : Connected(i))' /\ TakenOnce' /\ NoOfficeTwice'
<1>1. Rows' = Rows
    BY DEF Rows
<1>2. \A i \in Rows : Connected(i)'
    BY <1>1, RowTypes DEF BoardInv, BoardsConnect, Grows, Stays, Connected, IsMirror, Rows
<1>3. TakenOnce'
    BY <1>1 DEF BoardInv, TakenOnce, Grows, Stays
<1>4. NoOfficeTwice'
    BY <1>1 DEF BoardInv, NoOfficeTwice, Grows, Stays
<1> QED
    BY <1>1, <1>2, <1>3, <1>4

\* A list of links is a sequence of offices.
LEMMA PeerListTypes ==
    ASSUME NEW o \in Offices, NEW q \in PeerLists(o)
    PROVE  /\ Len(q) \in Nat /\ DOMAIN q = 1 .. Len(q)
           /\ \A k \in DOMAIN q : q[k] \in Offices
<1>1. PICK n \in 0 .. MaxBranches : q \in [1 .. n -> {p \in Offices : <<o, p>> \in Links}]
    BY DEF PeerLists
<1>2. n \in Nat
    BY BoardAssumption
<1>3. q \in Seq(Offices)
    <2>1. q \in [1 .. n -> Offices]
        BY <1>1
    <2> QED
        BY <1>2, <2>1, SeqDef
<1> QED
    BY <1>1, <1>3, LenProperties

\* The mirrors of a row are rows.
LEMMA MirrorTypes ==
    ASSUME NEW i \in 1 .. MaxRows, NEW row \in Row, NEW q \in PeerLists(row.at)
    PROVE  /\ Mirrors(i, row, q) \in Seq(Row)
           /\ Len(Mirrors(i, row, q)) = Len(q)
           /\ DOMAIN Mirrors(i, row, q) = 1 .. Len(q)
<1> DEFINE ms == Mirrors(i, row, q)
<1>1. Len(q) \in Nat /\ DOMAIN q = 1 .. Len(q) /\ \A k \in DOMAIN q : q[k] \in Offices
    BY PeerListTypes DEF Row
<1>2. ms = [k \in 1 .. Len(q) |-> ms[k]]
    BY <1>1 DEF Mirrors
<1>3. \A k \in 1 .. Len(q) : ms[k] \in Row
    BY <1>1, BoardAssumption DEF Mirrors, Row, Statuses
<1>4. ms \in [1 .. Len(q) -> Row]
    BY <1>2, <1>3
<1>5. ms \in Seq(Row)
    BY <1>1, <1>4, SeqDef
<1>6. DOMAIN ms = 1 .. Len(q) /\ DOMAIN ms = 1 .. Len(ms) /\ Len(ms) \in Nat
    BY <1>4, <1>5, LenProperties
<1>7. Len(ms) = Len(q)
    BY <1>1, <1>6
<1> QED
    BY <1>5, <1>6, <1>7

-----------------------------------------------------------------------------
(* Envelopes and handlers *)

LEMMA InvParts ==
    BoardInv <=>
        /\ BoardTypes
        /\ \A m \in mail : MailFits(m)
        /\ \A t \in todo : Fits(t)
        /\ knows \subseteq Offices
        /\ faults \in 0 .. MaxFaults
        /\ \A i \in Rows : Connected(i)
        /\ TakenOnce
        /\ NoOfficeTwice
BY DEF BoardInv, TypeOK, BoardsConnect, BoardTypes, MailFits, Fits

\* An envelope or a handler that fits still fits when the boards have grown.
LEMMA FitsStay ==
    ASSUME BoardTypes, BoardTypes', Grows
    PROVE  /\ \A m : MailFits(m) => MailFits(m)'
           /\ \A t : Fits(t) => Fits(t)'
<1>1. Len(rows) \in Nat /\ Len(rows') \in Nat /\ Rows \subseteq Rows'
    BY LenProperties DEF BoardTypes, Grows, Rows
<1>2. \A m : MailFits(m) => MailFits(m)'
    BY <1>1 DEF MailFits, IsMirror, Grows, Stays
<1>3. \A t : Fits(t) => Fits(t)'
    BY <1>1 DEF Fits, Grows, Stays
<1> QED
    BY <1>2, <1>3

\* An id of a row is in the range the types allow.
LEMMA IdsInBound ==
    ASSUME BoardTypes
    PROVE  Rows \subseteq 1 .. MaxRows /\ Rows \cup {0} \subseteq 0 .. MaxRows
BY LenProperties, BoardAssumption DEF BoardTypes, Rows

\* A handler with a row to count, complete or delegate fits.
LEMMA WorkFits ==
    ASSUME BoardTypes, NEW i \in Rows, NEW do \in {"delegated", "count", "complete"}
    PROVE  Fits(Work(do, i))
<1>1. Work(do, i) \in Todo
    BY IdsInBound, BoardAssumption DEF Work, Todo, Statuses
<1> QED
    BY <1>1 DEF Work, Fits

\* What a move leaves to do fits.
LEMMA ThenFits ==
    ASSUME BoardTypes, NEW i \in Rows, NEW s \in Statuses, NEW a \in BOOLEAN,
           NEW up \in Rows \cup {0}
    PROVE  \A t \in Then(i, s, a, up) : Fits(t)
<1>1. CASE rows[i].origin # 0
    <2>1. Report(i, s, a, up) \in Todo
        BY IdsInBound DEF Report, Todo
    <2>2. Fits(Report(i, s, a, up))
        BY <1>1, <2>1 DEF Report, Fits
    <2> QED
        BY <1>1, <2>2 DEF Then
<1>2. CASE rows[i].origin = 0
    BY <1>2, WorkFits DEF Then
<1> QED
    BY <1>1, <1>2

\* An action that rewrites one row, with what it reads, writes and leaves to do.
LEMMA RewriteKeeps ==
    ASSUME BoardInv, NEW i \in Rows, NEW r \in Row, rows' = [rows EXCEPT ![i] = r],
           r.at = rows[i].at, r.to = rows[i].to, r.parent = rows[i].parent,
           r.origin = rows[i].origin, r.chain = rows[i].chain,
           \A m \in mail' : m \in mail \/ MailFits(m),
           \A t \in todo' : t \in todo \/ Fits(t),
           knows' \subseteq Offices, faults' \in 0 .. MaxFaults
    PROVE  BoardInv'
<1>1. BoardTypes
    BY InvParts
<1>2. BoardTypes' /\ Len(rows') = Len(rows) /\ Grows
    BY <1>1, RewriteGrows
<1>3. (\A j \in Rows : Connected(j))' /\ TakenOnce' /\ NoOfficeTwice'
    BY <1>2, StaysKeeps
<1>4. \A m \in mail' : MailFits(m)'
    BY <1>1, <1>2, FitsStay, InvParts
<1>5. \A t \in todo' : Fits(t)'
    BY <1>1, <1>2, FitsStay, InvParts
<1> QED
    BY <1>2, <1>3, <1>4, <1>5
       DEF BoardInv, TypeOK, BoardsConnect, BoardTypes, MailFits, Fits

\* An action that leaves the boards alone.
LEMMA SameBoardsKeep ==
    ASSUME BoardInv, rows' = rows,
           \A m \in mail' : m \in mail \/ MailFits(m),
           \A t \in todo' : t \in todo \/ Fits(t),
           knows' \subseteq Offices, faults' \in 0 .. MaxFaults
    PROVE  BoardInv'
<1>1. BoardTypes /\ BoardTypes'
    BY InvParts DEF BoardTypes
<1>2. Len(rows) \in Nat
    BY <1>1, LenProperties DEF BoardTypes
<1>3. Len(rows') = Len(rows) /\ Grows
    BY <1>2 DEF Grows, Stays
<1>4. (\A j \in Rows : Connected(j))' /\ TakenOnce' /\ NoOfficeTwice'
    BY <1>1, <1>3, StaysKeeps
<1>5. \A m \in mail' : MailFits(m)'
    BY <1>1, <1>3, FitsStay, InvParts
<1>6. \A t \in todo' : Fits(t)'
    BY <1>1, <1>3, FitsStay, InvParts
<1> QED
    BY <1>1, <1>4, <1>5, <1>6
       DEF BoardInv, TypeOK, BoardsConnect, BoardTypes, MailFits, Fits

\* An action that adds rows after those there are.
LEMMA GrowthKeeps ==
    ASSUME BoardInv, BoardTypes', Grows,
           \A i \in Rows' \ Rows : Connected(i)' /\ ChainNamesOnce(i)',
           TakenOnce',
           \A m \in mail' : m \in mail \/ MailFits(m)',
           \A t \in todo' : t \in todo \/ Fits(t)',
           knows' \subseteq Offices, faults' \in 0 .. MaxFaults
    PROVE  BoardInv'
<1>1. BoardTypes
    BY InvParts
<1>2. Len(rows) \in Nat /\ Len(rows') \in Nat /\ Rows \subseteq Rows'
    BY <1>1, LenProperties DEF BoardTypes, Grows, Rows
<1>3. \A i \in Rows : Connected(i)'
    <2> SUFFICES ASSUME NEW i \in Rows
                 PROVE  Connected(i)'
        OBVIOUS
    <2>1. Connected(i) /\ Stays(i)
        BY DEF BoardInv, BoardsConnect, Grows
    <2>2. rows[i].parent # 0 => Stays(rows[i].parent) /\ rows[i].parent \in Rows'
        BY <1>2, <2>1 DEF Connected, Grows
    <2>3. rows[i].origin # 0 => Stays(rows[i].origin) /\ rows[i].origin \in Rows'
        BY <1>2, <2>1 DEF Connected, Grows
    <2> QED
        BY <2>1, <2>2, <2>3 DEF Connected, Stays, IsMirror
<1>4. \A i \in Rows : ChainNamesOnce(i)'
    BY <1>2 DEF BoardInv, NoOfficeTwice, ChainNamesOnce, Grows, Stays
<1>5. (\A i \in Rows : Connected(i))'
    BY <1>3
<1>6. NoOfficeTwice'
    BY <1>4 DEF NoOfficeTwice, ChainNamesOnce
<1>7. \A m \in mail' : MailFits(m)'
    BY <1>1, FitsStay, InvParts
<1>8. \A t \in todo' : Fits(t)'
    BY <1>1, FitsStay, InvParts
<1> QED
    BY <1>5, <1>6, <1>7, <1>8
       DEF BoardInv, TypeOK, BoardsConnect, BoardTypes, MailFits, Fits

-----------------------------------------------------------------------------
(* The actions that add rows *)

\* The boards "new" are "base" and the mirrors of its row i for the links of q.
Added(base, i, q, new) ==
    /\ new \in Seq(Row)
    /\ Len(new) \in Nat /\ Len(base) <= Len(new) /\ Len(new) <= MaxRows
    /\ q = <<>> => Len(new) = Len(base)
    /\ \A n \in 1 .. Len(base) : new[n] = base[n]
    /\ \A n \in (1 .. Len(new)) \ (1 .. Len(base)) :
          /\ new[n].at = base[i].at
          /\ new[n].to # {}
          /\ new[n].parent = i
          /\ new[n].origin = 0
          /\ new[n].chain = base[i].chain
          /\ new[n].status = "RECEIVED" /\ ~ new[n].rolled
    /\ \A m \in Sent(Len(base), q) :
          /\ m \in Mail /\ m.row \in 1 .. Len(new) /\ new[m.row].to # {}
          /\ m.row \notin 1 .. Len(base) /\ m = Assigned(m.row)

\* What sending row i of some boards to a list of links makes of them, whether the
\* boards are those there were (handleDelegate) or the root alone (handleCreateTask).
LEMMA MirrorsAdded ==
    ASSUME NEW base \in Seq(Row), NEW i \in 1 .. Len(base),
           NEW q \in PeerLists(base[i].at), Len(base) + Len(q) <= MaxRows,
           NEW new, new = base \o Mirrors(i, base[i], q)
    PROVE  Added(base, i, q, new)
<1> DEFINE ms == Mirrors(i, base[i], q)
<1>1. base[i] \in Row /\ Len(base) \in Nat
    BY ElementOfSeq, LenProperties
<1>2. base[i].at \in Offices
    BY <1>1 DEF Row
<1>3. Len(q) \in Nat /\ DOMAIN q = 1 .. Len(q)
    BY <1>2, PeerListTypes
<1>4. i \in 1 .. MaxRows
    BY <1>1, <1>3, BoardAssumption
<1>5. ms \in Seq(Row) /\ Len(ms) = Len(q)
    BY <1>1, <1>4, MirrorTypes
<1>6. \A k \in 1 .. Len(q) :
          /\ ms[k].at = base[i].at
          /\ ms[k].to # {}
          /\ ms[k].parent = i
          /\ ms[k].origin = 0
          /\ ms[k].chain = base[i].chain
          /\ ms[k].status = "RECEIVED" /\ ~ ms[k].rolled
    BY <1>3 DEF Mirrors
<1>12. new = base \o ms
    OBVIOUS
<1> HIDE DEF ms
<1>7. /\ new \in Seq(Row)
      /\ Len(new) = Len(base) + Len(q)
      /\ \A n \in 1 .. Len(base) + Len(q) :
            new[n] = IF n <= Len(base) THEN base[n] ELSE ms[n - Len(base)]
    <2>1. base \in Seq(Row) /\ ms \in Seq(Row)
        BY <1>5
    <2>2. /\ base \o ms \in Seq(Row)
          /\ Len(base \o ms) = Len(base) + Len(ms)
          /\ \A n \in 1 .. Len(base) + Len(ms) :
                (base \o ms)[n] = IF n <= Len(base) THEN base[n] ELSE ms[n - Len(base)]
        BY <2>1, ConcatProperties
    <2> QED
        BY <1>5, <1>12, <2>2
<1>8. \A n \in 1 .. Len(base) : new[n] = base[n]
    BY <1>1, <1>3, <1>7
<1>13. q = <<>> => Len(new) = Len(base)
    BY <1>1, <1>7
<1>9. ASSUME NEW n \in (1 .. Len(new)) \ (1 .. Len(base))
      PROVE  n - Len(base) \in 1 .. Len(q) /\ new[n] = ms[n - Len(base)]
    BY <1>1, <1>3, <1>7, <1>9
<1>10. \A n \in (1 .. Len(new)) \ (1 .. Len(base)) :
                 /\ new[n].at = base[i].at
                 /\ new[n].to # {}
                 /\ new[n].parent = i
                 /\ new[n].origin = 0
                 /\ new[n].chain = base[i].chain
                 /\ new[n].status = "RECEIVED" /\ ~ new[n].rolled
    BY <1>6, <1>9, ZenonT(60)
<1>11. ASSUME NEW m \in Sent(Len(base), q)
       PROVE  /\ m \in Mail /\ m.row \in 1 .. Len(new) /\ new[m.row].to # {}
              /\ m.row \notin 1 .. Len(base) /\ m = Assigned(m.row)
    <2>1. PICK k \in 1 .. Len(q) : m = Assigned(Len(base) + k)
        BY <1>3 DEF Sent
    <2>2. /\ Len(base) + k \in (1 .. Len(new)) \ (1 .. Len(base))
          /\ Len(base) + k \in 1 .. MaxRows
        BY <1>1, <1>3, <1>7, BoardAssumption
    <2>3. m.row = Len(base) + k /\ m \in Mail
        BY <2>1, <2>2 DEF Assigned, Mail, Statuses
    <2>4. m = Assigned(m.row)
        BY <2>1, <2>3
    <2> QED
        BY <1>10, <2>2, <2>3, <2>4
<1> QED
    <2>1. /\ new \in Seq(Row)
          /\ Len(new) \in Nat /\ Len(base) <= Len(new) /\ Len(new) <= MaxRows
        BY <1>1, <1>3, <1>7
    <2>2. \A m \in Sent(Len(base), q) :
              /\ m \in Mail /\ m.row \in 1 .. Len(new) /\ new[m.row].to # {}
              /\ m.row \notin 1 .. Len(base) /\ m = Assigned(m.row)
        BY <1>11
    <2> QED
        BY <1>8, <1>10, <1>13, <2>1, <2>2 DEF Added

LEMMA RaiseKeeps ==
    ASSUME BoardInv, NEW o \in Offices, NEW q \in PeerLists(o), Raise(o, q)
    PROVE  BoardInv'
<1> DEFINE root == [at |-> o, to |-> {}, parent |-> 0, origin |-> 0, chain |-> <<o>>,
                    status |-> IF q = <<>> THEN "RECEIVED" ELSE "DELEGATED",
                    answer |-> FALSE, done |-> FALSE, rolled |-> FALSE]
           base == <<root>>
<1>1. Len(q) \in Nat
    BY PeerListTypes
<1>2. root \in Row
    BY BoardAssumption DEF Row, Statuses
<1>3. base \in Seq(Row) /\ Len(base) = 1 /\ base[1] = root
    BY <1>2
<1>4. /\ root.at = o /\ root.to = {} /\ root.parent = 0 /\ root.origin = 0
      /\ root.chain = <<o>>
    OBVIOUS
<1>5. rows' = base \o Mirrors(1, base[1], q) /\ mail' = Sent(Len(base), q)
    BY <1>3 DEF Raise
<1> HIDE DEF root
<1>6. Len(base) + Len(q) <= MaxRows
    BY <1>1, <1>3, BoardAssumption DEF Raise
<1>7. q \in PeerLists(base[1].at) /\ 1 \in 1 .. Len(base)
    BY <1>3, <1>4
<1> HIDE DEF base
<1>8. /\ rows' \in Seq(Row)
      /\ Len(rows') \in Nat /\ 1 <= Len(rows') /\ Len(rows') <= MaxRows
      /\ rows'[1] = root
      /\ \A n \in (1 .. Len(rows')) \ {1} :
            /\ rows'[n].at = o /\ rows'[n].to # {} /\ rows'[n].parent = 1
            /\ rows'[n].origin = 0 /\ rows'[n].chain = <<o>>
      /\ \A m \in mail' : m \in Mail /\ m.row \in 1 .. Len(rows') /\ rows'[m.row].to # {}
    <2>1. 1 .. Len(base) = {1}
        BY <1>3
    <2>2. Added(base, 1, q, rows')
        BY <1>3, <1>5, <1>6, <1>7, MirrorsAdded
    <2> QED
        BY <1>3, <1>4, <1>5, <2>1, <2>2 DEF Added
<1>9. BoardTypes' /\ Rows' = 1 .. Len(rows')
    BY <1>8 DEF BoardTypes, Rows
<1>10. \A n \in Rows' : rows'[n].at = o /\ rows'[n].origin = 0 /\ rows'[n].chain = <<o>>
    BY <1>4, <1>8, <1>9
<1>11. \A n \in Rows' : Connected(n)'
    <2>1. 1 \in Rows'
        BY <1>8, <1>9
    <2> QED
        BY <1>4, <1>8, <1>9, <1>10, <2>1 DEF Connected, IsMirror
<1>12. \A n \in Rows' : ChainNamesOnce(n)'
    BY <1>10 DEF ChainNamesOnce
<1>13. TakenOnce'
    BY <1>10 DEF TakenOnce
<1>14. Rows = {} /\ Grows
    BY <1>8 DEF Raise, Rows, Grows
<1>15. \A m \in mail' : MailFits(m)'
    BY <1>8, <1>9 DEF MailFits, IsMirror
<1>16. todo' = {} /\ knows' \subseteq Offices /\ faults' \in 0 .. MaxFaults
    BY <1>14 DEF BoardInv, TypeOK, BoardsConnect, Raise
<1> QED
    BY <1>9, <1>11, <1>12, <1>13, <1>14, <1>15, <1>16, GrowthKeeps

LEMMA DelegateKeeps ==
    ASSUME BoardInv, NEW i \in Rows, NEW q \in PeerLists(rows[i].at), Delegate(i, q)
    PROVE  BoardInv'
<1>1. BoardTypes
    BY InvParts
<1>2. rows \in Seq(Row) /\ i \in 1 .. Len(rows) /\ Rows = 1 .. Len(rows)
    BY <1>1 DEF BoardTypes, Rows
<1>3. /\ rows' \in Seq(Row)
      /\ Len(rows') \in Nat /\ Len(rows) <= Len(rows') /\ Len(rows') <= MaxRows
      /\ \A n \in 1 .. Len(rows) : rows'[n] = rows[n]
      /\ \A n \in (1 .. Len(rows')) \ (1 .. Len(rows)) :
            /\ rows'[n].at = rows[i].at /\ rows'[n].to # {} /\ rows'[n].parent = i
            /\ rows'[n].origin = 0 /\ rows'[n].chain = rows[i].chain
      /\ \A m \in Sent(Len(rows), q) :
            m \in Mail /\ m.row \in 1 .. Len(rows') /\ rows'[m.row].to # {}
    <2>1. Added(rows, i, q, rows')
        BY <1>2, MirrorsAdded DEF Delegate
    <2> QED
        BY <2>1 DEF Added
<1>4. BoardTypes' /\ Rows' = 1 .. Len(rows') /\ Grows /\ i # 0 /\ i \in Rows'
    BY <1>1, <1>2, <1>3, LenProperties DEF BoardTypes, Rows, Grows, Stays
<1>5. \A n \in Rows' \ Rows : Connected(n)'
    BY <1>2, <1>3, <1>4 DEF Connected, IsMirror
<1>6. \A n \in Rows' \ Rows : ChainNamesOnce(n)'
    BY <1>2, <1>3, <1>4 DEF ChainNamesOnce, BoardInv, NoOfficeTwice
<1>7. TakenOnce'
    BY <1>2, <1>3, <1>4 DEF TakenOnce, BoardInv
<1>8. \A m \in mail' : m \in mail \/ MailFits(m)'
    BY <1>3, <1>4 DEF MailFits, IsMirror, Delegate
<1>9. \A t \in todo' : t \in todo \/ Fits(t)'
    <2>1. Fits(Work("delegated", i))
        BY <1>1, WorkFits
    <2>2. \A t : Fits(t) => Fits(t)'
        BY <1>1, <1>4, FitsStay
    <2>3. \A t \in todo' : t \in todo \/ t = Work("delegated", i)
        BY DEF Delegate
    <2> QED
        BY <2>1, <2>2, <2>3
<1>10. knows' \subseteq Offices /\ faults' \in 0 .. MaxFaults
    BY DEF Delegate, BoardInv, TypeOK
<1> QED
    BY <1>4, <1>5, <1>6, <1>7, <1>8, <1>9, <1>10, GrowthKeeps

\* Marking read leaves no envelope that was not there, and bounds the faults.
LEMMA MarkReadFacts ==
    ASSUME BoardInv, NEW m \in mail, NEW others, MarkRead(m, others)
    PROVE  /\ \A x \in mail' : x \in others \/ x \in mail
           /\ faults' \in 0 .. MaxFaults
BY BoardAssumption DEF MarkRead, BoardInv, TypeOK

\* Work taken is taken for the office the mirror stands for, at its first reading,
\* and only if that office is not in its chain.
LEMMA ReadAssignedKeeps ==
    ASSUME BoardInv, NEW m \in mail, ReadAssigned(m)
    PROVE  BoardInv'
<1> DEFINE mirror == rows[m.row]
           office == CHOOSE p \in mirror.to : TRUE
           taken == [at |-> office, to |-> {}, parent |-> 0, origin |-> m.row,
                     chain |-> Append(mirror.chain, office), status |-> "RECEIVED",
                     answer |-> FALSE, done |-> FALSE, rolled |-> FALSE]
<1>1. BoardTypes /\ MailFits(m)
    BY InvParts
<1>2. m.row \in Rows /\ mirror \in Row /\ mirror.to # {} /\ Len(rows) \in Nat
    BY <1>1, RowTypes DEF MailFits, IsMirror
<1>3. office \in Offices /\ mirror.to = {office}
    <2>1. PICK p \in Offices : mirror.to = {p}
        BY <1>2 DEF Row
    <2> QED
        BY <2>1
<1>4. Update(m.row, "RETURNED", FALSE) \in Mail
    BY <1>1 DEF MailFits, Mail, Update, Statuses
<1>5. knows' \subseteq Offices /\ todo' = todo
    BY DEF ReadAssigned, BoardInv, TypeOK
<1>6. CASE AssignmentRefusal(mirror.chain, office)
    <2>1. MarkRead(m, (mail \ {m}) \cup {Update(m.row, "RETURNED", FALSE)}) /\ rows' = rows
        BY <1>6 DEF ReadAssigned
    <2>2. faults' \in 0 .. MaxFaults
        BY <2>1, MarkReadFacts
    <2>3. \A x \in mail' : x \in mail \/ x = Update(m.row, "RETURNED", FALSE)
        BY <2>1, MarkReadFacts
    <2>4. MailFits(Update(m.row, "RETURNED", FALSE))
        BY <1>1, <1>4 DEF MailFits, Update
    <2>5. \A x \in mail' : x \in mail \/ MailFits(x)
        BY <2>3, <2>4
    <2> QED
        BY <1>5, <2>1, <2>2, <2>5, SameBoardsKeep
<1>7. CASE ~ AssignmentRefusal(mirror.chain, office)
    <2>1. MarkRead(m, mail \ {m})
        BY <1>7 DEF ReadAssigned
    <2>2. faults' \in 0 .. MaxFaults /\ \A x \in mail' : x \in mail
        BY <2>1, MarkReadFacts
    <2>3. CASE TakenAs(m.row) # {}
        <3>1. rows' = rows
            BY <1>7, <2>3 DEF ReadAssigned
        <3> QED
            BY <1>5, <2>2, <3>1, SameBoardsKeep
    <2>4. CASE TakenAs(m.row) = {}
        <3>1. Len(rows) < MaxRows /\ rows' = Append(rows, taken)
            BY <1>7, <2>4 DEF ReadAssigned
        <3>2. taken \in Row
            <4>1. Append(mirror.chain, office) \in Seq(Offices)
                BY <1>2, <1>3, AppendProperties DEF Row
            <4> QED
                BY <1>1, <1>3, <4>1, BoardAssumption DEF Row, MailFits, Mail, Statuses
        <3>3. /\ taken.at = office /\ taken.to = {} /\ taken.parent = 0
              /\ taken.origin = m.row /\ taken.chain = Append(mirror.chain, office)
            OBVIOUS
        <3> HIDE DEF taken
        <3>4. /\ rows' \in Seq(Row) /\ Len(rows') = Len(rows) + 1
              /\ \A i \in 1 .. Len(rows) : rows'[i] = rows[i]
              /\ rows'[Len(rows) + 1] = taken
            BY <1>1, <3>1, <3>2, AppendProperties DEF BoardTypes
        <3>9. PICK n \in Nat : n = Len(rows) + 1
            BY <1>2
        <3>10. /\ \A i \in 1 .. Len(rows) : rows'[i] = rows[i]
               /\ rows'[n] = taken
            BY <3>4, <3>9
        <3>5. /\ Rows' = Rows \cup {n} /\ Grows /\ BoardTypes'
              /\ n \notin Rows
            BY <1>2, <3>1, <3>4, <3>9, BoardAssumption DEF Rows, Grows, Stays, BoardTypes
        <3>6. Connected(n)'
            <4>1. m.row # 0 /\ m.row \in Rows' /\ rows'[m.row].to = {office}
                BY <1>1, <1>2, <1>3, <3>10, <3>5 DEF MailFits, Mail, Rows
            <4> QED
                BY <3>3, <3>10, <4>1 DEF Connected, IsMirror
        <3>7. ChainNamesOnce(n)'
            <4> DEFINE chain == mirror.chain
            <4>1. chain \in Seq(Offices) /\ Len(chain) \in Nat /\ DOMAIN chain = 1 .. Len(chain)
                BY <1>2, LenProperties DEF Row
            <4>2. \A k \in 1 .. Len(chain) : chain[k] # office
                BY <1>7, <4>1 DEF AssignmentRefusal, PassedThrough
            <4>3. \A k, l \in 1 .. Len(chain) : chain[k] = chain[l] => k = l
                BY <1>2, <4>1 DEF BoardInv, NoOfficeTwice
            <4>4. rows'[n].chain = Append(chain, office)
                BY <3>3, <3>10
            <4> HIDE DEF chain
            <4>5. /\ DOMAIN Append(chain, office) = 1 .. Len(chain) + 1
                  /\ \A k \in 1 .. Len(chain) : Append(chain, office)[k] = chain[k]
                  /\ Append(chain, office)[Len(chain) + 1] = office
                BY <1>3, <4>1, AppendProperties, LenProperties
            <4>6. \A k \in 1 .. Len(chain) + 1 : k \in 1 .. Len(chain) \/ k = Len(chain) + 1
                BY <4>1
            <4>7. \A k, l \in 1 .. Len(chain) + 1 :
                      Append(chain, office)[k] = Append(chain, office)[l] => k = l
                BY <4>2, <4>3, <4>5, <4>6
            <4> QED
                BY <4>4, <4>5, <4>7 DEF ChainNamesOnce
        <3>8. TakenOnce'
            <4>1. \A i \in Rows : rows[i].origin # m.row
                BY <2>4 DEF TakenAs
            <4>2. \A i \in Rows : rows'[i].origin = rows[i].origin
                BY <3>10 DEF Rows
            <4> QED
                BY <3>3, <3>10, <3>5, <4>1, <4>2 DEF TakenOnce, BoardInv
        <3> QED
            BY <1>5, <2>2, <3>5, <3>6, <3>7, <3>8, GrowthKeeps
    <2> QED
        BY <2>3, <2>4
<1> QED
    BY <1>6, <1>7

-----------------------------------------------------------------------------
(* The actions that rewrite a row *)

\* What a row has, and what writing it back to the row leaves.
LEMMA RowFields ==
    ASSUME BoardTypes, NEW i \in Rows
    PROVE  /\ rows[i].status \in Statuses /\ rows[i].answer \in BOOLEAN
           /\ rows[i].done \in BOOLEAN /\ rows[i].rolled \in BOOLEAN
           /\ rows[i].parent \in 0 .. MaxRows
BY RowTypes DEF Row

\* The row above a row is a row, if there is one.
LEMMA ParentInBound ==
    ASSUME BoardInv, NEW i \in Rows
    PROVE  rows[i].parent \in Rows \cup {0}
BY DEF BoardInv, BoardsConnect, Connected

LEMMA GiveAnswerKeeps ==
    ASSUME BoardInv, NEW i \in Rows, GiveAnswer(i)
    PROVE  BoardInv'
<1>1. BoardTypes /\ rows[i] \in Row
    BY InvParts, RowTypes
<1>2. PICK r : r = [rows[i] EXCEPT !.answer = TRUE]
    OBVIOUS
<1>3. rows' = [rows EXCEPT ![i] = r]
    BY <1>2 DEF GiveAnswer
<1>4. r \in Row /\ r.at = rows[i].at /\ r.to = rows[i].to /\ r.parent = rows[i].parent
      /\ r.origin = rows[i].origin /\ r.chain = rows[i].chain
    BY <1>1, <1>2 DEF Row
<1>5. mail' = mail /\ todo' = todo /\ knows' \subseteq Offices /\ faults' \in 0 .. MaxFaults
    BY DEF GiveAnswer, BoardInv, TypeOK
<1> QED
    BY <1>3, <1>4, <1>5, RewriteKeeps

LEMMA ActKeeps ==
    ASSUME BoardInv, NEW i \in Rows, NEW to \in Statuses, Act(i, to)
    PROVE  BoardInv'
<1>1. BoardTypes /\ rows[i] \in Row /\ rows[i].answer \in BOOLEAN
    BY InvParts, RowTypes, RowFields
<1>2. PICK r : r = [rows[i] EXCEPT !.status = to, !.done = rows[i].done \/ to = "COMPLETED"]
    OBVIOUS
<1>3. rows' = [rows EXCEPT ![i] = r]
    BY <1>2 DEF Act
<1>4. r \in Row /\ r.at = rows[i].at /\ r.to = rows[i].to /\ r.parent = rows[i].parent
      /\ r.origin = rows[i].origin /\ r.chain = rows[i].chain
    BY <1>1, <1>2 DEF Row
<1>5. Above(i, to) \in Rows \cup {0}
    BY ParentInBound DEF Above
<1>6. \A t \in todo' : t \in todo \/ Fits(t)
    BY <1>1, <1>5, ThenFits DEF Act
<1>7. mail' = mail /\ knows' \subseteq Offices /\ faults' \in 0 .. MaxFaults
    BY DEF Act, BoardInv, TypeOK
<1> QED
    BY <1>3, <1>4, <1>6, <1>7, RewriteKeeps

LEMMA FinishDelegateKeeps ==
    ASSUME BoardInv, NEW t \in todo, FinishDelegate(t)
    PROVE  BoardInv'
<1>1. PICK i \in Rows : i = t.row
    BY DEF BoardInv, BoardsConnect
<1>2. BoardTypes /\ rows[i] \in Row /\ rows[i].answer \in BOOLEAN
    BY InvParts, RowTypes, RowFields
<1>3. mail' = mail /\ knows' \subseteq Offices /\ faults' \in 0 .. MaxFaults
    BY DEF FinishDelegate, BoardInv, TypeOK
<1>4. CASE CanMoveTo(rows[i].status, "DELEGATED")
    <2>1. PICK r : r = [rows[i] EXCEPT !.status = "DELEGATED"]
        OBVIOUS
    <2>2. rows' = [rows EXCEPT ![i] = r]
        BY <1>1, <1>4, <2>1 DEF FinishDelegate
    <2>3. r \in Row /\ r.at = rows[i].at /\ r.to = rows[i].to /\ r.parent = rows[i].parent
          /\ r.origin = rows[i].origin /\ r.chain = rows[i].chain
        BY <1>2, <2>1 DEF Row, Statuses
    <2>4. todo' = (todo \ {t}) \cup Then(i, "DELEGATED", rows[i].answer, 0)
        BY <1>1, <1>4 DEF FinishDelegate
    <2>5. \A u \in Then(i, "DELEGATED", rows[i].answer, 0) : Fits(u)
        BY <1>2, ThenFits DEF Statuses
    <2> QED
        BY <1>3, <2>2, <2>3, <2>4, <2>5, RewriteKeeps
<1>5. CASE ~ CanMoveTo(rows[i].status, "DELEGATED")
    BY <1>1, <1>3, <1>5, SameBoardsKeep DEF FinishDelegate
<1> QED
    BY <1>4, <1>5

LEMMA CountBranchesKeeps ==
    ASSUME BoardInv, NEW t \in todo, CountBranches(t)
    PROVE  BoardInv'
<1>1. PICK i \in Rows : i = t.row
    BY DEF BoardInv, BoardsConnect
<1>2. BoardTypes /\ rows[i] \in Row /\ rows[i].answer \in BOOLEAN
    BY InvParts, RowTypes, RowFields
<1>3. mail' = mail /\ knows' \subseteq Offices /\ faults' \in 0 .. MaxFaults
    BY DEF CountBranches, BoardInv, TypeOK
<1>4. CASE Outstanding(i) = {}
    <2>1. Gathered(i) \in BOOLEAN
        BY <1>2 DEF Gathered
    <2>2. PICK r : r = [rows[i] EXCEPT !.answer = Gathered(i)]
        OBVIOUS
    <2>3. rows' = [rows EXCEPT ![i] = r]
        BY <1>1, <1>4, <2>2 DEF CountBranches
    <2>4. r \in Row /\ r.at = rows[i].at /\ r.to = rows[i].to /\ r.parent = rows[i].parent
          /\ r.origin = rows[i].origin /\ r.chain = rows[i].chain
        BY <1>2, <2>1, <2>2 DEF Row
    <2>5. Fits(Work("complete", i))
        BY <1>2, WorkFits
    <2>6. \A u \in todo' : u \in todo \/ u = Work("complete", i)
        BY <1>1, <1>4 DEF CountBranches
    <2>7. \A u \in todo' : u \in todo \/ Fits(u)
        BY <2>5, <2>6
    <2> QED
        BY <1>3, <2>3, <2>4, <2>7, RewriteKeeps
<1>5. CASE Outstanding(i) # {}
    BY <1>1, <1>3, <1>5, SameBoardsKeep DEF CountBranches
<1> QED
    BY <1>4, <1>5

LEMMA RollUpKeeps ==
    ASSUME BoardInv, NEW t \in todo, RollUp(t)
    PROVE  BoardInv'
<1>1. PICK i \in Rows : i = t.row
    BY DEF BoardInv, BoardsConnect
<1>2. BoardTypes /\ rows[i] \in Row /\ rows[i].answer \in BOOLEAN
    BY InvParts, RowTypes, RowFields
<1>3. mail' = mail /\ knows' \subseteq Offices /\ faults' \in 0 .. MaxFaults
    BY DEF RollUp, BoardInv, TypeOK
<1>4. CASE MayMove(i, "COMPLETED", rows[i].answer)
    <2>1. PICK r : r = [rows[i] EXCEPT !.status = "COMPLETED", !.done = TRUE, !.rolled = TRUE]
        OBVIOUS
    <2>2. rows' = [rows EXCEPT ![i] = r]
        BY <1>1, <1>4, <2>1 DEF RollUp
    <2>3. r \in Row /\ r.at = rows[i].at /\ r.to = rows[i].to /\ r.parent = rows[i].parent
          /\ r.origin = rows[i].origin /\ r.chain = rows[i].chain
        BY <1>2, <2>1 DEF Row, Statuses
    <2>4. todo' = (todo \ {t}) \cup Then(i, "COMPLETED", rows[i].answer, rows[i].parent)
        BY <1>1, <1>4 DEF RollUp
    <2>5. \A u \in Then(i, "COMPLETED", rows[i].answer, rows[i].parent) : Fits(u)
        BY <1>2, ThenFits, ParentInBound DEF Statuses
    <2> QED
        BY <1>3, <2>2, <2>3, <2>4, <2>5, RewriteKeeps
<1>5. CASE ~ MayMove(i, "COMPLETED", rows[i].answer)
    BY <1>1, <1>3, <1>5, SameBoardsKeep DEF RollUp
<1> QED
    BY <1>4, <1>5

LEMMA ReadUpdateKeeps ==
    ASSUME BoardInv, NEW m \in mail, ReadUpdate(m)
    PROVE  BoardInv'
<1>1. PICK i \in Rows : i = m.row
    BY DEF BoardInv, BoardsConnect
<1>2. BoardTypes /\ rows[i] \in Row /\ rows[i].answer \in BOOLEAN
    BY InvParts, RowTypes, RowFields
<1>3. m.status \in Statuses /\ m.answer \in BOOLEAN
    BY DEF BoardInv, TypeOK, Mail
<1>4. \A x \in mail' : x \in mail
    BY MarkReadFacts DEF ReadUpdate
<1>5. faults' \in 0 .. MaxFaults /\ knows' \subseteq Offices
    BY MarkReadFacts DEF ReadUpdate, BoardInv, TypeOK
<1>6. CASE SupersededBy(rows[i].status, m.status)
    <2>1. PICK r : r = [rows[i] EXCEPT !.status = m.status, !.answer = rows[i].answer \/ m.answer]
        OBVIOUS
    <2>2. rows' = [rows EXCEPT ![i] = r]
        BY <1>1, <1>6, <2>1 DEF ReadUpdate
    <2>3. r \in Row /\ r.at = rows[i].at /\ r.to = rows[i].to /\ r.parent = rows[i].parent
          /\ r.origin = rows[i].origin /\ r.chain = rows[i].chain
        BY <1>2, <1>3, <2>1 DEF Row
    <2>4. PICK p \in Rows : p = rows[i].parent
        BY <1>1 DEF BoardInv, BoardsConnect, Connected
    <2>5. Fits(Work("count", p))
        BY <1>2, WorkFits
    <2>6. \A u \in todo' : u \in todo \/ u = Work("count", p)
        BY <1>1, <1>6, <2>4 DEF ReadUpdate
    <2>7. \A u \in todo' : u \in todo \/ Fits(u)
        BY <2>5, <2>6
    <2> QED
        BY <1>4, <1>5, <2>2, <2>3, <2>7, RewriteKeeps
<1>7. CASE ~ SupersededBy(rows[i].status, m.status)
    BY <1>1, <1>4, <1>5, <1>7, SameBoardsKeep DEF ReadUpdate
<1> QED
    BY <1>6, <1>7

-----------------------------------------------------------------------------
(* The other actions, and the theorems *)

LEMMA ReportUpKeeps ==
    ASSUME BoardInv, NEW t \in todo, ReportUp(t)
    PROVE  BoardInv'
<1>1. BoardTypes /\ Fits(t)
    BY InvParts
<1>2. PICK i \in Rows : i = rows[t.row].origin /\ IsMirror(i)
    <2>1. t.row \in Rows /\ rows[t.row].origin # 0
        BY <1>1 DEF Fits, ReportUp
    <2>2. /\ rows[t.row].origin \in Rows
          /\ rows[rows[t.row].origin].to = {rows[t.row].at}
        BY <2>1 DEF BoardInv, BoardsConnect, Connected
    <2> QED
        BY <2>2 DEF IsMirror
<1>3. MailFits(Update(i, t.status, t.answer))
    <2>1. Update(i, t.status, t.answer) \in Mail
        BY <1>1, IdsInBound DEF Update, Mail, Fits, Todo
    <2> QED
        BY <1>2, <2>1 DEF MailFits, Update
<1>4. \A m \in mail' : m \in mail \/ MailFits(m)
    BY <1>2, <1>3 DEF ReportUp
<1>5. \A u \in todo' : u \in todo \/ Fits(u)
    BY <1>1, WorkFits DEF ReportUp, Fits
<1>6. rows' = rows /\ knows' \subseteq Offices /\ faults' \in 0 .. MaxFaults
    BY DEF ReportUp, BoardInv, TypeOK
<1> QED
    BY <1>4, <1>5, <1>6, SameBoardsKeep

LEMMA InitBoard == Init => BoardInv
<1> SUFFICES ASSUME Init
             PROVE  BoardInv
    OBVIOUS
<1>1. rows \in Seq(Row) /\ Len(rows) = 0 /\ Rows = {}
    BY DEF Init, Rows
<1>2. TypeOK
    BY <1>1, BoardAssumption DEF Init, TypeOK
<1>3. BoardsConnect /\ TakenOnce /\ NoOfficeTwice
    BY <1>1 DEF Init, BoardsConnect, TakenOnce, NoOfficeTwice
<1> QED
    BY <1>2, <1>3 DEF BoardInv

LEMMA StepBoard == BoardInv /\ [Next]_vars => BoardInv'
<1> SUFFICES ASSUME BoardInv, [Next]_vars
             PROVE  BoardInv'
    OBVIOUS
<1>1. ASSUME NEW o \in Offices, NEW q \in PeerLists(o), Raise(o, q)
      PROVE  BoardInv'
    BY <1>1, RaiseKeeps
<1>2. ASSUME NEW i \in Rows, NEW q \in PeerLists(rows[i].at), Delegate(i, q)
      PROVE  BoardInv'
    BY <1>2, DelegateKeeps
<1>3. ASSUME NEW i \in Rows, GiveAnswer(i)
      PROVE  BoardInv'
    BY <1>3, GiveAnswerKeeps
<1>4. ASSUME NEW i \in Rows, NEW to \in Statuses, Act(i, to)
      PROVE  BoardInv'
    BY <1>4, ActKeeps
<1>5. ASSUME NEW t \in todo,
             FinishDelegate(t) \/ ReportUp(t) \/ CountBranches(t) \/ RollUp(t)
      PROVE  BoardInv'
    BY <1>5, FinishDelegateKeeps, ReportUpKeeps, CountBranchesKeeps, RollUpKeeps
<1>6. ASSUME NEW m \in mail, ReadAssigned(m) \/ ReadUpdate(m)
      PROVE  BoardInv'
    BY <1>6, ReadAssignedKeeps, ReadUpdateKeeps
<1>7. ASSUME NEW o \in Offices, LearnCode(o)
      PROVE  BoardInv'
    <2>1. rows' = rows /\ mail' = mail /\ todo' = todo /\ faults' = faults
        BY <1>7 DEF LearnCode
    <2>2. knows' \subseteq Offices /\ faults' \in 0 .. MaxFaults
        BY <1>7 DEF LearnCode, BoardInv, TypeOK
    <2> QED
        BY <2>1, <2>2, SameBoardsKeep
<1>8. ASSUME NEW t \in todo, Lose(t)
      PROVE  BoardInv'
    <2>1. rows' = rows /\ mail' = mail /\ todo' \subseteq todo /\ knows' = knows
        BY <1>8 DEF Lose
    <2>2. knows' \subseteq Offices /\ faults' \in 0 .. MaxFaults
        BY <1>8, BoardAssumption DEF Lose, BoardInv, TypeOK
    <2> QED
        BY <2>1, <2>2, SameBoardsKeep
<1>9. CASE UNCHANGED vars
    <2>1. rows' = rows /\ mail' = mail /\ todo' = todo
          /\ knows' \subseteq Offices /\ faults' \in 0 .. MaxFaults
        BY <1>9 DEF vars, BoardInv, TypeOK
    <2> QED
        BY <2>1, SameBoardsKeep
<1> QED
    BY <1>1, <1>2, <1>3, <1>4, <1>5, <1>6, <1>7, <1>8, <1>9
       DEF Next, Operate, Continue, Read

LEMMA BoardInvariant == Spec => []BoardInv
BY InitBoard, StepBoard, PTL DEF Spec

\* Every variable keeps its type.
THEOREM TypeCorrect == Spec => []TypeOK
<1>1. BoardInv => TypeOK
    BY DEF BoardInv
<1> QED
    BY <1>1, BoardInvariant, PTL

\* Through every crash, repeated reading and lost step the boards fit together:
\* no envelope and no handler refers to a row that is not there or not a mirror.
THEOREM PointersHold == Spec => []BoardsConnect
<1>1. BoardInv => BoardsConnect
    BY DEF BoardInv
<1> QED
    BY <1>1, BoardInvariant, PTL

\* An assignment read any number of times makes one task.
THEOREM ReadOnce == Spec => []TakenOnce
<1>1. BoardInv => TakenOnce
    BY DEF BoardInv
<1> QED
    BY <1>1, BoardInvariant, PTL

\* Whatever the graph of links, work never comes back to an office it has passed
\* through, so that it is handed on at most as often as there are other offices.
THEOREM WorkEnds == Spec => []NoOfficeTwice
<1>1. BoardInv => NoOfficeTwice
    BY DEF BoardInv
<1> QED
    BY <1>1, BoardInvariant, PTL

-----------------------------------------------------------------------------
(* What a step does to the boards, the envelopes and the handlers *)

\* What has been reached on a row stays reached.
Rises ==
    /\ Grows
    /\ \A i \in Rows :
          /\ Rank(rows[i].status) <= Rank(rows'[i].status)
          /\ rows[i].answer => rows'[i].answer
          /\ rows[i].done => rows'[i].done

\* Only an envelope moves a mirror, an operator who closes it apart.
MirrorFrom(i) ==
    IsMirror(i) =>
        \/ rows'[i].status = rows[i].status
        \/ rows'[i].status = "CLOSED" /\ "close" \notin Careful
        \/ /\ \E m \in mail : /\ m.row = i
                              /\ m.status = rows'[i].status
                              /\ m.answer => rows'[i].answer
           /\ \E t \in todo' : t.do = "count" /\ t.row = rows[i].parent

\* A task moves as the state machine says, and the office above is told.
TaskFrom(i) ==
    ~ IsMirror(i) /\ rows'[i].status # rows[i].status =>
        /\ CanMoveTo(rows[i].status, rows'[i].status)
        /\ rows[i].origin # 0 =>
              /\ \E t \in todo' : t.do = "report" /\ t.row = i /\ t.status = rows'[i].status
              /\ "close" \in Careful => rows'[i].status # "CLOSED"

\* A task is done as it becomes complete, and rolled up by a handler that was to
\* complete it.
RolledFrom(i) ==
    /\ rows'[i].done => rows[i].done \/ rows'[i].status = "COMPLETED"
    /\ rows'[i].rolled =>
          \/ rows[i].rolled
          \/ /\ rows'[i].status = "COMPLETED"
             /\ \E t \in todo : t.do = "complete" /\ t.row = i

\* An assignment that was read, and is gone unless marking it read failed.
Consumed(i) == \E m \in mail : /\ m.kind = "assigned" /\ m.row = i
                               /\ m \in mail' => faults' # faults

\* A row is added as the root, as a mirror of a task, or for an assignment.
RowFrom(n) ==
    /\ ~ rows'[n].rolled
    /\ rows'[n].to # {} =>
          /\ rows'[n].status = "RECEIVED"
          /\ rows'[n].origin = 0
    /\ rows'[n].parent # 0 =>
          /\ rows'[n].parent \in Rows' /\ rows'[rows'[n].parent].to = {}
          /\ "delegate" \in Careful /\ rows'[n].parent \in Rows =>
                /\ CanMoveTo(rows[rows'[n].parent].status, "DELEGATED")
                /\ \A t \in todo : t.row # rows'[n].parent
          /\ rows'[n].parent \notin Rows => rows'[rows'[n].parent].status = "DELEGATED"
    /\ rows'[n].origin # 0 =>
          /\ rows'[n].status = "RECEIVED"
          /\ ~ rows'[n].done
          /\ Consumed(rows'[n].origin)
          /\ mail' \subseteq mail

BoardsFrom ==
    /\ Rises
    /\ \A i \in Rows : MirrorFrom(i) /\ TaskFrom(i) /\ RolledFrom(i)
    /\ \A n \in Rows' \ Rows : RowFrom(n)

\* An envelope is an assignment of a new mirror, a refusal, or a report.
NewsFrom(m) ==
    \/ m = Assigned(m.row) /\ m.row \in Rows' \ Rows
    \/ m = Update(m.row, "RETURNED", FALSE) /\ Consumed(m.row)
    \/ \E t \in todo : /\ t.do = "report"
                       /\ m = Update(rows[t.row].origin, t.status, t.answer)

\* News is read when the mirror is as far.
ReadFrom(m) == m.kind = "update" => Rank(m.status) <= Rank(rows'[m.row].status)

MailFrom ==
    /\ \A m \in mail' \ mail : NewsFrom(m)
    /\ \A m \in mail \ mail' : ReadFrom(m)

\* A handler reports what the task has become, counts above a branch, or has
\* counted every branch complete.
HandlerFrom(t) ==
    /\ t.row \in Rows /\ ~ IsMirror(t.row) /\ t.up = 0
    /\ t.do = "report" =>
          /\ t.status = rows'[t.row].status
          /\ t.status = "COMPLETED" => rows'[t.row].done /\ (Service => t.answer)
    /\ t.do # "report" => t.status = "RECEIVED"
    /\ t.do = "count" => Branches(t.row) # {}
    /\ t.do = "complete" =>
          /\ Outstanding(t.row) = {}
          /\ \E u \in todo : u.do = "count" /\ u.row = t.row
          /\ Service /\ (\E b \in Branches(t.row) : rows[b].answer) => rows'[t.row].answer

\* A report is over when it is on its way, a count when a branch is outstanding or
\* the task is to be completed, and that when the task is complete or may not be;
\* unless the step was lost.
EndsFrom(t) ==
    \/ faults' # faults
    \/ /\ t.do = "report" => Update(rows[t.row].origin, t.status, t.answer) \in mail'
       /\ t.do = "count" => \/ Outstanding(t.row) # {}
                            \/ \E u \in todo' : u.do = "complete" /\ u.row = t.row
       /\ t.do = "complete" => \/ ~ MayMove(t.row, "COMPLETED", rows[t.row].answer)
                               \/ rows'[t.row].status = "COMPLETED"

TodoFrom ==
    /\ \A t \in todo' \ todo : HandlerFrom(t)
    /\ \A t \in todo \ todo' : EndsFrom(t)

StepFrom == BoardsFrom /\ MailFrom /\ TodoFrom

\* Handlers work on tasks, and the branches of a task are the mirrors it has.
TasksOnly ==
    /\ \A i \in Rows : rows[i].origin # 0 => ~ IsMirror(i)
    /\ \A i \in Rows : rows[i].parent # 0 => ~ IsMirror(rows[i].parent)
    /\ \A t \in todo : ~ IsMirror(t.row) /\ t.up = 0

-----------------------------------------------------------------------------
(* The state machine *)

LEMMA RankTypes ==
    /\ \A s \in Statuses : Rank(s) \in Nat
    /\ Rank("RECEIVED") = 0 /\ Rank("COMPLETED") = 3
BY DEF Statuses, Rank

\* The state machine, line by line.
LEMMA MovesOf ==
    ASSUME NEW s \in Statuses, NEW u, CanMoveTo(s, u)
    PROVE  \/ s = "RECEIVED" /\ u \in {"ACCEPTED", "RETURNED"}
           \/ s = "ACCEPTED" /\ u \in {"IN_PROGRESS", "DELEGATED", "COMPLETED", "RETURNED"}
           \/ s = "IN_PROGRESS" /\ u \in {"DELEGATED", "COMPLETED", "RETURNED"}
           \/ s = "DELEGATED" /\ u \in {"COMPLETED", "RETURNED"}
           \/ s \in {"COMPLETED", "RETURNED"} /\ u = "CLOSED"
<1>1. u \in (CASE s = "RECEIVED" -> {"ACCEPTED", "RETURNED"}
              [] s = "ACCEPTED" -> {"IN_PROGRESS", "DELEGATED", "COMPLETED", "RETURNED"}
              [] s = "IN_PROGRESS" -> {"DELEGATED", "COMPLETED", "RETURNED"}
              [] s = "DELEGATED" -> {"COMPLETED", "RETURNED"}
              [] s \in {"COMPLETED", "RETURNED"} -> {"CLOSED"}
              [] s = "CLOSED" -> {})
    BY DEF CanMoveTo, Transitions
<1> QED
    BY <1>1 DEF Statuses

\* The state machine only goes up.
LEMMA MovesRise ==
    ASSUME NEW s \in Statuses, NEW u, CanMoveTo(s, u)
    PROVE  u \in Statuses /\ Rank(s) <= Rank(u)
<1>1. CASE s = "RECEIVED" /\ u \in {"ACCEPTED", "RETURNED"}
    BY <1>1 DEF Rank, Statuses
<1>2. CASE s = "ACCEPTED" /\ u \in {"IN_PROGRESS", "DELEGATED", "COMPLETED", "RETURNED"}
    BY <1>2 DEF Rank, Statuses
<1>3. CASE s = "IN_PROGRESS" /\ u \in {"DELEGATED", "COMPLETED", "RETURNED"}
    BY <1>3 DEF Rank, Statuses
<1>4. CASE s = "DELEGATED" /\ u \in {"COMPLETED", "RETURNED"}
    BY <1>4 DEF Rank, Statuses
<1>5. CASE s \in {"COMPLETED", "RETURNED"} /\ u = "CLOSED"
    BY <1>5 DEF Rank, Statuses
<1> QED
    BY <1>1, <1>2, <1>3, <1>4, <1>5, MovesOf

-----------------------------------------------------------------------------
(* The boards after a step of each kind *)

LEMMA SameBoardsFrom ==
    ASSUME BoardInv, rows' = rows
    PROVE  BoardsFrom
<1>1. BoardTypes /\ Len(rows) \in Nat
    BY InvParts, LenProperties DEF BoardTypes
<1>2. \A i \in Rows : Rank(rows[i].status) \in Nat
    BY <1>1, RowTypes, RankTypes DEF Row
<1>3. Rises
    BY <1>1, <1>2 DEF Rises, Grows, Stays
<1>4. \A i \in Rows : MirrorFrom(i) /\ TaskFrom(i) /\ RolledFrom(i)
    BY DEF MirrorFrom, TaskFrom, RolledFrom
<1>5. Rows' = Rows
    BY DEF Rows
<1> QED
    BY <1>3, <1>4, <1>5 DEF BoardsFrom

\* A row rewritten to what is further on.
LEMMA RewriteRises ==
    ASSUME BoardInv, NEW i \in Rows, NEW r \in Row, rows' = [rows EXCEPT ![i] = r],
           r.at = rows[i].at, r.to = rows[i].to, r.parent = rows[i].parent,
           r.origin = rows[i].origin, r.chain = rows[i].chain,
           Rank(rows[i].status) <= Rank(r.status),
           rows[i].answer => r.answer, rows[i].done => r.done
    PROVE  Rises
<1>1. BoardTypes
    BY InvParts
<1>2. Grows
    BY <1>1, RewriteGrows
<1>3. \A j \in Rows : rows'[j] = IF j = i THEN r ELSE rows[j]
    BY <1>1, RowReplaced
<1>4. \A j \in Rows : Rank(rows[j].status) \in Nat
    BY <1>1, RowTypes, RankTypes DEF Row
<1> QED
    BY <1>2, <1>3, <1>4 DEF Rises

LEMMA RewriteFrom ==
    ASSUME BoardInv, NEW i \in Rows, NEW r \in Row, rows' = [rows EXCEPT ![i] = r],
           r.at = rows[i].at, r.to = rows[i].to, r.parent = rows[i].parent,
           r.origin = rows[i].origin, r.chain = rows[i].chain,
           Rank(rows[i].status) <= Rank(r.status),
           rows[i].answer => r.answer, rows[i].done => r.done,
           MirrorFrom(i), TaskFrom(i), RolledFrom(i)
    PROVE  BoardsFrom
<1>1. BoardTypes
    BY InvParts
<1>2. Len(rows') = Len(rows)
    BY <1>1, RewriteGrows
<1>3. \A j \in Rows : rows'[j] = IF j = i THEN r ELSE rows[j]
    BY <1>1, RowReplaced
<1>5. Rises
    BY RewriteRises
<1>6. \A j \in Rows : MirrorFrom(j) /\ TaskFrom(j) /\ RolledFrom(j)
    BY <1>3 DEF MirrorFrom, TaskFrom, RolledFrom
<1>7. Rows' = Rows
    BY <1>2 DEF Rows
<1> QED
    BY <1>5, <1>6, <1>7 DEF BoardsFrom

LEMMA GrowthFrom ==
    ASSUME BoardInv, Len(rows) <= Len(rows'), \A i \in Rows : rows'[i] = rows[i],
           \A n \in Rows' \ Rows : RowFrom(n)
    PROVE  BoardsFrom
<1>1. BoardTypes
    BY InvParts
<1>2. \A i \in Rows : Rank(rows[i].status) \in Nat
    BY <1>1, RowTypes, RankTypes DEF Row
<1>3. Rises
    BY <1>2 DEF Rises, Grows, Stays
<1>4. \A i \in Rows : MirrorFrom(i) /\ TaskFrom(i) /\ RolledFrom(i)
    BY DEF MirrorFrom, TaskFrom, RolledFrom
<1> QED
    BY <1>3, <1>4 DEF BoardsFrom

-----------------------------------------------------------------------------
(* Nothing reached is taken back *)

LEMMA ActRises ==
    ASSUME BoardInv, NEW i \in Rows, NEW to \in Statuses, Act(i, to)
    PROVE  Rises
<1>1. BoardTypes /\ rows[i] \in Row /\ rows[i].status \in Statuses
    BY InvParts, RowTypes, RowFields
<1>2. PICK r : r = [rows[i] EXCEPT !.status = to, !.done = rows[i].done \/ to = "COMPLETED"]
    OBVIOUS
<1>3. rows' = [rows EXCEPT ![i] = r]
    BY <1>2 DEF Act
<1>4. /\ r \in Row /\ r.at = rows[i].at /\ r.to = rows[i].to /\ r.parent = rows[i].parent
      /\ r.origin = rows[i].origin /\ r.chain = rows[i].chain
      /\ r.status = to /\ r.answer = rows[i].answer
      /\ r.done = (rows[i].done \/ to = "COMPLETED")
    BY <1>1, <1>2 DEF Row
<1>5. Rank(rows[i].status) <= Rank(r.status)
    BY <1>1, <1>4, MovesRise DEF Act, MayMove
<1> QED
    BY <1>3, <1>4, <1>5, RewriteRises

LEMMA DelegateRises ==
    ASSUME BoardInv, NEW i \in Rows, NEW q \in PeerLists(rows[i].at), Delegate(i, q)
    PROVE  Rises
<1>1. BoardTypes
    BY InvParts
<1>2. rows \in Seq(Row) /\ i \in 1 .. Len(rows) /\ Rows = 1 .. Len(rows)
    BY <1>1 DEF BoardTypes, Rows
<1>3. Added(rows, i, q, rows')
    BY <1>2, MirrorsAdded DEF Delegate
<1>4. Len(rows) <= Len(rows') /\ \A n \in Rows : rows'[n] = rows[n]
    BY <1>2, <1>3 DEF Added
<1>5. \A n \in Rows : Rank(rows[n].status) \in Nat
    BY <1>1, RowTypes, RankTypes DEF Row
<1> QED
    BY <1>4, <1>5 DEF Rises, Grows, Stays

LEMMA ContinueRises ==
    ASSUME BoardInv, NEW t \in todo,
           FinishDelegate(t) \/ ReportUp(t) \/ CountBranches(t) \/ RollUp(t)
    PROVE  Rises
<1>1. PICK i \in Rows : i = t.row
    BY DEF BoardInv, BoardsConnect
<1>2. BoardTypes /\ rows[i] \in Row /\ rows[i].status \in Statuses
    BY InvParts, RowTypes, RowFields
<1>3. CASE rows' = rows
    BY <1>3, SameBoardsFrom DEF BoardsFrom
<1>4. CASE FinishDelegate(t) /\ rows' # rows
    <2>1. PICK r : r = [rows[i] EXCEPT !.status = "DELEGATED"]
        OBVIOUS
    <2>2. CanMoveTo(rows[i].status, "DELEGATED") /\ rows' = [rows EXCEPT ![i] = r]
        BY <1>1, <1>4, <2>1 DEF FinishDelegate
    <2>3. /\ r \in Row /\ r.at = rows[i].at /\ r.to = rows[i].to /\ r.parent = rows[i].parent
          /\ r.origin = rows[i].origin /\ r.chain = rows[i].chain
          /\ r.status = "DELEGATED" /\ r.answer = rows[i].answer /\ r.done = rows[i].done
        BY <1>2, <2>1 DEF Row, Statuses
    <2>4. Rank(rows[i].status) <= Rank(r.status)
        BY <1>2, <2>2, <2>3, MovesRise
    <2> QED
        BY <2>2, <2>3, <2>4, RewriteRises
<1>5. CASE CountBranches(t) /\ rows' # rows
    <2>1. Gathered(i) \in BOOLEAN /\ (rows[i].answer => Gathered(i))
        BY <1>2 DEF Gathered, Row
    <2>2. PICK r : r = [rows[i] EXCEPT !.answer = Gathered(i)]
        OBVIOUS
    <2>3. rows' = [rows EXCEPT ![i] = r]
        BY <1>1, <1>5, <2>2 DEF CountBranches
    <2>4. /\ r \in Row /\ r.at = rows[i].at /\ r.to = rows[i].to /\ r.parent = rows[i].parent
          /\ r.origin = rows[i].origin /\ r.chain = rows[i].chain
          /\ r.status = rows[i].status /\ r.answer = Gathered(i) /\ r.done = rows[i].done
        BY <1>2, <2>1, <2>2 DEF Row
    <2>5. Rank(rows[i].status) \in Nat
        BY <1>2, RankTypes
    <2>6. Rank(rows[i].status) <= Rank(r.status)
        BY <2>4, <2>5
    <2> QED
        BY <2>1, <2>3, <2>4, <2>6, RewriteRises
<1>6. CASE RollUp(t) /\ rows' # rows
    <2>1. PICK r : r = [rows[i] EXCEPT !.status = "COMPLETED", !.done = TRUE, !.rolled = TRUE]
        OBVIOUS
    <2>2. CanMoveTo(rows[i].status, "COMPLETED") /\ rows' = [rows EXCEPT ![i] = r]
        BY <1>1, <1>6, <2>1 DEF RollUp, MayMove
    <2>3. /\ r \in Row /\ r.at = rows[i].at /\ r.to = rows[i].to /\ r.parent = rows[i].parent
          /\ r.origin = rows[i].origin /\ r.chain = rows[i].chain
          /\ r.status = "COMPLETED" /\ r.answer = rows[i].answer /\ r.done
        BY <1>2, <2>1 DEF Row, Statuses
    <2>4. Rank(rows[i].status) <= Rank(r.status)
        BY <1>2, <2>2, <2>3, MovesRise
    <2> QED
        BY <2>2, <2>3, <2>4, RewriteRises
<1>7. ReportUp(t) => rows' = rows
    BY DEF ReportUp
<1> QED
    BY <1>3, <1>4, <1>5, <1>6, <1>7

LEMMA ReadUpdateRises ==
    ASSUME BoardInv, NEW m \in mail, ReadUpdate(m)
    PROVE  Rises
<1>1. PICK i \in Rows : i = m.row
    BY DEF BoardInv, BoardsConnect
<1>2. BoardTypes /\ rows[i] \in Row
    BY InvParts, RowTypes
<1>3. m.status \in Statuses /\ m.answer \in BOOLEAN
    BY DEF BoardInv, TypeOK, Mail
<1>4. CASE SupersededBy(rows[i].status, m.status)
    <2>1. PICK r : r = [rows[i] EXCEPT !.status = m.status, !.answer = rows[i].answer \/ m.answer]
        OBVIOUS
    <2>2. rows' = [rows EXCEPT ![i] = r]
        BY <1>1, <1>4, <2>1 DEF ReadUpdate
    <2>3. /\ r \in Row /\ r.at = rows[i].at /\ r.to = rows[i].to /\ r.parent = rows[i].parent
          /\ r.origin = rows[i].origin /\ r.chain = rows[i].chain
          /\ r.status = m.status /\ r.answer = (rows[i].answer \/ m.answer)
          /\ r.done = rows[i].done
        BY <1>2, <1>3, <2>1 DEF Row
    <2>4. Rank(rows[i].status) <= Rank(r.status)
        BY <1>4, <2>3 DEF SupersededBy
    <2> QED
        BY <2>2, <2>3, <2>4, RewriteRises
<1>5. CASE ~ SupersededBy(rows[i].status, m.status)
    <2>1. rows' = rows
        BY <1>1, <1>5 DEF ReadUpdate
    <2> QED
        BY <2>1, SameBoardsFrom DEF BoardsFrom
<1> QED
    BY <1>4, <1>5

-----------------------------------------------------------------------------
(* What each action does *)

\* The row of a handler is a task, and so is nothing above it.
LEMMA TaskFacts ==
    ASSUME BoardInv, TasksOnly, NEW t \in todo
    PROVE  /\ t.row \in Rows /\ ~ IsMirror(t.row) /\ t.up = 0
           /\ rows[t.row].parent = 0
BY DEF BoardInv, BoardsConnect, Connected, TasksOnly

\* What a task leaves to do when it moves: a report, if there is an office above.
LEMMA ThenFrom ==
    ASSUME NEW i \in Rows, ~ IsMirror(i), NEW s, NEW a,
           rows'[i].status = s,
           s = "COMPLETED" => rows'[i].done /\ (Service => a)
    PROVE  /\ \A t \in Then(i, s, a, 0) : HandlerFrom(t)
           /\ rows[i].origin # 0 =>
                 \E t \in Then(i, s, a, 0) : t.do = "report" /\ t.row = i /\ t.status = s
<1>1. HandlerFrom(Report(i, s, a, 0))
    BY DEF HandlerFrom, Report
<1> QED
    BY <1>1 DEF Then, Report

LEMMA GiveAnswerFrom ==
    ASSUME BoardInv, NEW i \in Rows, GiveAnswer(i)
    PROVE  StepFrom
<1>1. BoardTypes /\ rows[i] \in Row /\ Rank(rows[i].status) \in Nat
    BY InvParts, RowTypes, RankTypes DEF Row
<1>2. PICK r : r = [rows[i] EXCEPT !.answer = TRUE]
    OBVIOUS
<1>3. rows' = [rows EXCEPT ![i] = r]
    BY <1>2 DEF GiveAnswer
<1>4. /\ r \in Row /\ r.at = rows[i].at /\ r.to = rows[i].to /\ r.parent = rows[i].parent
      /\ r.origin = rows[i].origin /\ r.chain = rows[i].chain
      /\ r.status = rows[i].status /\ r.answer /\ r.done = rows[i].done
      /\ r.rolled = rows[i].rolled
    BY <1>1, <1>2 DEF Row
<1>5. rows'[i] = r
    <2>1. r \in Row
        BY <1>4
    <2>2. \A j \in Rows : rows'[j] = IF j = i THEN r ELSE rows[j]
        BY <1>1, <1>3, <2>1, RowReplaced
    <2> QED
        BY <2>2
<1>6. MirrorFrom(i) /\ TaskFrom(i) /\ RolledFrom(i)
    BY <1>4, <1>5 DEF MirrorFrom, TaskFrom, RolledFrom
<1>8. Rank(rows[i].status) <= Rank(r.status)
    BY <1>1, <1>4
<1>7. BoardsFrom
    BY <1>1, <1>3, <1>4, <1>6, <1>8, RewriteFrom
<1> QED
    BY <1>7 DEF GiveAnswer, StepFrom, MailFrom, TodoFrom

LEMMA ActFrom ==
    ASSUME BoardInv, TasksOnly, "mirrors" \in Careful,
           NEW i \in Rows, NEW to \in Statuses, Act(i, to)
    PROVE  StepFrom
<1>1. BoardTypes /\ rows[i] \in Row /\ rows[i].status \in Statuses
    BY InvParts, RowTypes, RowFields
<1>2. PICK r : r = [rows[i] EXCEPT !.status = to, !.done = rows[i].done \/ to = "COMPLETED"]
    OBVIOUS
<1>3. rows' = [rows EXCEPT ![i] = r]
    BY <1>2 DEF Act
<1>4. /\ r \in Row /\ r.at = rows[i].at /\ r.to = rows[i].to /\ r.parent = rows[i].parent
      /\ r.origin = rows[i].origin /\ r.chain = rows[i].chain
      /\ r.status = to /\ r.answer = rows[i].answer
      /\ r.done = (rows[i].done \/ to = "COMPLETED") /\ r.rolled = rows[i].rolled
    BY <1>1, <1>2 DEF Row
<1>5. rows'[i] = r
    <2>1. r \in Row
        BY <1>4
    <2>2. \A j \in Rows : rows'[j] = IF j = i THEN r ELSE rows[j]
        BY <1>1, <1>3, <2>1, RowReplaced
    <2> QED
        BY <2>2
<1>6. /\ CanMoveTo(rows[i].status, to) /\ HasAnswer(i, to, rows[i].answer)
      /\ "close" \in Careful /\ to = "CLOSED" => rows[i].origin = 0
    BY DEF Act, MayMove
<1>7. todo' = todo \cup Then(i, to, rows[i].answer, 0)
    <2>1. rows[i].parent # 0 <=> IsMirror(i)
        BY DEF BoardInv, BoardsConnect, Connected
    <2>2. Above(i, to) = 0
        BY <2>1 DEF Act, Above
    <2> QED
        BY <2>2 DEF Act
<1>8. CASE IsMirror(i)
    <2>1. to = "CLOSED" /\ "close" \notin Careful
        BY <1>8 DEF Act
    <2>2. Then(i, to, rows[i].answer, 0) = {}
        BY <1>8 DEF TasksOnly, Then
    <2>3. MirrorFrom(i) /\ TaskFrom(i) /\ RolledFrom(i)
        BY <1>4, <1>5, <1>8, <2>1 DEF MirrorFrom, TaskFrom, RolledFrom
    <2>4. BoardsFrom
        BY <1>1, <1>3, <1>4, <1>6, <2>3, MovesRise, RewriteFrom
    <2> QED
        BY <1>7, <2>2, <2>4 DEF Act, StepFrom, MailFrom, TodoFrom
<1>9. CASE ~ IsMirror(i)
    <2>1. to = "COMPLETED" => rows'[i].done /\ (Service => rows[i].answer)
        BY <1>4, <1>5, <1>6, <1>9 DEF HasAnswer
    <2>2. /\ \A t \in Then(i, to, rows[i].answer, 0) : HandlerFrom(t)
          /\ rows[i].origin # 0 => \E t \in Then(i, to, rows[i].answer, 0) :
                t.do = "report" /\ t.row = i /\ t.status = to
        BY <1>4, <1>5, <1>9, <2>1, ThenFrom
    <2>3. MirrorFrom(i) /\ TaskFrom(i) /\ RolledFrom(i)
        BY <1>4, <1>5, <1>6, <1>7, <1>9, <2>2 DEF MirrorFrom, TaskFrom, RolledFrom
    <2>4. BoardsFrom
        BY <1>1, <1>3, <1>4, <1>6, <2>3, MovesRise, RewriteFrom
    <2> QED
        BY <1>7, <2>2, <2>4 DEF Act, StepFrom, MailFrom, TodoFrom
<1> QED
    BY <1>8, <1>9

LEMMA FinishDelegateFrom ==
    ASSUME BoardInv, TasksOnly, NEW t \in todo, FinishDelegate(t)
    PROVE  StepFrom
<1>1. PICK i \in Rows : i = t.row /\ ~ IsMirror(i)
    BY TaskFacts
<1>2. BoardTypes /\ rows[i] \in Row /\ rows[i].status \in Statuses
    BY InvParts, RowTypes, RowFields
<1>3. mail' = mail /\ EndsFrom(t)
    BY DEF FinishDelegate, EndsFrom
<1>4. CASE CanMoveTo(rows[i].status, "DELEGATED")
    <2>1. PICK r : r = [rows[i] EXCEPT !.status = "DELEGATED"]
        OBVIOUS
    <2>2. rows' = [rows EXCEPT ![i] = r]
        BY <1>1, <1>4, <2>1 DEF FinishDelegate
    <2>3. /\ r \in Row /\ r.at = rows[i].at /\ r.to = rows[i].to /\ r.parent = rows[i].parent
          /\ r.origin = rows[i].origin /\ r.chain = rows[i].chain
          /\ r.status = "DELEGATED" /\ r.answer = rows[i].answer
          /\ r.done = rows[i].done /\ r.rolled = rows[i].rolled
        BY <1>2, <2>1 DEF Row, Statuses
    <2>4. rows'[i] = r
        <3>1. r \in Row
            BY <2>3
        <3>2. \A j \in Rows : rows'[j] = IF j = i THEN r ELSE rows[j]
            BY <1>2, <2>2, <3>1, RowReplaced
        <3> QED
            BY <3>2
    <2>5. todo' = (todo \ {t}) \cup Then(i, "DELEGATED", rows[i].answer, 0)
        BY <1>1, <1>4 DEF FinishDelegate
    <2>6. /\ \A u \in Then(i, "DELEGATED", rows[i].answer, 0) : HandlerFrom(u)
          /\ rows[i].origin # 0 => \E u \in Then(i, "DELEGATED", rows[i].answer, 0) :
                u.do = "report" /\ u.row = i /\ u.status = "DELEGATED"
        BY <1>1, <2>3, <2>4, ThenFrom
    <2>7. MirrorFrom(i) /\ TaskFrom(i) /\ RolledFrom(i)
        BY <1>1, <1>4, <2>3, <2>4, <2>5, <2>6 DEF MirrorFrom, TaskFrom, RolledFrom
    <2>8. BoardsFrom
        BY <1>2, <1>4, <2>2, <2>3, <2>7, MovesRise, RewriteFrom
    <2> QED
        BY <1>3, <2>5, <2>6, <2>8 DEF StepFrom, MailFrom, TodoFrom
<1>5. CASE ~ CanMoveTo(rows[i].status, "DELEGATED")
    <2>1. rows' = rows /\ todo' = todo \ {t}
        BY <1>1, <1>5 DEF FinishDelegate
    <2> QED
        BY <1>3, <2>1, SameBoardsFrom DEF StepFrom, MailFrom, TodoFrom
<1> QED
    BY <1>4, <1>5

LEMMA ReportUpFrom ==
    ASSUME BoardInv, TasksOnly, NEW t \in todo, ReportUp(t)
    PROVE  StepFrom
<1>1. /\ mail' = mail \cup {Update(rows[t.row].origin, t.status, t.answer)}
      /\ todo' = todo \ {t} /\ rows' = rows /\ t.do = "report"
    BY TaskFacts DEF ReportUp
<1>2. NewsFrom(Update(rows[t.row].origin, t.status, t.answer))
    BY <1>1 DEF NewsFrom
<1>3. EndsFrom(t)
    BY <1>1 DEF EndsFrom
<1> QED
    BY <1>1, <1>2, <1>3, SameBoardsFrom DEF StepFrom, MailFrom, TodoFrom

LEMMA CountBranchesFrom ==
    ASSUME BoardInv, TasksOnly, NEW t \in todo, CountBranches(t)
    PROVE  StepFrom
<1>1. PICK i \in Rows : i = t.row /\ ~ IsMirror(i)
    BY TaskFacts
<1>2. BoardTypes /\ rows[i] \in Row /\ Rank(rows[i].status) \in Nat
    BY InvParts, RowTypes, RankTypes DEF Row
<1>3. mail' = mail /\ t.do = "count"
    BY DEF CountBranches
<1>4. CASE Outstanding(i) = {}
    <2>1. Gathered(i) \in BOOLEAN
        BY <1>2 DEF Gathered, Row
    <2>2. PICK r : r = [rows[i] EXCEPT !.answer = Gathered(i)]
        OBVIOUS
    <2>3. rows' = [rows EXCEPT ![i] = r]
        BY <1>1, <1>4, <2>2 DEF CountBranches
    <2>4. /\ r \in Row /\ r.at = rows[i].at /\ r.to = rows[i].to /\ r.parent = rows[i].parent
          /\ r.origin = rows[i].origin /\ r.chain = rows[i].chain
          /\ r.status = rows[i].status /\ r.answer = Gathered(i)
          /\ r.done = rows[i].done /\ r.rolled = rows[i].rolled
        BY <1>2, <2>1, <2>2 DEF Row
    <2>5. rows'[i] = r
        <3>1. r \in Row
            BY <2>4
        <3>2. \A j \in Rows : rows'[j] = IF j = i THEN r ELSE rows[j]
            BY <1>2, <2>3, <3>1, RowReplaced
        <3> QED
            BY <3>2
    <2>6. MirrorFrom(i) /\ TaskFrom(i) /\ RolledFrom(i)
        BY <2>4, <2>5 DEF MirrorFrom, TaskFrom, RolledFrom
    <2>7. rows[i].answer => r.answer
        BY <2>4 DEF Gathered
    <2>11. Rank(rows[i].status) <= Rank(r.status)
        BY <1>2, <2>4
    <2>8. BoardsFrom
        BY <1>2, <2>3, <2>4, <2>6, <2>7, <2>11, RewriteFrom
    <2>12. Service /\ (\E b \in Branches(i) : rows[b].answer) => rows'[i].answer
        BY <2>4, <2>5 DEF Gathered
    <2>9. HandlerFrom(Work("complete", i))
        BY <1>1, <1>3, <1>4, <2>12 DEF HandlerFrom, Work
    <2>10. todo' = (todo \ {t}) \cup {Work("complete", i)}
        BY <1>1, <1>4 DEF CountBranches
    <2>13. Work("complete", i).do = "complete" /\ Work("complete", i).row = i
        BY DEF Work
    <2>14. EndsFrom(t)
        BY <1>1, <1>3, <2>10, <2>13 DEF EndsFrom
    <2> QED
        BY <1>3, <2>8, <2>9, <2>10, <2>14 DEF StepFrom, MailFrom, TodoFrom
<1>5. CASE Outstanding(i) # {}
    <2>1. rows' = rows /\ todo' = todo \ {t}
        BY <1>1, <1>5 DEF CountBranches
    <2>2. EndsFrom(t)
        BY <1>1, <1>3, <1>5 DEF EndsFrom
    <2> QED
        BY <1>3, <2>1, <2>2, SameBoardsFrom DEF StepFrom, MailFrom, TodoFrom
<1> QED
    BY <1>4, <1>5

LEMMA RollUpFrom ==
    ASSUME BoardInv, TasksOnly, NEW t \in todo, RollUp(t)
    PROVE  StepFrom
<1>1. PICK i \in Rows : i = t.row /\ ~ IsMirror(i) /\ rows[i].parent = 0
    BY TaskFacts
<1>2. BoardTypes /\ rows[i] \in Row /\ rows[i].status \in Statuses
    BY InvParts, RowTypes, RowFields
<1>3. mail' = mail /\ t.do = "complete"
    BY DEF RollUp
<1>4. CASE MayMove(i, "COMPLETED", rows[i].answer)
    <2>1. PICK r : r = [rows[i] EXCEPT !.status = "COMPLETED", !.done = TRUE, !.rolled = TRUE]
        OBVIOUS
    <2>2. rows' = [rows EXCEPT ![i] = r]
        BY <1>1, <1>4, <2>1 DEF RollUp
    <2>3. /\ r \in Row /\ r.at = rows[i].at /\ r.to = rows[i].to /\ r.parent = rows[i].parent
          /\ r.origin = rows[i].origin /\ r.chain = rows[i].chain
          /\ r.status = "COMPLETED" /\ r.answer = rows[i].answer /\ r.done /\ r.rolled
        BY <1>2, <2>1 DEF Row, Statuses
    <2>4. rows'[i] = r
        <3>1. r \in Row
            BY <2>3
        <3>2. \A j \in Rows : rows'[j] = IF j = i THEN r ELSE rows[j]
            BY <1>2, <2>2, <3>1, RowReplaced
        <3> QED
            BY <3>2
    <2>5. todo' = (todo \ {t}) \cup Then(i, "COMPLETED", rows[i].answer, 0)
        BY <1>1, <1>4 DEF RollUp
    <2>6. CanMoveTo(rows[i].status, "COMPLETED") /\ (Service => rows[i].answer)
        BY <1>1, <1>4 DEF MayMove, HasAnswer
    <2>7. /\ \A u \in Then(i, "COMPLETED", rows[i].answer, 0) : HandlerFrom(u)
          /\ rows[i].origin # 0 => \E u \in Then(i, "COMPLETED", rows[i].answer, 0) :
                u.do = "report" /\ u.row = i /\ u.status = "COMPLETED"
        BY <1>1, <2>3, <2>4, <2>6, ThenFrom
    <2>8. MirrorFrom(i) /\ TaskFrom(i) /\ RolledFrom(i)
        BY <1>1, <1>3, <2>3, <2>4, <2>5, <2>6, <2>7 DEF MirrorFrom, TaskFrom, RolledFrom
    <2>9. BoardsFrom
        BY <1>2, <2>2, <2>3, <2>6, <2>8, MovesRise, RewriteFrom
    <2>10. EndsFrom(t)
        BY <1>1, <1>3, <2>3, <2>4 DEF EndsFrom
    <2> QED
        BY <1>3, <2>5, <2>7, <2>9, <2>10 DEF StepFrom, MailFrom, TodoFrom
<1>5. CASE ~ MayMove(i, "COMPLETED", rows[i].answer)
    <2>1. rows' = rows /\ todo' = todo \ {t}
        BY <1>1, <1>5 DEF RollUp
    <2>2. EndsFrom(t)
        BY <1>1, <1>3, <1>5 DEF EndsFrom
    <2> QED
        BY <1>3, <2>1, <2>2, SameBoardsFrom DEF StepFrom, MailFrom, TodoFrom
<1> QED
    BY <1>4, <1>5

LEMMA RaiseFrom ==
    ASSUME BoardInv, NEW o \in Offices, NEW q \in PeerLists(o), Raise(o, q)
    PROVE  StepFrom
<1> DEFINE root == [at |-> o, to |-> {}, parent |-> 0, origin |-> 0, chain |-> <<o>>,
                    status |-> IF q = <<>> THEN "RECEIVED" ELSE "DELEGATED",
                    answer |-> FALSE, done |-> FALSE, rolled |-> FALSE]
           base == <<root>>
<1>1. Len(q) \in Nat
    BY PeerListTypes
<1>2. root \in Row
    BY BoardAssumption DEF Row, Statuses
<1>3. base \in Seq(Row) /\ Len(base) = 1 /\ base[1] = root
    BY <1>2
<1>4. root.at = o /\ root.to = {} /\ root.parent = 0 /\ root.origin = 0 /\ ~ root.rolled
    OBVIOUS
<1>5. rows' = base \o Mirrors(1, base[1], q) /\ mail' = Sent(Len(base), q)
    BY <1>3 DEF Raise
<1> HIDE DEF root
<1>6. Len(base) + Len(q) <= MaxRows
    BY <1>1, <1>3, BoardAssumption DEF Raise
<1>7. q \in PeerLists(base[1].at) /\ 1 \in 1 .. Len(base)
    BY <1>3, <1>4
<1> HIDE DEF base
<1>8. Added(base, 1, q, rows')
    BY <1>3, <1>5, <1>6, <1>7, MirrorsAdded
<1>9. /\ Len(rows') \in Nat /\ 1 <= Len(rows') /\ rows'[1] = root
      /\ \A n \in (1 .. Len(rows')) \ {1} :
            /\ rows'[n].parent = 1 /\ rows'[n].origin = 0
            /\ rows'[n].status = "RECEIVED" /\ ~ rows'[n].rolled
      /\ \A m \in mail' : m.row \in 1 .. Len(rows') /\ m = Assigned(m.row)
    <2>1. 1 .. Len(base) = {1}
        BY <1>3
    <2> QED
        BY <1>3, <1>5, <1>8, <2>1 DEF Added
<1>16. \A n \in (1 .. Len(rows')) \ {1} : root.status = "DELEGATED"
    <2>1. CASE q = <<>>
        <3>1. Len(rows') = 1
            BY <1>3, <1>8, <2>1 DEF Added
        <3> QED
            BY <3>1
    <2>2. CASE q # <<>>
        BY <2>2 DEF root
    <2> QED
        BY <2>1, <2>2
<1>10. Rows = {} /\ Rows' = 1 .. Len(rows') /\ 1 \in Rows'
    BY <1>9 DEF Raise, Rows
<1>11. mail = {} /\ todo = {} /\ todo' = {}
    BY <1>10 DEF BoardInv, BoardsConnect, Raise
<1>12. \A n \in Rows' \ Rows : RowFrom(n)
    BY <1>4, <1>9, <1>10, <1>16 DEF RowFrom
<1>13. Len(rows) <= Len(rows')
    BY <1>9 DEF Raise
<1>14. BoardsFrom
    BY <1>10, <1>12, <1>13, GrowthFrom
<1>15. \A m \in mail' : NewsFrom(m)
    BY <1>9, <1>10 DEF NewsFrom
<1> QED
    BY <1>11, <1>14, <1>15 DEF StepFrom, MailFrom, TodoFrom

LEMMA DelegateFrom ==
    ASSUME BoardInv, "mirrors" \in Careful,
           NEW i \in Rows, NEW q \in PeerLists(rows[i].at), Delegate(i, q)
    PROVE  StepFrom
<1>1. BoardTypes
    BY InvParts
<1>2. rows \in Seq(Row) /\ i \in 1 .. Len(rows) /\ Rows = 1 .. Len(rows) /\ Len(rows) \in Nat
    BY <1>1, LenProperties DEF BoardTypes, Rows
<1>3. Added(rows, i, q, rows')
    BY <1>2, MirrorsAdded DEF Delegate
<1>4. /\ Len(rows') \in Nat /\ Len(rows) <= Len(rows')
      /\ \A n \in Rows : rows'[n] = rows[n]
      /\ Rows' = 1 .. Len(rows') /\ i \in Rows'
    BY <1>2, <1>3 DEF Added, Rows
<1>5. ~ IsMirror(i)
    BY DEF Delegate
<1>6. "delegate" \in Careful => CanMoveTo(rows[i].status, "DELEGATED") /\ \A t \in todo : t.row # i
    BY DEF Delegate
<1>7. \A n \in Rows' \ Rows : RowFrom(n)
    <2> SUFFICES ASSUME NEW n \in Rows' \ Rows
                 PROVE  RowFrom(n)
        OBVIOUS
    <2>1. /\ rows'[n].parent = i /\ rows'[n].origin = 0
          /\ rows'[n].status = "RECEIVED" /\ ~ rows'[n].rolled
        BY <1>2, <1>3, <1>4 DEF Added
    <2>2. rows'[i].to = {}
        BY <1>4, <1>5 DEF IsMirror
    <2> QED
        BY <1>4, <1>6, <2>1, <2>2 DEF RowFrom
<1>8. BoardsFrom
    BY <1>4, <1>7, GrowthFrom
<1>9. mail' = mail \cup Sent(Len(rows), q) /\ todo' = todo \cup {Work("delegated", i)}
    BY DEF Delegate
<1>10. \A m \in Sent(Len(rows), q) : NewsFrom(m)
    BY <1>2, <1>3, <1>4 DEF Added, NewsFrom
<1>11. HandlerFrom(Work("delegated", i))
    BY <1>5 DEF HandlerFrom, Work
<1> QED
    BY <1>8, <1>9, <1>10, <1>11 DEF StepFrom, MailFrom, TodoFrom

\* An envelope that was read is gone, unless marking it read failed.
LEMMA MarkReadFrom ==
    ASSUME BoardInv, NEW m \in mail, NEW others, MarkRead(m, others)
    PROVE  /\ mail' \subseteq others \cup {m} /\ others \subseteq mail'
           /\ m \in mail' => m \in others \/ faults' # faults
<1>1. faults \in Nat
    BY BoardAssumption DEF BoardInv, TypeOK
<1>2. CASE mail' = others /\ UNCHANGED faults
    BY <1>2
<1>3. CASE faults' = faults + 1 /\ mail' = others \cup {m}
    BY <1>1, <1>3
<1> QED
    BY <1>2, <1>3 DEF MarkRead

LEMMA ReadAssignedFrom ==
    ASSUME BoardInv, NEW m \in mail, ReadAssigned(m)
    PROVE  StepFrom
<1> DEFINE mirror == rows[m.row]
           office == CHOOSE p \in mirror.to : TRUE
           taken == [at |-> office, to |-> {}, parent |-> 0, origin |-> m.row,
                     chain |-> Append(mirror.chain, office), status |-> "RECEIVED",
                     answer |-> FALSE, done |-> FALSE, rolled |-> FALSE]
           refused == AssignmentRefusal(mirror.chain, office)
<1>1. m.kind = "assigned" /\ todo' = todo /\ ReadFrom(m)
    BY DEF ReadAssigned, ReadFrom
<1>2. CASE refused
    <2>1. rows' = rows
        BY <1>2 DEF ReadAssigned
    <2>2. PICK others : /\ others = (mail \ {m}) \cup {Update(m.row, "RETURNED", FALSE)}
                        /\ MarkRead(m, others)
        BY <1>2 DEF ReadAssigned
    <2>7. /\ mail' \subseteq others \cup {m} /\ others \subseteq mail'
          /\ m \in mail' => m \in others \/ faults' # faults
        <3>1. MarkRead(m, others)
            BY <2>2
        <3> QED
            BY <3>1, MarkReadFrom
    <2>3. /\ mail' \subseteq mail \cup {Update(m.row, "RETURNED", FALSE)}
          /\ mail \ {m} \subseteq mail'
        BY <2>2, <2>7
    <2>4. m # Update(m.row, "RETURNED", FALSE)
        BY <1>1 DEF Update
    <2>5. m \in mail' => faults' # faults
        BY <2>2, <2>4, <2>7
    <2>6. NewsFrom(Update(m.row, "RETURNED", FALSE))
        BY <1>1, <2>5 DEF NewsFrom, Consumed, Update
    <2> QED
        BY <1>1, <2>1, <2>3, <2>6, SameBoardsFrom DEF StepFrom, MailFrom, TodoFrom
<1>3. CASE ~ refused
    <2>1. MarkRead(m, mail \ {m})
        BY <1>3 DEF ReadAssigned
    <2>2. mail' \subseteq mail /\ mail \ {m} \subseteq mail' /\ (m \in mail' => faults' # faults)
        BY <2>1, MarkReadFrom
    <2>3. MailFrom /\ TodoFrom
        BY <1>1, <2>2 DEF MailFrom, TodoFrom
    <2>4. CASE TakenAs(m.row) # {}
        <3>1. rows' = rows
            BY <1>3, <2>4 DEF ReadAssigned
        <3> QED
            BY <2>3, <3>1, SameBoardsFrom DEF StepFrom
    <2>5. CASE TakenAs(m.row) = {}
        <3>1. rows' = Append(rows, taken)
            BY <1>3, <2>5 DEF ReadAssigned
        <3>2. /\ taken.to = {} /\ taken.parent = 0 /\ taken.origin = m.row
              /\ taken.status = "RECEIVED" /\ ~ taken.rolled /\ ~ taken.done
            OBVIOUS
        <3> HIDE DEF taken
        <3>3. rows \in Seq(Row) /\ Len(rows) \in Nat
            BY LenProperties, InvParts DEF BoardTypes
        <3>4. /\ Len(rows') = Len(rows) + 1 /\ rows'[Len(rows) + 1] = taken
              /\ \A i \in 1 .. Len(rows) : rows'[i] = rows[i]
            BY <3>1, <3>3
        <3>5. Len(rows) <= Len(rows') /\ \A i \in Rows : rows'[i] = rows[i]
            BY <3>3, <3>4 DEF Rows
        <3>6. \A n \in Rows' \ Rows : rows'[n] = taken
            BY <3>3, <3>4 DEF Rows
        <3>7. Consumed(m.row)
            BY <1>1, <2>2 DEF Consumed
        <3>8. \A n \in Rows' \ Rows : RowFrom(n)
            BY <2>2, <3>2, <3>6, <3>7 DEF RowFrom
        <3> QED
            BY <2>3, <3>5, <3>8, GrowthFrom DEF StepFrom
    <2> QED
        BY <2>4, <2>5
<1> QED
    BY <1>2, <1>3

LEMMA ReadUpdateFrom ==
    ASSUME BoardInv, TasksOnly, NEW m \in mail, ReadUpdate(m)
    PROVE  StepFrom
<1>1. PICK i \in Rows : i = m.row /\ IsMirror(i)
    BY DEF BoardInv, BoardsConnect
<1>2. BoardTypes /\ rows[i] \in Row /\ rows[i].status \in Statuses
    BY InvParts, RowTypes, RowFields
<1>3. m.status \in Statuses /\ m.answer \in BOOLEAN
    BY DEF BoardInv, TypeOK, Mail
<1>4. Rank(rows[i].status) \in Nat /\ Rank(m.status) \in Nat
    BY <1>2, <1>3, RankTypes
<1>5. mail' \subseteq mail /\ mail \ {m} \subseteq mail'
    BY MarkReadFrom DEF ReadUpdate
<1>6. CASE SupersededBy(rows[i].status, m.status)
    <2>1. PICK r : r = [rows[i] EXCEPT !.status = m.status, !.answer = rows[i].answer \/ m.answer]
        OBVIOUS
    <2>2. rows' = [rows EXCEPT ![i] = r]
        BY <1>1, <1>6, <2>1 DEF ReadUpdate
    <2>3. /\ r \in Row /\ r.at = rows[i].at /\ r.to = rows[i].to /\ r.parent = rows[i].parent
          /\ r.origin = rows[i].origin /\ r.chain = rows[i].chain
          /\ r.status = m.status /\ r.answer = (rows[i].answer \/ m.answer)
          /\ r.done = rows[i].done /\ r.rolled = rows[i].rolled
        BY <1>2, <1>3, <2>1 DEF Row
    <2>4. rows'[i] = r
        <3>1. r \in Row
            BY <2>3
        <3>2. \A j \in Rows : rows'[j] = IF j = i THEN r ELSE rows[j]
            BY <1>2, <2>2, <3>1, RowReplaced
        <3> QED
            BY <3>2
    <2>8. PICK p \in Rows : p = rows[i].parent /\ ~ IsMirror(p)
        BY <1>1 DEF BoardInv, BoardsConnect, Connected, TasksOnly
    <2>9. HandlerFrom(Work("count", p))
        BY <1>1, <2>8 DEF HandlerFrom, Work, Branches
    <2>10. todo' = todo \cup {Work("count", p)}
        BY <1>1, <1>6, <2>8 DEF ReadUpdate
    <2>13. Work("count", p).do = "count" /\ Work("count", p).row = p
        BY DEF Work
    <2>12. \E t \in todo' : t.do = "count" /\ t.row = rows[i].parent
        BY <2>8, <2>10, <2>13
    <2>5. MirrorFrom(i) /\ TaskFrom(i) /\ RolledFrom(i)
        BY <1>1, <2>3, <2>4, <2>12 DEF MirrorFrom, TaskFrom, RolledFrom
    <2>6. Rank(rows[i].status) <= Rank(r.status)
        BY <1>6, <2>3 DEF SupersededBy
    <2>7. BoardsFrom
        BY <1>2, <2>2, <2>3, <2>5, <2>6, RewriteFrom
    <2>11. ReadFrom(m)
        BY <1>1, <1>4, <2>3, <2>4 DEF ReadFrom
    <2> QED
        BY <1>5, <2>7, <2>9, <2>10, <2>11 DEF StepFrom, MailFrom, TodoFrom
<1>7. CASE ~ SupersededBy(rows[i].status, m.status)
    <2>1. rows' = rows /\ todo' = todo
        BY <1>1, <1>7 DEF ReadUpdate
    <2>2. ReadFrom(m)
        BY <1>1, <1>4, <1>7, <2>1 DEF ReadFrom, SupersededBy
    <2> QED
        BY <1>5, <2>1, <2>2, SameBoardsFrom DEF StepFrom, MailFrom, TodoFrom
<1> QED
    BY <1>6, <1>7

\* What a step does, when the operators leave the mirrors to the envelopes.
LEMMA EveryStepFrom ==
    ASSUME BoardInv, TasksOnly, "mirrors" \in Careful, [Next]_vars
    PROVE  StepFrom /\ faults' \in {faults, faults + 1}
<1>1. ASSUME NEW o \in Offices, NEW q \in PeerLists(o), Raise(o, q)
      PROVE  StepFrom /\ faults' = faults
    BY <1>1, RaiseFrom DEF Raise
<1>2. ASSUME NEW i \in Rows, NEW q \in PeerLists(rows[i].at), Delegate(i, q)
      PROVE  StepFrom /\ faults' = faults
    BY <1>2, DelegateFrom DEF Delegate
<1>3. ASSUME NEW i \in Rows, GiveAnswer(i)
      PROVE  StepFrom /\ faults' = faults
    BY <1>3, GiveAnswerFrom DEF GiveAnswer
<1>4. ASSUME NEW i \in Rows, NEW to \in Statuses, Act(i, to)
      PROVE  StepFrom /\ faults' = faults
    BY <1>4, ActFrom DEF Act
<1>5. ASSUME NEW t \in todo,
             FinishDelegate(t) \/ ReportUp(t) \/ CountBranches(t) \/ RollUp(t)
      PROVE  StepFrom
    BY <1>5, FinishDelegateFrom, ReportUpFrom, CountBranchesFrom, RollUpFrom
<1>6. ASSUME NEW t \in todo,
             FinishDelegate(t) \/ ReportUp(t) \/ CountBranches(t) \/ RollUp(t)
      PROVE  faults' = faults
    BY <1>6 DEF FinishDelegate, ReportUp, CountBranches, RollUp
<1>7. ASSUME NEW m \in mail, ReadAssigned(m) \/ ReadUpdate(m)
      PROVE  StepFrom
    BY <1>7, ReadAssignedFrom, ReadUpdateFrom
<1>8. ASSUME NEW m \in mail, ReadAssigned(m) \/ ReadUpdate(m)
      PROVE  faults' \in {faults, faults + 1}
    BY <1>8 DEF ReadAssigned, ReadUpdate, MarkRead
<1>9. ASSUME NEW o \in Offices, LearnCode(o)
      PROVE  StepFrom /\ faults' = faults
    BY <1>9, SameBoardsFrom DEF LearnCode, StepFrom, MailFrom, TodoFrom
<1>10. ASSUME NEW t \in todo, Lose(t)
       PROVE  StepFrom /\ faults' = faults + 1
    <2>1. faults \in Nat
        BY BoardAssumption DEF BoardInv, TypeOK
    <2>2. faults' = faults + 1 /\ faults' # faults
        BY <1>10, <2>1 DEF Lose
    <2> QED
        BY <1>10, <2>2, SameBoardsFrom DEF Lose, StepFrom, MailFrom, TodoFrom, EndsFrom
<1>11. CASE UNCHANGED vars
    BY <1>11, SameBoardsFrom DEF vars, StepFrom, MailFrom, TodoFrom
<1> QED
    BY <1>1, <1>2, <1>3, <1>4, <1>5, <1>6, <1>7, <1>8, <1>9, <1>10, <1>11
       DEF Next, Operate, Continue, Read

-----------------------------------------------------------------------------
(* The invariants *)

\* What was true of where a row is stays true.
LEMMA BoardsGrow ==
    ASSUME BoardInv, BoardInv', StepFrom
    PROVE  /\ Rows \subseteq Rows'
           /\ \A i \in Rows : IsMirror(i)' = IsMirror(i)
           /\ \A i \in Rows : TakenAs(i) \subseteq TakenAs(i)'
           /\ \A i \in Rows : rows'[i].origin = rows[i].origin
           /\ \A i \in Rows : rows'[i].parent = rows[i].parent
<1>1. Len(rows) \in Nat /\ Len(rows') \in Nat /\ Len(rows) <= Len(rows')
    BY LenProperties, InvParts DEF BoardTypes, StepFrom, BoardsFrom, Rises, Grows
<1>2. Rows \subseteq Rows'
    BY <1>1 DEF Rows
<1>3. \A i \in Rows : Stays(i)
    BY DEF StepFrom, BoardsFrom, Rises, Grows
<1> QED
    BY <1>2, <1>3 DEF Stays, IsMirror, TakenAs

LEMMA TasksOnlyKept ==
    ASSUME BoardInv, BoardInv', TasksOnly, StepFrom
    PROVE  TasksOnly'
<1>1. ASSUME NEW i \in Rows'
      PROVE  (rows'[i].origin # 0 => rows'[i].to = {})
    <2>1. CASE i \in Rows
        BY <2>1, BoardsGrow DEF TasksOnly, IsMirror
    <2>2. CASE i \notin Rows
        BY <2>2 DEF StepFrom, BoardsFrom, RowFrom
    <2> QED
        BY <2>1, <2>2
<1>2. ASSUME NEW i \in Rows', rows'[i].parent # 0
      PROVE  rows'[rows'[i].parent].to = {}
    <2>1. CASE i \in Rows
        <3>1. rows'[i].parent = rows[i].parent /\ rows[i].parent \in Rows
            BY <1>2, <2>1, BoardsGrow DEF BoardInv, BoardsConnect, Connected
        <3> QED
            BY <1>2, <2>1, <3>1, BoardsGrow DEF TasksOnly, IsMirror
    <2>2. CASE i \notin Rows
        BY <1>2, <2>2 DEF StepFrom, BoardsFrom, RowFrom
    <2> QED
        BY <2>1, <2>2
<1>3. ASSUME NEW t \in todo'
      PROVE  rows'[t.row].to = {} /\ t.up = 0
    <2>1. t.row \in Rows /\ ~ IsMirror(t.row) /\ t.up = 0
        BY DEF StepFrom, TodoFrom, HandlerFrom, TasksOnly, BoardInv, BoardsConnect
    <2> QED
        BY <2>1, BoardsGrow DEF IsMirror
<1> QED
    BY <1>1, <1>2, <1>3 DEF TasksOnly, IsMirror

\* A completion is never on its way, nor on a mirror, without its answer.
MailTold(m) == Service /\ m.status = "COMPLETED" => m.answer
Told ==
    /\ \A m \in mail : MailTold(m)
    /\ \A t \in todo : MailTold(t)
    /\ \A i \in Rows : Service /\ IsMirror(i) /\ rows[i].status = "COMPLETED" => rows[i].answer

LEMMA ToldKept ==
    ASSUME BoardInv, BoardInv', Told, StepFrom
    PROVE  Told'
<1>1. ASSUME NEW m \in mail'
      PROVE  MailTold(m)
    <2>1. CASE m \in mail
        BY <2>1 DEF Told
    <2>2. CASE m \notin mail
        <3>1. NewsFrom(m)
            BY <2>2 DEF StepFrom, MailFrom
        <3>2. CASE m = Assigned(m.row) \/ m = Update(m.row, "RETURNED", FALSE)
            BY <3>2 DEF MailTold, Assigned, Update
        <3>3. CASE \E t \in todo : m = Update(rows[t.row].origin, t.status, t.answer)
            BY <3>3 DEF MailTold, Told, Update
        <3> QED
            BY <3>1, <3>2, <3>3 DEF NewsFrom
    <2> QED
        BY <2>1, <2>2
<1>2. ASSUME NEW t \in todo'
      PROVE  MailTold(t)
    <2>1. CASE t \in todo
        BY <2>1 DEF Told
    <2>2. CASE t \notin todo
        BY <2>2 DEF StepFrom, TodoFrom, HandlerFrom, MailTold
    <2> QED
        BY <2>1, <2>2
<1>3. ASSUME NEW i \in Rows', Service, rows'[i].to # {}, rows'[i].status = "COMPLETED"
      PROVE  rows'[i].answer
    <2>1. CASE i \in Rows
        <3>1. IsMirror(i) /\ MirrorFrom(i) /\ (rows[i].answer => rows'[i].answer)
            BY <1>3, <2>1, BoardsGrow DEF StepFrom, BoardsFrom, Rises, IsMirror
        <3> QED
            BY <1>3, <2>1, <3>1 DEF MirrorFrom, Told, MailTold
    <2>2. CASE i \notin Rows
        BY <1>3, <2>2 DEF StepFrom, BoardsFrom, RowFrom
    <2> QED
        BY <2>1, <2>2
<1> QED
    BY <1>1, <1>2, <1>3 DEF Told, MailTold, IsMirror

\* News of a completion comes from an office that has completed the work.
DoneBehind(i) == \E j \in TakenAs(i) : rows[j].done
DoneNews ==
    /\ \A m \in mail : m.status = "COMPLETED" => DoneBehind(m.row)
    /\ \A t \in todo : t.status = "COMPLETED" => rows[t.row].done
    /\ \A i \in Rows : IsMirror(i) /\ rows[i].status = "COMPLETED" => DoneBehind(i)

LEMMA DoneBehindStays ==
    ASSUME BoardInv, BoardInv', StepFrom
    PROVE  \A i \in Rows : DoneBehind(i) => DoneBehind(i)'
<1> SUFFICES ASSUME NEW i \in Rows, NEW j \in TakenAs(i), rows[j].done
             PROVE  \E k \in TakenAs(i)' : rows'[k].done
    BY DEF DoneBehind
<1>1. j \in Rows /\ j \in TakenAs(i)'
    BY BoardsGrow DEF TakenAs
<1>2. rows'[j].done
    BY <1>1 DEF StepFrom, BoardsFrom, Rises
<1> QED
    BY <1>1, <1>2

LEMMA DoneNewsKept ==
    ASSUME BoardInv, BoardInv', DoneNews, StepFrom
    PROVE  DoneNews'
<1>1. ASSUME NEW m \in mail', m.status = "COMPLETED"
      PROVE  DoneBehind(m.row)'
    <2>1. CASE m \in mail
        BY <1>1, <2>1, DoneBehindStays DEF DoneNews, BoardInv, BoardsConnect
    <2>2. CASE m \notin mail
        <3>1. NewsFrom(m)
            BY <2>2 DEF StepFrom, MailFrom
        <3>2. PICK t \in todo : /\ t.do = "report"
                                /\ m = Update(rows[t.row].origin, t.status, t.answer)
            BY <1>1, <3>1 DEF NewsFrom, Assigned, Update
        <3>3. t.row \in Rows /\ rows[t.row].done /\ m.row = rows[t.row].origin
            BY <1>1, <3>2 DEF DoneNews, BoardInv, BoardsConnect, Update
        <3>4. m.row \in Rows /\ DoneBehind(m.row)
            BY <3>2, <3>3 DEF DoneBehind, TakenAs, BoardInv, BoardsConnect, Connected
        <3> QED
            BY <3>4, DoneBehindStays
    <2> QED
        BY <2>1, <2>2
<1>2. ASSUME NEW t \in todo', t.status = "COMPLETED"
      PROVE  rows'[t.row].done
    <2>1. CASE t \in todo
        BY <1>2, <2>1 DEF DoneNews, BoardInv, BoardsConnect, StepFrom, BoardsFrom, Rises
    <2>2. CASE t \notin todo
        BY <1>2, <2>2 DEF StepFrom, TodoFrom, HandlerFrom
    <2> QED
        BY <2>1, <2>2
<1>3. ASSUME NEW i \in Rows', rows'[i].to # {}, rows'[i].status = "COMPLETED"
      PROVE  DoneBehind(i)'
    <2>1. CASE i \in Rows
        <3>1. IsMirror(i) /\ MirrorFrom(i)
            BY <1>3, <2>1, BoardsGrow DEF StepFrom, BoardsFrom, IsMirror
        <3>2. DoneBehind(i)
            BY <1>3, <2>1, <3>1 DEF MirrorFrom, DoneNews
        <3> QED
            BY <2>1, <3>2, DoneBehindStays
    <2>2. CASE i \notin Rows
        BY <1>3, <2>2 DEF StepFrom, BoardsFrom, RowFrom
    <2> QED
        BY <2>1, <2>2
<1> QED
    BY <1>1, <1>2, <1>3 DEF DoneNews, IsMirror

\* A roll-up was decided on branches that are there and complete, and stays right.
RollsRightly ==
    /\ \A t \in todo : t.do = "count" => Branches(t.row) # {}
    /\ \A t \in todo : t.do = "complete" => DoneBelow(t.row)
    /\ \A i \in Rows : rows[i].rolled =>
          rows[i].status \in {"COMPLETED", "CLOSED"} /\ ~ IsMirror(i) /\ DoneBelow(i)

\* Branches are added only to a task that is not complete and has no handler.
LEMMA BranchesKept ==
    ASSUME BoardInv, BoardInv', StepFrom
    PROVE  /\ \A i \in Rows : Branches(i) \subseteq Branches(i)'
           /\ "delegate" \in Careful =>
                 \A i \in Rows : Branches(i)' = Branches(i) \/
                     (CanMoveTo(rows[i].status, "DELEGATED") /\ \A t \in todo : t.row # i)
<1>1. \A i \in Rows : Branches(i) \subseteq Branches(i)'
    BY BoardsGrow DEF Branches
<1>2. ASSUME "delegate" \in Careful, NEW i \in Rows, NEW j \in Branches(i)', j \notin Branches(i)
      PROVE  CanMoveTo(rows[i].status, "DELEGATED") /\ \A t \in todo : t.row # i
    <2>1. j \in Rows' /\ rows'[j].parent = i /\ IsMirror(j)'
        BY DEF Branches
    <2>2. j \notin Rows
        BY <1>2, <2>1, BoardsGrow DEF Branches
    <2>3. i # 0
        BY DEF Rows
    <2> QED
        BY <1>2, <2>1, <2>2, <2>3 DEF StepFrom, BoardsFrom, RowFrom
<1> QED
    BY <1>1, <1>2

\* What was done below is done below, unless there are more branches.
LEMMA DoneBelowStays ==
    ASSUME BoardInv, BoardInv', StepFrom, NEW i \in Rows, DoneBelow(i),
           Branches(i)' = Branches(i)
    PROVE  DoneBelow(i)'
<1>1. Branches(i) # {} /\ \A b \in Branches(i) : b \in Rows /\ DoneBehind(b)
    BY DEF DoneBelow, DoneBehind, Branches
<1>2. \A b \in Branches(i)' : DoneBehind(b)'
    BY <1>1, DoneBehindStays
<1> QED
    BY <1>1, <1>2 DEF DoneBelow, DoneBehind

LEMMA RollsRightlyKept ==
    ASSUME BoardInv, BoardInv', TasksOnly, DoneNews, RollsRightly, StepFrom,
           "delegate" \in Careful
    PROVE  RollsRightly'
<1>1. \A t \in todo : t.row \in Rows /\ Branches(t.row)' = Branches(t.row)
    BY BranchesKept DEF BoardInv, BoardsConnect
<1>2. ASSUME NEW t \in todo', t.do = "count"
      PROVE  Branches(t.row)' # {}
    <2>1. t.row \in Rows /\ Branches(t.row) # {}
        BY <1>1, <1>2 DEF RollsRightly, StepFrom, TodoFrom, HandlerFrom
    <2> QED
        BY <2>1, BranchesKept
<1>3. ASSUME NEW t \in todo', t.do = "complete"
      PROVE  DoneBelow(t.row)'
    <2>1. CASE t \in todo
        BY <1>1, <1>3, <2>1, DoneBelowStays DEF RollsRightly
    <2>2. CASE t \notin todo
        <3>1. HandlerFrom(t)
            BY <2>2 DEF StepFrom, TodoFrom
        <3>2. PICK u \in todo : u.do = "count" /\ u.row = t.row
            BY <1>3, <3>1 DEF HandlerFrom
        <3>3. Branches(t.row) # {} /\ t.row \in Rows /\ Branches(t.row)' = Branches(t.row)
            BY <1>1, <3>2 DEF RollsRightly
        <3>4. \A b \in Branches(t.row) : rows[b].status = "COMPLETED"
            BY <1>3, <3>1 DEF HandlerFrom, Outstanding
        <3>5. \A b \in Branches(t.row) : DoneBehind(b)
            BY <3>4 DEF DoneNews, Branches
        <3>6. DoneBelow(t.row)
            BY <3>3, <3>5 DEF DoneBelow, DoneBehind
        <3> QED
            BY <3>3, <3>6, DoneBelowStays
    <2> QED
        BY <2>1, <2>2
<1>4. ASSUME NEW i \in Rows', rows'[i].rolled
      PROVE  rows'[i].status \in {"COMPLETED", "CLOSED"} /\ rows'[i].to = {} /\ DoneBelow(i)'
    <2>1. i \in Rows
        BY <1>4 DEF StepFrom, BoardsFrom, RowFrom
    <2>2. TaskFrom(i) /\ RolledFrom(i)
        BY <2>1 DEF StepFrom, BoardsFrom
    <2>3. CASE rows[i].rolled
        <3>1. rows[i].status \in {"COMPLETED", "CLOSED"} /\ ~ IsMirror(i) /\ DoneBelow(i)
            BY <2>1, <2>3 DEF RollsRightly
        <3>2. rows[i].status \in Statuses
            BY <3>1 DEF Statuses
        <3>3. rows'[i].status \in {"COMPLETED", "CLOSED"}
            <4>1. CASE rows'[i].status = rows[i].status
                BY <3>1, <4>1
            <4>2. CASE rows'[i].status # rows[i].status
                <5>1. CanMoveTo(rows[i].status, rows'[i].status)
                    BY <2>2, <3>1, <4>2 DEF TaskFrom
                <5> QED
                    BY <3>1, <3>2, <5>1, MovesOf
            <4> QED
                BY <4>1, <4>2
        <3>4. ~ CanMoveTo(rows[i].status, "DELEGATED")
            BY <3>1, <3>2, MovesOf
        <3>5. Branches(i)' = Branches(i)
            BY <2>1, <3>4, BranchesKept
        <3>6. DoneBelow(i)'
            BY <2>1, <3>1, <3>5, DoneBelowStays
        <3> QED
            BY <2>1, <3>1, <3>3, <3>6, BoardsGrow DEF IsMirror
    <2>4. CASE ~ rows[i].rolled
        <3>1. PICK t \in todo : t.do = "complete" /\ t.row = i /\ rows'[i].status = "COMPLETED"
            BY <1>4, <2>2, <2>4 DEF RolledFrom
        <3>2. DoneBelow(i) /\ Branches(i)' = Branches(i) /\ ~ IsMirror(i)
            BY <1>1, <3>1 DEF RollsRightly, TasksOnly
        <3> QED
            BY <2>1, <3>1, <3>2, DoneBelowStays, BoardsGrow DEF IsMirror
    <2> QED
        BY <2>3, <2>4
<1> QED
    BY <1>2, <1>3, <1>4 DEF RollsRightly, IsMirror

\* No news is ahead of the task it is about, and no mirror is, a refusal apart.
AtMost(s, i) == \E j \in TakenAs(i) : Rank(s) <= Rank(rows[j].status)
Ranks ==
    /\ \A m \in mail : m.status \notin {"RECEIVED", "RETURNED"} => AtMost(m.status, m.row)
    /\ \A t \in todo : Rank(t.status) <= Rank(rows[t.row].status)
    /\ MirrorNotAhead

\* Ranks are numbers, before a step and after it.
LEMMA RanksAre ==
    ASSUME BoardInv, BoardInv'
    PROVE  /\ \A i \in Rows : rows[i].status \in Statuses /\ Rank(rows[i].status) \in Nat
           /\ \A i \in Rows' : rows'[i].status \in Statuses /\ Rank(rows'[i].status) \in Nat
           /\ \A m \in mail \cup mail' : m.status \in Statuses /\ Rank(m.status) \in Nat
           /\ \A t \in todo \cup todo' : t.status \in Statuses /\ Rank(t.status) \in Nat
<1>1. \A i \in Rows : rows[i].status \in Statuses
    BY InvParts, RowFields
<1>2. \A i \in Rows' : rows'[i].status \in Statuses
    <2>1. rows' \in Seq(Row)
        BY DEF BoardInv, TypeOK
    <2>2. \A i \in Rows' : rows'[i] \in Row
        BY <2>1, ElementOfSeq DEF Rows
    <2> QED
        BY <2>2 DEF Row
<1>3. \A m \in mail \cup mail' : m.status \in Statuses
    BY DEF BoardInv, TypeOK, Mail
<1>4. \A t \in todo \cup todo' : t.status \in Statuses
    BY DEF BoardInv, TypeOK, Todo
<1> QED
    BY <1>1, <1>2, <1>3, <1>4, RankTypes

\* A task stays as far as it was.
LEMMA AtMostStays ==
    ASSUME BoardInv, BoardInv', StepFrom, NEW i \in Rows, NEW s \in Statuses, AtMost(s, i)
    PROVE  \E j \in TakenAs(i)' : Rank(s) <= Rank(rows'[j].status)
<1>1. PICK j \in TakenAs(i) : Rank(s) <= Rank(rows[j].status)
    BY DEF AtMost
<1>2. j \in Rows /\ j \in TakenAs(i)' /\ j \in Rows'
    BY BoardsGrow DEF TakenAs
<1>3. Rank(rows[j].status) <= Rank(rows'[j].status)
    BY <1>2 DEF StepFrom, BoardsFrom, Rises
<1>4. Rank(s) \in Nat /\ Rank(rows[j].status) \in Nat /\ Rank(rows'[j].status) \in Nat
    BY <1>2, RankTypes, RanksAre
<1>5. Rank(s) <= Rank(rows'[j].status)
    BY <1>1, <1>3, <1>4
<1> QED
    BY <1>2, <1>5

LEMMA RanksKept ==
    ASSUME BoardInv, BoardInv', Ranks, StepFrom, "close" \in Careful
    PROVE  Ranks'
<1>1. ASSUME NEW m \in mail', m.status \notin {"RECEIVED", "RETURNED"}
      PROVE  AtMost(m.status, m.row)'
    <2>1. m.status \in Statuses
        BY RanksAre
    <2>2. CASE m \in mail
        <3>1. m.row \in Rows /\ AtMost(m.status, m.row)
            BY <1>1, <2>2 DEF Ranks, BoardInv, BoardsConnect
        <3> QED
            BY <2>1, <3>1, AtMostStays DEF AtMost
    <2>3. CASE m \notin mail
        <3>1. NewsFrom(m)
            BY <2>3 DEF StepFrom, MailFrom
        <3>2. PICK t \in todo : /\ t.do = "report"
                                /\ m = Update(rows[t.row].origin, t.status, t.answer)
            BY <1>1, <3>1 DEF NewsFrom, Assigned, Update
        <3>3. /\ t.row \in Rows /\ Rank(m.status) <= Rank(rows[t.row].status)
              /\ m.row = rows[t.row].origin
            BY <3>2 DEF Ranks, BoardInv, BoardsConnect, Update
        <3>4. m.row \in Rows /\ AtMost(m.status, m.row)
            BY <3>2, <3>3 DEF AtMost, TakenAs, BoardInv, BoardsConnect, Connected
        <3> QED
            BY <2>1, <3>4, AtMostStays DEF AtMost
    <2> QED
        BY <2>2, <2>3
<1>2. ASSUME NEW t \in todo'
      PROVE  Rank(t.status) <= Rank(rows'[t.row].status)
    <2>1. t.row \in Rows' /\ Rank(rows'[t.row].status) \in Nat /\ Rank(t.status) \in Nat
        BY RanksAre DEF BoardInv, BoardsConnect
    <2>2. CASE t \in todo
        <3>1. t.row \in Rows /\ Rank(t.status) <= Rank(rows[t.row].status)
            BY <2>2 DEF Ranks, BoardInv, BoardsConnect
        <3>2. Rank(rows[t.row].status) <= Rank(rows'[t.row].status)
            BY <3>1 DEF StepFrom, BoardsFrom, Rises
        <3>3. Rank(rows[t.row].status) \in Nat
            BY <3>1, RanksAre
        <3> QED
            BY <2>1, <3>1, <3>2, <3>3
    <2>3. CASE t \notin todo
        <3>1. t.status = rows'[t.row].status \/ t.status = "RECEIVED"
            BY <2>3 DEF StepFrom, TodoFrom, HandlerFrom
        <3>2. CASE t.status = rows'[t.row].status
            BY <2>1, <3>2
        <3>3. CASE t.status = "RECEIVED"
            <4>1. Rank(t.status) = 0
                BY <3>3, RankTypes
            <4> QED
                BY <2>1, <4>1
        <3> QED
            BY <3>1, <3>2, <3>3
    <2> QED
        BY <2>2, <2>3
<1>3. ASSUME NEW i \in Rows', rows'[i].to # {}, rows'[i].status \notin {"RECEIVED", "RETURNED"}
      PROVE  \E j \in TakenAs(i)' : Rank(rows'[i].status) <= Rank(rows'[j].status)
    <2>1. rows'[i].status \in Statuses
        BY RanksAre
    <2>2. i \in Rows
        BY <1>3 DEF StepFrom, BoardsFrom, RowFrom
    <2>3. IsMirror(i) /\ MirrorFrom(i)
        BY <1>3, <2>2, BoardsGrow DEF StepFrom, BoardsFrom, IsMirror
    <2>4. AtMost(rows'[i].status, i)
        <3>1. CASE rows'[i].status = rows[i].status
            BY <1>3, <2>2, <2>3, <3>1 DEF Ranks, MirrorNotAhead, AtMost
        <3>2. CASE \E m \in mail : m.row = i /\ m.status = rows'[i].status
            BY <1>3, <3>2 DEF Ranks
        <3> QED
            BY <2>3, <3>1, <3>2 DEF MirrorFrom
    <2> QED
        BY <2>1, <2>2, <2>4, AtMostStays
<1>4. MirrorNotAhead'
    BY <1>3 DEF MirrorNotAhead, IsMirror
<1> QED
    BY <1>1, <1>2, <1>4 DEF Ranks

\* While nothing is lost: an assignment is the first and only news of its mirror,
\* no news is ahead of the task, and what a mirror does not show yet is on its way.
OnTheWay(j) ==
    \/ Rank(rows[j].status) <= Rank(rows[rows[j].origin].status)
    \/ \E m \in mail : /\ m.kind = "update" /\ m.row = rows[j].origin
                       /\ Rank(rows[j].status) <= Rank(m.status)
    \/ \E t \in todo : /\ t.do = "report" /\ t.row = j
                       /\ Rank(rows[j].status) <= Rank(t.status)
FirstNews(m) ==
    /\ m = Assigned(m.row) /\ TakenAs(m.row) = {} /\ rows[m.row].status = "RECEIVED"
    /\ \A u \in mail : u.row = m.row => u = m
Follows(j) ==
    /\ Rank(rows[rows[j].origin].status) <= Rank(rows[j].status)
    /\ \A m \in mail : m.row = rows[j].origin => Rank(m.status) <= Rank(rows[j].status)
    /\ OnTheWay(j)
Catching ==
    faults = 0 =>
        /\ \A m \in mail : m.kind = "assigned" => FirstNews(m)
        /\ \A j \in Rows : rows[j].origin # 0 => Follows(j)

\* A mirror whose assignment is unread is where it was.
LEMMA UnreadStays ==
    ASSUME BoardInv, BoardInv', StepFrom, "close" \in Careful,
           NEW m \in mail, m.kind = "assigned", FirstNews(m)
    PROVE  rows'[m.row].status = "RECEIVED"
<1>1. m.row \in Rows /\ IsMirror(m.row) /\ MirrorFrom(m.row)
    BY DEF StepFrom, BoardsFrom, BoardInv, BoardsConnect
<1>2. m.status = "RECEIVED"
    BY DEF FirstNews, Assigned
<1> QED
    BY <1>1, <1>2 DEF MirrorFrom, FirstNews

LEMMA FirstNewsKept ==
    ASSUME BoardInv, BoardInv', StepFrom, "close" \in Careful, faults' = faults,
           \A x \in mail : x.kind = "assigned" => FirstNews(x),
           NEW m \in mail', m.kind = "assigned"
    PROVE  FirstNews(m)'
<1>1. CASE m \in mail
    <2>1. m.row \in Rows /\ FirstNews(m)
        BY <1>1 DEF BoardInv, BoardsConnect
    <2>2. ~ Consumed(m.row)
        BY <2>1 DEF Consumed, FirstNews
    <2>3. ASSUME NEW j \in TakenAs(m.row)'
          PROVE  FALSE
        <3>1. j \in Rows' /\ rows'[j].origin = m.row /\ m.row # 0
            BY <2>1 DEF TakenAs, Rows
        <3>2. CASE j \in Rows
            BY <2>1, <3>1, <3>2, BoardsGrow DEF TakenAs, FirstNews
        <3>3. CASE j \notin Rows
            BY <2>2, <3>1, <3>3 DEF StepFrom, BoardsFrom, RowFrom
        <3> QED
            BY <3>2, <3>3
    <2>4. ASSUME NEW u \in mail', u.row = m.row
          PROVE  u = m
        <3>1. CASE u \in mail
            BY <2>1, <2>4, <3>1 DEF FirstNews
        <3>2. CASE u \notin mail
            <4>1. NewsFrom(u)
                BY <3>2 DEF StepFrom, MailFrom
            <4>2. ASSUME NEW t \in todo, t.do = "report",
                         u = Update(rows[t.row].origin, t.status, t.answer)
                  PROVE  FALSE
                <5>1. t.row \in Rows /\ rows[t.row].origin = m.row
                    BY <2>4, <4>2 DEF Update, BoardInv, BoardsConnect
                <5> QED
                    BY <2>1, <5>1 DEF TakenAs, FirstNews
            <4> QED
                BY <2>1, <2>2, <2>4, <4>1, <4>2 DEF NewsFrom
        <3> QED
            BY <3>1, <3>2
    <2>5. rows'[m.row].status = "RECEIVED"
        BY <1>1, <2>1, UnreadStays
    <2> QED
        BY <2>1, <2>3, <2>4, <2>5 DEF FirstNews
<1>2. CASE m \notin mail
    <2>1. m = Assigned(m.row) /\ m.row \in Rows' \ Rows
        <3>1. NewsFrom(m)
            BY <1>2 DEF StepFrom, MailFrom
        <3> QED
            BY <3>1 DEF NewsFrom, Update
    <2>2. rows'[m.row].status = "RECEIVED"
        BY <2>1 DEF StepFrom, BoardsFrom, RowFrom, BoardInv, BoardsConnect, IsMirror
    <2>3. ~ Consumed(m.row)
        BY <2>1 DEF Consumed, BoardInv, BoardsConnect
    <2>4. ASSUME NEW j \in TakenAs(m.row)'
          PROVE  FALSE
        <3>1. j \in Rows' /\ rows'[j].origin = m.row /\ m.row # 0
            BY <2>1 DEF TakenAs, Rows
        <3>2. CASE j \in Rows
            BY <2>1, <3>1, <3>2, BoardsGrow DEF BoardInv, BoardsConnect, Connected
        <3>3. CASE j \notin Rows
            BY <2>3, <3>1, <3>3 DEF StepFrom, BoardsFrom, RowFrom
        <3> QED
            BY <3>2, <3>3
    <2>5. ASSUME NEW u \in mail', u.row = m.row
          PROVE  u = m
        <3>1. u \notin mail
            BY <2>1, <2>5 DEF BoardInv, BoardsConnect
        <3>2. NewsFrom(u)
            BY <3>1 DEF StepFrom, MailFrom
        <3>3. ASSUME NEW t \in todo, t.do = "report",
                     u = Update(rows[t.row].origin, t.status, t.answer)
              PROVE  FALSE
            <4>1. t.row \in Rows /\ rows[t.row].origin = m.row /\ rows[t.row].origin # 0
                BY <2>5, <3>3 DEF Update, BoardInv, BoardsConnect
            <4> QED
                BY <2>1, <4>1 DEF BoardInv, BoardsConnect, Connected
        <3> QED
            BY <2>1, <2>3, <2>5, <3>2, <3>3 DEF NewsFrom
    <2> QED
        BY <2>1, <2>2, <2>4, <2>5 DEF FirstNews
<1> QED
    BY <1>1, <1>2

LEMMA FollowsKept ==
    ASSUME BoardInv, BoardInv', TasksOnly, Ranks, StepFrom, "close" \in Careful,
           faults' = faults,
           \A x \in mail : x.kind = "assigned" => FirstNews(x),
           \A k \in Rows : rows[k].origin # 0 => Follows(k),
           NEW j \in Rows', rows'[j].origin # 0
    PROVE  Follows(j)'
<1>1. PICK i \in Rows' : i = rows'[j].origin
    BY DEF BoardInv, BoardsConnect, Connected
<1>2. /\ Rank(rows'[i].status) \in Nat /\ Rank(rows'[j].status) \in Nat
      /\ \A m \in mail \cup mail' : Rank(m.status) \in Nat
      /\ \A t \in todo \cup todo' : Rank(t.status) \in Nat
    BY RanksAre
<1>3. CASE j \in Rows
    <2>1. i \in Rows /\ rows[j].origin = i /\ IsMirror(i) /\ ~ IsMirror(j) /\ Follows(j)
        <3>1. rows[j].origin = i /\ i # 0
            BY <1>1, <1>3, BoardsGrow
        <3>2. i \in Rows /\ rows[i].to = {rows[j].at}
            BY <1>3, <3>1 DEF BoardInv, BoardsConnect, Connected
        <3>3. IsMirror(i)
            BY <3>2 DEF IsMirror
        <3> QED
            BY <1>3, <3>1, <3>2, <3>3 DEF TasksOnly
    <2>2. /\ Rank(rows[i].status) <= Rank(rows'[i].status)
          /\ Rank(rows[j].status) <= Rank(rows'[j].status)
          /\ MirrorFrom(i) /\ TaskFrom(j)
        BY <1>3, <2>1 DEF StepFrom, BoardsFrom, Rises
    <2>3. Rank(rows[i].status) \in Nat /\ Rank(rows[j].status) \in Nat
        BY <1>3, <2>1, RanksAre
    <2>4. \A m \in mail : m.row = i => Rank(m.status) <= Rank(rows'[j].status)
        <3>1. \A m \in mail : m.row = i => Rank(m.status) <= Rank(rows[j].status)
            BY <2>1 DEF Follows
        <3> QED
            BY <1>2, <2>2, <2>3, <3>1
    <2>5. Rank(rows'[i].status) <= Rank(rows'[j].status)
        <3>1. CASE rows'[i].status = rows[i].status
            <4>1. Rank(rows'[i].status) <= Rank(rows[j].status)
                BY <2>1, <3>1 DEF Follows
            <4> QED
                BY <1>2, <2>2, <2>3, <4>1
        <3>2. CASE \E m \in mail : m.row = i /\ m.status = rows'[i].status
            BY <2>4, <3>2
        <3> QED
            BY <2>1, <2>2, <3>1, <3>2 DEF MirrorFrom
    <2>6. ASSUME NEW m \in mail', m.row = i
          PROVE  Rank(m.status) <= Rank(rows'[j].status)
        <3>1. CASE m \in mail
            BY <2>4, <2>6, <3>1
        <3>2. CASE m \notin mail
            <4>1. NewsFrom(m)
                BY <3>2 DEF StepFrom, MailFrom
            <4>2. ~ Consumed(i)
                BY <1>3, <2>1 DEF Consumed, FirstNews, TakenAs
            <4>3. PICK t \in todo : /\ t.do = "report"
                                    /\ m = Update(rows[t.row].origin, t.status, t.answer)
                BY <2>1, <2>6, <4>1, <4>2 DEF NewsFrom
            <4>4. t.row \in Rows /\ rows[t.row].origin = i /\ m.status = t.status
                BY <2>6, <4>3 DEF Update, BoardInv, BoardsConnect
            <4>5. t.row = j
                BY <1>3, <2>1, <4>3, <4>4 DEF BoardInv, BoardsConnect, TakenOnce
            <4>6. Rank(m.status) <= Rank(rows[j].status)
                BY <4>4, <4>5 DEF Ranks
            <4> QED
                BY <1>2, <2>2, <2>3, <4>6
        <3> QED
            BY <3>1, <3>2
    <2>7. \/ Rank(rows'[j].status) <= Rank(rows'[i].status)
          \/ \E m \in mail' : /\ m.kind = "update" /\ m.row = i
                              /\ Rank(rows'[j].status) <= Rank(m.status)
          \/ \E t \in todo' : /\ t.do = "report" /\ t.row = j
                              /\ Rank(rows'[j].status) <= Rank(t.status)
        <3>1. CASE rows'[j].status # rows[j].status
            <4>1. rows[j].origin # 0
                BY <1>1, <2>1
            <4>2. PICK t \in todo' : /\ t.do = "report" /\ t.row = j
                                     /\ t.status = rows'[j].status
                BY <2>1, <2>2, <3>1, <4>1 DEF TaskFrom
            <4>3. Rank(rows'[j].status) <= Rank(t.status)
                BY <1>2, <4>2
            <4> QED
                BY <4>2, <4>3
        <3>2. CASE rows'[j].status = rows[j].status
            <4>1. CASE Rank(rows[j].status) <= Rank(rows[i].status)
                BY <1>2, <2>2, <2>3, <3>2, <4>1
            <4>2. ASSUME NEW m \in mail, m.kind = "update", m.row = i,
                         Rank(rows[j].status) <= Rank(m.status)
                  PROVE  \/ Rank(rows'[j].status) <= Rank(rows'[i].status)
                         \/ m \in mail'
                <5>1. CASE m \notin mail'
                    <6>1. Rank(m.status) <= Rank(rows'[i].status)
                        BY <4>2, <5>1 DEF StepFrom, MailFrom, ReadFrom
                    <6> QED
                        BY <1>2, <3>2, <4>2, <6>1
                <5> QED
                    BY <5>1
            <4>3. ASSUME NEW t \in todo, t.do = "report", t.row = j
                  PROVE  \/ t \in todo'
                         \/ /\ Update(i, t.status, t.answer) \in mail'
                            /\ Update(i, t.status, t.answer).kind = "update"
                            /\ Update(i, t.status, t.answer).row = i
                            /\ Update(i, t.status, t.answer).status = t.status
                BY <2>1, <4>3 DEF StepFrom, TodoFrom, EndsFrom, Update
            <4>4. OnTheWay(j)
                BY <2>1 DEF Follows
            <4>5. CASE \E m \in mail : /\ m.kind = "update" /\ m.row = i
                                       /\ Rank(rows[j].status) <= Rank(m.status)
                BY <3>2, <4>2, <4>5
            <4>6. CASE \E t \in todo : /\ t.do = "report" /\ t.row = j
                                       /\ Rank(rows[j].status) <= Rank(t.status)
                <5>1. PICK t \in todo : /\ t.do = "report" /\ t.row = j
                                        /\ Rank(rows[j].status) <= Rank(t.status)
                    BY <4>6
                <5>2. CASE t \in todo'
                    BY <3>2, <5>1, <5>2
                <5>3. CASE t \notin todo'
                    <6>1. PICK m \in mail' : /\ m.kind = "update" /\ m.row = i
                                             /\ m.status = t.status
                        BY <4>3, <5>1, <5>3
                    <6>2. Rank(rows'[j].status) <= Rank(m.status)
                        BY <3>2, <5>1, <6>1
                    <6> QED
                        BY <6>1, <6>2
                <5> QED
                    BY <5>2, <5>3
            <4> QED
                BY <2>1, <4>1, <4>4, <4>5, <4>6 DEF OnTheWay
        <3> QED
            BY <3>1, <3>2
    <2> QED
        BY <1>1, <2>5, <2>6, <2>7 DEF Follows, OnTheWay
<1>4. CASE j \notin Rows
    <2>1. rows'[j].status = "RECEIVED" /\ Consumed(i) /\ mail' \subseteq mail
        BY <1>1, <1>4 DEF StepFrom, BoardsFrom, RowFrom
    <2>2. PICK m \in mail : m.kind = "assigned" /\ m.row = i /\ FirstNews(m)
        BY <2>1 DEF Consumed
    <2>3. rows'[i].status = "RECEIVED"
        BY <2>2, UnreadStays
    <2>4. \A u \in mail' : u.row = i => u.status = "RECEIVED"
        BY <2>1, <2>2 DEF FirstNews, Assigned
    <2>5. /\ Rank(rows'[i].status) = 0 /\ Rank(rows'[j].status) = 0
          /\ \A u \in mail' : u.row = i => Rank(u.status) = 0
        BY <2>1, <2>3, <2>4, RankTypes
    <2>6. /\ Rank(rows'[i].status) <= Rank(rows'[j].status)
          /\ Rank(rows'[j].status) <= Rank(rows'[i].status)
          /\ \A u \in mail' : u.row = i => Rank(u.status) <= Rank(rows'[j].status)
        BY <2>5
    <2> QED
        BY <1>1, <2>6 DEF Follows, OnTheWay
<1> QED
    BY <1>3, <1>4

LEMMA CatchingKept ==
    ASSUME BoardInv, BoardInv', TasksOnly, Ranks, Catching, StepFrom, "close" \in Careful,
           faults' \in {faults, faults + 1}
    PROVE  Catching'
<1> SUFFICES ASSUME faults' = 0
             PROVE  /\ \A m \in mail' : m.kind = "assigned" => FirstNews(m)'
                    /\ \A j \in Rows' : rows'[j].origin # 0 => Follows(j)'
    BY DEF Catching
<1>1. faults = 0 /\ faults' = faults
    BY BoardAssumption DEF BoardInv, TypeOK
<1>2. /\ \A x \in mail : x.kind = "assigned" => FirstNews(x)
      /\ \A k \in Rows : rows[k].origin # 0 => Follows(k)
    BY <1>1 DEF Catching
<1>3. \A m \in mail' : m.kind = "assigned" => FirstNews(m)'
    BY <1>1, <1>2, FirstNewsKept
<1>4. \A j \in Rows' : rows'[j].origin # 0 => Follows(j)'
    BY <1>1, <1>2, FollowsKept
<1> QED
    BY <1>3, <1>4

\* Work another office asked for and that is done is complete: below, nobody closes.
DoneStands == \A j \in Rows : rows[j].origin # 0 /\ rows[j].done => rows[j].status = "COMPLETED"

\* A final state is not left below, where nobody closes.
LEMMA FinalStays ==
    ASSUME BoardInv, BoardInv', TasksOnly, StepFrom, "close" \in Careful,
           NEW j \in Rows, rows[j].origin # 0, rows[j].status \in {"COMPLETED", "RETURNED"}
    PROVE  rows'[j].status = rows[j].status
<1>1. ~ IsMirror(j) /\ TaskFrom(j)
    BY DEF TasksOnly, StepFrom, BoardsFrom
<1>2. CASE rows'[j].status # rows[j].status
    <2>1. CanMoveTo(rows[j].status, rows'[j].status) /\ rows'[j].status # "CLOSED"
        BY <1>1, <1>2 DEF TaskFrom
    <2>2. rows[j].status \in Statuses
        BY DEF Statuses
    <2> QED
        BY <2>1, <2>2, MovesOf
<1> QED
    BY <1>2

LEMMA DoneStandsKept ==
    ASSUME BoardInv, BoardInv', TasksOnly, DoneStands, StepFrom, "close" \in Careful
    PROVE  DoneStands'
<1> SUFFICES ASSUME NEW j \in Rows', rows'[j].origin # 0, rows'[j].done
             PROVE  rows'[j].status = "COMPLETED"
    BY DEF DoneStands
<1>1. CASE j \in Rows
    <2>1. rows[j].origin # 0 /\ RolledFrom(j)
        BY <1>1, BoardsGrow DEF StepFrom, BoardsFrom
    <2>2. CASE rows[j].done
        BY <1>1, <2>1, <2>2, FinalStays DEF DoneStands
    <2> QED
        BY <2>1, <2>2 DEF RolledFrom
<1>2. CASE j \notin Rows
    BY <1>2 DEF StepFrom, BoardsFrom, RowFrom
<1> QED
    BY <1>1, <1>2

\* While nothing is lost, news of a return is about work that came back, or that was
\* refused and will not be taken: its assignment is read.
Unread(m, i) == m.kind = "assigned" /\ m.row = i
CameBack(i) ==
    \/ \E j \in TakenAs(i) : rows[j].status = "RETURNED"
    \/ TakenAs(i) = {} /\ \A m \in mail : ~ Unread(m, i)
Returns ==
    faults = 0 =>
        /\ \A m \in mail : m.status = "RETURNED" => CameBack(m.row)
        /\ \A t \in todo : t.status = "RETURNED" => t.do = "report" /\ rows[t.row].status = "RETURNED"
        /\ \A i \in Rows : IsMirror(i) /\ rows[i].status = "RETURNED" => CameBack(i)

LEMMA CameBackStays ==
    ASSUME BoardInv, BoardInv', TasksOnly, StepFrom, "close" \in Careful,
           NEW i \in Rows, CameBack(i)
    PROVE  CameBack(i)'
<1>1. i # 0
    BY DEF Rows
<1>2. CASE \E j \in TakenAs(i) : rows[j].status = "RETURNED"
    <2>1. PICK j \in TakenAs(i) : rows[j].status = "RETURNED"
        BY <1>2
    <2>2. j \in Rows /\ rows[j].origin # 0 /\ j \in TakenAs(i)'
        BY <1>1, BoardsGrow DEF TakenAs
    <2>3. rows'[j].status = "RETURNED"
        BY <2>1, <2>2, FinalStays
    <2> QED
        BY <2>2, <2>3 DEF CameBack
<1>3. CASE TakenAs(i) = {} /\ \A m \in mail : ~ Unread(m, i)
    <2>1. ~ Consumed(i)
        BY <1>3 DEF Consumed, Unread
    <2>2. TakenAs(i)' = {}
        <3> SUFFICES ASSUME NEW j \in Rows', rows'[j].origin = i
                     PROVE  FALSE
            BY DEF TakenAs
        <3>1. CASE j \in Rows
            BY <1>3, <3>1, BoardsGrow DEF TakenAs
        <3>2. CASE j \notin Rows
            BY <1>1, <2>1, <3>2 DEF StepFrom, BoardsFrom, RowFrom
        <3> QED
            BY <3>1, <3>2
    <2>3. ASSUME NEW m \in mail', Unread(m, i)
          PROVE  FALSE
        <3>1. m \notin mail /\ m.kind = "assigned" /\ m.row = i
            BY <1>3, <2>3 DEF Unread
        <3>2. NewsFrom(m)
            BY <3>1 DEF StepFrom, MailFrom
        <3> QED
            BY <3>1, <3>2 DEF NewsFrom, Update
    <2> QED
        BY <2>2, <2>3 DEF CameBack, Unread
<1> QED
    BY <1>2, <1>3 DEF CameBack

LEMMA ReturnsKept ==
    ASSUME BoardInv, BoardInv', TasksOnly, Catching, Returns, StepFrom, "close" \in Careful,
           faults' \in {faults, faults + 1}
    PROVE  Returns'
<1> SUFFICES ASSUME faults' = 0
             PROVE  /\ \A m \in mail' : m.status = "RETURNED" => CameBack(m.row)'
                    /\ \A t \in todo' : t.status = "RETURNED" =>
                          t.do = "report" /\ rows'[t.row].status = "RETURNED"
                    /\ \A i \in Rows' : rows'[i].to # {} /\ rows'[i].status = "RETURNED" =>
                          CameBack(i)'
    BY DEF Returns, IsMirror
<1>1. faults = 0 /\ faults' = faults
    BY BoardAssumption DEF BoardInv, TypeOK
<1>2. /\ \A m \in mail : m.status = "RETURNED" => CameBack(m.row)
      /\ \A t \in todo : t.status = "RETURNED" => t.do = "report" /\ rows[t.row].status = "RETURNED"
      /\ \A i \in Rows : IsMirror(i) /\ rows[i].status = "RETURNED" => CameBack(i)
      /\ \A x \in mail : x.kind = "assigned" => FirstNews(x)
    BY <1>1 DEF Returns, Catching
<1>3. ASSUME NEW m \in mail', m.status = "RETURNED"
      PROVE  CameBack(m.row)'
    <2>1. CASE m \in mail
        BY <1>2, <1>3, <2>1, CameBackStays DEF BoardInv, BoardsConnect
    <2>2. CASE m \notin mail
        <3>1. NewsFrom(m) /\ m.status # "RECEIVED"
            BY <1>3, <2>2 DEF StepFrom, MailFrom
        <3>2. CASE Consumed(m.row)
            <4>1. PICK x \in mail : x.kind = "assigned" /\ x.row = m.row /\ x \notin mail'
                BY <1>1, <3>2 DEF Consumed
            <4>2. FirstNews(x) /\ m.row \in Rows
                BY <1>2, <4>1 DEF BoardInv, BoardsConnect
            <4>3. TakenAs(m.row)' = {}
                <5> SUFFICES ASSUME NEW j \in Rows', rows'[j].origin = m.row
                             PROVE  FALSE
                    BY DEF TakenAs
                <5>1. CASE j \in Rows
                    BY <4>1, <4>2, <5>1, BoardsGrow DEF TakenAs, FirstNews
                <5>2. CASE j \notin Rows
                    BY <2>2, <4>2, <5>2 DEF StepFrom, BoardsFrom, RowFrom, Rows
                <5> QED
                    BY <5>1, <5>2
            <4>4. ASSUME NEW u \in mail', Unread(u, m.row)
                  PROVE  FALSE
                <5>1. CASE u \in mail
                    BY <4>1, <4>2, <4>4, <5>1 DEF FirstNews, Unread
                <5>2. CASE u \notin mail
                    <6>1. NewsFrom(u) /\ u.kind = "assigned" /\ u.row = m.row
                        BY <4>4, <5>2 DEF StepFrom, MailFrom, Unread
                    <6> QED
                        BY <4>2, <6>1 DEF NewsFrom, Update
                <5> QED
                    BY <5>1, <5>2
            <4> QED
                BY <4>3, <4>4 DEF CameBack, Unread
        <3>3. CASE ~ Consumed(m.row)
            <4>0. Assigned(m.row).status = "RECEIVED"
                BY DEF Assigned
            <4>1. PICK t \in todo : /\ t.do = "report"
                                    /\ m = Update(rows[t.row].origin, t.status, t.answer)
                BY <3>1, <3>3, <4>0, Zenon DEF NewsFrom
            <4>2. /\ t.row \in Rows /\ rows[t.row].status = "RETURNED"
                  /\ m.row = rows[t.row].origin
                BY <1>2, <1>3, <4>1 DEF BoardInv, BoardsConnect, Update
            <4>3. m.row \in Rows /\ CameBack(m.row)
                BY <4>1, <4>2 DEF CameBack, TakenAs, BoardInv, BoardsConnect, Connected
            <4> QED
                BY <4>3, CameBackStays
        <3> QED
            BY <3>2, <3>3
    <2> QED
        BY <2>1, <2>2
<1>4. ASSUME NEW t \in todo', t.status = "RETURNED"
      PROVE  t.do = "report" /\ rows'[t.row].status = "RETURNED"
    <2>1. CASE t \in todo
        <3>1. t.do = "report" /\ rows[t.row].status = "RETURNED"
            BY <1>2, <1>4, <2>1
        <3>2. t.row \in Rows /\ rows[t.row].origin # 0
            BY <2>1, <3>1 DEF BoardInv, BoardsConnect
        <3> QED
            BY <3>1, <3>2, FinalStays
    <2>2. CASE t \notin todo
        BY <1>4, <2>2 DEF StepFrom, TodoFrom, HandlerFrom
    <2> QED
        BY <2>1, <2>2
<1>5. ASSUME NEW i \in Rows', rows'[i].to # {}, rows'[i].status = "RETURNED"
      PROVE  CameBack(i)'
    <2>1. CASE i \in Rows
        <3>1. IsMirror(i) /\ MirrorFrom(i)
            BY <1>5, <2>1, BoardsGrow DEF StepFrom, BoardsFrom, IsMirror
        <3>2. CASE rows'[i].status = rows[i].status
            BY <1>2, <1>5, <2>1, <3>1, <3>2, CameBackStays
        <3>3. CASE \E m \in mail : m.row = i /\ m.status = rows'[i].status
            BY <1>2, <1>5, <2>1, <3>3, CameBackStays
        <3> QED
            BY <3>1, <3>2, <3>3 DEF MirrorFrom
    <2>2. CASE i \notin Rows
        BY <1>5, <2>2 DEF StepFrom, BoardsFrom, RowFrom
    <2> QED
        BY <2>1, <2>2
<1> QED
    BY <1>3, <1>4, <1>5

\* Work is sent on only once it was accepted.
Started == \A i \in Rows : Branches(i) # {} => rows[i].status # "RECEIVED"

\* No state is followed by RECEIVED, and what leads to a state that can be completed
\* could be completed already, or was not accepted yet.
LEMMA CompletableBefore ==
    ASSUME NEW s \in Statuses, NEW u, CanMoveTo(s, u)
    PROVE  /\ u # "RECEIVED"
           /\ s # "RECEIVED" /\ CanMoveTo(u, "COMPLETED") => CanMoveTo(s, "COMPLETED")
<1>1. u \in Statuses
    BY MovesRise
<1>2. u # "RECEIVED"
    BY MovesOf
<1>3. ASSUME s # "RECEIVED", CanMoveTo(u, "COMPLETED")
      PROVE  CanMoveTo(s, "COMPLETED")
    <2>1. u \in {"ACCEPTED", "IN_PROGRESS", "DELEGATED"}
        BY <1>1, <1>3, MovesOf
    <2>2. s \in {"ACCEPTED", "IN_PROGRESS"}
        BY <1>3, <2>1, MovesOf
    <2> QED
        BY <2>2 DEF CanMoveTo, Transitions, Statuses
<1> QED
    BY <1>2, <1>3

\* A branch added makes its task one that was accepted.
LEMMA StartedKept ==
    ASSUME BoardInv, BoardInv', TasksOnly, Started, StepFrom, "delegate" \in Careful
    PROVE  Started'
<1> SUFFICES ASSUME NEW i \in Rows', NEW b \in Branches(i)'
             PROVE  rows'[i].status # "RECEIVED"
    BY DEF Started
<1>1. b \in Rows' /\ rows'[b].parent = i /\ i # 0
    BY DEF Branches, Rows
<1>2. CASE i \in Rows
    <2>1. rows[i].status # "RECEIVED" /\ ~ IsMirror(i)
        <3>1. CASE b \in Branches(i)
            BY <1>1, <1>2, <3>1 DEF Started, TasksOnly, Branches
        <3>2. CASE b \notin Branches(i)
            <4>1. b \notin Rows
                BY <1>1, <3>2, BoardsGrow DEF Branches
            <4>2. CanMoveTo(rows[i].status, "DELEGATED") /\ rows'[i].to = {}
                BY <1>1, <1>2, <4>1 DEF StepFrom, BoardsFrom, RowFrom
            <4>3. rows[i].status # "RECEIVED"
                BY <4>2, MovesOf DEF Statuses
            <4> QED
                BY <1>2, <4>2, <4>3, BoardsGrow DEF IsMirror
        <3> QED
            BY <3>1, <3>2
    <2>2. TaskFrom(i) /\ rows[i].status \in Statuses
        BY <1>2, RanksAre DEF StepFrom, BoardsFrom
    <2> QED
        BY <2>1, <2>2, CompletableBefore DEF TaskFrom
<1>3. CASE i \notin Rows
    <2>1. b \notin Rows
        BY <1>1, <1>3, BoardsGrow DEF BoardInv, BoardsConnect, Connected
    <2> QED
        BY <1>1, <1>3, <2>1 DEF StepFrom, BoardsFrom, RowFrom
<1> QED
    BY <1>2, <1>3

\* Whoever is to complete a task has its answer.
AnswerAtHand == Service => \A t \in todo : t.do = "complete" => rows[t.row].answer

LEMMA AnswerAtHandKept ==
    ASSUME BoardInv, BoardInv', Told, RollsRightly, AnswerAtHand, StepFrom
    PROVE  AnswerAtHand'
<1> SUFFICES ASSUME Service, NEW t \in todo', t.do = "complete"
             PROVE  rows'[t.row].answer
    BY DEF AnswerAtHand
<1>1. CASE t \in todo
    BY <1>1 DEF AnswerAtHand, BoardInv, BoardsConnect, StepFrom, BoardsFrom, Rises
<1>2. CASE t \notin todo
    <2>1. HandlerFrom(t)
        BY <1>2 DEF StepFrom, TodoFrom
    <2>2. PICK u \in todo : u.do = "count" /\ u.row = t.row
        BY <2>1 DEF HandlerFrom
    <2>3. PICK b \in Branches(t.row) : TRUE
        BY <2>2 DEF RollsRightly
    <2>4. rows[b].answer
        BY <2>1, <2>3 DEF HandlerFrom, Outstanding, Branches, Told
    <2> QED
        BY <2>1, <2>3, <2>4 DEF HandlerFrom
<1> QED
    BY <1>1, <1>2

\* While nothing is lost, a task whose branches are all complete and that can be
\* completed has somebody at work who will see it.
Awaited(i) ==
    Branches(i) # {} /\ Outstanding(i) = {} /\ CanMoveTo(rows[i].status, "COMPLETED")
Attended(i) == \E t \in todo : t.row = i /\ t.do \in {"count", "complete"}
SomebodyCounts == faults = 0 => \A i \in Rows : Awaited(i) => Attended(i)

LEMMA SomebodyCountsKept ==
    ASSUME BoardInv, BoardInv', TasksOnly, Started, AnswerAtHand, SomebodyCounts, StepFrom,
           "close" \in Careful, faults' \in {faults, faults + 1}
    PROVE  SomebodyCounts'
<1> SUFFICES ASSUME faults' = 0, NEW i \in Rows', Awaited(i)'
             PROVE  \E t \in todo' : t.row = i /\ t.do \in {"count", "complete"}
    BY DEF SomebodyCounts, Attended
<1>1. faults = 0 /\ faults' = faults
    BY BoardAssumption DEF BoardInv, TypeOK
<1>2. /\ Branches(i)' # {} /\ \A b \in Branches(i)' : rows'[b].status = "COMPLETED"
      /\ CanMoveTo(rows'[i].status, "COMPLETED")
    BY DEF Awaited, Outstanding
<1>3. \A b \in Branches(i)' : b \in Rows
    BY <1>2 DEF Branches, StepFrom, BoardsFrom, RowFrom, IsMirror
<1>4. Branches(i)' = Branches(i)
    BY <1>3, BoardsGrow DEF Branches
<1>5. PICK c \in Branches(i) : TRUE
    BY <1>2, <1>4
<1>6. c \in Rows /\ rows[c].parent = i /\ i # 0
    BY DEF Branches, Rows
<1>7. i \in Rows /\ ~ IsMirror(i)
    BY <1>6 DEF BoardInv, BoardsConnect, Connected, TasksOnly
<1>8. rows[i].status \in Statuses /\ rows'[i].status # "COMPLETED"
    <2>1. "COMPLETED" \in Statuses
        BY DEF Statuses
    <2> QED
        BY <1>2, <1>7, <2>1, MovesOf, RanksAre
<1>9. CanMoveTo(rows[i].status, "COMPLETED")
    <2>1. TaskFrom(i) /\ rows[i].status # "RECEIVED"
        BY <1>5, <1>7 DEF StepFrom, BoardsFrom, Started
    <2> QED
        BY <1>2, <1>7, <1>8, <2>1, CompletableBefore DEF TaskFrom
<1>10. CASE Outstanding(i) = {}
    <2>1. Awaited(i)
        BY <1>2, <1>4, <1>9, <1>10 DEF Awaited
    <2>2. PICK t \in todo : t.row = i /\ t.do \in {"count", "complete"}
        BY <1>1, <1>7, <2>1 DEF SomebodyCounts, Attended
    <2>3. CASE t \in todo'
        BY <2>2, <2>3
    <2>4. CASE t \notin todo'
        <3>1. EndsFrom(t)
            BY <2>4 DEF StepFrom, TodoFrom
        <3>2. CASE t.do = "count"
            BY <1>1, <1>10, <2>2, <3>1, <3>2 DEF EndsFrom
        <3>3. CASE t.do = "complete"
            <4>1. MayMove(i, "COMPLETED", rows[i].answer)
                BY <1>9, <2>2, <3>3 DEF MayMove, HasAnswer, AnswerAtHand
            <4> QED
                BY <1>1, <1>8, <2>2, <3>1, <3>3, <4>1 DEF EndsFrom
        <3> QED
            BY <2>2, <3>2, <3>3
    <2> QED
        BY <2>3, <2>4
<1>11. CASE Outstanding(i) # {}
    <2>1. PICK b \in Branches(i) : rows[b].status # "COMPLETED"
        BY <1>11 DEF Outstanding
    <2>2. b \in Rows /\ IsMirror(b) /\ rows[b].parent = i /\ rows'[b].status = "COMPLETED"
        BY <1>2, <1>4 DEF Branches
    <2>3. MirrorFrom(b)
        BY <2>2 DEF StepFrom, BoardsFrom
    <2> QED
        BY <2>1, <2>2, <2>3 DEF MirrorFrom
<1> QED
    BY <1>10, <1>11


-----------------------------------------------------------------------------
(* The theorems *)

LEMMA InitNews ==
    ASSUME Init
    PROVE  /\ TasksOnly /\ Told /\ DoneNews /\ RollsRightly /\ Ranks /\ Catching
           /\ DoneStands /\ Returns /\ Started /\ AnswerAtHand /\ SomebodyCounts
<1>1. Rows = {} /\ mail = {} /\ todo = {}
    BY DEF Init, Rows
<1>2. TasksOnly /\ Told /\ DoneNews /\ RollsRightly /\ Ranks /\ Catching
    BY <1>1 DEF TasksOnly, Told, DoneNews, RollsRightly, Ranks, MirrorNotAhead, Catching
<1>3. DoneStands /\ Returns /\ Started /\ AnswerAtHand /\ SomebodyCounts
    BY <1>1 DEF DoneStands, Returns, Started, AnswerAtHand, SomebodyCounts
<1> QED
    BY <1>2, <1>3

LEMMA StepNews ==
    ASSUME "mirrors" \in Careful
    PROVE  BoardInv /\ TasksOnly /\ [Next]_vars => TasksOnly' /\ StepFrom
BY EveryStepFrom, StepBoard, TasksOnlyKept

LEMMA TasksInvariant ==
    ASSUME "mirrors" \in Careful
    PROVE  Spec => [](BoardInv /\ TasksOnly)
<1>1. Init => BoardInv /\ TasksOnly
    BY InitBoard, InitNews
<1>2. (BoardInv /\ TasksOnly) /\ [Next]_vars => (BoardInv /\ TasksOnly)'
    BY StepBoard, StepNews
<1> QED
    BY <1>1, <1>2, PTL DEF Spec

LEMMA ToldInvariant ==
    ASSUME "mirrors" \in Careful
    PROVE  Spec => []Told
<1>1. Init => Told
    BY InitNews
<1>2. (BoardInv /\ TasksOnly)' /\ BoardInv /\ TasksOnly /\ Told /\ [Next]_vars => Told'
    BY StepNews, ToldKept
<1> QED
    BY <1>1, <1>2, TasksInvariant, PTL DEF Spec

\* On the service line an office above never sees work completed without an answer,
\* as long as no operator completes a mirror by hand.
THEOREM AnswerArrives ==
    ASSUME "mirrors" \in Careful
    PROVE  Spec => []AnswerTravels
<1>1. Told => AnswerTravels
    BY DEF Told, AnswerTravels
<1> QED
    BY <1>1, ToldInvariant, PTL

LEMMA DoneInvariant ==
    ASSUME "mirrors" \in Careful
    PROVE  Spec => []DoneNews
<1>1. Init => DoneNews
    BY InitNews
<1>2. (BoardInv /\ TasksOnly)' /\ BoardInv /\ TasksOnly /\ DoneNews /\ [Next]_vars => DoneNews'
    BY StepNews, DoneNewsKept
<1> QED
    BY <1>1, <1>2, TasksInvariant, PTL DEF Spec

LEMMA RollsInvariant ==
    ASSUME "mirrors" \in Careful, "delegate" \in Careful
    PROVE  Spec => []RollsRightly
<1>1. Init => RollsRightly
    BY InitNews
<1>2. /\ (BoardInv /\ TasksOnly)' /\ BoardInv /\ TasksOnly /\ DoneNews
      /\ RollsRightly /\ [Next]_vars
      => RollsRightly'
    BY StepNews, RollsRightlyKept
<1> QED
    BY <1>1, <1>2, TasksInvariant, DoneInvariant, PTL DEF Spec

\* A task that rolled up by itself is done at every office it was sent to, whatever
\* was lost, repeated or read late, as long as no operator moves a mirror by hand or
\* sends work further down while it is being finished.
THEOREM RollUpIsTrue ==
    ASSUME "mirrors" \in Careful, "delegate" \in Careful
    PROVE  Spec => []RolledUpIsDone
<1>1. RollsRightly => RolledUpIsDone
    BY DEF RollsRightly, RolledUpIsDone
<1> QED
    BY <1>1, RollsInvariant, PTL

LEMMA RanksInvariant ==
    ASSUME "mirrors" \in Careful, "close" \in Careful
    PROVE  Spec => []Ranks
<1>1. Init => Ranks
    BY InitNews
<1>2. (BoardInv /\ TasksOnly)' /\ BoardInv /\ TasksOnly /\ Ranks /\ [Next]_vars => Ranks'
    BY StepNews, RanksKept
<1> QED
    BY <1>1, <1>2, TasksInvariant, PTL DEF Spec

\* In whatever order its news arrives, and however much of it is lost, a mirror is
\* never ahead of the office doing the work, as long as operators leave it alone.
THEOREM NewsIsNeverEarly ==
    ASSUME "mirrors" \in Careful, "close" \in Careful
    PROVE  Spec => []MirrorNotAhead
<1>1. Ranks => MirrorNotAhead
    BY DEF Ranks
<1> QED
    BY <1>1, RanksInvariant, PTL

LEMMA CatchingInvariant ==
    ASSUME "mirrors" \in Careful, "close" \in Careful
    PROVE  Spec => []Catching
<1>1. Init => Catching
    BY InitNews
<1>2. /\ (BoardInv /\ TasksOnly)' /\ BoardInv /\ TasksOnly /\ Ranks
      /\ Catching /\ [Next]_vars
      => Catching'
    BY StepNews, EveryStepFrom, CatchingKept
<1> QED
    BY <1>1, <1>2, TasksInvariant, RanksInvariant, PTL DEF Spec

\* Once every envelope is read and every handler has ended, and none was lost, every
\* mirror has caught up with its office: reordering costs nothing in the end.
THEOREM NewsIsNeverLost ==
    ASSUME "mirrors" \in Careful, "close" \in Careful
    PROVE  Spec => []MirrorCatchesUp
<1>1. BoardInv /\ Catching => MirrorCatchesUp
    <2> SUFFICES ASSUME BoardInv, Catching, mail = {}, todo = {}, faults = 0,
                        NEW j \in Rows, rows[j].origin # 0
                 PROVE  Rank(rows[rows[j].origin].status) = Rank(rows[j].status)
        BY DEF MirrorCatchesUp, Quiet
    <2>1. PICK i \in Rows : i = rows[j].origin
        BY DEF BoardInv, BoardsConnect, Connected
    <2>2. Rank(rows[i].status) <= Rank(rows[j].status) /\ Rank(rows[j].status) <= Rank(rows[i].status)
        BY <2>1 DEF Catching, Follows, OnTheWay
    <2>3. Rank(rows[i].status) \in Nat /\ Rank(rows[j].status) \in Nat
        BY InvParts, RowFields, RankTypes
    <2> QED
        BY <2>1, <2>2, <2>3
<1> QED
    BY <1>1, TasksInvariant, CatchingInvariant, PTL

LEMMA StandingInvariant ==
    ASSUME "mirrors" \in Careful, "close" \in Careful
    PROVE  Spec => [](DoneStands /\ Returns)
<1>1. Init => DoneStands /\ Returns
    BY InitNews
<1>2. (BoardInv /\ TasksOnly)' /\ BoardInv /\ TasksOnly /\ DoneStands /\ [Next]_vars
      => DoneStands'
    BY StepNews, DoneStandsKept
<1>3. /\ (BoardInv /\ TasksOnly)' /\ BoardInv /\ TasksOnly /\ Catching
      /\ Returns /\ [Next]_vars
      => Returns'
    BY StepNews, EveryStepFrom, ReturnsKept
<1> QED
    BY <1>1, <1>2, <1>3, TasksInvariant, CatchingInvariant, PTL DEF Spec

LEMMA CountsInvariant ==
    ASSUME "mirrors" \in Careful, "delegate" \in Careful, "close" \in Careful
    PROVE  Spec => []SomebodyCounts
<1>1. Init => Started /\ AnswerAtHand /\ SomebodyCounts
    BY InitNews
<1>2. (BoardInv /\ TasksOnly)' /\ BoardInv /\ TasksOnly /\ Started /\ [Next]_vars
      => Started'
    BY StepNews, StartedKept
<1>3. /\ (BoardInv /\ TasksOnly)' /\ BoardInv /\ TasksOnly /\ Told /\ RollsRightly
      /\ AnswerAtHand /\ [Next]_vars
      => AnswerAtHand'
    BY StepNews, AnswerAtHandKept
<1>4. /\ (BoardInv /\ TasksOnly)' /\ BoardInv /\ TasksOnly /\ Started /\ AnswerAtHand
      /\ SomebodyCounts /\ [Next]_vars
      => SomebodyCounts'
    BY StepNews, EveryStepFrom, SomebodyCountsKept
<1> QED
    BY <1>1, <1>2, <1>3, <1>4, TasksInvariant, ToldInvariant, RollsInvariant, PTL DEF Spec

\* Once nothing is under way and nothing was lost, no task is still delegated whose
\* branches have all done their part: what is left of DelegatedCompletes without time.
RollsUpAtRest ==
    Quiet /\ faults = 0 => \A i \in Rows : Delegated(i) => ~ DoneBelow(i)

\* Whoever is still waiting when nothing is left to do waits for work that is not
\* done: in whatever order branches are completed, their news is read and handlers are
\* interleaved, the roll-up is not missed, unless something was lost on the way.
THEOREM RollUpIsNotMissed ==
    ASSUME "mirrors" \in Careful, "delegate" \in Careful, "close" \in Careful
    PROVE  Spec => []RollsUpAtRest
<1>1. /\ BoardInv /\ Catching /\ DoneStands /\ Returns /\ SomebodyCounts
      => RollsUpAtRest
    <2> SUFFICES ASSUME BoardInv, Catching, DoneStands, Returns, SomebodyCounts,
                        mail = {}, todo = {}, faults = 0,
                        NEW i \in Rows, rows[i].status = "DELEGATED", DoneBelow(i)
                 PROVE  FALSE
        BY DEF RollsUpAtRest, Quiet, Delegated
    <2>1. Branches(i) # {} /\ \A b \in Branches(i) : \E j \in TakenAs(b) : rows[j].done
        BY DEF DoneBelow
    <2>2. ASSUME NEW b \in Branches(i)
          PROVE  rows[b].status = "COMPLETED"
        <3>1. PICK j \in TakenAs(b) : rows[j].done
            BY <2>1
        <3>2. b \in Rows /\ IsMirror(b) /\ b # 0
            BY DEF Branches, Rows
        <3>3. j \in Rows /\ rows[j].origin = b /\ rows[j].status = "COMPLETED"
            BY <3>1, <3>2 DEF TakenAs, DoneStands
        <3>4. Rank("COMPLETED") <= Rank(rows[b].status) /\ Rank(rows[b].status) <= Rank("COMPLETED")
            BY <3>2, <3>3 DEF Catching, Follows, OnTheWay
        <3>5. rows[b].status \in Statuses
            BY <3>2, InvParts, RowFields
        <3>6. rows[b].status \in {"COMPLETED", "RETURNED"}
            BY <3>4, <3>5 DEF Statuses, Rank
        <3>7. rows[b].status # "RETURNED"
            <4> SUFFICES ASSUME rows[b].status = "RETURNED"
                         PROVE  FALSE
                OBVIOUS
            <4>1. PICK k \in TakenAs(b) : rows[k].status = "RETURNED"
                BY <3>1, <3>2 DEF Returns, CameBack
            <4>2. k = j
                BY <3>2, <3>3, <4>1 DEF TakenAs, BoardInv, TakenOnce
            <4> QED
                BY <3>3, <4>1, <4>2
        <3> QED
            BY <3>6, <3>7
    <2>3. CanMoveTo("DELEGATED", "COMPLETED")
        BY DEF CanMoveTo, Transitions, Statuses
    <2>4. Awaited(i)
        BY <2>1, <2>2, <2>3 DEF Awaited, Outstanding
    <2> QED
        BY <2>4 DEF SomebodyCounts, Attended
<1> QED
    BY <1>1, TasksInvariant, CatchingInvariant, StandingInvariant, CountsInvariant, PTL

\* Whatever operators do, mirrors and closing included, nothing that was reached is
\* taken back: no state falls behind, no answer and no completion is forgotten, and no
\* row changes office, branch or origin.
THEOREM NothingTakenBack == Spec => [][Rises]_vars
<1>1. BoardInv /\ [Next]_vars => [Rises]_vars
    <2> SUFFICES ASSUME BoardInv, Next
                 PROVE  Rises
        OBVIOUS
    <2>1. ASSUME NEW o \in Offices, NEW q \in PeerLists(o), Raise(o, q)
          PROVE  Rises
        BY <2>1, RaiseFrom DEF StepFrom, BoardsFrom
    <2>2. ASSUME NEW i \in Rows, NEW q \in PeerLists(rows[i].at), Delegate(i, q)
          PROVE  Rises
        BY <2>2, DelegateRises
    <2>3. ASSUME NEW i \in Rows, GiveAnswer(i)
          PROVE  Rises
        BY <2>3, GiveAnswerFrom DEF StepFrom, BoardsFrom
    <2>4. ASSUME NEW i \in Rows, NEW to \in Statuses, Act(i, to)
          PROVE  Rises
        BY <2>4, ActRises
    <2>5. ASSUME NEW t \in todo,
                 FinishDelegate(t) \/ ReportUp(t) \/ CountBranches(t) \/ RollUp(t)
          PROVE  Rises
        BY <2>5, ContinueRises
    <2>6. ASSUME NEW m \in mail, ReadAssigned(m) \/ ReadUpdate(m)
          PROVE  Rises
        BY <2>6, ReadAssignedFrom, ReadUpdateRises DEF StepFrom, BoardsFrom
    <2>7. ASSUME rows' = rows
          PROVE  Rises
        BY <2>7, SameBoardsFrom DEF BoardsFrom
    <2> QED
        BY <2>1, <2>2, <2>3, <2>4, <2>5, <2>6, <2>7
           DEF Next, Operate, Continue, Read, LearnCode, Lose
<1> QED
    BY <1>1, BoardInvariant, PTL DEF Spec
=============================================================================
