-------------------------- MODULE OrganisationProofs --------------------------
(***************************************************************************)
(* Theorems about Organisation, for any units, people and requests.         *)
(*                                                                         *)
(* A move that was checked and is not outdated carries a witness: a set of  *)
(* units that holds the unit to be moved and whatever is below it, and not  *)
(* the new parent.  What happens between the check and the write - units    *)
(* created, deleted, made roots - leaves such a set.                       *)
(***************************************************************************)
EXTENDS Organisation, TLAPS

\* A parent is a unit that is there: the foreign key.
ParentsThere == \A v \in There : unit[v].parent \in There \cup {NoUnit}

\* A set that holds u and what is below it.
HoldsBelow(below, u) == u \in below /\ \A v \in There : unit[v].parent \in below => v \in below

MoveIsSafe(k) ==
    request[k].kind = "move" =>
      /\ request[k].unit \in Units /\ request[k].to \in Units
      /\ unit[request[k].unit].state # "none" /\ unit[request[k].to].state # "none"
      /\ ~request[k].outdated /\ request[k].unit \in There /\ request[k].to \in There =>
           \E below \in SUBSET Units : HoldsBelow(below, request[k].unit) /\ request[k].to \notin below

\* Whoever is about to go leaves somebody.
SomebodyStays(k) ==
    request[k].kind = "deactivate" /\ ~request[k].outdated /\ request[k].who \cap Admins # {} =>
        (working \cap Admins) \ request[k].who # {}

OrganisationInv ==
    /\ OrganisationTypeOK
    /\ ParentsThere
    /\ \A k \in Clerks : MoveIsSafe(k) /\ SomebodyStays(k)
    /\ StructureIsTree
    /\ AdminRemains

-----------------------------------------------------------------------------
LEMMA OrganisationStart == OrganisationInit => OrganisationInv
<1> SUFFICES ASSUME OrganisationInit PROVE OrganisationInv
    OBVIOUS
<1>1. There = {}
    BY DEF OrganisationInit, There
<1>2. NoRequest \in Requests /\ NoRequest.kind = "none"
    BY DEF NoRequest, Requests
<1>3. OrganisationTypeOK
    BY <1>2 DEF OrganisationInit, OrganisationTypeOK, Rows
<1>4. ParentsThere /\ StructureIsTree
    BY <1>1 DEF ParentsThere, StructureIsTree, Knot
<1>5. \A k \in Clerks : MoveIsSafe(k) /\ SomebodyStays(k)
    BY <1>2 DEF OrganisationInit, MoveIsSafe, SomebodyStays
<1>6. AdminRemains
    BY OrganisationAssumption DEF OrganisationInit, AdminRemains
<1> QED
    BY <1>3, <1>4, <1>5, <1>6 DEF OrganisationInv

LEMMA OrganisationTypes ==
    ASSUME OrganisationInv
    PROVE  /\ There \subseteq Units /\ NoUnit \notin Units
           /\ \A u \in Units : /\ unit[u] \in Rows /\ unit[u].state \in {"none", "there", "gone"}
                               /\ unit[u].parent \in Units \cup {NoUnit} /\ unit[u].active \in BOOLEAN
                               /\ u \in There <=> unit[u].state = "there"
           /\ \A k \in Clerks : /\ request[k] \in Requests /\ request[k].unit \in Units \cup {NoUnit}
                                /\ request[k].to \in Units \cup {NoUnit} /\ request[k].who \subseteq Staff
           /\ NoRequest \in Requests /\ NoRequest.kind = "none"
BY OrganisationAssumption
   DEF OrganisationInv, OrganisationTypeOK, Rows, Requests, There, NoRequest

\* What does not touch the tree leaves it.
LEMMA TreeUntouched ==
    ASSUME OrganisationInv, unit' \in [Units -> Rows],
           \A u \in Units : unit'[u].state = unit[u].state /\ unit'[u].parent = unit[u].parent,
           crossed' = crossed
    PROVE  /\ There' = There /\ ParentsThere' /\ StructureIsTree'
           /\ \A k \in Clerks : request'[k] = request[k] => MoveIsSafe(k)'
<1>1. There' = There
    BY DEF There
<1>2. ParentsThere'
    BY <1>1, OrganisationTypes DEF OrganisationInv, ParentsThere
<1>3. \A S \in SUBSET Units : Knot(S)' = Knot(S)
    BY DEF Knot
<1>4. StructureIsTree'
    BY <1>1, <1>3, OrganisationTypes DEF OrganisationInv, StructureIsTree
<1>5. \A below \in SUBSET Units, u \in Units : HoldsBelow(below, u) => HoldsBelow(below, u)'
    BY <1>1, OrganisationTypes DEF HoldsBelow
<1>6. ASSUME NEW k \in Clerks, request'[k] = request[k] PROVE MoveIsSafe(k)'
    <2> SUFFICES ASSUME request[k].kind = "move" PROVE MoveIsSafe(k)'
        BY <1>6 DEF MoveIsSafe
    <2>1. PICK u \in Units, to \in Units : u = request[k].unit /\ to = request[k].to
        BY DEF OrganisationInv, MoveIsSafe
    <2>2. unit[u].state # "none" /\ unit[to].state # "none"
          /\ (~request[k].outdated /\ u \in There /\ to \in There =>
                \E below \in SUBSET Units : HoldsBelow(below, u) /\ to \notin below)
        BY <2>1 DEF OrganisationInv, MoveIsSafe
    <2>3. request'[k].unit = u /\ request'[k].to = to /\ request'[k].outdated = request[k].outdated
        BY <1>6, <2>1
    <2>4. ~request[k].outdated /\ u \in There /\ to \in There =>
             \E below \in SUBSET Units : HoldsBelow(below, u)' /\ to \notin below
        BY <1>5, <2>2
    <2> QED
        BY <1>1, <2>2, <2>3, <2>4 DEF MoveIsSafe
<1> QED
    BY <1>1, <1>2, <1>4, <1>6

-----------------------------------------------------------------------------
(* What changes the tree *)

\* The new unit is nobody's parent and nobody is about to be moved below it.
LEMMA UnitCreated ==
    ASSUME OrganisationInv, NEW u \in Units, NEW parent \in Units \cup {NoUnit},
           CreateDepartment(u, parent)
    PROVE  OrganisationInv'
<1> DEFINE new == [state |-> "there", parent |-> parent, active |-> TRUE]
<1>1. /\ unit' = [unit EXCEPT ![u] = new] /\ unit[u].state = "none"
      /\ parent \in There \cup {NoUnit}
      /\ UNCHANGED <<place, working, request, crossed, emptied>>
    BY DEF CreateDepartment
<1>2. new \in Rows /\ new.state = "there" /\ new.parent = parent
    BY DEF Rows
<1> HIDE DEF new
<1>3. unit'[u] = new /\ \A v \in Units \ {u} : unit'[v] = unit[v]
    BY <1>1 DEF OrganisationInv, OrganisationTypeOK
<1>4. OrganisationTypeOK'
    BY <1>1, <1>2 DEF OrganisationInv, OrganisationTypeOK
<1>5. There' = There \cup {u} /\ u \notin There
    BY <1>1, <1>2, <1>3 DEF There
<1>6. ParentsThere'
    BY <1>1, <1>2, <1>3, <1>5, OrganisationTypes DEF OrganisationInv, ParentsThere
<1>7. StructureIsTree'
    <2> SUFFICES ASSUME NEW S \in SUBSET (There' \ crossed'), Knot(S)' PROVE FALSE
        BY DEF StructureIsTree
    <2>1. S \subseteq Units /\ S # {} /\ \A v \in S : unit'[v].parent \in S
        BY <1>5, OrganisationTypes DEF Knot
    <2>2. \A v \in S \ {u} : unit[v].parent \in S \ {u}
        BY <1>3, <1>5, <2>1, OrganisationTypes DEF OrganisationInv, ParentsThere
    <2>3. S \ {u} # {}
        BY <1>1, <1>2, <1>3, <1>5, <2>1, OrganisationTypes
    <2>4. S \ {u} \in SUBSET (There \ crossed) /\ Knot(S \ {u})
        BY <1>1, <1>5, <2>2, <2>3 DEF Knot
    <2> QED
        BY <2>4 DEF OrganisationInv, StructureIsTree
<1>8. ASSUME NEW k \in Clerks PROVE MoveIsSafe(k)'
    <2> SUFFICES ASSUME request[k].kind = "move" PROVE MoveIsSafe(k)'
        BY <1>1 DEF MoveIsSafe
    <2>1. PICK m \in Units, to \in Units : m = request[k].unit /\ to = request[k].to
        BY DEF OrganisationInv, MoveIsSafe
    <2>2. /\ unit[m].state # "none" /\ unit[to].state # "none" /\ m # u /\ to # u
          /\ (~request[k].outdated /\ m \in There /\ to \in There =>
                \E below \in SUBSET Units : HoldsBelow(below, m) /\ to \notin below)
        BY <1>1, <2>1 DEF OrganisationInv, MoveIsSafe
    <2>3. ASSUME NEW below \in SUBSET Units, HoldsBelow(below, m), to \notin below
          PROVE  \E b \in SUBSET Units : HoldsBelow(b, m)' /\ to \notin b
        <3>1. CASE parent \in below
            <4>1. HoldsBelow(below \cup {u}, m)'
                BY <1>3, <1>5, <2>3, OrganisationTypes DEF HoldsBelow, OrganisationInv, ParentsThere
            <4> QED
                BY <2>2, <2>3, <4>1
        <3>2. CASE parent \notin below
            <4>1. HoldsBelow(below \ {u}, m)'
                BY <1>2, <1>3, <1>5, <2>2, <2>3, <3>2, OrganisationTypes
                   DEF HoldsBelow, OrganisationInv, ParentsThere
            <4> QED
                BY <2>3, <4>1
        <3> QED
            BY <3>1, <3>2
    <2>4. unit'[m].state # "none" /\ unit'[to].state # "none"
          /\ (m \in There' <=> m \in There) /\ (to \in There' <=> to \in There)
        BY <1>3, <1>5, <2>2
    <2> QED
        BY <1>1, <2>1, <2>2, <2>3, <2>4 DEF MoveIsSafe
<1>9. AdminRemains' /\ \A k \in Clerks : SomebodyStays(k)'
    BY <1>1 DEF OrganisationInv, AdminRemains, SomebodyStays
<1> QED
    BY <1>4, <1>6, <1>7, <1>8, <1>9 DEF OrganisationInv

\* A move that is not outdated turns no knot: what is left of the knot when the
\* witness is taken out of it was one before.
LEMMA UnitMoved ==
    ASSUME OrganisationInv, NEW k \in Clerks, WriteMove(k),
           request[k].unit \in There, request[k].to \in There
    PROVE  OrganisationInv'
<1>1. PICK u \in There, to \in There : u = request[k].unit /\ to = request[k].to
    OBVIOUS
<1>2. /\ unit' = [unit EXCEPT ![u].parent = to] /\ request[k].kind = "move"
      /\ crossed' = IF request[k].outdated THEN crossed \cup {u} ELSE crossed \ {u}
      /\ request' = OthersOutdated(k, "move")
      /\ UNCHANGED <<place, working, emptied>>
    BY <1>1 DEF WriteMove
<1>3. u \in Units /\ to \in Units
    BY <1>1, OrganisationTypes
<1>4. /\ \A v \in Units \ {u} : unit'[v] = unit[v]
      /\ unit'[u] \in Rows /\ unit'[u].parent = to /\ unit'[u].state = unit[u].state
    BY <1>2, <1>3, OrganisationTypes DEF OrganisationInv, OrganisationTypeOK, Rows
<1>5. There' = There
    BY <1>3, <1>4 DEF There
<1>6. ASSUME NEW j \in Clerks
      PROVE  /\ request'[j] \in Requests /\ request'[j].kind \in {request[j].kind, "none"}
             /\ request'[j].kind = "move" => /\ request'[j].outdated
                                             /\ request'[j].unit = request[j].unit
                                             /\ request'[j].to = request[j].to
             /\ request'[j].kind = "deactivate" => request'[j] = request[j]
    BY <1>2, OrganisationTypes, ZenonT(60) DEF OthersOutdated, Requests
<1>7. OrganisationTypeOK'
    <2>1. unit' \in [Units -> Rows]
        BY <1>2, <1>3, <1>4, OrganisationTypes DEF OrganisationInv, OrganisationTypeOK
    <2>2. request' \in [Clerks -> Requests]
        BY <1>2, <1>6 DEF OthersOutdated
    <2> QED
        BY <1>2, <1>3, <2>1, <2>2 DEF OrganisationInv, OrganisationTypeOK
<1>8. ParentsThere'
    BY <1>3, <1>4, <1>5, OrganisationTypes DEF OrganisationInv, ParentsThere
<1>9. StructureIsTree'
    <2> SUFFICES ASSUME NEW S \in SUBSET (There' \ crossed'), Knot(S)' PROVE FALSE
        BY DEF StructureIsTree
    <2>1. S \subseteq There /\ S \subseteq Units /\ S # {} /\ \A v \in S : unit'[v].parent \in S
        BY <1>5, OrganisationTypes DEF Knot
    <2>2. CASE u \notin S
        <3>1. S \in SUBSET (There \ crossed) /\ Knot(S)
            BY <1>2, <1>4, <2>1, <2>2 DEF Knot
        <3> QED
            BY <3>1 DEF OrganisationInv, StructureIsTree
    <2>3. CASE u \in S
        <3>1. ~request[k].outdated /\ crossed' = crossed \ {u} /\ to \in S
            BY <1>2, <1>4, <2>1, <2>3
        <3>2. PICK below \in SUBSET Units : HoldsBelow(below, u) /\ to \notin below
            BY <1>1, <1>2, <3>1 DEF OrganisationInv, MoveIsSafe
        <3>3. \A v \in S \ below : unit[v].parent \in S \ below
            BY <1>4, <2>1, <3>2 DEF HoldsBelow
        <3>4. S \ below \in SUBSET (There \ crossed) /\ to \in S \ below
            BY <2>1, <3>1, <3>2 DEF HoldsBelow
        <3>5. Knot(S \ below)
            BY <3>3, <3>4 DEF Knot
        <3> QED
            BY <3>4, <3>5 DEF OrganisationInv, StructureIsTree
    <2> QED
        BY <2>2, <2>3
<1>10. ASSUME NEW j \in Clerks PROVE MoveIsSafe(j)'
    <2> SUFFICES ASSUME request'[j].kind = "move" PROVE MoveIsSafe(j)'
        BY DEF MoveIsSafe
    <2>1. request[j].kind = "move" /\ request'[j].outdated
          /\ request'[j].unit = request[j].unit /\ request'[j].to = request[j].to
        BY <1>6
    <2>2. \A v \in Units : unit'[v].state = unit[v].state
        BY <1>4
    <2> QED
        BY <2>1, <2>2 DEF OrganisationInv, MoveIsSafe
<1>11. AdminRemains' /\ \A j \in Clerks : SomebodyStays(j)'
    BY <1>2, <1>6 DEF OrganisationInv, AdminRemains, SomebodyStays
<1> QED
    BY <1>7, <1>8, <1>9, <1>10, <1>11 DEF OrganisationInv

\* A root is below nothing.
LEMMA UnitRooted ==
    ASSUME OrganisationInv, NEW u \in Units, MoveToRoot(u)
    PROVE  OrganisationInv'
<1>1. /\ u \in There /\ unit' = [unit EXCEPT ![u].parent = NoUnit] /\ crossed' = crossed \ {u}
      /\ UNCHANGED <<place, working, request, emptied>>
    BY DEF MoveToRoot
<1>2. /\ \A v \in Units \ {u} : unit'[v] = unit[v]
      /\ unit'[u] \in Rows /\ unit'[u].parent = NoUnit /\ unit'[u].state = unit[u].state
    BY <1>1, OrganisationTypes DEF OrganisationInv, OrganisationTypeOK, Rows
<1>3. There' = There
    BY <1>2 DEF There
<1>4. OrganisationTypeOK'
    <2>1. unit' \in [Units -> Rows]
        BY <1>1, <1>2 DEF OrganisationInv, OrganisationTypeOK
    <2> QED
        BY <1>1, <2>1 DEF OrganisationInv, OrganisationTypeOK
<1>5. ParentsThere'
    BY <1>2, <1>3, OrganisationTypes DEF OrganisationInv, ParentsThere
<1>6. StructureIsTree'
    <2> SUFFICES ASSUME NEW S \in SUBSET (There' \ crossed'), Knot(S)' PROVE FALSE
        BY DEF StructureIsTree
    <2>1. S \subseteq There /\ S \subseteq Units /\ S # {} /\ \A v \in S : unit'[v].parent \in S
        BY <1>3, OrganisationTypes DEF Knot
    <2>2. u \notin S
        BY <1>2, <2>1, OrganisationTypes
    <2>3. S \in SUBSET (There \ crossed) /\ Knot(S)
        BY <1>1, <1>2, <2>1, <2>2 DEF Knot
    <2> QED
        BY <2>3 DEF OrganisationInv, StructureIsTree
<1>7. ASSUME NEW k \in Clerks PROVE MoveIsSafe(k)'
    <2> SUFFICES ASSUME request[k].kind = "move" PROVE MoveIsSafe(k)'
        BY <1>1 DEF MoveIsSafe
    <2>1. PICK m \in Units, to \in Units : m = request[k].unit /\ to = request[k].to
        BY DEF OrganisationInv, MoveIsSafe
    <2>2. /\ unit[m].state # "none" /\ unit[to].state # "none"
          /\ (~request[k].outdated /\ m \in There /\ to \in There =>
                \E below \in SUBSET Units : HoldsBelow(below, m) /\ to \notin below)
        BY <2>1 DEF OrganisationInv, MoveIsSafe
    <2>3. \A below \in SUBSET Units : HoldsBelow(below, m) => HoldsBelow(below, m)'
        BY <1>2, <1>3, OrganisationTypes DEF HoldsBelow
    <2>4. unit'[m].state # "none" /\ unit'[to].state # "none"
        BY <1>2, <2>2
    <2> QED
        BY <1>1, <1>3, <2>1, <2>2, <2>3, <2>4 DEF MoveIsSafe
<1>8. AdminRemains' /\ \A k \in Clerks : SomebodyStays(k)'
    BY <1>1 DEF OrganisationInv, AdminRemains, SomebodyStays
<1> QED
    BY <1>4, <1>5, <1>6, <1>7, <1>8 DEF OrganisationInv

\* A unit without children goes; it does not come back.
LEMMA UnitDeleted ==
    ASSUME OrganisationInv, NEW k \in Clerks, WriteDelete(k),
           request[k].unit \in There, Children(request[k].unit) = {}
    PROVE  OrganisationInv'
<1>1. PICK u \in There : u = request[k].unit
    OBVIOUS
<1>2. /\ unit' = [unit EXCEPT ![u].state = "gone", ![u].parent = NoUnit]
      /\ Children(u) = {} /\ crossed' = crossed \ {u}
      /\ place' = [p \in Staff |-> IF place[p] = u THEN NoUnit ELSE place[p]]
      /\ request' = [request EXCEPT ![k] = NoRequest]
      /\ UNCHANGED <<working, emptied>>
    BY <1>1 DEF WriteDelete
<1>3. /\ u \in Units
      /\ \A v \in Units \ {u} : unit'[v] = unit[v]
      /\ unit'[u] \in Rows /\ unit'[u].parent = NoUnit /\ unit'[u].state = "gone"
    BY <1>1, <1>2, OrganisationTypes, ZenonT(60) DEF OrganisationInv, OrganisationTypeOK, Rows
<1>4. There' = There \ {u}
    BY <1>3 DEF There
<1>5. \A j \in Clerks : request'[j] = IF j = k THEN NoRequest ELSE request[j]
    BY <1>2 DEF OrganisationInv, OrganisationTypeOK
<1>6. OrganisationTypeOK'
    <2>1. unit' \in [Units -> Rows] /\ request' \in [Clerks -> Requests]
        BY <1>2, <1>3, <1>5, OrganisationTypes DEF OrganisationInv, OrganisationTypeOK
    <2>2. place' \in [Staff -> Units \cup {NoUnit}]
        BY <1>2 DEF OrganisationInv, OrganisationTypeOK
    <2> QED
        BY <1>2, <2>1, <2>2 DEF OrganisationInv, OrganisationTypeOK
<1>7. ParentsThere'
    <2> SUFFICES ASSUME NEW v \in There' PROVE unit'[v].parent \in There' \cup {NoUnit}
        BY DEF ParentsThere
    <2>1. v \in There /\ v # u /\ unit'[v] = unit[v]
        BY <1>3, <1>4, OrganisationTypes
    <2>2. unit[v].parent # u
        BY <1>2, <2>1 DEF Children
    <2> QED
        BY <1>4, <2>1, <2>2 DEF OrganisationInv, ParentsThere
<1>8. StructureIsTree'
    <2> SUFFICES ASSUME NEW S \in SUBSET (There' \ crossed'), Knot(S)' PROVE FALSE
        BY DEF StructureIsTree
    <2>1. S \subseteq There /\ u \notin S /\ S \subseteq Units /\ S # {}
          /\ \A v \in S : unit'[v].parent \in S
        BY <1>4, OrganisationTypes DEF Knot
    <2>2. S \in SUBSET (There \ crossed) /\ Knot(S)
        BY <1>2, <1>3, <2>1 DEF Knot
    <2> QED
        BY <2>2 DEF OrganisationInv, StructureIsTree
<1>9. ASSUME NEW j \in Clerks PROVE MoveIsSafe(j)'
    <2>0. CASE request'[j].kind # "move"
        BY <2>0 DEF MoveIsSafe
    <2> SUFFICES ASSUME request[j].kind = "move", request'[j] = request[j] PROVE MoveIsSafe(j)'
        BY <1>5, <2>0, OrganisationTypes
    <2>1. PICK m \in Units, to \in Units : m = request[j].unit /\ to = request[j].to
        BY DEF OrganisationInv, MoveIsSafe
    <2>2. /\ unit[m].state # "none" /\ unit[to].state # "none"
          /\ (~request[j].outdated /\ m \in There /\ to \in There =>
                \E below \in SUBSET Units : HoldsBelow(below, m) /\ to \notin below)
        BY <2>1 DEF OrganisationInv, MoveIsSafe
    <2>3. \A below \in SUBSET Units : HoldsBelow(below, m) => HoldsBelow(below, m)'
        BY <1>3, <1>4, OrganisationTypes DEF HoldsBelow
    <2>4. unit'[m].state # "none" /\ unit'[to].state # "none"
        BY <1>3, <2>2
    <2> QED
        BY <1>4, <2>1, <2>2, <2>3, <2>4 DEF MoveIsSafe
<1>10. AdminRemains' /\ \A j \in Clerks : SomebodyStays(j)'
    BY <1>2, <1>5, OrganisationTypes DEF OrganisationInv, AdminRemains, SomebodyStays
<1> QED
    BY <1>6, <1>7, <1>8, <1>9, <1>10 DEF OrganisationInv

-----------------------------------------------------------------------------
(* What does not *)

\* A request takes its place: a check, or its end.
LEMMA RequestTaken ==
    ASSUME OrganisationInv, NEW k \in Clerks, NEW new \in Requests,
           request' = [request EXCEPT ![k] = new], UNCHANGED <<working, crossed, emptied>>,
           unit' \in [Units -> Rows], place' \in [Staff -> Units \cup {NoUnit}],
           \A u \in Units : unit'[u].state = unit[u].state /\ unit'[u].parent = unit[u].parent,
           new.kind = "move" => MoveIsSafe(k)',
           new.kind = "deactivate" => SomebodyStays(k)'
    PROVE  OrganisationInv'
<1>1. request'[k] = new /\ \A j \in Clerks \ {k} : request'[j] = request[j]
    BY DEF OrganisationInv, OrganisationTypeOK
<1>2. OrganisationTypeOK'
    BY DEF OrganisationInv, OrganisationTypeOK
<1>3. ParentsThere' /\ StructureIsTree' /\ \A j \in Clerks \ {k} : MoveIsSafe(j)'
    BY <1>1, TreeUntouched
<1>4. MoveIsSafe(k)' /\ SomebodyStays(k)'
    BY <1>1 DEF MoveIsSafe, SomebodyStays
<1>5. AdminRemains' /\ \A j \in Clerks \ {k} : SomebodyStays(j)'
    BY <1>1 DEF OrganisationInv, AdminRemains, SomebodyStays
<1> QED
    BY <1>2, <1>3, <1>4, <1>5 DEF OrganisationInv

\* The walk: what it did not reach holds the new parent.
LEMMA MoveChecked ==
    ASSUME OrganisationInv, NEW k \in Clerks, NEW u \in Units, NEW to \in Units, CheckMove(k, u, to)
    PROVE  OrganisationInv'
<1> DEFINE new == [NoRequest EXCEPT !.kind = "move", !.unit = u, !.to = to]
<1>1. /\ request' = [request EXCEPT ![k] = new] /\ u \in There /\ to \in There \ {u}
      /\ ~IsDescendant(u, to) /\ UNCHANGED <<unit, place, working, crossed, emptied>>
    BY DEF CheckMove
<1>2. new \in Requests /\ new.kind = "move" /\ new.unit = u /\ new.to = to
    BY DEF Requests, NoRequest
<1> HIDE DEF new
<1>3. PICK below \in SUBSET There :
        (\A v \in There : unit[v].parent \in below \cup {u} => v \in below) /\ to \notin below
    BY <1>1 DEF IsDescendant
<1>4. below \cup {u} \in SUBSET Units /\ HoldsBelow(below \cup {u}, u) /\ to \notin below \cup {u}
    BY <1>1, <1>3, OrganisationTypes DEF HoldsBelow
<1>5. request'[k] = new
    BY <1>1 DEF OrganisationInv, OrganisationTypeOK
<1>6. There' = There /\ HoldsBelow(below \cup {u}, u)'
    BY <1>1, <1>4 DEF There, HoldsBelow
<1>7. unit'[u].state # "none" /\ unit'[to].state # "none"
    BY <1>1, OrganisationTypes
<1>8. MoveIsSafe(k)'
    BY <1>1, <1>2, <1>4, <1>5, <1>6, <1>7 DEF MoveIsSafe
<1> QED
    BY <1>1, <1>2, <1>8, RequestTaken DEF OrganisationInv, OrganisationTypeOK

LEMMA DeactivationChecked ==
    ASSUME OrganisationInv, NEW k \in Clerks, NEW p \in Staff, CheckDeactivate(k, p)
    PROVE  OrganisationInv'
<1> DEFINE new == [NoRequest EXCEPT !.kind = "deactivate", !.who = {p}]
<1>1. /\ request' = [request EXCEPT ![k] = new]
      /\ p \in Admins => (working \cap Admins) \ {p} # {}
      /\ UNCHANGED <<unit, place, working, crossed, emptied>>
    BY DEF CheckDeactivate, AdminsBut
<1>2. new \in Requests /\ new.kind = "deactivate" /\ new.who = {p}
    BY DEF Requests, NoRequest
<1> HIDE DEF new
<1>3. request'[k] = new
    BY <1>1 DEF OrganisationInv, OrganisationTypeOK
<1>4. SomebodyStays(k)'
    BY <1>1, <1>2, <1>3 DEF SomebodyStays
<1> QED
    BY <1>1, <1>2, <1>4, RequestTaken DEF OrganisationInv, OrganisationTypeOK

\* A deactivation that is not outdated leaves somebody, and makes the others outdated.
LEMMA DeactivationWritten ==
    ASSUME OrganisationInv, NEW k \in Clerks, WriteDeactivate(k)
    PROVE  OrganisationInv'
<1>1. /\ request[k].kind = "deactivate" /\ working' = working \ request[k].who
      /\ emptied' = (emptied \/ (request[k].outdated /\ request[k].who \cap Admins # {}))
      /\ request' = OthersOutdated(k, "deactivate") /\ UNCHANGED <<unit, place, crossed>>
    BY DEF WriteDeactivate
<1>2. ASSUME NEW j \in Clerks
      PROVE  /\ request'[j] \in Requests /\ request'[j].kind \in {request[j].kind, "none"}
             /\ request'[j].kind = "deactivate" => request'[j].outdated
             /\ request'[j].kind = "move" => request'[j] = request[j]
    BY <1>1, OrganisationTypes DEF OthersOutdated, Requests
<1>3. request' \in [Clerks -> Requests]
    BY <1>1, <1>2 DEF OthersOutdated
<1>4. OrganisationTypeOK'
    BY <1>1, <1>3 DEF OrganisationInv, OrganisationTypeOK
<1>5. /\ ParentsThere' /\ StructureIsTree'
      /\ \A j \in Clerks : request'[j] = request[j] => MoveIsSafe(j)'
    BY <1>1, TreeUntouched DEF OrganisationInv, OrganisationTypeOK
<1>6. \A j \in Clerks : MoveIsSafe(j)' /\ SomebodyStays(j)'
    BY <1>2, <1>5 DEF MoveIsSafe, SomebodyStays
<1>7. AdminRemains'
    <2>1. request[k].outdated \in BOOLEAN /\ emptied \in BOOLEAN
        BY OrganisationTypes DEF OrganisationInv, OrganisationTypeOK, Requests
    <2>2. CASE request[k].who \cap Admins = {}
        BY <1>1, <2>1, <2>2 DEF OrganisationInv, AdminRemains
    <2>3. CASE request[k].who \cap Admins # {} /\ ~request[k].outdated
        BY <1>1, <2>1, <2>3 DEF OrganisationInv, SomebodyStays, AdminRemains
    <2>4. CASE request[k].who \cap Admins # {} /\ request[k].outdated
        BY <1>1, <2>1, <2>4 DEF AdminRemains
    <2> QED
        BY <2>1, <2>2, <2>3, <2>4
<1> QED
    BY <1>4, <1>5, <1>6, <1>7 DEF OrganisationInv

LEMMA PersonBack ==
    ASSUME OrganisationInv, NEW p \in Staff, Reactivate(p)
    PROVE  OrganisationInv'
<1>1. /\ working' = working \cup {p} /\ emptied' = (emptied /\ p \notin Admins)
      /\ UNCHANGED <<unit, place, request, crossed>>
    BY DEF Reactivate
<1>2. OrganisationTypeOK'
    BY <1>1 DEF OrganisationInv, OrganisationTypeOK
<1>3. ParentsThere' /\ StructureIsTree' /\ \A j \in Clerks : MoveIsSafe(j)'
    BY <1>1, TreeUntouched DEF OrganisationInv, OrganisationTypeOK
<1>4. \A j \in Clerks : SomebodyStays(j)'
    BY <1>1 DEF OrganisationInv, SomebodyStays
<1>5. AdminRemains'
    BY <1>1 DEF OrganisationInv, AdminRemains
<1> QED
    BY <1>2, <1>3, <1>4, <1>5 DEF OrganisationInv

LEMMA OrganisationSteps ==
    ASSUME OrganisationInv, [OrganisationNext]_organisationVars
    PROVE  OrganisationInv'
<1>1. CASE UNCHANGED organisationVars
    <2>1. UNCHANGED <<unit, place, working, request, crossed, emptied>>
        BY <1>1 DEF organisationVars
    <2>2. OrganisationTypeOK' /\ AdminRemains' /\ \A j \in Clerks : SomebodyStays(j)'
        BY <2>1 DEF OrganisationInv, OrganisationTypeOK, AdminRemains, SomebodyStays
    <2>3. ParentsThere' /\ StructureIsTree' /\ \A j \in Clerks : MoveIsSafe(j)'
        BY <2>1, TreeUntouched DEF OrganisationInv, OrganisationTypeOK
    <2> QED
        BY <2>2, <2>3 DEF OrganisationInv
<1>2. CASE \E u \in Units, to \in Units \cup {NoUnit} : CreateDepartment(u, to)
    BY <1>2, UnitCreated
<1>3. CASE \E k \in Clerks, u \in Units, to \in Units : CheckMove(k, u, to)
    BY <1>3, MoveChecked
<1>4. CASE \E u \in Units : MoveToRoot(u)
    BY <1>4, UnitRooted
<1>5. ASSUME NEW k \in Clerks, NEW u \in Units, CheckRestore(k, u) \/ CheckDelete(k, u)
      PROVE  OrganisationInv'
    <2>1. PICK new \in Requests : request' = [request EXCEPT ![k] = new]
                                   /\ new.kind \in {"restore", "delete"}
        <3>1. /\ [NoRequest EXCEPT !.kind = "restore", !.unit = u] \in Requests
              /\ [NoRequest EXCEPT !.kind = "delete", !.unit = u] \in Requests
              /\ [NoRequest EXCEPT !.kind = "restore", !.unit = u].kind = "restore"
              /\ [NoRequest EXCEPT !.kind = "delete", !.unit = u].kind = "delete"
            BY DEF NoRequest, Requests
        <3> QED
            BY <1>5, <3>1 DEF CheckRestore, CheckDelete
    <2>2. UNCHANGED <<unit, place, working, crossed, emptied>>
        BY <1>5 DEF CheckRestore, CheckDelete
    <2> QED
        BY <2>1, <2>2, RequestTaken DEF OrganisationInv, OrganisationTypeOK
<1>6. ASSUME NEW k \in Clerks, WriteMove(k) PROVE OrganisationInv'
    <2>1. CASE ~(request[k].unit \in There /\ request[k].to \in There)
        <3>1. request' = [request EXCEPT ![k] = NoRequest]
              /\ UNCHANGED <<unit, place, working, crossed, emptied>>
            BY <1>6, <2>1 DEF WriteMove
        <3> QED
            BY <3>1, RequestTaken, OrganisationTypes DEF OrganisationInv, OrganisationTypeOK
    <2> QED
        BY <1>6, <2>1, UnitMoved
<1>7. ASSUME NEW k \in Clerks, WriteDelete(k) PROVE OrganisationInv'
    <2>1. CASE ~(request[k].unit \in There /\ Children(request[k].unit) = {})
        <3>1. request' = [request EXCEPT ![k] = NoRequest]
              /\ UNCHANGED <<unit, place, working, crossed, emptied>>
            BY <1>7, <2>1 DEF WriteDelete
        <3> QED
            BY <3>1, RequestTaken, OrganisationTypes DEF OrganisationInv, OrganisationTypeOK
    <2> QED
        BY <1>7, <2>1, UnitDeleted
<1>8. ASSUME NEW k \in Clerks, WriteRestore(k) PROVE OrganisationInv'
    <2>1. unit' \in [Units -> Rows]
          /\ \A u \in Units : unit'[u].state = unit[u].state /\ unit'[u].parent = unit[u].parent
        <3>1. CASE request[k].unit \in There
            <4>1. PICK u \in Units : u = request[k].unit
                BY <3>1, OrganisationTypes
            <4>2. unit' = [unit EXCEPT ![u].active = TRUE]
                BY <1>8, <3>1, <4>1 DEF WriteRestore
            <4> QED
                BY <4>2, OrganisationTypes, ZenonT(60) DEF OrganisationInv, OrganisationTypeOK, Rows
        <3>2. CASE request[k].unit \notin There
            BY <1>8, <3>2 DEF WriteRestore, OrganisationInv, OrganisationTypeOK
        <3> QED
            BY <3>1, <3>2
    <2>2. request' = [request EXCEPT ![k] = NoRequest] /\ UNCHANGED <<place, working, crossed, emptied>>
        BY <1>8 DEF WriteRestore
    <2> QED
        BY <2>1, <2>2, RequestTaken, OrganisationTypes DEF OrganisationInv, OrganisationTypeOK
<1>9. ASSUME NEW u \in Units, ArchiveDepartment(u) PROVE OrganisationInv'
    <2>1. /\ unit' \in [Units -> Rows]
          /\ \A v \in Units : unit'[v].state = unit[v].state /\ unit'[v].parent = unit[v].parent
        BY <1>9, OrganisationTypes DEF ArchiveDepartment, OrganisationInv, OrganisationTypeOK, Rows
    <2>2. UNCHANGED <<place, working, request, crossed, emptied>>
        BY <1>9 DEF ArchiveDepartment
    <2>3. ParentsThere' /\ StructureIsTree' /\ \A j \in Clerks : MoveIsSafe(j)'
        BY <2>1, <2>2, TreeUntouched
    <2>4. OrganisationTypeOK' /\ AdminRemains' /\ \A j \in Clerks : SomebodyStays(j)'
        BY <2>1, <2>2 DEF OrganisationInv, OrganisationTypeOK, AdminRemains, SomebodyStays
    <2> QED
        BY <2>3, <2>4 DEF OrganisationInv
<1>10. ASSUME NEW p \in Staff, NEW u \in Units \cup {NoUnit}, PlacePerson(p, u) PROVE OrganisationInv'
    <2>1. UNCHANGED <<unit, working, request, crossed, emptied>>
          /\ place' \in [Staff -> Units \cup {NoUnit}]
        BY <1>10 DEF PlacePerson, OrganisationInv, OrganisationTypeOK
    <2>2. ParentsThere' /\ StructureIsTree' /\ \A j \in Clerks : MoveIsSafe(j)'
        BY <2>1, TreeUntouched DEF OrganisationInv, OrganisationTypeOK
    <2>3. OrganisationTypeOK' /\ AdminRemains' /\ \A j \in Clerks : SomebodyStays(j)'
        BY <2>1 DEF OrganisationInv, OrganisationTypeOK, AdminRemains, SomebodyStays
    <2> QED
        BY <2>2, <2>3 DEF OrganisationInv
<1>11. CASE MembershipNext
    BY <1>11, DeactivationChecked, DeactivationWritten, PersonBack DEF MembershipNext
<1>12. ASSUME NEW k \in Clerks, GiveUp(k) PROVE OrganisationInv'
    BY <1>12, RequestTaken, OrganisationTypes DEF GiveUp, OrganisationInv, OrganisationTypeOK
<1> QED
    BY <1>1, <1>2, <1>3, <1>4, <1>5, <1>6, <1>7, <1>8, <1>9, <1>10, <1>11, <1>12
       DEF OrganisationNext, StructureNext

\* The structure is a tree, for any number of overlapping requests, but for moves
\* written on an outdated walk.
THEOREM TreeStands == OrganisationSpec => []StructureIsTree
<1>1. OrganisationInv => StructureIsTree
    BY DEF OrganisationInv
<1> QED
    BY <1>1, OrganisationStart, OrganisationSteps, PTL DEF OrganisationSpec

\* An administrator remains, but for deactivations written on an outdated count.
THEOREM SomebodyAdministers == OrganisationSpec => []AdminRemains
<1>1. OrganisationInv => AdminRemains
    BY DEF OrganisationInv
<1> QED
    BY <1>1, OrganisationStart, OrganisationSteps, PTL DEF OrganisationSpec
==============================================================================
