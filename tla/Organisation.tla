----------------------------- MODULE Organisation -----------------------------
(***************************************************************************)
(* The structure of one organisation and its people: domain/organisation   *)
(* and modules/organisation.                                               *)
(*                                                                         *)
(* The service holds no state and no transaction: whatever it refuses it    *)
(* decides from one statement and writes in another, and requests overlap   *)
(* in between.  What the schema refuses it refuses at the write.  Names,    *)
(* codes, managers and job titles are left out.                             *)
(***************************************************************************)
EXTENDS Naturals, FiniteSets

CONSTANTS
    Units,       \* bound: departments ever created; an id is not used twice
    NoUnit,
    Staff,       \* memberships
    Admins,      \* those among them that administer; roles are the platform's
    Clerks       \* requests that may overlap

ASSUME OrganisationAssumption == NoUnit \notin Units /\ Admins \subseteq Staff

VARIABLES
    unit,        \* departments
    place,       \* organisation_people.department_id
    working,     \* memberships that are active
    request,     \* what was checked and is not written yet
    crossed,     \* units put where they are by a move whose walk was outdated
    emptied      \* whether a deactivation was written on an outdated count

organisationVars == <<unit, place, working, request, crossed, emptied>>

-----------------------------------------------------------------------------
(* The tables *)

Rows == [state : {"none", "there", "gone"}, parent : Units \cup {NoUnit}, active : BOOLEAN]
There == {u \in Units : unit[u].state = "there"}

\* outdated: a write since the check that the check did not see.
Requests == [kind : {"none", "move", "restore", "delete", "deactivate"}, unit : Units \cup {NoUnit},
             to : Units \cup {NoUnit}, who : SUBSET Staff, outdated : BOOLEAN]
NoRequest == [kind |-> "none", unit |-> NoUnit, to |-> NoUnit, who |-> {}, outdated |-> FALSE]

OrganisationTypeOK ==
    /\ unit \in [Units -> Rows]
    /\ place \in [Staff -> Units \cup {NoUnit}]
    /\ working \in SUBSET Staff
    /\ request \in [Clerks -> Requests]
    /\ crossed \in SUBSET Units
    /\ emptied \in BOOLEAN

OrganisationInit ==
    /\ unit = [u \in Units |-> [state |-> "none", parent |-> NoUnit, active |-> TRUE]]
    /\ place = [p \in Staff |-> NoUnit]
    /\ working = Staff
    /\ request = [k \in Clerks |-> NoRequest]
    /\ crossed = {}
    /\ emptied = FALSE

Children(u) == {v \in There : unit[v].parent = u}

\* IsDescendant: c is in every set of units that holds the children of u and the
\* children of its own members.
IsDescendant(u, c) ==
    \A below \in SUBSET There :
        (\A v \in There : unit[v].parent \in below \cup {u} => v \in below) => c \in below

\* The walk does not come to an end where a knot is reached from u.
WalkEnds(u) == ~IsDescendant(u, u) /\ \A v \in There : IsDescendant(u, v) => ~IsDescendant(v, v)

\* CountAdmins: the active administrators but one.
AdminsBut(p) == (working \cap Admins) \ {p}

\* A write of one request makes what the others of its kind have read outdated.
OthersOutdated(k, kind) ==
    [j \in Clerks |-> IF j = k THEN NoRequest
                      ELSE IF request[j].kind = kind THEN [request[j] EXCEPT !.outdated = TRUE]
                      ELSE request[j]]

-----------------------------------------------------------------------------
(* Departments *)

\* CreateDepartment: the composite foreign key is the check of the parent.
CreateDepartment(u, parent) ==
    /\ unit[u].state = "none"
    /\ parent \in There \cup {NoUnit}
    /\ unit' = [unit EXCEPT ![u] = [state |-> "there", parent |-> parent, active |-> TRUE]]
    /\ UNCHANGED <<place, working, request, crossed, emptied>>

\* Slip: only the self-parent is refused.
MoveUnwalked(k, u, to) ==
    /\ request[k].kind = "none"
    /\ u \in There /\ to \in There \ {u}
    /\ request' = [request EXCEPT ![k] = [NoRequest EXCEPT !.kind = "move", !.unit = u, !.to = to]]
    /\ UNCHANGED <<unit, place, working, crossed, emptied>>

\* UpdateDepartment as far as the walk.
CheckMove(k, u, to) ==
    /\ request[k].kind = "none"
    /\ u \in There /\ to \in There \ {u}
    /\ WalkEnds(u) /\ ~IsDescendant(u, to)
    /\ request' = [request EXCEPT ![k] = [NoRequest EXCEPT !.kind = "move", !.unit = u, !.to = to]]
    /\ UNCHANGED <<unit, place, working, crossed, emptied>>

\* Its UPDATE; a unit or a parent that is gone by now ends the request.
WriteMove(k) ==
    /\ request[k].kind = "move"
    /\ LET u == request[k].unit
       IN  IF u \in There /\ request[k].to \in There
           THEN /\ unit' = [unit EXCEPT ![u].parent = request[k].to]
                /\ crossed' = IF request[k].outdated THEN crossed \cup {u} ELSE crossed \ {u}
                /\ request' = OthersOutdated(k, "move")
           ELSE /\ request' = [request EXCEPT ![k] = NoRequest]
                /\ UNCHANGED <<unit, crossed>>
    /\ UNCHANGED <<place, working, emptied>>

\* An edit with no parent: nothing is walked and the unit becomes a root.
MoveToRoot(u) ==
    /\ u \in There
    /\ unit' = [unit EXCEPT ![u].parent = NoUnit]
    /\ crossed' = crossed \ {u}
    /\ UNCHANGED <<place, working, request, emptied>>

\* SetDepartmentArchived: going is never refused.
ArchiveDepartment(u) ==
    /\ u \in There
    /\ unit' = [unit EXCEPT ![u].active = FALSE]
    /\ UNCHANGED <<place, working, request, crossed, emptied>>

\* Coming back asks about the parent first.
CheckRestore(k, u) ==
    /\ request[k].kind = "none"
    /\ u \in There
    /\ unit[u].parent # NoUnit => unit[unit[u].parent].active
    /\ request' = [request EXCEPT ![k] = [NoRequest EXCEPT !.kind = "restore", !.unit = u]]
    /\ UNCHANGED <<unit, place, working, crossed, emptied>>

WriteRestore(k) ==
    /\ request[k].kind = "restore"
    /\ unit' = IF request[k].unit \in There THEN [unit EXCEPT ![request[k].unit].active = TRUE]
               ELSE unit
    /\ request' = [request EXCEPT ![k] = NoRequest]
    /\ UNCHANGED <<place, working, crossed, emptied>>

\* DeleteDepartment as far as CountChildren.
CheckDelete(k, u) ==
    /\ request[k].kind = "none"
    /\ u \in There
    /\ Children(u) = {} /\ \A p \in Staff : place[p] # u
    /\ request' = [request EXCEPT ![k] = [NoRequest EXCEPT !.kind = "delete", !.unit = u]]
    /\ UNCHANGED <<unit, place, working, crossed, emptied>>

\* Its DELETE.  A child that came meanwhile makes it fail: the foreign key would
\* null the tenant as well.  A person that came meanwhile loses the department.
WriteDelete(k) ==
    /\ request[k].kind = "delete"
    /\ request' = [request EXCEPT ![k] = NoRequest]
    /\ LET u == request[k].unit
       IN  IF u \in There /\ Children(u) = {}
           THEN /\ unit' = [unit EXCEPT ![u].state = "gone", ![u].parent = NoUnit]
                /\ place' = [p \in Staff |-> IF place[p] = u THEN NoUnit ELSE place[p]]
                /\ crossed' = crossed \ {u}
           ELSE UNCHANGED <<unit, place, crossed>>
    /\ UNCHANGED <<working, emptied>>

-----------------------------------------------------------------------------
(* People *)

\* UpdatePerson: one upsert, checked by the foreign key alone.
PlacePerson(p, u) ==
    /\ u \in There \cup {NoUnit}
    /\ place' = [place EXCEPT ![p] = u]
    /\ UNCHANGED <<unit, working, request, crossed, emptied>>

\* Slip: the one who leaves is counted among those who remain.
CheckDeactivateCounting(k, p) ==
    /\ request[k].kind = "none"
    /\ p \in Admins => working \cap Admins # {}
    /\ request' = [request EXCEPT ![k] = [NoRequest EXCEPT !.kind = "deactivate", !.who = {p}]]
    /\ UNCHANGED <<unit, place, working, crossed, emptied>>

\* SetPersonActive(false) as far as CountAdmins.  That nobody deactivates
\* themselves restricts who asks, not whom it may be about.
CheckDeactivate(k, p) ==
    /\ request[k].kind = "none"
    /\ p \in Admins => AdminsBut(p) # {}
    /\ request' = [request EXCEPT ![k] = [NoRequest EXCEPT !.kind = "deactivate", !.who = {p}]]
    /\ UNCHANGED <<unit, place, working, crossed, emptied>>

\* nexus.Directory's SetActive.
WriteDeactivate(k) ==
    /\ request[k].kind = "deactivate"
    /\ working' = working \ request[k].who
    /\ emptied' = (emptied \/ (request[k].outdated /\ request[k].who \cap Admins # {}))
    /\ request' = OthersOutdated(k, "deactivate")
    /\ UNCHANGED <<unit, place, crossed>>

Reactivate(p) ==
    /\ working' = working \cup {p}
    /\ emptied' = (emptied /\ p \notin Admins)
    /\ UNCHANGED <<unit, place, request, crossed>>

\* The caller is gone, or the process, between the two statements.
GiveUp(k) ==
    /\ request[k].kind # "none"
    /\ request' = [request EXCEPT ![k] = NoRequest]
    /\ UNCHANGED <<unit, place, working, crossed, emptied>>

-----------------------------------------------------------------------------
StructureNext ==
    \/ \E u \in Units, to \in Units \cup {NoUnit} : CreateDepartment(u, to)
    \/ \E k \in Clerks, u \in Units, to \in Units : CheckMove(k, u, to)
    \/ \E k \in Clerks, u \in Units : CheckRestore(k, u) \/ CheckDelete(k, u)
    \/ \E k \in Clerks : WriteMove(k) \/ WriteRestore(k) \/ WriteDelete(k)
    \/ \E u \in Units : MoveToRoot(u) \/ ArchiveDepartment(u)
    \/ \E p \in Staff, u \in Units \cup {NoUnit} : PlacePerson(p, u)

MembershipNext ==
    \/ \E k \in Clerks, p \in Staff : CheckDeactivate(k, p)
    \/ \E k \in Clerks : WriteDeactivate(k)
    \/ \E p \in Staff : Reactivate(p)

OrganisationNext == StructureNext \/ MembershipNext \/ \E k \in Clerks : GiveUp(k)

OrganisationSpec == OrganisationInit /\ [][OrganisationNext]_organisationVars

-----------------------------------------------------------------------------
(* Properties *)

\* A set of units that holds the parent of each of its members has a knot.
Knot(S) == S # {} /\ \A u \in S : unit[u].parent \in S

\* The structure stays a tree: UpdateDepartment's walk and its UPDATE are two
\* statements, and units are created, deleted and made roots between them.  Only
\* two moves that overlap can tie a knot, and it then goes through a unit that
\* was moved on an outdated walk.
StructureIsTree == \A S \in SUBSET (There \ crossed) : ~Knot(S)

\* Somebody can administer the organisation, unless two deactivations overlapped:
\* reactivations and everything else may come between the count and the write.
AdminRemains == Admins # {} => emptied \/ working \cap Admins # {}
=============================================================================
