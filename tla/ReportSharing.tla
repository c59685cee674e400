---------------------------- MODULE ReportSharing ----------------------------
(***************************************************************************)
(* One organisation's report shown to another, and reports sent on a timer: *)
(* domain/reports' service.go behind modules/reports' handlers.             *)
(*                                                                         *)
(* An organisation asks, by registration number, to see another's report;   *)
(* the owner of the rows agrees; either ends it.  The rows of grants and    *)
(* schedules, the register of organisations and the engine that produces a  *)
(* report are the platform's, taken from how this code uses them: a report  *)
(* that cannot filter by counterparty shows all its rows.  An organisation  *)
(* may change its registration number and its applications at any time,     *)
(* between the reads of a request too.                                      *)
(***************************************************************************)
EXTENDS Integers, FiniteSets, Sequences

CONSTANTS
    Organisations,
    Askers,        \* those of them that ask to see another's report
    Numbers,       \* registration numbers
    Reports,       \* the catalogue's keys
    ScopesOf,      \* the scopes a report was written for
    AppOf,         \* the application a report belongs to
    Addresses,
    MaxRecipients,
    Schedules,     \* identifiers of schedules
    MaxGrants      \* bound: requests that are recorded

Scopes == {"counterparty", "full"}

ASSUME ReportsAssumption ==
    /\ ScopesOf \in [Reports -> SUBSET Scopes]
    /\ AppOf \in [Reports -> STRING] /\ Askers \subseteq Organisations
    /\ MaxRecipients \in Nat /\ MaxGrants \in Nat

VARIABLES
    number,        \* the registration number of an organisation
    held,          \* every number an organisation has had
    installed,     \* its applications
    asking,        \* RequestGrant at work, one for each asking organisation
    grants,        \* the agreements, in the order they were asked for
    running,       \* RunConsolidated past its guard: an organisation and a report
    disclosed,     \* what the last run showed: whose rows to whom, about which number
    schedule,      \* the rows of schedules
    saving         \* CreateSchedule or UpdateSchedule past its checks, one for each

sharingVars == <<asking, grants, running, disclosed>>
scheduleVars == <<schedule, saving>>
reportVars == <<number, held, installed, sharingVars, scheduleVars>>

-----------------------------------------------------------------------------
(* Rows *)

NoNumber == ""
Everything == "everything"
Unset == [stage |-> "none"]
NoSchedule == [owner |-> "nobody"]

OwnNumbers == Numbers \cup {NoNumber}
Askings == [stage : {"found", "ready"}, grantor : Organisations, report : Reports,
             scope : Scopes, ref : OwnNumbers]

GrantRows == [grantor : Organisations, grantee : Organisations, report : Reports,
              scope : Scopes, ref : OwnNumbers, accepted : BOOLEAN, revoked : BOOLEAN]

ScheduleRows == [owner : Organisations, report : Reports, recipients : SUBSET Addresses]

Savings == [stage : {"checked"}, id : Schedules, row : ScheduleRows]

ReportsTypeOK ==
    /\ number \in [Organisations -> OwnNumbers]
    /\ held \in [Organisations -> SUBSET Numbers]
    /\ installed \in [Organisations -> SUBSET {AppOf[k] : k \in Reports}]
    /\ asking \in [Organisations -> Askings \cup {Unset}]
    /\ grants \in Seq(GrantRows) /\ Len(grants) <= MaxGrants
    /\ running \subseteq Organisations \X Reports
    /\ disclosed \subseteq [reader : Organisations, owner : Organisations, report : Reports,
                        about : Numbers \cup {Everything}]
    /\ schedule \in [Schedules -> ScheduleRows \cup {NoSchedule}]
    /\ saving \in [Organisations -> Savings \cup {Unset}]

ReportsInit ==
    /\ number = [o \in Organisations |-> NoNumber]
    /\ held = [o \in Organisations |-> {}]
    /\ installed = [o \in Organisations |-> {}]
    /\ asking = [o \in Organisations |-> Unset]
    /\ grants = <<>>
    /\ running = {} /\ disclosed = {}
    /\ schedule = [s \in Schedules |-> NoSchedule]
    /\ saving = [o \in Organisations |-> Unset]

-----------------------------------------------------------------------------
(* The platform *)

\* An organisation edits its profile; no two have a number at once.
EditNumber(o, n) ==
    /\ n = NoNumber \/ \A p \in Organisations : number[p] # n
    /\ number' = [number EXCEPT ![o] = n]
    /\ held' = [held EXCEPT ![o] = @ \cup ({n} \ {NoNumber})]
    /\ UNCHANGED <<installed, sharingVars, scheduleVars>>

InstallOrRemove(o, app) ==
    /\ installed' = [installed EXCEPT ![o] =
                       IF app \in @ THEN @ \ {app} ELSE @ \cup {app}]
    /\ UNCHANGED <<number, held, sharingVars, scheduleVars>>

visible(o, k) == AppOf[k] \in installed[o]

-----------------------------------------------------------------------------
(* RequestGrant *)

Supports(k, scope) == scope \in ScopesOf[k]

\* Slip: the scope is one of the two, and nobody asks whether the report has it.
AskUnsupported(o, k, scope, n) ==
    /\ asking[o] = Unset
    /\ \E grantor \in Organisations \ {o} :
         /\ number[grantor] = n
         /\ asking' = [asking EXCEPT ![o] =
                          [stage |-> "found", grantor |-> grantor, report |-> k,
                           scope |-> scope, ref |-> NoNumber]]
    /\ UNCHANGED <<number, held, installed, grants, running, disclosed, scheduleVars>>

\* The report can be shared so, and the number is another organisation's.
Ask(o, k, scope, n) ==
    /\ asking[o] = Unset
    /\ Supports(k, scope)
    /\ \E grantor \in Organisations \ {o} :
         /\ number[grantor] = n
         /\ asking' = [asking EXCEPT ![o] =
                          [stage |-> "found", grantor |-> grantor, report |-> k,
                           scope |-> scope, ref |-> NoNumber]]
    /\ UNCHANGED <<number, held, installed, grants, running, disclosed, scheduleVars>>

\* RegistrationOf: whose rows a counterparty may see is decided here, once.
ReadOwnNumber(o) ==
    /\ asking[o] # Unset /\ asking[o].stage = "found"
    /\ asking' = [asking EXCEPT ![o] =
         IF @.scope = "full" THEN [@ EXCEPT !.stage = "ready"]
         ELSE IF number[o] # NoNumber THEN [@ EXCEPT !.stage = "ready", !.ref = number[o]]
         ELSE Unset]
    /\ UNCHANGED <<number, held, installed, grants, running, disclosed, scheduleVars>>

\* One agreement that is not revoked for two organisations and a report.
Exists(o, new) ==
    \E g \in DOMAIN grants :
        /\ grants[g].grantee = o /\ ~grants[g].revoked
        /\ grants[g].grantor = new.grantor /\ grants[g].report = new.report

CreateGrant(o) ==
    /\ asking[o] # Unset /\ asking[o].stage = "ready"
    /\ asking' = [asking EXCEPT ![o] = Unset]
    /\ IF Exists(o, asking[o]) THEN UNCHANGED grants
       ELSE /\ Len(grants) < MaxGrants
            /\ grants' = Append(grants,
                 [grantor |-> asking[o].grantor, grantee |-> o, report |-> asking[o].report,
                  scope |-> asking[o].scope, ref |-> asking[o].ref,
                  accepted |-> FALSE, revoked |-> FALSE])
    /\ UNCHANGED <<number, held, installed, running, disclosed, scheduleVars>>

RequestGrant(o, these) ==
    \/ \E k \in these, scope \in Scopes, n \in Numbers : Ask(o, k, scope, n)
    \/ ReadOwnNumber(o)
    \/ CreateGrant(o)

-----------------------------------------------------------------------------
(* AcceptGrant and RevokeGrant *)

Pending(g) == ~grants[g].accepted /\ ~grants[g].revoked

\* Slip: any party to the request may accept it.
AcceptByEither(o, g) ==
    /\ o \in {grants[g].grantor, grants[g].grantee} /\ Pending(g)
    /\ grants' = [grants EXCEPT ![g].accepted = TRUE]
    /\ UNCHANGED <<number, held, installed, asking, running, disclosed, scheduleVars>>

\* Only the owner of the rows.
AcceptGrant(o, g) ==
    /\ o = grants[g].grantor /\ Pending(g)
    /\ grants' = [grants EXCEPT ![g].accepted = TRUE]
    /\ UNCHANGED <<number, held, installed, asking, running, disclosed, scheduleVars>>

\* Either side; the row stays.
RevokeGrant(o, g) ==
    /\ o \in {grants[g].grantor, grants[g].grantee} /\ ~grants[g].revoked
    /\ grants' = [grants EXCEPT ![g].revoked = TRUE]
    /\ UNCHANGED <<number, held, installed, asking, running, disclosed, scheduleVars>>

-----------------------------------------------------------------------------
(* handleRunConsolidated *)

\* resolve: the report's application is installed here.
Resolve(o, k) ==
    /\ visible(o, k)
    /\ running' = running \cup {<<o, k>>}
    /\ UNCHANGED <<number, held, installed, asking, grants, disclosed, scheduleVars>>

\* The grant's own reference filters, in a report that can.
About(g) ==
    IF g.scope = "counterparty" /\ "counterparty" \in ScopesOf[g.report]
    THEN g.ref ELSE Everything

\* Agreements in force now, not when the guard was passed; some may have lapsed.
InForce(o, k) ==
    {g \in DOMAIN grants : /\ grants[g].grantee = o /\ grants[g].report = k
                           /\ grants[g].accepted /\ ~grants[g].revoked}

\* A run that shows nothing and one that fails leave the same behind.
RunConsolidated(o, k) ==
    /\ <<o, k>> \in running
    /\ running' = running \ {<<o, k>>}
    /\ \E used \in SUBSET InForce(o, k) :
         disclosed' = {[reader |-> o, owner |-> grants[g].grantor, report |-> k,
                        about |-> About(grants[g])] : g \in used}
    /\ UNCHANGED <<number, held, installed, asking, grants, scheduleVars>>

-----------------------------------------------------------------------------
(* Schedules *)

\* normalizeRecipients: somebody, no one twice, and not too many.
normalizeRecipients == {given \in SUBSET Addresses :
                          given # {} /\ Cardinality(given) <= MaxRecipients}

\* check, for a new row and for one of its own.
CheckSchedule(o, s, k, recipients) ==
    /\ saving[o] = Unset
    /\ visible(o, k)
    /\ recipients \in normalizeRecipients
    /\ saving' = [saving EXCEPT ![o] =
                    [stage |-> "checked", id |-> s,
                     row |-> [owner |-> o, report |-> k, recipients |-> recipients]]]
    /\ UNCHANGED <<number, held, installed, sharingVars, schedule>>

\* The check is not asked again; a row that is another's is not found.
CreateSchedule(o) ==
    /\ saving[o] # Unset /\ schedule[saving[o].id] = NoSchedule
    /\ schedule' = [schedule EXCEPT ![saving[o].id] = saving[o].row]
    /\ saving' = [saving EXCEPT ![o] = Unset]
    /\ UNCHANGED <<number, held, installed, sharingVars>>

UpdateSchedule(o) ==
    /\ saving[o] # Unset
    /\ schedule' = IF schedule[saving[o].id].owner = o
                   THEN [schedule EXCEPT ![saving[o].id] = saving[o].row] ELSE schedule
    /\ saving' = [saving EXCEPT ![o] = Unset]
    /\ UNCHANGED <<number, held, installed, sharingVars>>

DeleteSchedule(o, s) ==
    /\ schedule[s].owner = o
    /\ schedule' = [schedule EXCEPT ![s] = NoSchedule]
    /\ UNCHANGED <<number, held, installed, sharingVars, saving>>

-----------------------------------------------------------------------------
PlatformNext ==
    \/ \E o \in Organisations, n \in OwnNumbers : EditNumber(o, n)
    \/ \E o \in Organisations, k \in Reports : InstallOrRemove(o, AppOf[k])

\* What may happen while only these reports are asked for.
SharingOver(these) ==
    \/ \E o \in Askers : RequestGrant(o, these)
    \/ \E o \in Organisations, g \in DOMAIN grants : AcceptGrant(o, g) \/ RevokeGrant(o, g)
    \/ \E o \in Askers, k \in these : Resolve(o, k) \/ RunConsolidated(o, k)

SchedulesNext ==
    \/ \E o \in Organisations, s \in Schedules, k \in Reports, to \in SUBSET Addresses :
         CheckSchedule(o, s, k, to)
    \/ \E o \in Organisations : CreateSchedule(o) \/ UpdateSchedule(o)
    \/ \E o \in Organisations, s \in Schedules : DeleteSchedule(o, s)

ReportsNext == PlatformNext \/ SharingOver(Reports) \/ SchedulesNext

ReportsSpec == ReportsInit /\ [][ReportsNext]_reportVars

-----------------------------------------------------------------------------
(* Properties *)

\* Nobody sees another's rows unless the owner agreed to that report for them, and
\* under a counterparty's agreement they see rows about a number they themselves
\* had, whatever they or others call themselves by then: the scope never widens.
\* RequestGrant's checks and reference, AcceptGrant, and an edit of the profile
\* between any two of them.
SharedIsAgreed ==
    \A r \in disclosed : \E g \in DOMAIN grants :
        /\ grants[g].grantor = r.owner /\ grants[g].grantee = r.reader
        /\ grants[g].report = r.report /\ grants[g].accepted
        /\ r.owner # r.reader
        /\ grants[g].scope = "counterparty" => r.about \in held[r.reader]
=============================================================================
