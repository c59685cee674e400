------------------------------- MODULE MCAround -------------------------------
(****************************************************************************)
(* A link that comes to be, the codes that are announced over it, the       *)
(* registers of tasks and the documents a task refers to, the structure of  *)
(* an organisation, a connector to an outside account, the events sent to   *)
(* subscribers, and reports shown to others or sent on a timer.  They share *)
(* no state, nor do the units of an organisation and its memberships, or    *)
(* agreements and schedules, or codes, or reports: in a behaviour of        *)
(* this module one of them is at work and the others stand still.           *)
(****************************************************************************)
EXTENDS UrtuuPeering, UrtuuCodes, UrtuuNumbers, UrtuuEvidence, Organisation,
        IntegrationGrants, IntegrationDeliveries, ReportSharing, TLC

VARIABLE atWork

\* The components have these names in common, so that one symmetry serves all.
Alike == Permutations(Units) \cup Permutations(Clerks)

\* One report is about counterparties and one is not; one application has both.
WrittenFor == [k \in Reports |-> IF k = "trips" THEN {"counterparty"} ELSE {"full"}]
Fleet == [k \in Reports |-> "fleet"]

urtuuVars == <<peeringVars, codesVars, numbersVars, evidenceVars>>
integrationVars == <<grantVars, deliveryVars>>

AroundInit ==
    /\ PeeringInit /\ CodesInit /\ NumbersInit /\ EvidenceInit
    /\ OrganisationInit /\ GrantsInit /\ DeliveriesInit /\ ReportsInit
    /\ atWork \in {"peering", "authored", "published", "numbers", "evidence",
                   "units", "people", "grants", "deliveries", "schedules"} \cup Reports
    /\ atWork # "evidence" => ~mirror /\ \A d \in Foreign : arrived[d] = "unsigned"

UrtuuNext ==
    \/ atWork = "peering" /\ PeeringNext /\ UNCHANGED <<codesVars, numbersVars, evidenceVars>>
    \/ /\ \/ atWork = "authored" /\ CodesOver(Local)
          \/ atWork = "published" /\ CodesOver(Codes \ Local)
       /\ UNCHANGED <<peeringVars, numbersVars, evidenceVars>>
    \/ atWork = "numbers" /\ NumbersNext /\ UNCHANGED <<peeringVars, codesVars, evidenceVars>>
    \/ atWork = "evidence" /\ EvidenceNext /\ UNCHANGED <<peeringVars, codesVars, numbersVars>>

OrganisationStep ==
    \/ atWork = "units" /\ StructureNext
    \/ atWork = "people" /\ MembershipNext
    \/ atWork \in {"units", "people"} /\ \E k \in Clerks : GiveUp(k)

IntegrationsNext ==
    \/ atWork = "grants" /\ GrantsNext /\ UNCHANGED deliveryVars
    \/ atWork = "deliveries" /\ DeliveriesNext /\ UNCHANGED grantVars

ReportsStep ==
    \/ atWork \in Reports /\ SharingOver({atWork})
    \/ atWork \in Reports /\ \E o \in Organisations, n \in OwnNumbers : EditNumber(o, n)
    \/ atWork \in Reports \cup {"schedules"}
         /\ \E o \in Askers, k \in Reports : InstallOrRemove(o, AppOf[k])
    \/ atWork = "schedules" /\ SchedulesNext

\* Bounds: one unit is archived and one person placed at a time, and of the requests
\* that overlap one at most restores or deletes.
Within ==
    /\ \E u \in Units : \A v \in Units \ {u} : unit'[v].active
    /\ \E p \in Staff : \A q \in Staff \ {p} : place'[q] = NoUnit
    /\ \E k \in Clerks : \A j \in Clerks \ {k} : request'[j].kind \notin {"restore", "delete"}

AroundNext ==
    /\ \/ UrtuuNext /\ UNCHANGED <<organisationVars, integrationVars, reportVars>>
       \/ OrganisationStep /\ UNCHANGED <<urtuuVars, integrationVars, reportVars>>
       \/ IntegrationsNext /\ UNCHANGED <<urtuuVars, organisationVars, reportVars>>
       \/ ReportsStep /\ UNCHANGED <<urtuuVars, organisationVars, integrationVars>>
    /\ UNCHANGED atWork
    /\ Within

AroundSpec ==
    AroundInit /\ [][AroundNext]_<<urtuuVars, organisationVars, integrationVars, reportVars, atWork>>

\* The types of the eight modules.
TypesOK ==
    /\ PeeringTypeOK /\ CodesTypeOK /\ NumbersTypeOK /\ EvidenceTypeOK
    /\ OrganisationTypeOK /\ GrantsTypeOK /\ DeliveriesTypeOK /\ ReportsTypeOK
=============================================================================
