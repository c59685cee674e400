---------------------------- MODULE AroundProofs ----------------------------
(***************************************************************************)
(* Theorems about ReportSharing, for any organisations, numbers, reports    *)
(* and bounds, and about the eight components of MCAround together.         *)
(*                                                                         *)
(* What a run shows is decided when an agreement is asked for: the scope is *)
(* one the report has, and the reference is a number of the asking          *)
(* organisation.  The invariant says so of every request at work and of     *)
(* every agreement, and that numbers once held stay on record.              *)
(*                                                                         *)
(* The last part shows that a behaviour of MCAround, where one component    *)
(* is at work and its bounds hold, is a behaviour of every component: what  *)
(* the other modules prove of one holds there too.                          *)
(***************************************************************************)
EXTENDS MCAround, UrtuuSideProofs, OrganisationProofs, IntegrationProofs,
        SequenceTheorems, TLAPS

NumbersHeld == \A o \in Organisations : number[o] # NoNumber => number[o] \in held[o]

\* A request past its checks.
AskedRightly(o) ==
    asking[o] # Unset =>
      /\ asking[o].grantor # o
      /\ asking[o].scope \in ScopesOf[asking[o].report]
      /\ asking[o].stage = "ready" /\ asking[o].scope = "counterparty" =>
           asking[o].ref \in held[o]

\* An agreement that was asked for rightly.
GrantedRightly(g) ==
    /\ grants[g].grantor # grants[g].grantee
    /\ grants[g].scope \in ScopesOf[grants[g].report]
    /\ grants[g].scope = "counterparty" => grants[g].ref \in held[grants[g].grantee]

SharingInv ==
    /\ ReportsTypeOK
    /\ NumbersHeld
    /\ \A o \in Organisations : AskedRightly(o)
    /\ \A g \in DOMAIN grants : GrantedRightly(g)
    /\ SharedIsAgreed

-----------------------------------------------------------------------------
\* An agreement is where its type says.
LEMMA GrantTypes ==
    ASSUME ReportsTypeOK, NEW g \in DOMAIN grants
    PROVE  grants[g] \in GrantRows
BY ElementOfSeq DEF ReportsTypeOK

\* Appending and rewriting agreements keeps the others.
LEMMA GrantAppended ==
    ASSUME ReportsTypeOK, NEW r \in GrantRows, grants' = Append(grants, r)
    PROVE  /\ grants' \in Seq(GrantRows) /\ Len(grants') = Len(grants) + 1
           /\ DOMAIN grants' = DOMAIN grants \cup {Len(grants) + 1}
           /\ grants'[Len(grants) + 1] = r
           /\ \A g \in DOMAIN grants : grants'[g] = grants[g]
BY AppendProperties, LenProperties DEF ReportsTypeOK

LEMMA GrantRewritten ==
    ASSUME ReportsTypeOK, NEW g \in DOMAIN grants, NEW r \in GrantRows,
           grants' = [grants EXCEPT ![g] = r]
    PROVE  /\ grants' \in Seq(GrantRows) /\ Len(grants') = Len(grants)
           /\ DOMAIN grants' = DOMAIN grants
           /\ \A h \in DOMAIN grants : grants'[h] = IF h = g THEN r ELSE grants[h]
BY ExceptSeq, LenProperties DEF ReportsTypeOK

\* Numbers are only added to those an organisation has had.
LEMMA NumberEdited ==
    ASSUME SharingInv, NEW o \in Organisations, NEW n \in OwnNumbers, EditNumber(o, n)
    PROVE  SharingInv'
<1>1. /\ number' = [number EXCEPT ![o] = n]
      /\ held' = [held EXCEPT ![o] = @ \cup ({n} \ {NoNumber})]
      /\ UNCHANGED <<installed, asking, grants, running, disclosed, schedule, saving>>
    BY DEF EditNumber, sharingVars, scheduleVars
<1>2. \A p \in Organisations : held[p] \subseteq held'[p]
    BY <1>1 DEF SharingInv, ReportsTypeOK
<1>3. ReportsTypeOK'
    BY <1>1 DEF SharingInv, ReportsTypeOK, OwnNumbers
<1>4. NumbersHeld'
    BY <1>1 DEF SharingInv, ReportsTypeOK, NumbersHeld
<1>5. \A p \in Organisations : AskedRightly(p)'
    BY <1>1, <1>2 DEF SharingInv, AskedRightly
<1>6. \A g \in DOMAIN grants' : GrantedRightly(g)'
    BY <1>1, <1>2, GrantTypes DEF SharingInv, GrantedRightly, GrantRows
<1>7. SharedIsAgreed'
    <2> SUFFICES ASSUME NEW r \in disclosed PROVE (\E g \in DOMAIN grants :
        /\ grants[g].grantor = r.owner /\ grants[g].grantee = r.reader
        /\ grants[g].report = r.report /\ grants[g].accepted
        /\ r.owner # r.reader
        /\ grants[g].scope = "counterparty" => r.about \in held[r.reader])'
        BY <1>1 DEF SharedIsAgreed
    <2>1. r.reader \in Organisations
        BY DEF SharingInv, ReportsTypeOK
    <2> QED
        BY <1>1, <1>2, <2>1 DEF SharingInv, SharedIsAgreed
<1> QED
    BY <1>3, <1>4, <1>5, <1>6, <1>7 DEF SharingInv

LEMMA AppInstalled ==
    ASSUME SharingInv, NEW o \in Organisations, NEW k \in Reports, InstallOrRemove(o, AppOf[k])
    PROVE  SharingInv'
BY DEF SharingInv, ReportsTypeOK, NumbersHeld, AskedRightly, GrantedRightly, SharedIsAgreed,
       InstallOrRemove, sharingVars, scheduleVars

\* A request at work changes nothing but itself, until its row is there.
LEMMA RequestMoves ==
    ASSUME SharingInv, NEW o \in Organisations, NEW next \in Askings \cup {Unset},
           asking' = [asking EXCEPT ![o] = next],
           next # Unset => /\ next.grantor # o
                           /\ next.scope \in ScopesOf[next.report]
                           /\ next.stage = "ready" /\ next.scope = "counterparty" =>
                                next.ref \in held[o],
           UNCHANGED <<number, held, installed, grants, running, disclosed, schedule, saving>>
    PROVE  SharingInv'
<1>1. \A p \in Organisations : AskedRightly(p)'
    BY DEF SharingInv, ReportsTypeOK, AskedRightly
<1>2. ReportsTypeOK'
    BY DEF SharingInv, ReportsTypeOK
<1> QED
    BY <1>1, <1>2 DEF SharingInv, NumbersHeld, GrantedRightly, SharedIsAgreed

LEMMA RequestChecked ==
    ASSUME SharingInv, NEW o \in Organisations,
           NEW k \in Reports, NEW scope \in Scopes, NEW n \in Numbers, Ask(o, k, scope, n)
    PROVE  SharingInv'
<1>1. PICK grantor \in Organisations \ {o} :
         asking' = [asking EXCEPT ![o] = [stage |-> "found", grantor |-> grantor, report |-> k,
                                          scope |-> scope, ref |-> NoNumber]]
    BY DEF Ask
<1>2. [stage |-> "found", grantor |-> grantor, report |-> k, scope |-> scope, ref |-> NoNumber]
        \in Askings
    BY DEF Askings, OwnNumbers
<1>3. scope \in ScopesOf[k]
    BY DEF Ask, Supports
<1>4. UNCHANGED <<number, held, installed, grants, running, disclosed, schedule, saving>>
    BY DEF Ask, scheduleVars
<1> QED
    BY <1>1, <1>2, <1>3, <1>4, RequestMoves

LEMMA NumberRead ==
    ASSUME SharingInv, NEW o \in Organisations, ReadOwnNumber(o)
    PROVE  SharingInv'
<1> DEFINE next == IF asking[o].scope = "full" THEN [asking[o] EXCEPT !.stage = "ready"]
                   ELSE IF number[o] # NoNumber
                   THEN [asking[o] EXCEPT !.stage = "ready", !.ref = number[o]]
                   ELSE Unset
<1>1. asking[o] # Unset /\ asking[o] \in Askings
    BY DEF ReadOwnNumber, SharingInv, ReportsTypeOK
<1>2. asking' = [asking EXCEPT ![o] = next]
    BY DEF ReadOwnNumber, SharingInv, ReportsTypeOK
<1>3. number[o] \in OwnNumbers
    BY DEF SharingInv, ReportsTypeOK
<1>4. next \in Askings \cup {Unset}
    BY <1>1, <1>3 DEF Askings
<1>5. AskedRightly(o) /\ NumbersHeld
    BY DEF SharingInv
<1>6. next # Unset => /\ next.grantor # o
                      /\ next.scope \in ScopesOf[next.report]
                      /\ next.stage = "ready" /\ next.scope = "counterparty" => next.ref \in held[o]
    BY <1>1, <1>3, <1>5 DEF Askings, AskedRightly, NumbersHeld
<1>7. UNCHANGED <<number, held, installed, grants, running, disclosed, schedule, saving>>
    BY DEF ReadOwnNumber, scheduleVars
<1> HIDE DEF next
<1> QED
    BY <1>2, <1>4, <1>6, <1>7, RequestMoves

LEMMA GrantCreated ==
    ASSUME SharingInv, NEW o \in Organisations, CreateGrant(o)
    PROVE  SharingInv'
<1>1. /\ asking[o] # Unset /\ asking[o] \in Askings /\ asking[o].stage = "ready"
      /\ asking' = [asking EXCEPT ![o] = Unset]
      /\ UNCHANGED <<number, held, installed, running, disclosed, schedule, saving>>
    BY DEF CreateGrant, SharingInv, ReportsTypeOK, scheduleVars
<1>2. asking' \in [Organisations -> Askings \cup {Unset}] /\ \A p \in Organisations : AskedRightly(p)'
    BY <1>1 DEF SharingInv, ReportsTypeOK, AskedRightly
<1>3. CASE UNCHANGED grants
    BY <1>1, <1>2, <1>3
       DEF SharingInv, ReportsTypeOK, NumbersHeld, GrantedRightly, SharedIsAgreed
<1>4. CASE ~ UNCHANGED grants
    <2> DEFINE new == [grantor |-> asking[o].grantor, grantee |-> o, report |-> asking[o].report,
                       scope |-> asking[o].scope, ref |-> asking[o].ref,
                       accepted |-> FALSE, revoked |-> FALSE]
    <2>1. grants' = Append(grants, new) /\ Len(grants) < MaxGrants
        BY <1>4 DEF CreateGrant
    <2>2. new \in GrantRows
        BY <1>1 DEF Askings, GrantRows
    <2>3. /\ new.grantor # new.grantee
          /\ new.scope \in ScopesOf[new.report]
          /\ new.scope = "counterparty" => new.ref \in held[new.grantee]
        BY <1>1 DEF SharingInv, AskedRightly
    <2> HIDE DEF new
    <2>4. /\ grants' \in Seq(GrantRows) /\ Len(grants') = Len(grants) + 1
          /\ DOMAIN grants' = DOMAIN grants \cup {Len(grants) + 1}
          /\ grants'[Len(grants) + 1] = new
          /\ \A g \in DOMAIN grants : grants'[g] = grants[g]
        BY <2>1, <2>2, GrantAppended DEF SharingInv
    <2>5. Len(grants') <= MaxGrants
        BY <2>1, <2>4, ReportsAssumption, LenProperties DEF SharingInv, ReportsTypeOK
    <2>6. \A g \in DOMAIN grants' : GrantedRightly(g)'
        BY <1>1, <2>3, <2>4 DEF SharingInv, GrantedRightly
    <2>7. SharedIsAgreed'
        BY <1>1, <2>4 DEF SharingInv, SharedIsAgreed
    <2> QED
        BY <1>1, <1>2, <2>4, <2>5, <2>6, <2>7 DEF SharingInv, ReportsTypeOK, NumbersHeld
<1> QED
    BY <1>3, <1>4

\* Accepting and revoking leave whose rows they are, and what about, alone.
LEMMA GrantAnswered ==
    ASSUME SharingInv, NEW o \in Organisations, NEW g \in DOMAIN grants,
           AcceptGrant(o, g) \/ RevokeGrant(o, g)
    PROVE  SharingInv'
<1>1. UNCHANGED <<number, held, installed, asking, running, disclosed, schedule, saving>>
    BY DEF AcceptGrant, RevokeGrant, scheduleVars
<1>2. grants[g] \in GrantRows
    BY GrantTypes DEF SharingInv
<1>3. PICK r \in GrantRows :
        /\ grants' = [grants EXCEPT ![g] = r]
        /\ r.grantor = grants[g].grantor /\ r.grantee = grants[g].grantee
        /\ r.report = grants[g].report /\ r.scope = grants[g].scope /\ r.ref = grants[g].ref
        /\ grants[g].accepted => r.accepted
    <2>1. CASE AcceptGrant(o, g)
        <3>1. grants' = [grants EXCEPT ![g] = [grants[g] EXCEPT !.accepted = TRUE]]
            BY <2>1 DEF AcceptGrant
        <3> [grants[g] EXCEPT !.accepted = TRUE] \in GrantRows
            BY <1>2 DEF GrantRows
        <3> WITNESS [grants[g] EXCEPT !.accepted = TRUE] \in GrantRows
        <3> QED
            BY <1>2, <3>1 DEF GrantRows
    <2>2. CASE RevokeGrant(o, g)
        <3>1. grants' = [grants EXCEPT ![g] = [grants[g] EXCEPT !.revoked = TRUE]]
            BY <2>2 DEF RevokeGrant
        <3> [grants[g] EXCEPT !.revoked = TRUE] \in GrantRows
            BY <1>2 DEF GrantRows
        <3> WITNESS [grants[g] EXCEPT !.revoked = TRUE] \in GrantRows
        <3> QED
            BY <1>2, <3>1 DEF GrantRows
    <2> QED
        BY <2>1, <2>2
<1>4. /\ grants' \in Seq(GrantRows) /\ Len(grants') = Len(grants)
      /\ DOMAIN grants' = DOMAIN grants
      /\ \A h \in DOMAIN grants : grants'[h] = IF h = g THEN r ELSE grants[h]
    BY <1>3, GrantRewritten DEF SharingInv
<1>5. \A h \in DOMAIN grants' : GrantedRightly(h)'
    BY <1>1, <1>3, <1>4 DEF SharingInv, GrantedRightly
<1>6. SharedIsAgreed'
    BY <1>1, <1>3, <1>4 DEF SharingInv, SharedIsAgreed
<1>7. ReportsTypeOK'
    BY <1>1, <1>4 DEF SharingInv, ReportsTypeOK
<1> QED
    BY <1>1, <1>5, <1>6, <1>7 DEF SharingInv, NumbersHeld, AskedRightly

LEMMA RunResolved ==
    ASSUME SharingInv, NEW o \in Organisations, NEW k \in Reports, Resolve(o, k)
    PROVE  SharingInv'
BY DEF SharingInv, ReportsTypeOK, NumbersHeld, AskedRightly, GrantedRightly, SharedIsAgreed,
       Resolve, scheduleVars

\* Every row shown is shown by an agreement in force at that moment.
LEMMA RunShows ==
    ASSUME SharingInv, NEW o \in Organisations, NEW k \in Reports, RunConsolidated(o, k)
    PROVE  SharingInv'
<1>1. PICK used \in SUBSET InForce(o, k) :
        disclosed' = {[reader |-> o, owner |-> grants[g].grantor, report |-> k,
                       about |-> About(grants[g])] : g \in used}
    BY DEF RunConsolidated
<1>2. /\ UNCHANGED <<number, held, installed, asking, grants, schedule, saving>>
      /\ running' \subseteq running
    BY DEF RunConsolidated, scheduleVars
<1>3. ASSUME NEW g \in used
      PROVE  /\ g \in DOMAIN grants /\ grants[g] \in GrantRows
             /\ grants[g].grantee = o /\ grants[g].report = k /\ grants[g].accepted
             /\ grants[g].grantor # o
             /\ About(grants[g]) \in Numbers \cup {Everything}
             /\ grants[g].scope = "counterparty" => About(grants[g]) \in held[o]
    <2>1. g \in DOMAIN grants /\ grants[g] \in GrantRows
        BY GrantTypes DEF InForce, SharingInv
    <2>2. GrantedRightly(g)
        BY <2>1 DEF SharingInv
    <2>3. grants[g].grantee = o /\ grants[g].report = k /\ grants[g].accepted
        BY DEF InForce
    <2>4. held[o] \subseteq Numbers
        BY DEF SharingInv, ReportsTypeOK
    <2> QED
        BY <2>1, <2>2, <2>3, <2>4 DEF GrantedRightly, About
<1>4. ReportsTypeOK'
    <2>1. disclosed' \subseteq [reader : Organisations, owner : Organisations, report : Reports,
                                about : Numbers \cup {Everything}]
        BY <1>1, <1>3 DEF GrantRows
    <2> QED
        BY <1>2, <2>1 DEF SharingInv, ReportsTypeOK
<1>5. SharedIsAgreed'
    BY <1>1, <1>2, <1>3 DEF SharedIsAgreed
<1> QED
    BY <1>2, <1>4, <1>5 DEF SharingInv, NumbersHeld, AskedRightly, GrantedRightly

\* Schedules have nothing to do with agreements.
LEMMA ScheduleSteps ==
    ASSUME SharingInv, SchedulesNext
    PROVE  SharingInv'
<1>1. UNCHANGED <<number, held, installed, asking, grants, running, disclosed>>
    BY DEF SchedulesNext, CheckSchedule, CreateSchedule, UpdateSchedule, DeleteSchedule, sharingVars
<1>2. schedule' \in [Schedules -> ScheduleRows \cup {NoSchedule}]
      /\ saving' \in [Organisations -> Savings \cup {Unset}]
    <2>1. CASE \E o \in Organisations, s \in Schedules, k \in Reports, to \in SUBSET Addresses :
                 CheckSchedule(o, s, k, to)
        BY <2>1 DEF SharingInv, ReportsTypeOK, CheckSchedule, Savings, ScheduleRows
    <2>2. CASE \E o \in Organisations : CreateSchedule(o) \/ UpdateSchedule(o)
        <3> PICK o \in Organisations : CreateSchedule(o) \/ UpdateSchedule(o)
            BY <2>2
        <3>1. saving[o] \in Savings
            BY DEF CreateSchedule, UpdateSchedule, SharingInv, ReportsTypeOK
        <3>2. saving[o].id \in Schedules /\ saving[o].row \in ScheduleRows
            BY <3>1 DEF Savings
        <3> QED
            BY <3>2 DEF CreateSchedule, UpdateSchedule, SharingInv, ReportsTypeOK
    <2>3. CASE \E o \in Organisations, s \in Schedules : DeleteSchedule(o, s)
        BY <2>3 DEF SharingInv, ReportsTypeOK, DeleteSchedule
    <2> QED
        BY <2>1, <2>2, <2>3 DEF SchedulesNext
<1> QED
    BY <1>1, <1>2 DEF SharingInv, ReportsTypeOK, NumbersHeld, AskedRightly, GrantedRightly,
                      SharedIsAgreed

-----------------------------------------------------------------------------
LEMMA SharingStarts ==
    ASSUME ReportsInit
    PROVE  SharingInv
<1>1. ReportsTypeOK
    BY EmptySeq, ReportsAssumption DEF ReportsInit, ReportsTypeOK, OwnNumbers
<1> QED
    BY <1>1 DEF ReportsInit, SharingInv, NumbersHeld, AskedRightly, SharedIsAgreed

LEMMA SharingStep ==
    ASSUME SharingInv, [ReportsNext]_reportVars
    PROVE  SharingInv'
<1>1. CASE PlatformNext
    BY <1>1, NumberEdited, AppInstalled DEF PlatformNext
<1>2. CASE SharingOver(Reports)
    <2>1. CASE \E o \in Askers : RequestGrant(o, Reports)
        <3> PICK o \in Organisations : RequestGrant(o, Reports)
            BY <2>1, ReportsAssumption
        <3>1. CASE \E k \in Reports, scope \in Scopes, n \in Numbers : Ask(o, k, scope, n)
            BY <3>1, RequestChecked
        <3>2. CASE ReadOwnNumber(o)
            BY <3>2, NumberRead
        <3>3. CASE CreateGrant(o)
            BY <3>3, GrantCreated
        <3> QED
            BY <3>1, <3>2, <3>3 DEF RequestGrant
    <2>2. CASE \E o \in Organisations, g \in DOMAIN grants : AcceptGrant(o, g) \/ RevokeGrant(o, g)
        BY <2>2, GrantAnswered
    <2>3. CASE \E o \in Askers, k \in Reports : Resolve(o, k) \/ RunConsolidated(o, k)
        BY <2>3, RunResolved, RunShows, ReportsAssumption
    <2> QED
        BY <1>2, <2>1, <2>2, <2>3 DEF SharingOver
<1>3. CASE SchedulesNext
    BY <1>3, ScheduleSteps
<1>4. CASE UNCHANGED reportVars
    BY <1>4 DEF SharingInv, ReportsTypeOK, NumbersHeld, AskedRightly, GrantedRightly,
                SharedIsAgreed, reportVars, sharingVars, scheduleVars
<1> QED
    BY <1>1, <1>2, <1>3, <1>4 DEF ReportsNext

\* Every variable keeps its type.
THEOREM TypeCorrect == ReportsSpec => []ReportsTypeOK
<1>1. SharingInv => ReportsTypeOK
    BY DEF SharingInv
<1> QED
    BY <1>1, SharingStarts, SharingStep, PTL DEF ReportsSpec

\* Nobody sees rows whose owner did not agree, and under a counterparty's
\* agreement nobody sees rows about a number that was never theirs, however the
\* profiles and the applications change between the statements of a request.
THEOREM SharedRightly == ReportsSpec => []SharedIsAgreed
<1>1. SharingInv => SharedIsAgreed
    BY DEF SharingInv
<1> QED
    BY <1>1, SharingStarts, SharingStep, PTL DEF ReportsSpec

-----------------------------------------------------------------------------
(* The eight together, as the runs check them *)

aroundVars == <<urtuuVars, organisationVars, integrationVars, reportVars, atWork>>

\* Codes authored here, or published above: either is a part of the vocabulary.
LEMMA SomeCodes ==
    ASSUME NEW these \in SUBSET Codes, CodesOver(these)
    PROVE  CodesNext
<1>1. SUBSET these \subseteq SUBSET Codes
    OBVIOUS
<1> QED
    BY <1>1 DEF CodesOver, CodesNext

\* Requests for one report are requests for a report.
LEMMA OneReport ==
    ASSUME NEW k \in Reports, SharingOver({k})
    PROVE  SharingOver(Reports)
<1>1. CASE \E o \in Askers : RequestGrant(o, {k})
    BY <1>1 DEF SharingOver, RequestGrant
<1>2. CASE \E o \in Organisations, g \in DOMAIN grants : AcceptGrant(o, g) \/ RevokeGrant(o, g)
    BY <1>2 DEF SharingOver
<1>3. CASE \E o \in Askers, j \in {k} : Resolve(o, j) \/ RunConsolidated(o, j)
    BY <1>3 DEF SharingOver
<1> QED
    BY <1>1, <1>2, <1>3 DEF SharingOver

LEMMA UrtuuStepsTogether ==
    ASSUME UrtuuNext
    PROVE  /\ [PeeringNext]_peeringVars /\ [CodesNext]_codesVars
           /\ [NumbersNext]_numbersVars /\ [EvidenceNext]_evidenceVars
<1>1. CodesOver(Local) \/ CodesOver(Codes \ Local) => CodesNext
    BY SomeCodes, CodesAssumption
<1> QED
    BY <1>1 DEF UrtuuNext

LEMMA ReportsStepTogether ==
    ASSUME ReportsStep
    PROVE  ReportsNext
<1>1. CASE atWork \in Reports /\ SharingOver({atWork})
    BY <1>1, OneReport DEF ReportsNext
<1>2. CASE \E o \in Organisations, n \in OwnNumbers : EditNumber(o, n)
    BY <1>2 DEF ReportsNext, PlatformNext
<1>3. CASE \E o \in Askers, k \in Reports : InstallOrRemove(o, AppOf[k])
    BY <1>3, ReportsAssumption DEF ReportsNext, PlatformNext
<1>4. CASE SchedulesNext
    BY <1>4 DEF ReportsNext
<1> QED
    BY <1>1, <1>2, <1>3, <1>4 DEF ReportsStep

\* A step of MCAround is a step of the component at work, and of every other a
\* stutter.
LEMMA StepTogether ==
    ASSUME [AroundNext]_aroundVars
    PROVE  /\ [PeeringNext]_peeringVars /\ [CodesNext]_codesVars
           /\ [NumbersNext]_numbersVars /\ [EvidenceNext]_evidenceVars
           /\ [OrganisationNext]_organisationVars
           /\ [GrantsNext]_grantVars /\ [DeliveriesNext]_deliveryVars
           /\ [ReportsNext]_reportVars
<1>1. UNCHANGED urtuuVars => UNCHANGED peeringVars /\ UNCHANGED codesVars
                             /\ UNCHANGED numbersVars /\ UNCHANGED evidenceVars
    BY DEF urtuuVars
<1>2. UNCHANGED integrationVars => UNCHANGED grantVars /\ UNCHANGED deliveryVars
    BY DEF integrationVars
<1>3. UNCHANGED aroundVars =>
          /\ UNCHANGED urtuuVars /\ UNCHANGED organisationVars
          /\ UNCHANGED integrationVars /\ UNCHANGED reportVars
    BY DEF aroundVars
<1>4. OrganisationStep => OrganisationNext
    BY DEF OrganisationStep, OrganisationNext
<1>5. IntegrationsNext => [GrantsNext]_grantVars /\ [DeliveriesNext]_deliveryVars
    BY DEF IntegrationsNext
<1>6. CASE AroundNext
    <2>1. CASE UrtuuNext /\ UNCHANGED <<organisationVars, integrationVars, reportVars>>
        BY <2>1, <1>2, UrtuuStepsTogether
    <2>2. CASE OrganisationStep /\ UNCHANGED <<urtuuVars, integrationVars, reportVars>>
        BY <2>2, <1>1, <1>2, <1>4
    <2>3. CASE IntegrationsNext /\ UNCHANGED <<urtuuVars, organisationVars, reportVars>>
        BY <2>3, <1>1, <1>5
    <2>4. CASE ReportsStep /\ UNCHANGED <<urtuuVars, organisationVars, integrationVars>>
        BY <2>4, <1>1, <1>2, ReportsStepTogether
    <2> QED
        BY <1>6, <2>1, <2>2, <2>3, <2>4 DEF AroundNext
<1> QED
    BY <1>1, <1>2, <1>3, <1>6

\* With every bound of MCAround, a behaviour of the eight in turn is one of each:
\* what is proved of a component holds beside the others, and the bounds of the runs
\* leave steps out and add none.
THEOREM EightSideBySide ==
    AroundSpec => /\ PeeringSpec /\ CodesSpec /\ NumbersSpec /\ EvidenceSpec
                  /\ OrganisationSpec /\ GrantsSpec /\ DeliveriesSpec /\ ReportsSpec
<1>1. AroundInit => /\ PeeringInit /\ CodesInit /\ NumbersInit /\ EvidenceInit
                    /\ OrganisationInit /\ GrantsInit /\ DeliveriesInit /\ ReportsInit
    BY DEF AroundInit
<1>2. AroundSpec => AroundInit /\ [][AroundNext]_aroundVars
    BY DEF AroundSpec, aroundVars
<1> QED
    BY <1>1, <1>2, StepTogether, PTL
       DEF PeeringSpec, CodesSpec, NumbersSpec, EvidenceSpec, OrganisationSpec,
           GrantsSpec, DeliveriesSpec, ReportsSpec

\* The variables of the eight components keep their types.
THEOREM EightTypesCorrect == AroundSpec => []TypesOK
<1>1. /\ PeeringInv /\ CodesInv /\ NumbersInv /\ EvidenceInv
      /\ OrganisationInv /\ GrantsInv /\ DeliveriesInv /\ SharingInv
      => TypesOK
    BY DEF PeeringInv, CodesInv, NumbersInv, EvidenceInv, OrganisationInv, GrantsInv,
           DeliveriesInv, SharingInv, TypesOK
<1>2. PeeringSpec => []PeeringInv
    BY PeeringStarts, PeeringSteps, PTL DEF PeeringSpec
<1>3. CodesSpec => []CodesInv
    BY CodesStart, CodesSteps, PTL DEF CodesSpec
<1>4. NumbersSpec => []NumbersInv
    BY NumbersStart, NumbersSteps, PTL DEF NumbersSpec
<1>5. EvidenceSpec => []EvidenceInv
    BY EvidenceStart, EvidenceSteps, PTL DEF EvidenceSpec
<1>6. OrganisationSpec => []OrganisationInv
    BY OrganisationStart, OrganisationSteps, PTL DEF OrganisationSpec
<1>7. GrantsSpec => []GrantsInv
    BY GrantsStart, GrantsSteps, PTL DEF GrantsSpec
<1>8. DeliveriesSpec => []DeliveriesInv
    BY DeliveriesStart, DeliveriesSteps, PTL DEF DeliveriesSpec
<1>9. ReportsSpec => []SharingInv
    BY SharingStarts, SharingStep, PTL DEF ReportsSpec
<1> QED
    BY <1>1, <1>2, <1>3, <1>4, <1>5, <1>6, <1>7, <1>8, <1>9, EightSideBySide, PTL
=============================================================================
