------------------------- MODULE ContractInvitations -------------------------
(***************************************************************************)
(* One party of a contract and the doors that lead to it: the invitation   *)
(* link of modules/documents/invite.go, the inbox of inbox.go, and the     *)
(* issuer's own requests in parties.go and partysign.go.                   *)
(*                                                                         *)
(* Through each of them somebody may be named to sign and a ceremony be    *)
(* started, polled or refused.  A request reads the party first and writes *)
(* in a later statement.  A signatory counts from the start of its INSERT  *)
(* (created_at is the transaction's time) and is seen from its commit.     *)
(*                                                                         *)
(* ContractParties has the contract, its copies and the twenty minutes of  *)
(* an abandoned ceremony; here are the people and the links.               *)
(***************************************************************************)
EXTENDS Integers, Sequences

CONSTANTS
    People,          \* citizens who may be named
    Visitors,        \* requests that may come by a link at the same moment
    MaxNamed,        \* bound: rows of signatories
    MaxPushes        \* bound: ceremonies the rail was asked for

ASSUME InvitationAssumption == MaxNamed \in Nat /\ MaxPushes \in Nat

VARIABLES
    side,        \* document_parties.state
    link,        \* document_invitations: a row that is not revoked, perhaps expired
    visit,       \* what each request by the link read of the party
    admitted,    \* requests from inside that have passed their check
    named,       \* document_party_signatories, in the order of created_at
    starting,    \* rows signerFor picked, not yet on the party's row
    rail,        \* what became of each ceremony
    open,        \* session_id: a ceremony, 0 when none is open
    openedBy,    \* session_signatory_id: a row, 0 for NULL
    asking       \* between the read of pollPartySignature and its record

doors == <<link, visit, admitted>>
ceremonies == <<starting, rail, open, openedBy, asking>>
invitationVars == <<side, doors, named, ceremonies>>

-----------------------------------------------------------------------------
(* The tables *)

MayAnswer == {"invited", "viewed"}
Sides == MayAnswer \cup {"draft", "signed", "declined", "withdrawn"}

\* What a request knows of the party: its state when it came, or that it was over.
Reads == MayAnswer \cup {"none", "closed"}
Inside == {"issuer", "inbox"}

\* writing: its INSERT has begun.  gone: deleted, or never committed.
Rows == [who : People, stage : {"writing", "there", "signed", "gone"}]
Pushes == [row : 1 .. MaxNamed, result : {"pending", "completed", "failed"}]

InvitationTypeOK ==
    /\ side \in Sides
    /\ link \in {"none", "live"}
    /\ visit \in [Visitors -> Reads]
    /\ admitted \subseteq Inside
    /\ named \in Seq(Rows)
    /\ Len(named) <= MaxNamed
    /\ starting \subseteq DOMAIN named
    /\ rail \in Seq(Pushes)
    /\ Len(rail) <= MaxPushes
    /\ open \in {0} \cup DOMAIN rail
    /\ openedBy \in {0} \cup DOMAIN named
    /\ asking \subseteq (DOMAIN rail) \X (DOMAIN named)

InvitationInit ==
    /\ side = "invited"
    /\ link = "none"
    /\ visit = [v \in Visitors |-> "none"]
    /\ admitted = {}
    /\ named = <<>>
    /\ starting = {}
    /\ rail = <<>>
    /\ open = 0
    /\ openedBy = 0
    /\ asking = {}

\* The party's ceremony is forgotten.
Shut == open' = 0 /\ openedBy' = 0 /\ UNCHANGED <<starting, rail, asking>>

-----------------------------------------------------------------------------
(* The link *)

\* createInviteHandler.  Its question about the state is a statement earlier, when
\* the party was perhaps still invited; the INSERT fails on a link that is not
\* revoked, an expired one too.
CreateInvite ==
    /\ link = "none"
    /\ link' = "live"
    /\ UNCHANGED <<side, visit, admitted, named, ceremonies>>

\* revokeInviteHandler.
RevokeLink ==
    /\ link # "none"
    /\ link' = "none"
    /\ UNCHANGED <<side, visit, admitted, named, ceremonies>>

\* openInvite: every request by the link begins by reading the party.  A link
\* past inviteTTL lets nobody in.
OpenInvite(v) ==
    /\ link = "live" /\ visit[v] = "none"
    /\ visit' = [visit EXCEPT ![v] = IF side \in MayAnswer THEN side ELSE "closed"]
    /\ UNCHANGED <<side, link, admitted, named, ceremonies>>

Leaves(v) == visit' = [visit EXCEPT ![v] = "none"] /\ UNCHANGED <<link, admitted>>

\* A request that only reads, or is refused.
VisitEnds(v) ==
    /\ visit[v] # "none"
    /\ Leaves(v)
    /\ UNCHANGED <<side, named, ceremonies>>

\* inviteShowHandler.
ShowByLink(v) ==
    /\ visit[v] = "invited"
    /\ side' = IF side = "invited" THEN "viewed" ELSE side
    /\ Leaves(v)
    /\ UNCHANGED <<named, ceremonies>>

\* inboxShowHandler, which ends with markViewed.
ShowInside ==
    /\ side = "invited"
    /\ side' = "viewed"
    /\ UNCHANGED <<doors, named, ceremonies>>

-----------------------------------------------------------------------------
(* Naming a signatory *)

\* One row per citizen (document_party_signatories_one_per_reg): an INSERT waits
\* for another of the same citizen, and fails if that one is committed.
Begin(who) ==
    /\ Len(named) < MaxNamed
    /\ \A i \in DOMAIN named : named[i].who = who => named[i].stage = "gone"
    /\ named' = Append(named, [who |-> who, stage |-> "writing"])

\* inviteNominateHandler: nobody may be named whom the statement can see.
NominateByLink(v, who) ==
    /\ visit[v] \in MayAnswer
    /\ \A i \in DOMAIN named : named[i].stage \notin {"there", "signed"}
    /\ Begin(who)
    /\ Leaves(v)
    /\ UNCHANGED <<side, ceremonies>>

\* addSignatoryHandler and inboxNominateHandler check the party ...
NameCheck(door) ==
    /\ door \in Inside \ admitted
    /\ IF door = "inbox" THEN side \in MayAnswer ELSE side \notin {"signed", "declined"}
    /\ admitted' = admitted \cup {door}
    /\ UNCHANGED <<side, link, visit, named, ceremonies>>

\* ... and INSERT.
Name(door, who) ==
    /\ door \in admitted
    /\ Begin(who)
    /\ admitted' = admitted \ {door}
    /\ UNCHANGED <<side, link, visit, ceremonies>>

\* The INSERT commits, or fails.
Named(i) ==
    /\ named[i].stage = "writing"
    /\ \E stage \in {"there", "gone"} : named' = [named EXCEPT ![i].stage = stage]
    /\ UNCHANGED <<side, doors, ceremonies>>

\* Slip: a signatory who has signed is struck off too.
StrikeOffSigned(i) ==
    /\ named[i].stage \in {"there", "signed"}
    /\ named' = [named EXCEPT ![i].stage = "gone"]
    /\ openedBy' = IF openedBy = i THEN 0 ELSE openedBy
    /\ UNCHANGED <<side, doors, starting, rail, open, asking>>

\* removeSignatoryHandler and inboxWithdrawNomineeHandler: whoever has not
\* signed; an open ceremony of theirs loses its signatory.
StrikeOff(i) ==
    /\ named[i].stage = "there"
    /\ named' = [named EXCEPT ![i].stage = "gone"]
    /\ openedBy' = IF openedBy = i THEN 0 ELSE openedBy
    /\ UNCHANGED <<side, doors, starting, rail, open, asking>>

-----------------------------------------------------------------------------
(* The ceremony *)

\* signerFor.  By the link, or as the only one: the first row that may sign.
\* Somebody signed in is their own row.
Unsigned == {i \in DOMAIN named : named[i].stage = "there"}
FirstOf(rows, i) == i \in rows /\ \A j \in rows : i <= j

\* inviteSignStartHandler.
SignByLink(v, i) ==
    /\ visit[v] # "none"
    /\ FirstOf(Unsigned, i)
    /\ starting' = starting \cup {i}
    /\ Leaves(v)
    /\ UNCHANGED <<side, named, rail, open, openedBy, asking>>

\* partySignStartHandler and inboxSignStartHandler, by whichever of the people
\* named is signed in.
SignInside(i) ==
    /\ i \in Unsigned
    /\ starting' = starting \cup {i}
    /\ UNCHANGED <<side, doors, named, rail, open, openedBy, asking>>

\* startPartySignature: the rail is asked, and the ceremony put on the party's
\* row if none is open there and the signatory still exists.
Push(i) ==
    /\ i \in starting
    /\ Len(rail) < MaxPushes
    /\ side \in MayAnswer /\ open = 0
    /\ named[i].stage # "gone"
    /\ rail' = Append(rail, [row |-> i, result |-> "pending"])
    /\ open' = Len(rail) + 1 /\ openedBy' = i
    /\ starting' = starting \ {i}
    /\ UNCHANGED <<side, doors, named, asking>>

PushRefused(i) ==
    /\ i \in starting
    /\ starting' = starting \ {i}
    /\ UNCHANGED <<side, doors, named, rail, open, openedBy, asking>>

\* PIN2, or a refusal, or its time passes.
PhoneAnswers(n) ==
    /\ rail[n].result = "pending"
    /\ \E result \in {"completed", "failed"} : rail' = [rail EXCEPT ![n].result = result]
    /\ UNCHANGED <<side, doors, named, starting, open, openedBy, asking>>

\* Twenty minutes: the ceremony no longer keeps another out.
CeremonyAbandoned ==
    /\ open # 0
    /\ Shut
    /\ UNCHANGED <<side, doors, named>>

\* pollPartySignature, by any door: inviteSignPollHandler, inboxSignPollHandler,
\* partySignPollHandler.
PollReads ==
    /\ open # 0 /\ openedBy # 0
    /\ asking' = asking \cup {<<open, openedBy>>}
    /\ UNCHANGED <<side, doors, named, starting, rail, open, openedBy>>

PollStops(q) ==
    /\ q \in asking
    /\ asking' = asking \ {q}
    /\ UNCHANGED <<side, doors, named, starting, rail, open, openedBy>>

\* Over without a signature: the ceremony is taken off, if it is still the one.
PollClears(q) ==
    /\ q \in asking /\ rail[q[1]].result = "failed"
    /\ asking' = asking \ {q}
    /\ IF open = q[1] THEN open' = 0 /\ openedBy' = 0 ELSE UNCHANGED <<open, openedBy>>
    /\ UNCHANGED <<side, doors, named, starting, rail>>

\* recordPartySignature, one transaction: the party and the very row that began
\* the ceremony, or nothing.
RecordSignature(q) ==
    /\ q \in asking /\ rail[q[1]].result = "completed"
    /\ side \in MayAnswer /\ open = q[1]
    /\ named[q[2]].stage = "there"
    /\ side' = "signed"
    /\ named' = [named EXCEPT ![q[2]].stage = "signed"]
    /\ open' = 0 /\ openedBy' = 0
    /\ asking' = asking \ {q}
    /\ UNCHANGED <<doors, starting, rail>>

-----------------------------------------------------------------------------
(* What ends it otherwise *)

\* inviteDeclineHandler.
DeclineByLink(v) ==
    /\ visit[v] # "none"
    /\ side \in MayAnswer
    /\ side' = "declined"
    /\ Shut
    /\ Leaves(v)
    /\ UNCHANGED named

\* withdrawHandler: the party is closed and its link revoked.
WithdrawSide ==
    /\ side' = IF side \in MayAnswer \cup {"draft"} THEN "withdrawn" ELSE side
    /\ IF side \in MayAnswer \cup {"draft"} THEN Shut ELSE UNCHANGED ceremonies
    /\ link' = "none"
    /\ UNCHANGED <<visit, admitted, named>>

\* reopenHandler, and the next send.
ReopenSide ==
    /\ side \in {"withdrawn", "draft"}
    /\ side' = IF side = "withdrawn" THEN "draft" ELSE "invited"
    /\ UNCHANGED <<doors, named, ceremonies>>

-----------------------------------------------------------------------------
\* The routes of the link, for whoever holds its token.
ByLink ==
    \/ \E v \in Visitors : OpenInvite(v) \/ VisitEnds(v) \/ ShowByLink(v) \/ DeclineByLink(v)
    \/ \E v \in Visitors, who \in People : NominateByLink(v, who)
    \/ \E v \in Visitors, i \in DOMAIN named : SignByLink(v, i)

\* The routes of the issuer and of the inbox.
BySignedIn ==
    \/ CreateInvite \/ RevokeLink \/ ShowInside \/ WithdrawSide \/ ReopenSide
    \/ \E door \in Inside : NameCheck(door)
    \/ \E door \in Inside, who \in People : Name(door, who)
    \/ \E i \in DOMAIN named : StrikeOff(i) \/ SignInside(i)

\* What no request begins, and the polls, whichever door they come by.
Underway ==
    \/ \E i \in DOMAIN named : Named(i)
    \/ \E i \in starting : Push(i) \/ PushRefused(i)
    \/ \E n \in DOMAIN rail : PhoneAnswers(n)
    \/ CeremonyAbandoned \/ PollReads
    \/ \E q \in asking : PollStops(q) \/ PollClears(q) \/ RecordSignature(q)

InvitationNext == ByLink \/ BySignedIn \/ Underway

InvitationSpec == InvitationInit /\ [][InvitationNext]_invitationVars

-----------------------------------------------------------------------------
(* Properties *)

\* A party has signed when exactly one of its people has, that one was asked on
\* their own phone and agreed, and nobody strikes them off afterwards.
\* recordPartySignature, removeSignatoryHandler and inboxWithdrawNomineeHandler,
\* whichever way they overlap.
SignedIsNamed ==
    LET signed == {i \in DOMAIN named : named[i].stage = "signed"}
    IN  IF side = "signed"
        THEN \E i \in signed : /\ signed = {i}
                               /\ \E n \in DOMAIN rail : rail[n] = [row |-> i, result |-> "completed"]
        ELSE signed = {}
=============================================================================
