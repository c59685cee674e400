------------------------------ MODULE MCDocuments ------------------------------
(***************************************************************************)
(* A document on its way to approval, a party of a contract with its       *)
(* doors, and a master that is issued.  They share no state: in a          *)
(* behaviour of this module one of the three is at work and the two others *)
(* stand still.                                                            *)
(***************************************************************************)
EXTENDS DocumentApproval, ContractInvitations, ContractIssue, TLC

VARIABLE atWork

Twos == {<<>>} \cup {<<Nobody, c>> : c \in Citizens}
        \cup {<<c, e>> : c \in Citizens, e \in Citizens}
OneTwice == {<<c, c>> : c \in Citizens}
Alike == Permutations(Citizens) \cup Permutations(Runners)

ApprovalAsleep ==
    /\ chain = <<>> /\ ~policy.named /\ policy.allowed = Methods
    /\ \A d \in Docs : docStatus[d] = "absent"

DocumentsInit ==
    /\ ApprovalInit /\ InvitationInit /\ IssueInit
    /\ atWork \in {"approval", "invitations", "issue"}
    /\ atWork # "approval" => ApprovalAsleep
    /\ atWork # "issue" => masterState = "DRAFT"

\* A copy is sent anew while nobody issues, and only the first.
SentAlone ==
    (\E r \in Runners : run'[r].stage \in SendStages) =>
        /\ Len(copies') = 1 /\ "unkeyed" \notin copies'[1].touched
        /\ \A r \in Runners : run'[r].stage \notin IssueStages

\* The second copy is issued, and neither reopened nor struck of its signatory;
\* no facts are edited beside it.
Second ==
    Len(copies') > 1 => /\ copies'[2].touched = {}
                        /\ facts' = 0 /\ copies'[1].facts = 0 /\ ~copies'[1].ajar

\* Bounds: two edits with one ceremony, or one edit with two; two requests at work
\* on the party beside the link's; and those on the copies.
Within ==
    /\ edits' + Len(ceremony') <= 3
    /\ Cardinality(admitted') + Cardinality(starting') + Cardinality(asking') <= 2
    /\ SentAlone /\ Second

DocumentsNext ==
    /\ \/ atWork = "approval" /\ ApprovalNext /\ UNCHANGED <<invitationVars, issueVars>>
       \/ atWork = "invitations" /\ InvitationNext /\ UNCHANGED <<approvalVars, issueVars>>
       \/ atWork = "issue" /\ IssueNext /\ UNCHANGED <<approvalVars, invitationVars>>
    /\ UNCHANGED atWork
    /\ Within

DocumentsSpec ==
    DocumentsInit /\ [][DocumentsNext]_<<approvalVars, invitationVars, issueVars, atWork>>

\* The types of the three modules.
TypesOK == ApprovalTypeOK /\ InvitationTypeOK /\ IssueTypeOK
=============================================================================
