--------------------------- MODULE DocumentApproval ---------------------------
(***************************************************************************)
(* Documents of one type on their way to approval: modules/documents'      *)
(* documents.go, workflow.go, policies.go, eidsign.go, contentsign.go and  *)
(* files.go, and the rules of domain/documents/chain.go.                   *)
(*                                                                         *)
(* An administrator edits the chain of the type and its signature policy.  *)
(* A document takes a copy of the chain when it starts waiting.  Citizens  *)
(* sign it step by step, through a ceremony on a phone or by DAN's code,   *)
(* while the chain, the policy, the title and the file go on changing.     *)
(*                                                                         *)
(* A ceremony lives through three statements: the push to the phone, the   *)
(* INSERT of its row, and (on the approval rail) the DELETE of older rows. *)
(* The signature is written in one transaction under the lock of the       *)
(* document's row: one action.  A poll that began in time may end at any   *)
(* time later, so recording has no deadline of its own; and as no property *)
(* depends on how long, a row may be past its time at any time.            *)
(***************************************************************************)
EXTENDS Integers, Sequences, FiniteSets

CONSTANTS
    Docs,           \* documents, all of the one type
    Citizens,
    Nobody,         \* the signer of an open step
    Chains,         \* chains an administrator may send
    Legacy,         \* chains stored before ValidateChain
    MaxCeremonies,  \* bound: ceremonies pushed
    MaxEdits        \* bound: edits of the chain, the policy, titles and files

ASSUME ApprovalAssumption ==
    /\ Nobody \notin Citizens
    /\ Chains \cup Legacy \subseteq Seq(Citizens \cup {Nobody})
    /\ MaxCeremonies \in Nat
    /\ MaxEdits \in Nat

VARIABLES
    chain,        \* document_workflow_steps: the signer each step names
    policy,       \* document_signature_policies
    docStatus,    \* document_records.status; "absent" before the row
    docSteps,     \* document_approval_steps of each document
    making,       \* chains read by a transaction that has not committed
    overtaken,    \* documents that wait on a chain read before a later edit
    ledger,       \* document_signatures
    title,        \* document_records.title: which version
    filed,        \* document_files.content: which version, 0 without a file
    signedCopy,   \* document_files.signed_content: whose signatures it holds
    attaching,    \* documents between AttachFile's check and its INSERT
    ceremony,     \* document_eid_sign_sessions, and the phones
    retiring,     \* ceremonies whose older rows are still to be deleted
    edits         \* edits so far

made == <<docSteps, making, overtaken>>
approvalVars == <<chain, policy, docStatus, made, ledger, title, filed, signedCopy,
                  attaching, ceremony, retiring, edits>>

-----------------------------------------------------------------------------
(* The tables *)

Statuses == {"absent", "DRAFT", "PENDING_APPROVAL", "APPROVED", "REJECTED"}
Methods == {"EID", "DAN"}
Signers == Citizens \cup {Nobody}
Sessions == 1 .. MaxCeremonies
Formats == {"approval", "detached", "pades"}

Policies == [allowed : (SUBSET Methods) \ {{}}, named : BOOLEAN]

\* Session 0 is a signature without a ceremony.
Applied == [step : Nat \ {0}, who : Citizens, method : Methods, session : {0} \cup Sessions]

\* asked: on the phone, without a row.  gone: without a row for good.
Ceremonies == [state : {"asked", "live", "spent", "gone"}, doc : Docs, who : Citizens,
               format : Formats, base : SUBSET Citizens, approved : BOOLEAN]

ApprovalTypeOK ==
    /\ chain \in Seq(Signers)
    /\ policy \in Policies
    /\ docStatus \in [Docs -> Statuses]
    /\ docSteps \in [Docs -> Seq(Signers)]
    /\ making \subseteq [doc : Docs, chain : Seq(Signers), at : Nat]
    /\ overtaken \subseteq Docs
    /\ ledger \in [Docs -> SUBSET Applied]
    /\ title \in [Docs -> Nat]
    /\ filed \in [Docs -> Nat]
    /\ signedCopy \in [Docs -> SUBSET Citizens]
    /\ attaching \subseteq Docs
    /\ ceremony \in Seq(Ceremonies)
    /\ Len(ceremony) <= MaxCeremonies
    /\ retiring \subseteq DOMAIN ceremony
    /\ edits \in Nat

-----------------------------------------------------------------------------
(* The chain: domain/documents/chain.go *)

\* Slip: a citizen named twice keeps both steps.
FillableAsStored(c) == c

\* FillableChain: only the first step that names a citizen keeps the name.
FillableChain(c) ==
    [i \in DOMAIN c |-> IF \E j \in 1 .. i - 1 : c[j] = c[i] THEN Nobody ELSE c[i]]

NamesTwice(c) == \E i, j \in DOMAIN c : i # j /\ c[i] = c[j] /\ c[i] # Nobody

\* StepsCanRequireNamedSigners.
CanRequireNamed(c) ==
    /\ c # <<>>
    /\ \A i \in DOMAIN c : c[i] # Nobody
    /\ ~NamesTwice(c)

\* Whatever chain and policy earlier edits have left; drafts may have a file.
ApprovalInit ==
    /\ chain \in Chains \cup Legacy
    /\ policy \in {p \in Policies : p.named => CanRequireNamed(chain)}
    /\ docStatus \in [Docs -> {"absent", "DRAFT"}]
    /\ docSteps = [d \in Docs |-> <<>>]
    /\ making = {}
    /\ overtaken = {}
    /\ ledger = [d \in Docs |-> {}]
    /\ title = [d \in Docs |-> 0]
    /\ filed \in [Docs -> {0, 1}]
    /\ \A d \in Docs : docStatus[d] = "absent" => filed[d] = 0
    /\ signedCopy = [d \in Docs |-> {}]
    /\ attaching = {}
    /\ ceremony = <<>>
    /\ retiring = {}
    /\ edits = 0

SignersOf(d) == {r.who : r \in ledger[d]}
Required(d) == IF docSteps[d] = <<>> THEN 1 ELSE Len(docSteps[d])
Unfilled(d) == {i \in DOMAIN docSteps[d] : \A r \in ledger[d] : r.step # i}

\* The steps of the chain, and the places past it.
Places(d) == (1 .. Len(docSteps[d]) + 1) \cup {r.step + 1 : r \in ledger[d]}

\* nextApprovalStep: the lowest unfilled step; with none left, a number past
\* the chain and past every signature.
IsNext(d, i) ==
    IF Unfilled(d) # {}
    THEN i \in Unfilled(d) /\ \A j \in Unfilled(d) : i <= j
    ELSE LET taken == DOMAIN docSteps[d] \cup {r.step : r \in ledger[d]}
         IN  /\ \A j \in taken : j < i
             /\ i = 1 \/ i - 1 \in taken

\* checkSigner: a named step is its citizen's; an open one is nobody's that a
\* later step names, and nobody's at all if the policy wants names.
MaySign(d, who) ==
    \E i \in Places(d) :
      /\ IsNext(d, i)
      /\ IF i \in Unfilled(d) /\ docSteps[d][i] # Nobody
         THEN docSteps[d][i] = who
         ELSE /\ ~policy.named
              /\ \A j \in Unfilled(d) : docSteps[d][j] # who

-----------------------------------------------------------------------------
(* The administrator *)

Editing == edits < MaxEdits /\ edits' = edits + 1

\* ReplaceWorkflow, under the advisory lock of the type: ValidateChain refuses
\* a citizen named twice.
SaveChain(c) ==
    /\ Editing
    /\ ~NamesTwice(c)
    /\ policy.named => CanRequireNamed(c)
    /\ chain' = c
    /\ UNCHANGED <<policy, docStatus, made, ledger, title, filed, signedCopy,
                   attaching, ceremony, retiring>>

\* pendingCanRequireNamedSigners asks this of every document that waits.
CanBeNamed(d) ==
    /\ docSteps[d] # <<>>
    /\ \A i \in Unfilled(d) : docSteps[d][i] # Nobody

\* Slip: only the chain is asked, not the documents that wait.
SavePolicyForNew(p) ==
    /\ Editing
    /\ p.named => CanRequireNamed(chain)
    /\ policy' = p
    /\ UNCHANGED <<chain, docStatus, made, ledger, title, filed, signedCopy,
                   attaching, ceremony, retiring>>

\* SaveSignaturePolicy, under the same lock.
SavePolicy(p) ==
    /\ Editing
    /\ p.named => CanRequireNamed(chain)
    /\ p.named /\ ~policy.named =>
         \A d \in Docs : docStatus[d] = "PENDING_APPROVAL" => CanBeNamed(d)
    /\ policy' = p
    /\ UNCHANGED <<chain, docStatus, made, ledger, title, filed, signedCopy,
                   attaching, ceremony, retiring>>

-----------------------------------------------------------------------------
(* CreateDocument and RouteDocument, with snapshotApprovalChain *)

\* The transaction has read the type's chain (workflowStepsTx) and holds the
\* document's row: nobody else sees or changes it.
ReadChainFor(d) ==
    /\ \A m \in making : m.doc # d
    /\ making' = making \cup {[doc |-> d, chain |-> chain, at |-> edits]}
    /\ UNCHANGED <<chain, policy, docStatus, docSteps, overtaken, ledger, title, filed, signedCopy,
                   attaching, ceremony, retiring, edits>>

\* CreateDocument, and RouteDocument of a draft an agent wrote.
Create(d) == docStatus[d] = "absent" /\ ReadChainFor(d)
Route(d) == docStatus[d] = "DRAFT" /\ ReadChainFor(d)

\* It starts waiting, under the chain as it was read: snapshotApprovalChain.
MakeCommit(m) ==
    /\ m \in making
    /\ making' = making \ {m}
    /\ docStatus' = [docStatus EXCEPT ![m.doc] = "PENDING_APPROVAL"]
    /\ docSteps' = [docSteps EXCEPT ![m.doc] = FillableChain(m.chain)]
    /\ overtaken' = IF m.at = edits THEN overtaken ELSE overtaken \cup {m.doc}
    /\ UNCHANGED <<chain, policy, ledger, title, filed, signedCopy, attaching, ceremony,
                   retiring, edits>>

-----------------------------------------------------------------------------
(* What happens to a document beside its signatures *)

\* RejectDocument.
Reject(d) ==
    /\ docStatus[d] = "PENDING_APPROVAL"
    /\ docStatus' = [docStatus EXCEPT ![d] = "REJECTED"]
    /\ UNCHANGED <<chain, policy, made, ledger, title, filed, signedCopy,
                   attaching, ceremony, retiring, edits>>

\* Slip: the signatures are not asked for.
RenameWhilePending(d) ==
    /\ Editing
    /\ docStatus[d] \in {"DRAFT", "PENDING_APPROVAL"} /\ \A m \in making : m.doc # d
    /\ title' = [title EXCEPT ![d] = @ + 1]
    /\ UNCHANGED <<chain, policy, docStatus, made, ledger, filed, signedCopy,
                   attaching, ceremony, retiring>>

\* RenameDocument, under the lock of the document's row.
Rename(d) ==
    /\ Editing
    /\ docStatus[d] \in {"DRAFT", "PENDING_APPROVAL"} /\ \A m \in making : m.doc # d
    /\ ledger[d] = {}
    /\ title' = [title EXCEPT ![d] = @ + 1]
    /\ UNCHANGED <<chain, policy, docStatus, made, ledger, filed, signedCopy,
                   attaching, ceremony, retiring>>

\* AttachFile: CheckAttachable counts the signatures ...
AttachCheck(d) ==
    /\ docStatus[d] # "absent"
    /\ ledger[d] = {}
    /\ d \notin attaching
    /\ Editing
    /\ attaching' = attaching \cup {d}
    /\ UNCHANGED <<chain, policy, docStatus, made, ledger, title, filed,
                   signedCopy, ceremony, retiring>>

\* ... and a later statement, without a lock, replaces the file.  A signed copy
\* is left as it is.
AttachWrite(d) ==
    /\ d \in attaching
    /\ attaching' = attaching \ {d}
    /\ filed' = [filed EXCEPT ![d] = @ + 1]
    /\ UNCHANGED <<chain, policy, docStatus, made, ledger, title, signedCopy,
                   ceremony, retiring, edits>>

-----------------------------------------------------------------------------
(* A ceremony: StartEIDSignature and startContentSignature *)

Unspent(n) == ceremony[n].state = "live"

\* A deleted row: nothing that it held is read again.
Forgotten(S) ==
    [n \in DOMAIN ceremony |->
       IF n \in S THEN [ceremony[n] EXCEPT !.state = "gone", !.base = {}, !.approved = FALSE]
       ELSE ceremony[n]]

\* preflightSignature, before anybody is troubled.
Preflight(d, method) == docStatus[d] = "PENDING_APPROVAL" /\ method \in policy.allowed

\* FormatFor: what the document carries decides the rail; one that cannot sign
\* PDFs signs the digest.
FormatsFor(d) == IF filed[d] = 0 THEN {"approval"} ELSE {"detached", "pades"}

\* pdfToSign: the signed copy, if there is one.
CopyToSign(d, format) == IF format = "pades" THEN signedCopy[d] ELSE {}

\* Unspent rows past their hour are swept, if that succeeds.
StartPush(d, who) ==
    LET old == {n \in DOMAIN ceremony :
                  Unspent(n) /\ ceremony[n].doc = d}
    IN  /\ Len(ceremony) < MaxCeremonies
        /\ Preflight(d, "EID")
        /\ MaySign(d, who)
        /\ who \notin SignersOf(d)
        /\ \E swept \in {{}, old}, format \in FormatsFor(d) :
             ceremony' = Append(Forgotten(swept),
                [state |-> "asked", doc |-> d, who |-> who, format |-> format,
                 base |-> CopyToSign(d, format), approved |-> FALSE])
        /\ UNCHANGED <<chain, policy, docStatus, made, ledger, title, filed,
                       signedCopy, attaching, retiring, edits>>

\* The row of the pushed request.
InsertSession(n) ==
    /\ ceremony[n].state = "asked"
    /\ ceremony' = [ceremony EXCEPT ![n].state = "live"]
    /\ retiring' = IF ceremony[n].format = "approval" THEN retiring \cup {n} ELSE retiring
    /\ UNCHANGED <<chain, policy, docStatus, made, ledger, title, filed,
                   signedCopy, attaching, edits>>

\* The INSERT fails, or on the content rail the caller has gone away: the phone
\* shows a request that nothing can redeem.
InsertFails(n) ==
    /\ ceremony[n].state = "asked"
    /\ ceremony' = Forgotten({n})
    /\ UNCHANGED <<chain, policy, docStatus, made, ledger, title, filed,
                   signedCopy, attaching, retiring, edits>>

\* Slip: spent rows are deleted too.
RetireAll(n) ==
    /\ n \in retiring
    /\ retiring' = retiring \ {n}
    /\ ceremony' = Forgotten({k \in DOMAIN ceremony \ {n} :
                     /\ ceremony[k].state \in {"live", "spent"}
                     /\ ceremony[k].doc = ceremony[n].doc
                     /\ ceremony[k].who = ceremony[n].who})
    /\ UNCHANGED <<chain, policy, docStatus, made, ledger, title, filed,
                   signedCopy, attaching, edits>>

\* The other unspent requests of this document and citizen are deleted, if that
\* succeeds: newer ones as well.
RetireOlder(n) ==
    /\ n \in retiring
    /\ retiring' = retiring \ {n}
    /\ \/ ceremony' = Forgotten({k \in DOMAIN ceremony \ {n} :
                        /\ Unspent(k)
                        /\ ceremony[k].doc = ceremony[n].doc
                        /\ ceremony[k].who = ceremony[n].who})
       \/ UNCHANGED ceremony
    /\ UNCHANGED <<chain, policy, docStatus, made, ledger, title, filed,
                   signedCopy, attaching, edits>>

\* PIN2 on the phone.
Approve(n) ==
    /\ ceremony[n].state \in {"asked", "live"} /\ ~ceremony[n].approved
    /\ ceremony' = [ceremony EXCEPT ![n].approved = TRUE]
    /\ UNCHANGED <<chain, policy, docStatus, made, ledger, title, filed,
                   signedCopy, attaching, retiring, edits>>

\* PollEIDSignature hears that the citizen refused or let it pass, or finds the
\* request past its time, approved or not: the row is deleted.
ApprovalEnds(n) ==
    /\ ceremony[n].format = "approval" /\ Unspent(n)
    /\ ceremony' = Forgotten({n})
    /\ UNCHANGED <<chain, policy, docStatus, made, ledger, title, filed,
                   signedCopy, attaching, retiring, edits>>

\* pollContentSignature hears that it was refused, expired or failed.
ContentEnds(n) ==
    /\ ceremony[n].format # "approval" /\ Unspent(n) /\ ~ceremony[n].approved
    /\ ceremony' = Forgotten({n})
    /\ UNCHANGED <<chain, policy, docStatus, made, ledger, title, filed,
                   signedCopy, attaching, retiring, edits>>

-----------------------------------------------------------------------------
(* writeSignature, one transaction under the lock of the document's row *)

\* Slip: the signature itself is not counted.
FillsUncounted(d, i, record) ==
    /\ ledger' = [ledger EXCEPT ![d] = @ \cup {record}]
    /\ docStatus' = [docStatus EXCEPT ![d] =
          IF Unfilled(d) \ {i} = {} /\ Cardinality(ledger[d]) >= Required(d)
          THEN "APPROVED" ELSE @]

\* The step of the signature, and whether the document is complete with it.
Fills(d, i, record) ==
    /\ ledger' = [ledger EXCEPT ![d] = @ \cup {record}]
    /\ docStatus' = [docStatus EXCEPT ![d] =
          IF Unfilled(d) \ {i} = {} /\ Cardinality(ledger[d]) + 1 >= Required(d)
          THEN "APPROVED" ELSE @]

\* Status, policy and chain are asked again, under the lock; a citizen's second signature
\* is refused by the ledger's constraint.
MayWrite(d, who, method) ==
    /\ Preflight(d, method)
    /\ MaySign(d, who)
    /\ who \notin SignersOf(d)

\* SignWithDAN.
SignDAN(d, who) ==
    \E i \in Places(d) :
      /\ MayWrite(d, who, "DAN") /\ IsNext(d, i)
      /\ Fills(d, i, [step |-> i, who |-> who, method |-> "DAN", session |-> 0])
      /\ UNCHANGED <<chain, policy, made, title, filed, signedCopy, attaching,
                     ceremony, retiring, edits>>

\* The row is spent with the signature: it is its pairing with the document.
Spends(n) == Unspent(n) /\ ceremony' = [ceremony EXCEPT ![n].state = "spent"]

\* The PDF as the rail signed it.
KeepsSigned(n) ==
    LET c == ceremony[n]
    IN  signedCopy' = IF c.format # "pades" THEN signedCopy
                      ELSE [signedCopy EXCEPT ![c.doc] = c.base \cup {c.who}]

\* recordSignature of an approved request.
RecordPhoneSignature(n) ==
    LET c == ceremony[n] IN
    \E i \in Places(c.doc) :
      /\ c.approved
      /\ MayWrite(c.doc, c.who, "EID") /\ IsNext(c.doc, i)
      /\ Fills(c.doc, i, [step |-> i, who |-> c.who, method |-> "EID", session |-> n])
      /\ Spends(n)

\* PollEIDSignature: the approval rail.
SignByApproval(n) ==
    /\ ceremony[n].format = "approval"
    /\ RecordPhoneSignature(n)
    /\ UNCHANGED <<chain, policy, made, title, filed, signedCopy, attaching, retiring, edits>>

\* Slip: the signed PDF is kept as soon as the rail hands it over.
SignKeepingPdf(n) ==
    LET c == ceremony[n] IN
    /\ c.format # "approval" /\ Unspent(n) /\ c.approved
    /\ IF MayWrite(c.doc, c.who, "EID") THEN RecordPhoneSignature(n)
       ELSE UNCHANGED <<ledger, docStatus, ceremony>>
    /\ KeepsSigned(n)
    /\ UNCHANGED <<chain, policy, made, title, filed, attaching, retiring, edits>>

\* pollContentSignature: a signature over the file.
SignContent(n) ==
    /\ ceremony[n].format # "approval"
    /\ RecordPhoneSignature(n) /\ KeepsSigned(n)
    /\ UNCHANGED <<chain, policy, made, title, filed, attaching, retiring, edits>>

-----------------------------------------------------------------------------
ApprovalNext ==
    \/ \E c \in Chains : SaveChain(c)
    \/ \E p \in Policies : SavePolicy(p)
    \/ \E d \in Docs : Create(d) \/ Route(d)
    \/ \E m \in making : MakeCommit(m)
    \/ \E d \in Docs : Reject(d) \/ Rename(d) \/ AttachCheck(d) \/ AttachWrite(d)
    \/ \E d \in Docs, who \in Citizens : StartPush(d, who) \/ SignDAN(d, who)
    \/ \E n \in DOMAIN ceremony : InsertSession(n) \/ InsertFails(n) \/ RetireOlder(n)
    \/ \E n \in DOMAIN ceremony : Approve(n)
    \/ \E n \in DOMAIN ceremony : ApprovalEnds(n) \/ ContentEnds(n)
    \/ \E n \in DOMAIN ceremony : SignByApproval(n) \/ SignContent(n)

ApprovalSpec == ApprovalInit /\ [][ApprovalNext]_approvalVars

-----------------------------------------------------------------------------
(* Properties *)

\* A document that waits can still be signed by everybody it waits for: nobody
\* that an unfilled step names has spent their one signature on another step.
\* FillableChain when the chain is copied, and Reserved in checkSigner, whichever
\* way the citizens sign and whatever chains were stored before.
NamedCanSign ==
    \A d \in Docs : docStatus[d] = "PENDING_APPROVAL" =>
        \A i \in Unfilled(d) : docSteps[d][i] \notin SignersOf(d)

\* Approved is complete, and complete is approved: every step has one signature,
\* a named step its citizen's, and no document waits that nobody has still to
\* sign.  writeSignature.
ApprovedIsComplete ==
    \A d \in Docs :
        /\ docStatus[d] = "APPROVED" =>
             /\ Unfilled(d) = {}
             /\ Cardinality(ledger[d]) >= Required(d)
             /\ \A r \in ledger[d] : r.step \in DOMAIN docSteps[d] =>
                    docSteps[d][r.step] \in {r.who, Nobody}
        /\ docStatus[d] = "PENDING_APPROVAL" =>
             Unfilled(d) # {} \/ Cardinality(ledger[d]) < Required(d)

\* A signed PDF carries nobody's signature that the ledger does not: who was
\* refused at the end of a ceremony has not signed.  The comment on SignedPDF in
\* writeSignature.
OnlySignersInFile ==
    \A d \in Docs : signedCopy[d] \subseteq SignersOf(d)

\* "A recorded signature and an unspent session can never disagree": every
\* signature by phone has spent its own request, every spent request is one
\* signature, on its document and by its citizen.  recordSignature.
SpentIsSigned ==
    \A d \in Docs :
        /\ \A r \in ledger[d] : r.session # 0 =>
             /\ r.session \in DOMAIN ceremony
             /\ ceremony[r.session].state = "spent"
             /\ ceremony[r.session].doc = d /\ ceremony[r.session].who = r.who
        /\ \A n \in DOMAIN ceremony :
             ceremony[n].state = "spent" /\ ceremony[n].doc = d =>
                 \E r \in ledger[d] : r.session = n

\* A policy that wants named signers strands no document: each that waits names
\* somebody at every step that is left.  The advisory lock, CanRequireNamed and
\* pendingCanRequireNamedSigners together.  A document that started waiting on a
\* chain read before a later edit is not covered: there the code does strand it.
NotStranded ==
    policy.named => /\ CanRequireNamed(chain)
                    /\ \A d \in Docs \ overtaken :
                         docStatus[d] = "PENDING_APPROVAL" => CanBeNamed(d)

\* What was decided stays: the chain of a document that waits, its signatures,
\* the title somebody signed under, APPROVED and REJECTED.
RecordStands ==
    [][\A d \in Docs :
         /\ ledger[d] \subseteq ledger'[d]
         /\ docStatus[d] \notin {"absent", "DRAFT"} => docSteps'[d] = docSteps[d]
         /\ ledger[d] # {} => title'[d] = title[d]
         /\ docStatus[d] \in {"APPROVED", "REJECTED"} =>
              docStatus'[d] = docStatus[d] /\ ledger'[d] = ledger[d]]_approvalVars
=============================================================================
