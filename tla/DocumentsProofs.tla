--------------------------- MODULE DocumentsProofs ---------------------------
(***************************************************************************)
(* Theorems about DocumentApproval, ContractInvitations and ContractIssue,  *)
(* for any documents, people, requests, chains and bounds.                  *)
(*                                                                         *)
(* Approval: the chain of a document that waits names nobody twice and its  *)
(* signatures keep to it, so that the next signature fills the next step    *)
(* and takes nobody's.  A chain that a transaction has read is still the    *)
(* type's unless it was edited since.  A ceremony's copy of the file holds  *)
(* only signatures the ledger has.                                         *)
(* Issue: two runs are never past the same recipient's lock, and a run that *)
(* asked again there knows that no copy is live; what a request prints is   *)
(* what the row holds unless facts were saved since it read, and a draft    *)
(* whose file is out is one that is being sent.                             *)
(* Together: a behaviour of MCDocuments, with its bounds, is a behaviour of *)
(* each of the three, so that what is proved of one holds there too.        *)
(***************************************************************************)
EXTENDS MCDocuments, SequenceTheorems, FiniteSetTheorems, TLAPS

-----------------------------------------------------------------------------
(* Approval: the invariant *)

\* Nobody has signed what does not wait yet.
NotYetSigned(d) == docStatus[d] \in {"absent", "DRAFT"} => ledger[d] = {}

StepsOwned(d) ==
    \A r \in ledger[d] : r.step \in DOMAIN docSteps[d] => docSteps[d][r.step] \in {r.who, Nobody}

\* A chain read by a transaction at work.
ReadRightly(m) ==
    /\ docStatus[m.doc] \in {"absent", "DRAFT"}
    /\ m.at <= edits /\ (m.at = edits => m.chain = chain)
    /\ \A k \in making : k.doc = m.doc => k = m

BasesSigned == \A n \in DOMAIN ceremony : ceremony[n].base \subseteq SignersOf(ceremony[n].doc)

\* What is true of the steps and the signatures.
LedgerInv ==
    /\ \A d \in Docs : /\ IsFiniteSet(ledger[d]) /\ NotYetSigned(d)
                       /\ ~NamesTwice(docSteps[d]) /\ StepsOwned(d)
    /\ NamedCanSign /\ ApprovedIsComplete

\* What is true of the ceremonies and the file.
CeremonyInv == OnlySignersInFile /\ SpentIsSigned /\ BasesSigned

ApprovalInv ==
    /\ ApprovalTypeOK
    /\ \A m \in making : ReadRightly(m)
    /\ LedgerInv
    /\ CeremonyInv
    /\ NotStranded

LEMMA SeqDomain ==
    ASSUME NEW S, NEW s \in Seq(S)
    PROVE  /\ Len(s) \in Nat /\ DOMAIN s = 1 .. Len(s)
           /\ \A i \in DOMAIN s : s[i] \in S
BY LenProperties, ElementOfSeq

LEMMA ApprovalTypes ==
    ASSUME ApprovalTypeOK
    PROVE  /\ Nobody \notin Citizens /\ MaxCeremonies \in Nat /\ edits \in Nat
           /\ chain \in Seq(Signers) /\ policy \in Policies
           /\ ceremony \in Seq(Ceremonies) /\ Len(ceremony) \in Nat
           /\ DOMAIN ceremony = 1 .. Len(ceremony) /\ DOMAIN ceremony \subseteq Sessions
           /\ \A n \in DOMAIN ceremony : ceremony[n] \in Ceremonies /\ n \in Nat /\ n # 0
           /\ \A d \in Docs :
                /\ docStatus[d] \in Statuses /\ docSteps[d] \in Seq(Signers)
                /\ Len(docSteps[d]) \in Nat /\ DOMAIN docSteps[d] = 1 .. Len(docSteps[d])
                /\ \A i \in DOMAIN docSteps[d] : docSteps[d][i] \in Signers /\ i \in Nat
                /\ ledger[d] \subseteq Applied /\ title[d] \in Nat /\ filed[d] \in Nat
                /\ signedCopy[d] \subseteq Citizens
                /\ \A r \in ledger[d] : r.step \in Nat \ {0} /\ r.who \in Citizens
           /\ \A m \in making : m.doc \in Docs /\ m.chain \in Seq(Signers) /\ m.at \in Nat
<1>1. ceremony \in Seq(Ceremonies) /\ Len(ceremony) <= MaxCeremonies
      /\ \A d \in Docs : docSteps[d] \in Seq(Signers)
    BY DEF ApprovalTypeOK
<1>2. /\ Len(ceremony) \in Nat /\ DOMAIN ceremony = 1 .. Len(ceremony)
      /\ \A n \in DOMAIN ceremony : ceremony[n] \in Ceremonies
    BY <1>1, SeqDomain
<1>3. DOMAIN ceremony \subseteq Sessions
    BY <1>1, <1>2, ApprovalAssumption DEF Sessions
<1>4. ASSUME NEW d \in Docs
      PROVE  /\ Len(docSteps[d]) \in Nat /\ DOMAIN docSteps[d] = 1 .. Len(docSteps[d])
             /\ \A i \in DOMAIN docSteps[d] : docSteps[d][i] \in Signers /\ i \in Nat
    BY <1>1, SeqDomain
<1>5. ASSUME NEW d \in Docs
      PROVE  /\ docStatus[d] \in Statuses /\ ledger[d] \subseteq Applied
             /\ title[d] \in Nat /\ filed[d] \in Nat /\ signedCopy[d] \subseteq Citizens
             /\ \A r \in ledger[d] : r.step \in Nat \ {0} /\ r.who \in Citizens
    BY DEF ApprovalTypeOK, Applied
<1> QED
    BY <1>1, <1>2, <1>3, <1>4, <1>5, ApprovalAssumption DEF ApprovalTypeOK

-----------------------------------------------------------------------------
(* Chains *)

\* A chain that was made fillable names nobody twice, and one that names everybody
\* once is as it was.
LEMMA Fillable ==
    ASSUME NEW c \in Seq(Signers)
    PROVE  /\ FillableChain(c) \in Seq(Signers) /\ DOMAIN FillableChain(c) = DOMAIN c
           /\ ~NamesTwice(FillableChain(c))
           /\ CanRequireNamed(c) => \A i \in DOMAIN c : FillableChain(c)[i] # Nobody
<1>1. /\ Len(c) \in Nat /\ DOMAIN c = 1 .. Len(c) /\ \A i \in DOMAIN c : c[i] \in Signers
    BY SeqDomain
<1>2. Nobody \in Signers
    BY DEF Signers
<1>3. FillableChain(c) \in [1 .. Len(c) -> Signers]
    BY <1>1, <1>2 DEF FillableChain
<1>4. FillableChain(c) \in Seq(Signers)
    BY <1>1, <1>3, SeqDef
<1>5. DOMAIN FillableChain(c) = DOMAIN c
    BY DEF FillableChain
<1>6. ASSUME NEW i \in DOMAIN c, NEW j \in DOMAIN c, i < j,
             FillableChain(c)[i] = FillableChain(c)[j]
      PROVE  FillableChain(c)[i] = Nobody
    <2>1. FillableChain(c)[j] # Nobody => c[j] = FillableChain(c)[j] /\ \A k \in 1 .. j - 1 : c[k] # c[j]
        BY DEF FillableChain
    <2>2. FillableChain(c)[i] # Nobody => c[i] = FillableChain(c)[i]
        BY DEF FillableChain
    <2>3. i \in 1 .. j - 1
        BY <1>1, <1>6
    <2> QED
        BY <1>6, <2>1, <2>2, <2>3
<1>7. ~NamesTwice(FillableChain(c))
    <2> SUFFICES ASSUME NEW i \in DOMAIN c, NEW j \in DOMAIN c, i # j,
                        FillableChain(c)[i] = FillableChain(c)[j]
                 PROVE  FillableChain(c)[i] = Nobody
        BY <1>5 DEF NamesTwice
    <2>1. i < j \/ j < i
        BY <1>1
    <2> QED
        BY <1>6, <2>1
<1>8. ASSUME CanRequireNamed(c), NEW i \in DOMAIN c PROVE FillableChain(c)[i] # Nobody
    <2>1. \A j \in DOMAIN c : j # i => c[j] # c[i]
        BY <1>8 DEF CanRequireNamed, NamesTwice
    <2>2. \A j \in 1 .. i - 1 : j \in DOMAIN c /\ j # i
        BY <1>1
    <2>3. FillableChain(c)[i] = c[i]
        BY <2>1, <2>2 DEF FillableChain
    <2> QED
        BY <1>8, <2>3 DEF CanRequireNamed
<1> QED
    BY <1>4, <1>5, <1>7, <1>8

\* The next step is one step, it is unfilled if any is, and past the chain if none.
LEMMA NextStep ==
    ASSUME ApprovalTypeOK, NEW d \in Docs, NEW i \in Places(d), IsNext(d, i)
    PROVE  /\ i \in Nat \ {0}
           /\ Unfilled(d) # {} => i \in Unfilled(d)
           /\ Unfilled(d) = {} => i \notin DOMAIN docSteps[d]
           /\ \A j \in Places(d) : IsNext(d, j) => j = i
<1>1. Places(d) \subseteq Nat \ {0} /\ Unfilled(d) \subseteq DOMAIN docSteps[d]
    BY ApprovalTypes DEF Places, Unfilled
<1>2. DOMAIN docSteps[d] \subseteq Nat /\ \A r \in ledger[d] : r.step \in Nat
    BY ApprovalTypes
<1>3. Unfilled(d) # {} => i \in Unfilled(d) /\ \A j \in Unfilled(d) : i <= j
    BY DEF IsNext
<1>4. CASE Unfilled(d) # {}
    <2>1. ASSUME NEW j \in Places(d), IsNext(d, j) PROVE j = i
        <3>1. j \in Unfilled(d) /\ i <= j /\ j <= i
            BY <1>3, <1>4, <2>1 DEF IsNext
        <3> QED
            BY <1>1, <3>1
    <2> QED
        BY <1>1, <1>3, <1>4, <2>1
<1>5. CASE Unfilled(d) = {}
    <2> DEFINE taken == DOMAIN docSteps[d] \cup {r.step : r \in ledger[d]}
    <2>1. taken \subseteq Nat
        BY <1>2
    <2>2. ASSUME NEW j \in Places(d), IsNext(d, j)
          PROVE  (\A k \in taken : k < j) /\ (j = 1 \/ j - 1 \in taken) /\ j \in Nat \ {0}
        BY <1>1, <1>5, <2>2 DEF IsNext
    <2> HIDE DEF taken
    <2>3. ASSUME NEW j \in Places(d), IsNext(d, j) PROVE j = i
        <3>1. j \in Nat \ {0} /\ i \in Nat \ {0}
            BY <1>1
        <3>2. j = 1 \/ j - 1 < i
            BY <2>2, <2>3
        <3>3. i = 1 \/ i - 1 < j
            BY <2>2, <2>3
        <3> QED
            BY <3>1, <3>2, <3>3
    <2>4. i \notin DOMAIN docSteps[d]
        BY <1>1, <2>2 DEF taken
    <2> QED
        BY <1>1, <1>5, <2>3, <2>4
<1> QED
    BY <1>4, <1>5

\* Whoever may sign fills their own step or an open one, and none that names
\* them is left.
LEMMA SignerFits ==
    ASSUME ApprovalTypeOK, NEW d \in Docs, ~NamesTwice(docSteps[d]), NEW who \in Citizens,
           MaySign(d, who), NEW i \in Places(d), IsNext(d, i)
    PROVE  /\ i \in DOMAIN docSteps[d] => i \in Unfilled(d) /\ docSteps[d][i] \in {who, Nobody}
           /\ \A j \in Unfilled(d) \ {i} : docSteps[d][j] # who
<1>1. IF i \in Unfilled(d) /\ docSteps[d][i] # Nobody
      THEN docSteps[d][i] = who
      ELSE \A j \in Unfilled(d) : docSteps[d][j] # who
    BY NextStep DEF MaySign
<1>2. i \in DOMAIN docSteps[d] => i \in Unfilled(d)
    BY NextStep
<1>3. Unfilled(d) \subseteq DOMAIN docSteps[d] /\ who # Nobody
    BY ApprovalAssumption DEF Unfilled
<1>4. CASE i \in Unfilled(d) /\ docSteps[d][i] # Nobody
    <2>1. docSteps[d][i] = who
        BY <1>1, <1>4
    <2>2. \A j \in Unfilled(d) \ {i} : docSteps[d][j] # who
        BY <1>3, <1>4, <2>1 DEF NamesTwice
    <2> QED
        BY <1>2, <2>1, <2>2
<1>5. CASE ~(i \in Unfilled(d) /\ docSteps[d][i] # Nobody)
    BY <1>1, <1>2, <1>5
<1> QED
    BY <1>4, <1>5

-----------------------------------------------------------------------------
(* A signature *)

\* The ledger and the steps when a signature has been written.
LEMMA LedgerSigned ==
    ASSUME ApprovalInv, NEW d \in Docs, NEW who \in Citizens, NEW method \in Methods,
           MayWrite(d, who, method), NEW i \in Places(d), IsNext(d, i),
           NEW session \in {0} \cup Sessions, NEW record,
           record = [step |-> i, who |-> who, method |-> method, session |-> session],
           Fills(d, i, record), UNCHANGED <<docSteps, policy, chain, overtaken>>
    PROVE  /\ record \in Applied /\ record \notin ledger[d]
           /\ ledger' \in [Docs -> SUBSET Applied] /\ docStatus' \in [Docs -> Statuses]
           /\ ledger'[d] = ledger[d] \cup {record}
           /\ \A e \in Docs \ {d} : ledger'[e] = ledger[e] /\ docStatus'[e] = docStatus[e]
           /\ docStatus[d] = "PENDING_APPROVAL"
           /\ docStatus'[d] \in {"PENDING_APPROVAL", "APPROVED"}
           /\ LedgerInv' /\ NotStranded'
           /\ \A e \in Docs : SignersOf(e) \subseteq SignersOf(e)'
           /\ SignersOf(d)' = SignersOf(d) \cup {who}
<1>0. ApprovalTypeOK /\ LedgerInv
    BY DEF ApprovalInv
<1>1. docStatus[d] = "PENDING_APPROVAL" /\ MaySign(d, who) /\ who \notin SignersOf(d)
    BY DEF MayWrite, Preflight
<1>2. i \in Nat \ {0} /\ record.step = i /\ record.who = who
    BY <1>0, NextStep
<1>3. record \in Applied
    BY <1>2 DEF Applied
<1>4. \A r \in ledger[d] : r.who # who
    BY <1>1 DEF SignersOf
<1>5. record \notin ledger[d]
    BY <1>2, <1>4
<1>6. /\ ledger' = [ledger EXCEPT ![d] = ledger[d] \cup {record}]
      /\ docStatus' = [docStatus EXCEPT ![d] =
            IF Unfilled(d) \ {i} = {} /\ Cardinality(ledger[d]) + 1 >= Required(d)
            THEN "APPROVED" ELSE docStatus[d]]
    BY DEF Fills
<1>7. ledger \in [Docs -> SUBSET Applied] /\ docStatus \in [Docs -> Statuses]
    BY <1>0 DEF ApprovalTypeOK
<1>8. /\ ledger' \in [Docs -> SUBSET Applied] /\ docStatus' \in [Docs -> Statuses]
      /\ ledger'[d] = ledger[d] \cup {record}
      /\ \A e \in Docs \ {d} : ledger'[e] = ledger[e] /\ docStatus'[e] = docStatus[e]
      /\ docStatus'[d] = IF Unfilled(d) \ {i} = {} /\ Cardinality(ledger[d]) + 1 >= Required(d)
                         THEN "APPROVED" ELSE docStatus[d]
    BY <1>3, <1>6, <1>7 DEF Statuses
<1>9. /\ i \in DOMAIN docSteps[d] => i \in Unfilled(d) /\ docSteps[d][i] \in {who, Nobody}
      /\ \A j \in Unfilled(d) \ {i} : docSteps[d][j] # who
    BY <1>0, <1>1, SignerFits DEF LedgerInv
<1>10. Unfilled(d)' = Unfilled(d) \ {i} /\ Required(d)' = Required(d)
    BY <1>2, <1>8 DEF Unfilled, Required
<1>11. SignersOf(d)' = SignersOf(d) \cup {who}
    BY <1>2, <1>8 DEF SignersOf
<1>12. \A e \in Docs \ {d} : /\ Unfilled(e)' = Unfilled(e) /\ Required(e)' = Required(e)
                            /\ SignersOf(e)' = SignersOf(e)
    BY <1>8 DEF Unfilled, Required, SignersOf
<1>13. IsFiniteSet(ledger'[d]) /\ Cardinality(ledger'[d]) = Cardinality(ledger[d]) + 1
       /\ Cardinality(ledger[d]) \in Nat
    <2>1. IsFiniteSet(ledger[d])
        BY <1>0 DEF LedgerInv
    <2>2. /\ IsFiniteSet(ledger[d] \cup {record}) /\ Cardinality(ledger[d]) \in Nat
          /\ Cardinality(ledger[d] \cup {record}) = Cardinality(ledger[d]) + 1
        BY <1>5, <2>1, FS_AddElement, FS_CardinalityType
    <2> QED
        BY <1>8, <2>2
<1>14. Required(d) \in Nat
    BY <1>0, ApprovalTypes DEF Required
<1>15. \A e \in Docs : /\ IsFiniteSet(ledger'[e]) /\ NotYetSigned(e)'
                      /\ ~NamesTwice(docSteps'[e]) /\ StepsOwned(e)'
    <2>1. ASSUME NEW e \in Docs, e # d
          PROVE  /\ IsFiniteSet(ledger'[e]) /\ NotYetSigned(e)'
                 /\ ~NamesTwice(docSteps'[e]) /\ StepsOwned(e)'
        BY <1>0, <1>8, <2>1 DEF LedgerInv, NotYetSigned, StepsOwned
    <2>2. NotYetSigned(d)' /\ ~NamesTwice(docSteps'[d])
        BY <1>0, <1>1, <1>8 DEF LedgerInv, NotYetSigned
    <2>3. StepsOwned(d)'
        BY <1>0, <1>2, <1>8, <1>9 DEF LedgerInv, StepsOwned
    <2> QED
        BY <1>13, <2>1, <2>2, <2>3
<1>16. NamedCanSign'
    <2> SUFFICES ASSUME NEW e \in Docs, docStatus'[e] = "PENDING_APPROVAL", NEW j \in Unfilled(e)'
                 PROVE  docSteps'[e][j] \notin SignersOf(e)'
        BY DEF NamedCanSign
    <2>1. CASE e # d
        BY <1>0, <1>8, <1>12, <2>1 DEF LedgerInv, NamedCanSign
    <2>2. CASE e = d
        BY <1>0, <1>1, <1>9, <1>10, <1>11, <2>2 DEF LedgerInv, NamedCanSign
    <2> QED
        BY <2>1, <2>2
<1>17. ApprovedIsComplete'
    <2> SUFFICES ASSUME NEW e \in Docs
                 PROVE  /\ docStatus'[e] = "APPROVED" =>
                             /\ Unfilled(e)' = {}
                             /\ Cardinality(ledger'[e]) >= Required(e)'
                             /\ StepsOwned(e)'
                        /\ docStatus'[e] = "PENDING_APPROVAL" =>
                             Unfilled(e)' # {} \/ Cardinality(ledger'[e]) < Required(e)'
        BY DEF ApprovedIsComplete, StepsOwned
    <2>1. CASE e # d
        BY <1>0, <1>8, <1>12, <1>15, <2>1 DEF LedgerInv, ApprovedIsComplete
    <2>2. CASE e = d
        <3>1. /\ docStatus'[d] = "APPROVED" =>
                   Unfilled(d) \ {i} = {} /\ Cardinality(ledger[d]) + 1 >= Required(d)
              /\ docStatus'[d] = "PENDING_APPROVAL" =>
                   ~(Unfilled(d) \ {i} = {} /\ Cardinality(ledger[d]) + 1 >= Required(d))
            BY <1>1, <1>8
        <3>2. docStatus'[d] = "APPROVED" =>
                 Unfilled(d)' = {} /\ Cardinality(ledger'[d]) >= Required(d)'
            BY <1>10, <1>13, <3>1
        <3>3. docStatus'[d] = "PENDING_APPROVAL" =>
                 Unfilled(d)' # {} \/ Cardinality(ledger'[d]) < Required(d)'
            BY <1>10, <1>13, <1>14, <3>1
        <3> QED
            BY <1>15, <2>2, <3>2, <3>3
    <2> QED
        BY <2>1, <2>2
<1>18. NotStranded'
    <2>1. \A e \in Docs : Unfilled(e)' \subseteq Unfilled(e)
        BY <1>10, <1>12
    <2>2. \A e \in Docs : docStatus'[e] = "PENDING_APPROVAL" => docStatus[e] = "PENDING_APPROVAL"
        BY <1>1, <1>8
    <2>3. \A e \in Docs : CanBeNamed(e) => CanBeNamed(e)'
        BY <2>1 DEF CanBeNamed
    <2> QED
        BY <2>2, <2>3 DEF ApprovalInv, NotStranded
<1> QED
    BY <1>1, <1>3, <1>5, <1>8, <1>11, <1>12, <1>15, <1>16, <1>17, <1>18 DEF LedgerInv

\* A signature without a ceremony, DAN's.
LEMMA SignedByDan ==
    ASSUME ApprovalInv, NEW d \in Docs, NEW who \in Citizens, SignDAN(d, who)
    PROVE  ApprovalInv'
<1>1. PICK i \in Places(d) :
        /\ MayWrite(d, who, "DAN") /\ IsNext(d, i)
        /\ Fills(d, i, [step |-> i, who |-> who, method |-> "DAN", session |-> 0])
        /\ UNCHANGED <<chain, policy, made, title, filed, signedCopy, attaching,
                       ceremony, retiring, edits>>
    BY DEF SignDAN
<1>2. PICK record : record = [step |-> i, who |-> who, method |-> "DAN", session |-> 0]
    OBVIOUS
<1>3. UNCHANGED <<docSteps, making, overtaken>>
    BY <1>1 DEF made
<1>4. "DAN" \in Methods /\ 0 \in {0} \cup Sessions
    BY DEF Methods
<1>5. /\ ledger' \in [Docs -> SUBSET Applied] /\ docStatus' \in [Docs -> Statuses]
      /\ ledger'[d] = ledger[d] \cup {record} /\ record \in Applied
      /\ \A e \in Docs \ {d} : ledger'[e] = ledger[e] /\ docStatus'[e] = docStatus[e]
      /\ docStatus[d] = "PENDING_APPROVAL"
      /\ LedgerInv' /\ NotStranded'
      /\ \A e \in Docs : SignersOf(e) \subseteq SignersOf(e)'
    BY <1>1, <1>2, <1>3, <1>4, LedgerSigned
<1>6. ApprovalTypeOK'
    BY <1>1, <1>3, <1>5 DEF ApprovalInv, ApprovalTypeOK
<1>7. \A m \in making' : ReadRightly(m)'
    <2>1. ASSUME NEW m \in making PROVE docStatus'[m.doc] = docStatus[m.doc]
        <3>1. m.doc \in Docs /\ m.doc # d
            BY <1>5, ApprovalTypes DEF ApprovalInv, ReadRightly
        <3> QED
            BY <1>5, <3>1
    <2> QED
        BY <1>1, <1>3, <2>1 DEF ApprovalInv, ReadRightly
<1>8. record.session = 0
    BY <1>2
<1>9. SpentIsSigned'
    <2> SUFFICES ASSUME NEW e \in Docs
                 PROVE  /\ \A r \in ledger'[e] : r.session # 0 =>
                             /\ r.session \in DOMAIN ceremony
                             /\ ceremony[r.session].state = "spent"
                             /\ ceremony[r.session].doc = e /\ ceremony[r.session].who = r.who
                        /\ \A n \in DOMAIN ceremony :
                             ceremony[n].state = "spent" /\ ceremony[n].doc = e =>
                                 \E r \in ledger'[e] : r.session = n
        BY <1>1 DEF SpentIsSigned
    <2>1. \A r \in ledger'[e] : r \in ledger[e] \/ r = record
        BY <1>5
    <2>2. ledger[e] \subseteq ledger'[e]
        BY <1>5
    <2> QED
        BY <1>8, <2>1, <2>2 DEF ApprovalInv, CeremonyInv, SpentIsSigned
<1>10. OnlySignersInFile' /\ BasesSigned'
    <2>1. \A n \in DOMAIN ceremony : ceremony[n].doc \in Docs
        BY ApprovalTypes DEF ApprovalInv, Ceremonies
    <2> QED
        BY <1>1, <1>5, <2>1 DEF ApprovalInv, CeremonyInv, OnlySignersInFile, BasesSigned
<1> QED
    BY <1>5, <1>6, <1>7, <1>9, <1>10 DEF ApprovalInv, CeremonyInv

\* A signature by phone spends its own request; the file gains nobody but the
\* signer.
LEMMA SignedByPhone ==
    ASSUME ApprovalInv, NEW n \in DOMAIN ceremony, RecordPhoneSignature(n),
           signedCopy' = signedCopy \/ KeepsSigned(n),
           UNCHANGED <<chain, policy, made, title, filed, attaching, retiring, edits>>
    PROVE  ApprovalInv'
<1> DEFINE c == ceremony[n]
<1>0. c \in Ceremonies /\ c.doc \in Docs /\ c.who \in Citizens /\ n \in Sessions /\ n # 0
    BY ApprovalTypes DEF ApprovalInv, Ceremonies
<1>1. PICK i \in Places(c.doc) :
        /\ MayWrite(c.doc, c.who, "EID") /\ IsNext(c.doc, i)
        /\ Fills(c.doc, i, [step |-> i, who |-> c.who, method |-> "EID", session |-> n])
        /\ Spends(n)
    BY DEF RecordPhoneSignature
<1>2. PICK d \in Docs, who \in Citizens : d = c.doc /\ who = c.who
    BY <1>0
<1>3. PICK record : record = [step |-> i, who |-> who, method |-> "EID", session |-> n]
    OBVIOUS
<1>4. UNCHANGED <<docSteps, making, overtaken>>
    BY DEF made
<1>5. /\ ledger' \in [Docs -> SUBSET Applied] /\ docStatus' \in [Docs -> Statuses]
      /\ ledger'[d] = ledger[d] \cup {record} /\ record \in Applied
      /\ \A e \in Docs \ {d} : ledger'[e] = ledger[e] /\ docStatus'[e] = docStatus[e]
      /\ docStatus[d] = "PENDING_APPROVAL"
      /\ LedgerInv' /\ NotStranded'
      /\ \A e \in Docs : SignersOf(e) \subseteq SignersOf(e)'
      /\ SignersOf(d)' = SignersOf(d) \cup {who}
    <2>1. "EID" \in Methods /\ n \in {0} \cup Sessions
        BY <1>0 DEF Methods
    <2> QED
        BY <1>1, <1>2, <1>3, <1>4, <2>1, LedgerSigned
<1>6. record.session = n /\ record.who = who
    BY <1>3
<1>7. /\ ceremony \in Seq(Ceremonies) /\ Len(ceremony) \in Nat /\ DOMAIN ceremony = 1 .. Len(ceremony)
      /\ Len(ceremony) <= MaxCeremonies
    BY ApprovalTypes DEF ApprovalInv, ApprovalTypeOK
<1>8. PICK new \in Ceremonies : /\ new = [ceremony[n] EXCEPT !.state = "spent"]
                                /\ new.state = "spent" /\ new.doc = d /\ new.who = who
                                /\ new.base = c.base
    <2>1. [ceremony[n] EXCEPT !.state = "spent"] \in Ceremonies
        BY <1>0 DEF Ceremonies
    <2> QED
        BY <1>0, <1>2, <2>1 DEF Ceremonies
<1>9. ceremony' = [ceremony EXCEPT ![n] = new] /\ c.state = "live"
    BY <1>1, <1>8 DEF Spends, Unspent
<1>10. /\ ceremony' \in Seq(Ceremonies) /\ Len(ceremony') = Len(ceremony)
       /\ DOMAIN ceremony' = DOMAIN ceremony
       /\ \A k \in DOMAIN ceremony : ceremony'[k] = IF k = n THEN new ELSE ceremony[k]
    BY <1>7, <1>9, ExceptSeq, SeqDomain
<1>11. \A e \in Docs : signedCopy'[e] \subseteq SignersOf(e)'
    <2>1. CASE signedCopy' = signedCopy
        BY <1>5, <2>1 DEF ApprovalInv, CeremonyInv, OnlySignersInFile
    <2>2. CASE signedCopy' = [signedCopy EXCEPT ![d] = c.base \cup {who}]
        <3>1. c.base \subseteq SignersOf(d)
            BY <1>2 DEF ApprovalInv, CeremonyInv, BasesSigned
        <3>2. signedCopy \in [Docs -> SUBSET Citizens]
            BY DEF ApprovalInv, ApprovalTypeOK
        <3>3. signedCopy'[d] = c.base \cup {who} /\ \A e \in Docs \ {d} : signedCopy'[e] = signedCopy[e]
            BY <2>2, <3>2
        <3> QED
            BY <1>5, <3>1, <3>3 DEF ApprovalInv, CeremonyInv, OnlySignersInFile
    <2> QED
        BY <1>2, <2>1, <2>2 DEF KeepsSigned
<1>12. signedCopy' \in [Docs -> SUBSET Citizens]
    <2>1. c.base \cup {c.who} \subseteq Citizens
        BY <1>0 DEF Ceremonies
    <2> QED
        BY <1>0, <2>1 DEF KeepsSigned, ApprovalInv, ApprovalTypeOK
<1>13. ApprovalTypeOK'
    BY <1>4, <1>5, <1>7, <1>10, <1>12 DEF ApprovalInv, ApprovalTypeOK
<1>14. \A m \in making' : ReadRightly(m)'
    <2>1. ASSUME NEW m \in making PROVE docStatus'[m.doc] = docStatus[m.doc]
        <3>1. m.doc \in Docs /\ m.doc # d
            BY <1>5, ApprovalTypes DEF ApprovalInv, ReadRightly
        <3> QED
            BY <1>5, <3>1
    <2> QED
        BY <1>4, <2>1 DEF ApprovalInv, ReadRightly
<1>15. SpentIsSigned'
    <2>1. ASSUME NEW e \in Docs, NEW r \in ledger'[e], r.session # 0
          PROVE  /\ r.session \in DOMAIN ceremony'
                 /\ ceremony'[r.session].state = "spent"
                 /\ ceremony'[r.session].doc = e /\ ceremony'[r.session].who = r.who
        <3>1. CASE r \in ledger[e]
            BY <1>8, <1>9, <1>10, <2>1, <3>1 DEF ApprovalInv, CeremonyInv, SpentIsSigned
        <3>2. CASE r \notin ledger[e]
            <4>1. e = d /\ r = record
                BY <1>5, <3>2
            <4> QED
                BY <1>6, <1>8, <1>10, <4>1
        <3> QED
            BY <3>1, <3>2
    <2>2. ASSUME NEW e \in Docs, NEW k \in DOMAIN ceremony', ceremony'[k].state = "spent",
                 ceremony'[k].doc = e
          PROVE  \E r \in ledger'[e] : r.session = k
        <3>1. CASE k = n
            BY <1>5, <1>6, <1>8, <1>10, <2>2, <3>1
        <3>2. CASE k # n
            <4>1. \E r \in ledger[e] : r.session = k
                BY <1>10, <2>2, <3>2 DEF ApprovalInv, CeremonyInv, SpentIsSigned
            <4> QED
                BY <1>5, <4>1
        <3> QED
            BY <3>1, <3>2
    <2> QED
        BY <2>1, <2>2 DEF SpentIsSigned
<1>16. BasesSigned'
    <2>1. ASSUME NEW k \in DOMAIN ceremony
          PROVE  /\ ceremony'[k].base = ceremony[k].base /\ ceremony'[k].doc = ceremony[k].doc
                 /\ ceremony[k].doc \in Docs
        BY <1>2, <1>8, <1>10, ApprovalTypes DEF ApprovalInv, Ceremonies
    <2> QED
        BY <1>5, <1>10, <2>1 DEF ApprovalInv, CeremonyInv, BasesSigned
<1>17. OnlySignersInFile'
    BY <1>11 DEF OnlySignersInFile
<1> QED
    BY <1>5, <1>13, <1>14, <1>15, <1>16, <1>17 DEF ApprovalInv, CeremonyInv

-----------------------------------------------------------------------------
(* The ceremonies *)

\* A step of the ceremonies that spends none and copies nothing from a file that
\* its document's signers did not sign.
LEMMA CeremonyStep ==
    ASSUME ApprovalInv,
           UNCHANGED <<chain, policy, docStatus, made, ledger, title, filed, signedCopy,
                       attaching, edits>>,
           ceremony' \in Seq(Ceremonies), Len(ceremony') <= MaxCeremonies,
           DOMAIN ceremony \subseteq DOMAIN ceremony', retiring' \subseteq DOMAIN ceremony',
           \A n \in DOMAIN ceremony :
               /\ ceremony'[n].doc = ceremony[n].doc /\ ceremony'[n].who = ceremony[n].who
               /\ ceremony'[n].state = "spent" <=> ceremony[n].state = "spent"
               /\ ceremony'[n].base \subseteq ceremony[n].base,
           \A n \in DOMAIN ceremony' \ DOMAIN ceremony :
               /\ ceremony'[n].state # "spent"
               /\ ceremony'[n].base \subseteq SignersOf(ceremony'[n].doc)
    PROVE  ApprovalInv'
<1>1. UNCHANGED <<docSteps, making, overtaken>>
    BY DEF made
<1>2. ApprovalTypeOK'
    BY <1>1 DEF ApprovalInv, ApprovalTypeOK
<1>3. (\A m \in making' : ReadRightly(m)') /\ NotStranded' /\ OnlySignersInFile'
    BY <1>1 DEF ApprovalInv, ReadRightly, NotStranded, CanBeNamed, Unfilled, CeremonyInv,
                OnlySignersInFile, SignersOf
<1>4. LedgerInv'
    BY <1>1 DEF ApprovalInv, LedgerInv, NotYetSigned, StepsOwned, NamedCanSign,
                ApprovedIsComplete, Unfilled, Required, SignersOf
<1>5. SpentIsSigned'
    <2>1. ASSUME NEW d \in Docs, NEW r \in ledger[d], r.session # 0
          PROVE  /\ r.session \in DOMAIN ceremony'
                 /\ ceremony'[r.session].state = "spent"
                 /\ ceremony'[r.session].doc = d /\ ceremony'[r.session].who = r.who
        BY <2>1 DEF ApprovalInv, CeremonyInv, SpentIsSigned
    <2>2. ASSUME NEW d \in Docs, NEW n \in DOMAIN ceremony', ceremony'[n].state = "spent",
                 ceremony'[n].doc = d
          PROVE  \E r \in ledger[d] : r.session = n
        <3>1. n \in DOMAIN ceremony
            BY <2>2
        <3> QED
            BY <2>2, <3>1 DEF ApprovalInv, CeremonyInv, SpentIsSigned
    <2> QED
        BY <2>1, <2>2 DEF SpentIsSigned
<1>6. BasesSigned'
    <2>1. \A d : SignersOf(d)' = SignersOf(d)
        BY DEF SignersOf
    <2>2. ASSUME NEW n \in DOMAIN ceremony' PROVE ceremony'[n].base \subseteq SignersOf(ceremony'[n].doc)
        <3>1. CASE n \in DOMAIN ceremony
            BY <3>1 DEF ApprovalInv, CeremonyInv, BasesSigned
        <3>2. CASE n \notin DOMAIN ceremony
            BY <2>2, <3>2
        <3> QED
            BY <3>1, <3>2
    <2>3. \A n \in DOMAIN ceremony' :
             \E d : d = ceremony'[n].doc /\ ceremony'[n].base \subseteq SignersOf(d)'
        BY <2>1, <2>2
    <2> QED
        BY <2>2 DEF BasesSigned, SignersOf
<1> QED
    BY <1>2, <1>3, <1>4, <1>5, <1>6 DEF ApprovalInv, CeremonyInv

\* A row that is deleted is no other row's concern.
LEMMA ForgottenFits ==
    ASSUME ApprovalTypeOK, NEW S, \A n \in S \cap DOMAIN ceremony : ceremony[n].state # "spent"
    PROVE  /\ Forgotten(S) \in Seq(Ceremonies) /\ Len(Forgotten(S)) = Len(ceremony)
           /\ DOMAIN Forgotten(S) = DOMAIN ceremony
           /\ \A n \in DOMAIN ceremony :
                /\ Forgotten(S)[n].doc = ceremony[n].doc /\ Forgotten(S)[n].who = ceremony[n].who
                /\ Forgotten(S)[n].state = "spent" <=> ceremony[n].state = "spent"
                /\ Forgotten(S)[n].base \subseteq ceremony[n].base
<1>1. /\ Len(ceremony) \in Nat /\ DOMAIN ceremony = 1 .. Len(ceremony)
      /\ \A n \in DOMAIN ceremony : ceremony[n] \in Ceremonies
    BY ApprovalTypes
<1>2. PICK f : f = Forgotten(S)
    OBVIOUS
<1>3. /\ f = [n \in DOMAIN ceremony |->
                IF n \in S THEN [ceremony[n] EXCEPT !.state = "gone", !.base = {}, !.approved = FALSE]
                ELSE ceremony[n]]
    BY <1>2 DEF Forgotten
<1>4. ASSUME NEW n \in DOMAIN ceremony
      PROVE  /\ f[n] \in Ceremonies
             /\ f[n].doc = ceremony[n].doc /\ f[n].who = ceremony[n].who
             /\ f[n].state = "spent" <=> ceremony[n].state = "spent"
             /\ f[n].base \subseteq ceremony[n].base
    <2>1. CASE n \in S
        <3>1. f[n] = [ceremony[n] EXCEPT !.state = "gone", !.base = {}, !.approved = FALSE]
            BY <1>3, <2>1
        <3>2. ceremony[n] \in Ceremonies /\ ceremony[n].state # "spent"
            BY <1>1, <2>1
        <3> QED
            BY <3>1, <3>2 DEF Ceremonies
    <2>2. CASE n \notin S
        BY <1>1, <1>3, <2>2
    <2> QED
        BY <2>1, <2>2
<1>5. f \in [1 .. Len(ceremony) -> Ceremonies]
    BY <1>1, <1>3, <1>4
<1>6. f \in Seq(Ceremonies) /\ Len(f) = Len(ceremony) /\ DOMAIN f = DOMAIN ceremony
    <2>1. f \in Seq(Ceremonies)
        BY <1>1, <1>5, SeqDef
    <2>2. Len(f) \in Nat /\ DOMAIN f = 1 .. Len(f)
        BY <2>1, SeqDomain
    <2> QED
        BY <1>1, <1>5, <2>1, <2>2
<1> QED
    BY <1>2, <1>4, <1>6

\* Rows are deleted, whatever becomes of retiring.
LEMMA ForgetStep ==
    ASSUME ApprovalInv, NEW S, \A n \in S \cap DOMAIN ceremony : ceremony[n].state # "spent",
           ceremony' = Forgotten(S), retiring' \subseteq retiring,
           UNCHANGED <<chain, policy, docStatus, made, ledger, title, filed, signedCopy,
                       attaching, edits>>
    PROVE  ApprovalInv'
<1>1. /\ ceremony' \in Seq(Ceremonies) /\ Len(ceremony') = Len(ceremony)
      /\ DOMAIN ceremony' = DOMAIN ceremony
      /\ \A n \in DOMAIN ceremony :
           /\ ceremony'[n].doc = ceremony[n].doc /\ ceremony'[n].who = ceremony[n].who
           /\ ceremony'[n].state = "spent" <=> ceremony[n].state = "spent"
           /\ ceremony'[n].base \subseteq ceremony[n].base
    BY ForgottenFits DEF ApprovalInv
<1>2. Len(ceremony') <= MaxCeremonies /\ retiring' \subseteq DOMAIN ceremony'
    BY <1>1 DEF ApprovalInv, ApprovalTypeOK
<1> QED
    BY <1>1, <1>2, CeremonyStep

\* One row changes, and neither becomes spent nor was.
LEMMA RowStep ==
    ASSUME ApprovalInv, NEW n \in DOMAIN ceremony, NEW row \in Ceremonies,
           ceremony' = [ceremony EXCEPT ![n] = row], retiring' \subseteq retiring \cup {n},
           row.doc = ceremony[n].doc, row.who = ceremony[n].who, row.base = ceremony[n].base,
           row.state # "spent", ceremony[n].state # "spent",
           UNCHANGED <<chain, policy, docStatus, made, ledger, title, filed, signedCopy,
                       attaching, edits>>
    PROVE  ApprovalInv'
<1>1. ceremony \in Seq(Ceremonies) /\ Len(ceremony) <= MaxCeremonies /\ retiring \subseteq DOMAIN ceremony
    BY DEF ApprovalInv, ApprovalTypeOK
<1>2. /\ ceremony' \in Seq(Ceremonies) /\ Len(ceremony') = Len(ceremony)
      /\ DOMAIN ceremony' = DOMAIN ceremony
      /\ \A k \in DOMAIN ceremony : ceremony'[k] = IF k = n THEN row ELSE ceremony[k]
    BY <1>1, ExceptSeq, SeqDomain
<1> QED
    BY <1>1, <1>2, CeremonyStep

LEMMA StartPushKeeps ==
    ASSUME ApprovalInv, NEW d \in Docs, NEW who \in Citizens, StartPush(d, who)
    PROVE  ApprovalInv'
<1> DEFINE old == {n \in DOMAIN ceremony : Unspent(n) /\ ceremony[n].doc = d}
<1>0. ApprovalTypeOK /\ signedCopy[d] \subseteq Citizens
    BY ApprovalTypes DEF ApprovalInv
<1>1. PICK swept \in {{}, old}, format \in FormatsFor(d) :
         ceremony' = Append(Forgotten(swept),
                [state |-> "asked", doc |-> d, who |-> who, format |-> format,
                 base |-> CopyToSign(d, format), approved |-> FALSE])
    BY DEF StartPush
<1>2. PICK row : row = [state |-> "asked", doc |-> d, who |-> who, format |-> format,
                        base |-> CopyToSign(d, format), approved |-> FALSE]
    OBVIOUS
<1>3. row \in Ceremonies /\ row.doc = d /\ row.state # "spent" /\ row.base \subseteq SignersOf(d)
    <2>1. format \in Formats
        BY DEF FormatsFor, Formats
    <2>2. CopyToSign(d, format) \subseteq SignersOf(d) /\ CopyToSign(d, format) \subseteq Citizens
        BY <1>0 DEF CopyToSign, ApprovalInv, CeremonyInv, OnlySignersInFile
    <2> QED
        BY <1>2, <2>1, <2>2 DEF Ceremonies
<1>4. PICK kept : kept = Forgotten(swept)
    OBVIOUS
<1>5. /\ kept \in Seq(Ceremonies) /\ Len(kept) = Len(ceremony) /\ DOMAIN kept = DOMAIN ceremony
      /\ \A n \in DOMAIN ceremony :
           /\ kept[n].doc = ceremony[n].doc /\ kept[n].who = ceremony[n].who
           /\ kept[n].state = "spent" <=> ceremony[n].state = "spent"
           /\ kept[n].base \subseteq ceremony[n].base
    <2>1. \A n \in swept \cap DOMAIN ceremony : ceremony[n].state # "spent"
        BY DEF Unspent
    <2> QED
        BY <1>0, <1>4, <2>1, ForgottenFits
<1>6. ceremony' = Append(kept, row)
    BY <1>1, <1>2, <1>4
<1>7. Len(ceremony) < MaxCeremonies
      /\ UNCHANGED <<chain, policy, docStatus, made, ledger, title, filed, signedCopy,
                     attaching, retiring, edits>>
    BY DEF StartPush
<1>8. Len(ceremony) \in Nat /\ DOMAIN ceremony = 1 .. Len(ceremony) /\ MaxCeremonies \in Nat
    BY <1>0, ApprovalTypes
<1>9. /\ ceremony' \in Seq(Ceremonies) /\ Len(ceremony') = Len(ceremony) + 1
      /\ \A n \in 1 .. Len(ceremony) : ceremony'[n] = kept[n]
      /\ ceremony'[Len(ceremony) + 1] = row
    BY <1>3, <1>5, <1>6, AppendProperties
<1>10. DOMAIN ceremony' = 1 .. Len(ceremony) + 1
    BY <1>9, SeqDomain
<1>11. /\ DOMAIN ceremony \subseteq DOMAIN ceremony' /\ Len(ceremony') <= MaxCeremonies
       /\ DOMAIN ceremony' \ DOMAIN ceremony = {Len(ceremony) + 1}
       /\ retiring' \subseteq DOMAIN ceremony'
    BY <1>0, <1>7, <1>8, <1>9, <1>10 DEF ApprovalTypeOK
<1>12. \A n \in DOMAIN ceremony :
           /\ ceremony'[n].doc = ceremony[n].doc /\ ceremony'[n].who = ceremony[n].who
           /\ ceremony'[n].state = "spent" <=> ceremony[n].state = "spent"
           /\ ceremony'[n].base \subseteq ceremony[n].base
    BY <1>5, <1>8, <1>9
<1>13. \A n \in DOMAIN ceremony' \ DOMAIN ceremony :
           /\ ceremony'[n].state # "spent"
           /\ ceremony'[n].base \subseteq SignersOf(ceremony'[n].doc)
    BY <1>3, <1>9, <1>11
<1> QED
    BY <1>7, <1>9, <1>11, <1>12, <1>13, CeremonyStep

\* Everything else that happens to a ceremony before it is recorded.
LEMMA CeremonySteps ==
    ASSUME ApprovalInv, NEW n \in DOMAIN ceremony,
           \/ InsertSession(n) \/ InsertFails(n) \/ RetireOlder(n)
           \/ Approve(n) \/ ApprovalEnds(n) \/ ContentEnds(n)
    PROVE  ApprovalInv'
<1>0. ceremony[n] \in Ceremonies /\ ApprovalTypeOK
    BY ApprovalTypes DEF ApprovalInv
<1>1. CASE InsertSession(n)
    <2>1. PICK row \in Ceremonies :
             /\ row = [ceremony[n] EXCEPT !.state = "live"]
             /\ row.doc = ceremony[n].doc /\ row.who = ceremony[n].who
             /\ row.base = ceremony[n].base /\ row.state = "live"
        <3>1. [ceremony[n] EXCEPT !.state = "live"] \in Ceremonies
            BY <1>0 DEF Ceremonies
        <3> QED
            BY <1>0, <3>1 DEF Ceremonies
    <2>2. /\ ceremony' = [ceremony EXCEPT ![n] = row] /\ ceremony[n].state = "asked"
          /\ retiring' \subseteq retiring \cup {n}
          /\ UNCHANGED <<chain, policy, docStatus, made, ledger, title, filed, signedCopy,
                         attaching, edits>>
        BY <1>1, <2>1 DEF InsertSession
    <2> QED
        BY <2>1, <2>2, RowStep
<1>2. CASE Approve(n)
    <2>1. PICK row \in Ceremonies :
             /\ row = [ceremony[n] EXCEPT !.approved = TRUE]
             /\ row.doc = ceremony[n].doc /\ row.who = ceremony[n].who
             /\ row.base = ceremony[n].base /\ row.state = ceremony[n].state
        <3>1. [ceremony[n] EXCEPT !.approved = TRUE] \in Ceremonies
            BY <1>0 DEF Ceremonies
        <3> QED
            BY <1>0, <3>1 DEF Ceremonies
    <2>2. /\ ceremony' = [ceremony EXCEPT ![n] = row] /\ ceremony[n].state \in {"asked", "live"}
          /\ retiring' \subseteq retiring \cup {n}
          /\ UNCHANGED <<chain, policy, docStatus, made, ledger, title, filed, signedCopy,
                         attaching, edits>>
        BY <1>2, <2>1 DEF Approve
    <2> QED
        BY <2>1, <2>2, RowStep
<1>3. CASE InsertFails(n) \/ ApprovalEnds(n) \/ ContentEnds(n)
    <2>1. /\ ceremony' = Forgotten({n}) /\ ceremony[n].state # "spent" /\ retiring' = retiring
          /\ UNCHANGED <<chain, policy, docStatus, made, ledger, title, filed, signedCopy,
                         attaching, edits>>
        BY <1>3 DEF InsertFails, ApprovalEnds, ContentEnds, Unspent
    <2> QED
        BY <2>1, ForgetStep
<1>4. CASE RetireOlder(n)
    <2>1. PICK S : S = {k \in DOMAIN ceremony \ {n} : /\ Unspent(k)
                                                      /\ ceremony[k].doc = ceremony[n].doc
                                                      /\ ceremony[k].who = ceremony[n].who}
        OBVIOUS
    <2>2. /\ retiring' \subseteq retiring
          /\ ceremony' = Forgotten(S) \/ ceremony' = ceremony
          /\ UNCHANGED <<chain, policy, docStatus, made, ledger, title, filed, signedCopy,
                         attaching, edits>>
        BY <1>4, <2>1 DEF RetireOlder
    <2>3. \A k \in S \cap DOMAIN ceremony : ceremony[k].state # "spent"
        BY <2>1 DEF Unspent
    <2>4. CASE ceremony' = Forgotten(S)
        BY <2>2, <2>3, <2>4, ForgetStep
    <2>5. CASE ceremony' = ceremony
        BY <1>0, <2>2, <2>5, CeremonyStep DEF ApprovalTypeOK
    <2> QED
        BY <2>2, <2>4, <2>5
<1> QED
    BY <1>1, <1>2, <1>3, <1>4

-----------------------------------------------------------------------------
(* The administrator, and a document before and beside its signatures *)

LEMMA SaveChainKeeps ==
    ASSUME ApprovalInv, NEW c \in Chains, SaveChain(c)
    PROVE  ApprovalInv'
<1>1. UNCHANGED <<policy, docStatus, docSteps, making, overtaken, ledger, title, filed, signedCopy,
                  attaching, ceremony, retiring>>
      /\ chain' = c /\ edits' = edits + 1 /\ (policy.named => CanRequireNamed(c))
    BY DEF SaveChain, Editing, made
<1>2. c \in Seq(Signers) /\ edits \in Nat
    BY ApprovalAssumption DEF Signers, ApprovalInv, ApprovalTypeOK
<1>3. ApprovalTypeOK'
    BY <1>1, <1>2 DEF ApprovalInv, ApprovalTypeOK
<1>4. \A m \in making' : ReadRightly(m)'
    <2>1. \A m \in making : m.at \in Nat
        BY ApprovalTypes DEF ApprovalInv
    <2> QED
        BY <1>1, <1>2, <2>1 DEF ApprovalInv, ReadRightly
<1>5. NotStranded'
    BY <1>1 DEF ApprovalInv, NotStranded, CanBeNamed, Unfilled
<1>6. LedgerInv' /\ CeremonyInv'
    BY <1>1 DEF ApprovalInv, LedgerInv, NotYetSigned, StepsOwned, NamedCanSign, ApprovedIsComplete,
                Unfilled, Required, SignersOf, CeremonyInv, OnlySignersInFile, SpentIsSigned, BasesSigned
<1> QED
    BY <1>3, <1>4, <1>5, <1>6 DEF ApprovalInv

LEMMA SavePolicyKeeps ==
    ASSUME ApprovalInv, NEW p \in Policies, SavePolicy(p)
    PROVE  ApprovalInv'
<1>1. /\ UNCHANGED <<chain, docStatus, docSteps, making, overtaken, ledger, title, filed, signedCopy,
                     attaching, ceremony, retiring>>
      /\ policy' = p /\ edits' = edits + 1 /\ (p.named => CanRequireNamed(chain))
      /\ p.named /\ ~policy.named =>
           \A d \in Docs : docStatus[d] = "PENDING_APPROVAL" => CanBeNamed(d)
    BY DEF SavePolicy, Editing, made
<1>2. edits \in Nat /\ policy \in Policies
    BY DEF ApprovalInv, ApprovalTypeOK
<1>3. ApprovalTypeOK'
    BY <1>1, <1>2 DEF ApprovalInv, ApprovalTypeOK
<1>4. \A m \in making' : ReadRightly(m)'
    <2>1. \A m \in making : m.at \in Nat
        BY ApprovalTypes DEF ApprovalInv
    <2> QED
        BY <1>1, <1>2, <2>1 DEF ApprovalInv, ReadRightly
<1>5. NotStranded'
    <2>1. \A d \in Docs : CanBeNamed(d) => CanBeNamed(d)'
        BY <1>1 DEF CanBeNamed, Unfilled
    <2>2. CASE p.named /\ ~policy.named
        BY <1>1, <2>1, <2>2 DEF NotStranded
    <2>3. CASE p.named /\ policy.named
        BY <1>1, <2>1, <2>3 DEF ApprovalInv, NotStranded
    <2>4. CASE ~p.named
        BY <1>1, <2>4 DEF NotStranded
    <2> QED
        BY <2>2, <2>3, <2>4
<1>6. LedgerInv' /\ CeremonyInv'
    BY <1>1 DEF ApprovalInv, LedgerInv, NotYetSigned, StepsOwned, NamedCanSign, ApprovedIsComplete,
                Unfilled, Required, SignersOf, CeremonyInv, OnlySignersInFile, SpentIsSigned, BasesSigned
<1> QED
    BY <1>3, <1>4, <1>5, <1>6 DEF ApprovalInv

\* CreateDocument and RouteDocument read the chain.
LEMMA ReadChainKeeps ==
    ASSUME ApprovalInv, NEW d \in Docs, Create(d) \/ Route(d)
    PROVE  ApprovalInv'
<1>1. /\ docStatus[d] \in {"absent", "DRAFT"} /\ \A m \in making : m.doc # d
      /\ making' = making \cup {[doc |-> d, chain |-> chain, at |-> edits]}
      /\ UNCHANGED <<chain, policy, docStatus, docSteps, overtaken, ledger, title, filed, signedCopy,
                     attaching, ceremony, retiring, edits>>
    BY DEF Create, Route, ReadChainFor
<1>2. PICK new : new = [doc |-> d, chain |-> chain, at |-> edits]
    OBVIOUS
<1>3. edits \in Nat /\ chain \in Seq(Signers) /\ new \in [doc : Docs, chain : Seq(Signers), at : Nat]
      /\ new.doc = d /\ new.at = edits /\ new.chain = chain
    BY <1>2 DEF ApprovalInv, ApprovalTypeOK
<1>4. ApprovalTypeOK'
    BY <1>1, <1>2, <1>3 DEF ApprovalInv, ApprovalTypeOK
<1>5. \A m \in making' : ReadRightly(m)'
    <2>1. ASSUME NEW m \in making PROVE ReadRightly(m)'
        BY <1>1, <1>2, <1>3, <2>1 DEF ApprovalInv, ReadRightly
    <2>2. ReadRightly(new)'
        BY <1>1, <1>2, <1>3 DEF ReadRightly
    <2> QED
        BY <1>1, <1>2, <2>1, <2>2
<1>6. NotStranded' /\ LedgerInv' /\ CeremonyInv'
    BY <1>1 DEF ApprovalInv, LedgerInv, NotYetSigned, StepsOwned, NamedCanSign, ApprovedIsComplete,
                Unfilled, Required, SignersOf, CeremonyInv, OnlySignersInFile, SpentIsSigned, BasesSigned,
                NotStranded, CanBeNamed
<1> QED
    BY <1>4, <1>5, <1>6 DEF ApprovalInv

\* The document waits, on the chain that was read.
LEMMA MakeCommitKeeps ==
    ASSUME ApprovalInv, NEW m \in making, MakeCommit(m)
    PROVE  ApprovalInv'
<1>0. /\ ApprovalTypeOK /\ LedgerInv /\ ReadRightly(m)
      /\ m.doc \in Docs /\ m.chain \in Seq(Signers) /\ edits \in Nat
    BY ApprovalTypes DEF ApprovalInv
<1>1. PICK d \in Docs, c \in Seq(Signers) : d = m.doc /\ c = m.chain
    BY <1>0
<1>2. PICK steps : steps = FillableChain(c)
    OBVIOUS
<1>3. /\ steps \in Seq(Signers) /\ DOMAIN steps = DOMAIN c /\ ~NamesTwice(steps)
      /\ CanRequireNamed(c) => \A i \in DOMAIN c : steps[i] # Nobody
    BY <1>2, Fillable
<1>4. /\ making' = making \ {m}
      /\ docStatus' = [docStatus EXCEPT ![d] = "PENDING_APPROVAL"]
      /\ docSteps' = [docSteps EXCEPT ![d] = steps]
      /\ overtaken' = IF m.at = edits THEN overtaken ELSE overtaken \cup {d}
      /\ UNCHANGED <<chain, policy, ledger, title, filed, signedCopy, attaching, ceremony,
                     retiring, edits>>
    BY <1>1, <1>2 DEF MakeCommit
<1>5. docStatus \in [Docs -> Statuses] /\ docSteps \in [Docs -> Seq(Signers)]
    BY <1>0 DEF ApprovalTypeOK
<1>6. /\ docStatus' \in [Docs -> Statuses] /\ docSteps' \in [Docs -> Seq(Signers)]
      /\ docStatus'[d] = "PENDING_APPROVAL" /\ docSteps'[d] = steps
      /\ \A e \in Docs \ {d} : docStatus'[e] = docStatus[e] /\ docSteps'[e] = docSteps[e]
    BY <1>3, <1>4, <1>5 DEF Statuses
<1>7. ledger[d] = {} /\ docStatus[d] \in {"absent", "DRAFT"}
    BY <1>0, <1>1 DEF LedgerInv, NotYetSigned, ReadRightly
<1>8. ApprovalTypeOK'
    BY <1>0, <1>4, <1>6 DEF ApprovalTypeOK
<1>9. \A k \in making' : ReadRightly(k)'
    <2>1. ASSUME NEW k \in making, k # m PROVE k.doc # d /\ k.doc \in Docs
        BY <1>0, <1>1, <2>1, ApprovalTypes DEF ReadRightly
    <2> QED
        BY <1>4, <1>6, <2>1 DEF ApprovalInv, ReadRightly
<1>10. \A e \in Docs \ {d} : /\ Unfilled(e)' = Unfilled(e) /\ Required(e)' = Required(e)
                            /\ SignersOf(e)' = SignersOf(e)
    BY <1>4, <1>6 DEF Unfilled, Required, SignersOf
<1>11. Unfilled(d)' = DOMAIN steps /\ SignersOf(d)' = {} /\ Cardinality(ledger'[d]) = 0
    <2>1. Cardinality(ledger[d]) = 0
        BY <1>7, FS_EmptySet
    <2> QED
        BY <1>4, <1>6, <1>7, <2>1 DEF Unfilled, SignersOf
<1>12. LedgerInv'
    <2>1. ASSUME NEW e \in Docs, e # d
          PROVE  /\ IsFiniteSet(ledger'[e]) /\ NotYetSigned(e)'
                 /\ ~NamesTwice(docSteps'[e]) /\ StepsOwned(e)'
        BY <1>0, <1>4, <1>6, <2>1 DEF LedgerInv, NotYetSigned, StepsOwned
    <2>2. /\ IsFiniteSet(ledger'[d]) /\ NotYetSigned(d)'
          /\ ~NamesTwice(docSteps'[d]) /\ StepsOwned(d)'
        BY <1>0, <1>3, <1>4, <1>6, <1>7 DEF LedgerInv, NotYetSigned, StepsOwned
    <2>3. NamedCanSign'
        BY <1>0, <1>6, <1>10, <1>11 DEF LedgerInv, NamedCanSign
    <2>4. Unfilled(d)' # {} \/ Cardinality(ledger'[d]) < Required(d)'
        <3>1. CASE steps = <<>>
            <4>1. Required(d)' = 1
                BY <1>6, <3>1 DEF Required
            <4> QED
                BY <1>11, <4>1
        <3>2. CASE steps # <<>>
            <4>1. Len(steps) \in Nat /\ DOMAIN steps = 1 .. Len(steps) /\ Len(steps) # 0
                BY <1>3, <3>2, SeqDomain, EmptySeq
            <4>2. 1 \in DOMAIN steps
                BY <4>1
            <4> QED
                BY <1>11, <4>2
        <3> QED
            BY <3>1, <3>2
    <2>5. ApprovedIsComplete'
        <3>1. ASSUME NEW e \in Docs, e # d
              PROVE  /\ docStatus'[e] = "APPROVED" =>
                          /\ Unfilled(e)' = {}
                          /\ Cardinality(ledger'[e]) >= Required(e)'
                          /\ StepsOwned(e)'
                     /\ docStatus'[e] = "PENDING_APPROVAL" =>
                          Unfilled(e)' # {} \/ Cardinality(ledger'[e]) < Required(e)'
            BY <1>0, <1>4, <1>6, <1>10, <2>1, <3>1 DEF LedgerInv, ApprovedIsComplete
        <3>2. docStatus'[d] # "APPROVED"
            BY <1>6
        <3> QED
            BY <2>4, <3>1, <3>2 DEF ApprovedIsComplete, StepsOwned
    <2> QED
        BY <2>1, <2>2, <2>3, <2>5 DEF LedgerInv
<1>13. NotStranded'
    <2> SUFFICES ASSUME policy.named
                 PROVE  /\ CanRequireNamed(chain)
                        /\ \A e \in Docs \ overtaken' : docStatus'[e] = "PENDING_APPROVAL" => CanBeNamed(e)'
        BY <1>4 DEF NotStranded
    <2>1. CanRequireNamed(chain)
        BY DEF ApprovalInv, NotStranded
    <2>2. ASSUME NEW e \in Docs \ overtaken', docStatus'[e] = "PENDING_APPROVAL", e # d
          PROVE  CanBeNamed(e)'
        <3>1. e \notin overtaken
            BY <1>4, <2>2
        <3>2. CanBeNamed(e)
            BY <1>6, <2>2, <3>1 DEF ApprovalInv, NotStranded
        <3> QED
            BY <1>6, <1>10, <2>2, <3>2 DEF CanBeNamed
    <2>3. ASSUME d \notin overtaken' PROVE CanBeNamed(d)'
        <3>1. c = chain
            BY <1>0, <1>1, <1>4, <2>3 DEF ReadRightly
        <3>2. c # <<>> /\ \A i \in DOMAIN steps : steps[i] # Nobody
            BY <1>3, <2>1, <3>1 DEF CanRequireNamed
        <3>3. steps # <<>>
            BY <1>3, <3>2, SeqDomain, EmptySeq
        <3> QED
            BY <1>6, <1>11, <3>2, <3>3 DEF CanBeNamed
    <2> QED
        BY <2>1, <2>2, <2>3
<1>14. CeremonyInv'
    <2>1. \A e : SignersOf(e)' = SignersOf(e)
        BY <1>4 DEF SignersOf
    <2> QED
        BY <1>4, <2>1 DEF ApprovalInv, CeremonyInv, OnlySignersInFile, SpentIsSigned, BasesSigned, SignersOf
<1> QED
    BY <1>8, <1>9, <1>12, <1>13, <1>14 DEF ApprovalInv

\* RejectDocument, RenameDocument and AttachFile.
LEMMA BesideKeeps ==
    ASSUME ApprovalInv, NEW d \in Docs,
           Reject(d) \/ Rename(d) \/ AttachCheck(d) \/ AttachWrite(d)
    PROVE  ApprovalInv'
<1>0. ApprovalTypeOK /\ edits \in Nat /\ title[d] \in Nat /\ filed[d] \in Nat /\ docStatus[d] \in Statuses
    BY ApprovalTypes DEF ApprovalInv
<1>1. UNCHANGED <<chain, policy, docSteps, making, overtaken, ledger, signedCopy, ceremony, retiring>>
    BY DEF Reject, Rename, AttachCheck, AttachWrite, made
<1>2. edits' \in {edits, edits + 1}
    BY DEF Reject, Rename, AttachCheck, AttachWrite, Editing
<1>3. /\ docStatus' \in [Docs -> Statuses]
      /\ \/ docStatus' = docStatus
         \/ (docStatus[d] = "PENDING_APPROVAL" /\ docStatus' = [docStatus EXCEPT ![d] = "REJECTED"])
    <2>1. docStatus \in [Docs -> Statuses]
        BY <1>0 DEF ApprovalTypeOK
    <2> QED
        BY <2>1 DEF Reject, Rename, AttachCheck, AttachWrite, Statuses
<1>4. title' \in [Docs -> Nat] /\ filed' \in [Docs -> Nat] /\ attaching' \subseteq Docs
    <2>1. title \in [Docs -> Nat] /\ filed \in [Docs -> Nat] /\ attaching \subseteq Docs
        BY <1>0 DEF ApprovalTypeOK
    <2>2. title' = title \/ title' = [title EXCEPT ![d] = title[d] + 1]
        BY DEF Reject, Rename, AttachCheck, AttachWrite
    <2>3. filed' = filed \/ filed' = [filed EXCEPT ![d] = filed[d] + 1]
        BY DEF Reject, Rename, AttachCheck, AttachWrite
    <2>4. attaching' \subseteq attaching \cup {d}
        BY DEF Reject, Rename, AttachCheck, AttachWrite
    <2> QED
        BY <1>0, <2>1, <2>2, <2>3, <2>4
<1>5. ApprovalTypeOK'
    BY <1>0, <1>1, <1>2, <1>3, <1>4 DEF ApprovalTypeOK
<1>6. \A e \in Docs : \/ docStatus'[e] = docStatus[e]
                     \/ (docStatus[e] = "PENDING_APPROVAL" /\ docStatus'[e] = "REJECTED")
    BY <1>0, <1>3 DEF ApprovalTypeOK
<1>7. \A m \in making' : ReadRightly(m)'
    <2>1. ASSUME NEW m \in making PROVE m.at \in Nat /\ docStatus'[m.doc] = docStatus[m.doc]
        BY <1>0, <1>6, ApprovalTypes DEF ApprovalInv, ReadRightly
    <2> QED
        BY <1>0, <1>1, <1>2, <2>1 DEF ApprovalInv, ReadRightly
<1>8. \A e \in Docs : /\ Unfilled(e)' = Unfilled(e) /\ Required(e)' = Required(e)
                     /\ SignersOf(e)' = SignersOf(e) /\ CanBeNamed(e)' = CanBeNamed(e)
    BY <1>1 DEF Unfilled, Required, SignersOf, CanBeNamed
<1>9. LedgerInv'
    <2>1. \A e \in Docs : /\ IsFiniteSet(ledger'[e]) /\ NotYetSigned(e)'
                         /\ ~NamesTwice(docSteps'[e]) /\ StepsOwned(e)'
        BY <1>1, <1>6 DEF ApprovalInv, LedgerInv, NotYetSigned, StepsOwned
    <2>2. NamedCanSign'
        BY <1>1, <1>6, <1>8 DEF ApprovalInv, LedgerInv, NamedCanSign
    <2>3. ApprovedIsComplete'
        BY <1>1, <1>6, <1>8 DEF ApprovalInv, LedgerInv, ApprovedIsComplete
    <2> QED
        BY <2>1, <2>2, <2>3 DEF LedgerInv
<1>10. NotStranded'
    BY <1>1, <1>6, <1>8 DEF ApprovalInv, NotStranded
<1>11. CeremonyInv'
    BY <1>1, <1>8 DEF ApprovalInv, CeremonyInv, OnlySignersInFile, SpentIsSigned, BasesSigned, SignersOf
<1> QED
    BY <1>5, <1>7, <1>9, <1>10, <1>11 DEF ApprovalInv

-----------------------------------------------------------------------------
(* Approval: the theorems *)

LEMMA ApprovalStart == ApprovalInit => ApprovalInv
<1> SUFFICES ASSUME ApprovalInit PROVE ApprovalInv
    OBVIOUS
<1>1. /\ chain \in Seq(Signers) /\ ceremony = <<>> /\ ledger = [d \in Docs |-> {}]
      /\ docSteps = [d \in Docs |-> <<>>] /\ signedCopy = [d \in Docs |-> {}]
      /\ MaxCeremonies \in Nat /\ making = {}
      /\ \A d \in Docs : docStatus[d] \in {"absent", "DRAFT"}
    BY ApprovalAssumption DEF ApprovalInit, Signers
<1>2. <<>> \in Seq(Ceremonies) /\ Len(<<>>) = 0 /\ DOMAIN <<>> = {} /\ <<>> \in Seq(Signers)
    BY EmptySeq, SeqDomain
<1>3. ApprovalTypeOK
    BY <1>1, <1>2 DEF ApprovalInit, ApprovalTypeOK, Statuses
<1>4. LedgerInv
    <2>1. \A d \in Docs : IsFiniteSet(ledger[d])
        BY <1>1, FS_EmptySet
    <2> QED
        BY <1>1, <1>2, <2>1 DEF LedgerInv, NotYetSigned, StepsOwned, NamesTwice, NamedCanSign,
                                ApprovedIsComplete
<1>5. CeremonyInv
    BY <1>1, <1>2 DEF CeremonyInv, OnlySignersInFile, SpentIsSigned, BasesSigned
<1>6. NotStranded
    BY <1>1 DEF ApprovalInit, NotStranded
<1> QED
    BY <1>1, <1>3, <1>4, <1>5, <1>6 DEF ApprovalInv

LEMMA ApprovalSteps == ApprovalInv /\ [ApprovalNext]_approvalVars => ApprovalInv'
<1> SUFFICES ASSUME ApprovalInv, [ApprovalNext]_approvalVars PROVE ApprovalInv'
    OBVIOUS
<1>1. ASSUME NEW c \in Chains, SaveChain(c) PROVE ApprovalInv'
    BY <1>1, SaveChainKeeps
<1>2. ASSUME NEW p \in Policies, SavePolicy(p) PROVE ApprovalInv'
    BY <1>2, SavePolicyKeeps
<1>3. ASSUME NEW d \in Docs, Create(d) \/ Route(d) PROVE ApprovalInv'
    BY <1>3, ReadChainKeeps
<1>4. ASSUME NEW m \in making, MakeCommit(m) PROVE ApprovalInv'
    BY <1>4, MakeCommitKeeps
<1>5. ASSUME NEW d \in Docs, Reject(d) \/ Rename(d) \/ AttachCheck(d) \/ AttachWrite(d)
      PROVE  ApprovalInv'
    BY <1>5, BesideKeeps
<1>6. ASSUME NEW d \in Docs, NEW who \in Citizens, StartPush(d, who) PROVE ApprovalInv'
    BY <1>6, StartPushKeeps
<1>7. ASSUME NEW d \in Docs, NEW who \in Citizens, SignDAN(d, who) PROVE ApprovalInv'
    BY <1>7, SignedByDan
<1>8. ASSUME NEW n \in DOMAIN ceremony,
             \/ InsertSession(n) \/ InsertFails(n) \/ RetireOlder(n)
             \/ Approve(n) \/ ApprovalEnds(n) \/ ContentEnds(n)
      PROVE  ApprovalInv'
    BY <1>8, CeremonySteps
<1>9. ASSUME NEW n \in DOMAIN ceremony, SignByApproval(n) PROVE ApprovalInv'
    BY <1>9, SignedByPhone DEF SignByApproval
<1>10. ASSUME NEW n \in DOMAIN ceremony, SignContent(n) PROVE ApprovalInv'
    BY <1>10, SignedByPhone DEF SignContent
<1>11. CASE UNCHANGED approvalVars
    BY <1>11 DEF approvalVars, made, ApprovalInv, ApprovalTypeOK, ReadRightly, LedgerInv, NotYetSigned,
                 StepsOwned, NamedCanSign, ApprovedIsComplete, Unfilled, Required, SignersOf,
                 CeremonyInv, OnlySignersInFile, SpentIsSigned, BasesSigned, NotStranded, CanBeNamed
<1> QED
    BY <1>1, <1>2, <1>3, <1>4, <1>5, <1>6, <1>7, <1>8, <1>9, <1>10, <1>11 DEF ApprovalNext

\* The inductive invariant holds.
LEMMA ApprovalHolds == ApprovalSpec => []ApprovalInv
BY ApprovalStart, ApprovalSteps, PTL DEF ApprovalSpec

\* Whoever a waiting document still waits for can sign it.
THEOREM NamedSignersCanSign == ApprovalSpec => []NamedCanSign
<1>1. ApprovalInv => NamedCanSign
    BY DEF ApprovalInv, LedgerInv
<1> QED
    BY <1>1, ApprovalHolds, PTL

\* Approved is complete, and complete is approved.
THEOREM ApprovalIsComplete == ApprovalSpec => []ApprovedIsComplete
<1>1. ApprovalInv => ApprovedIsComplete
    BY DEF ApprovalInv, LedgerInv
<1> QED
    BY <1>1, ApprovalHolds, PTL

\* A signed file holds nobody's signature but the ledger's signers'.
THEOREM FileHoldsSigners == ApprovalSpec => []OnlySignersInFile
<1>1. ApprovalInv => OnlySignersInFile
    BY DEF ApprovalInv, CeremonyInv
<1> QED
    BY <1>1, ApprovalHolds, PTL

\* A spent request and a signature by phone are the same thing.
THEOREM RequestsSpentBySigning == ApprovalSpec => []SpentIsSigned
<1>1. ApprovalInv => SpentIsSigned
    BY DEF ApprovalInv, CeremonyInv
<1> QED
    BY <1>1, ApprovalHolds, PTL

\* A policy that wants names strands no document.
THEOREM PolicyStrandsNone == ApprovalSpec => []NotStranded
<1>1. ApprovalInv => NotStranded
    BY DEF ApprovalInv
<1> QED
    BY <1>1, ApprovalHolds, PTL

\* What RecordStands asks of one document in one step.
Stands(d) ==
    /\ ledger[d] \subseteq ledger'[d]
    /\ docStatus[d] \notin {"absent", "DRAFT"} => docSteps'[d] = docSteps[d]
    /\ ledger[d] # {} => title'[d] = title[d]
    /\ docStatus[d] \in {"APPROVED", "REJECTED"} => docStatus'[d] = docStatus[d] /\ ledger'[d] = ledger[d]

LEMMA StepStands ==
    ASSUME ApprovalInv, ApprovalNext, NEW d \in Docs
    PROVE  Stands(d)
<1>0. /\ docStatus \in [Docs -> Statuses] /\ ledger \in [Docs -> SUBSET Applied]
      /\ docSteps \in [Docs -> Seq(Signers)] /\ title \in [Docs -> Nat]
    BY DEF ApprovalInv, ApprovalTypeOK
<1>1. CASE UNCHANGED <<ledger, docSteps, title, docStatus>>
    BY <1>1 DEF Stands
<1>2. ASSUME NEW m \in making, MakeCommit(m) PROVE Stands(d)
    <2>1. m.doc \in Docs /\ docStatus[m.doc] \in {"absent", "DRAFT"}
        BY ApprovalTypes DEF ApprovalInv, ReadRightly
    <2>2. UNCHANGED <<ledger, title>>
          /\ docStatus' = [docStatus EXCEPT ![m.doc] = "PENDING_APPROVAL"]
          /\ docSteps' = [docSteps EXCEPT ![m.doc] = FillableChain(m.chain)]
        BY <1>2 DEF MakeCommit
    <2>3. CASE d = m.doc
        BY <2>1, <2>2, <2>3 DEF Stands
    <2>4. CASE d # m.doc
        BY <1>0, <2>1, <2>2, <2>4 DEF Stands
    <2> QED
        BY <2>3, <2>4
<1>3. ASSUME NEW e \in Docs, Reject(e) PROVE Stands(d)
    <2>1. /\ UNCHANGED <<ledger, docSteps, title>> /\ docStatus[e] = "PENDING_APPROVAL"
          /\ docStatus' = [docStatus EXCEPT ![e] = "REJECTED"]
        BY <1>3 DEF Reject, made
    <2>2. docStatus[d] \in {"APPROVED", "REJECTED"} => docStatus'[d] = docStatus[d]
        BY <1>0, <2>1
    <2> QED
        BY <2>1, <2>2 DEF Stands
<1>4. ASSUME NEW e \in Docs, Rename(e) PROVE Stands(d)
    <2>1. /\ UNCHANGED <<ledger, docSteps, docStatus>> /\ ledger[e] = {}
          /\ title' = [title EXCEPT ![e] = title[e] + 1]
        BY <1>4 DEF Rename, made
    <2>2. ledger[d] # {} => title'[d] = title[d]
        BY <1>0, <2>1
    <2> QED
        BY <2>1, <2>2 DEF Stands
<1>5. ASSUME NEW e \in Docs, NEW who, NEW method, NEW i, NEW record,
             MayWrite(e, who, method), Fills(e, i, record), UNCHANGED <<docSteps, title>>
      PROVE  Stands(d)
    <2>1. docStatus[e] = "PENDING_APPROVAL"
        BY <1>5 DEF MayWrite, Preflight
    <2>2. /\ ledger' = [ledger EXCEPT ![e] = ledger[e] \cup {record}]
          /\ docStatus' = [docStatus EXCEPT ![e] =
                IF Unfilled(e) \ {i} = {} /\ Cardinality(ledger[e]) + 1 >= Required(e)
                THEN "APPROVED" ELSE docStatus[e]]
        BY <1>5 DEF Fills
    <2>3. CASE d = e
        BY <1>0, <1>5, <2>1, <2>2, <2>3 DEF Stands
    <2>4. CASE d # e
        BY <1>0, <1>5, <2>2, <2>4 DEF Stands
    <2> QED
        BY <2>3, <2>4
<1>6. ASSUME NEW e \in Docs, NEW who \in Citizens, SignDAN(e, who) PROVE Stands(d)
    BY <1>5, <1>6 DEF SignDAN, made
<1>7. ASSUME NEW n \in DOMAIN ceremony, SignByApproval(n) \/ SignContent(n) PROVE Stands(d)
    <2>1. ceremony[n].doc \in Docs
        BY ApprovalTypes DEF ApprovalInv, Ceremonies
    <2>2. RecordPhoneSignature(n) /\ UNCHANGED <<docSteps, title>>
        BY <1>7 DEF SignByApproval, SignContent, made
    <2> QED
        BY <1>5, <2>1, <2>2 DEF RecordPhoneSignature
<1>8. CASE \/ \E c \in Chains : SaveChain(c)
           \/ \E p \in Policies : SavePolicy(p)
           \/ \E e \in Docs : Create(e) \/ Route(e) \/ AttachCheck(e) \/ AttachWrite(e)
           \/ \E e \in Docs, who \in Citizens : StartPush(e, who)
    <2>1. UNCHANGED <<ledger, docSteps, title, docStatus>>
        BY <1>8 DEF SaveChain, SavePolicy, Create, Route, ReadChainFor, AttachCheck, AttachWrite,
                    StartPush, made
    <2> QED
        BY <1>1, <2>1
<1>9. CASE \E n \in DOMAIN ceremony :
              \/ InsertSession(n) \/ InsertFails(n) \/ RetireOlder(n)
              \/ Approve(n) \/ ApprovalEnds(n) \/ ContentEnds(n)
    <2>1. UNCHANGED <<ledger, docSteps, title, docStatus>>
        BY <1>9 DEF InsertSession, InsertFails, RetireOlder, Approve, ApprovalEnds, ContentEnds, made
    <2> QED
        BY <1>1, <2>1
<1> QED
    BY <1>2, <1>3, <1>4, <1>6, <1>7, <1>8, <1>9 DEF ApprovalNext

\* What was decided and signed stays.
THEOREM WhatWasSignedStands == ApprovalSpec => RecordStands
<1>1. ApprovalInv /\ [ApprovalNext]_approvalVars =>
         [\A d \in Docs :
            /\ ledger[d] \subseteq ledger'[d]
            /\ docStatus[d] \notin {"absent", "DRAFT"} => docSteps'[d] = docSteps[d]
            /\ ledger[d] # {} => title'[d] = title[d]
            /\ docStatus[d] \in {"APPROVED", "REJECTED"} =>
                 docStatus'[d] = docStatus[d] /\ ledger'[d] = ledger[d]]_approvalVars
    BY StepStands DEF Stands
<1> QED
    BY <1>1, ApprovalHolds, PTL DEF ApprovalSpec, RecordStands

-----------------------------------------------------------------------------
(* Invitations *)

SignedRows == {i \in DOMAIN named : named[i].stage = "signed"}

\* A ceremony is its signatory's, on the party's row and in a poll at work.
CeremonyIsTheirs ==
    /\ open # 0 /\ openedBy # 0 => rail[open].row = openedBy
    /\ \A q \in asking : rail[q[1]].row = q[2]

InvitationInv == InvitationTypeOK /\ CeremonyIsTheirs /\ SignedIsNamed

LEMMA InvitationTypes ==
    ASSUME InvitationTypeOK
    PROVE  /\ named \in Seq(Rows) /\ Len(named) \in Nat /\ DOMAIN named = 1 .. Len(named)
           /\ \A i \in DOMAIN named : named[i] \in Rows /\ i \in Nat /\ i # 0 /\ i \in 1 .. MaxNamed
           /\ rail \in Seq(Pushes) /\ Len(rail) \in Nat /\ DOMAIN rail = 1 .. Len(rail)
           /\ \A n \in DOMAIN rail : rail[n] \in Pushes /\ n \in Nat /\ n # 0
           /\ \A q \in asking : q[1] \in DOMAIN rail /\ q[2] \in DOMAIN named
           /\ MaxNamed \in Nat /\ MaxPushes \in Nat
<1>1. named \in Seq(Rows) /\ rail \in Seq(Pushes) /\ MaxNamed \in Nat /\ MaxPushes \in Nat
      /\ Len(named) <= MaxNamed
    BY InvitationAssumption DEF InvitationTypeOK
<1>2. /\ Len(named) \in Nat /\ DOMAIN named = 1 .. Len(named)
      /\ \A i \in DOMAIN named : named[i] \in Rows
      /\ Len(rail) \in Nat /\ DOMAIN rail = 1 .. Len(rail)
      /\ \A n \in DOMAIN rail : rail[n] \in Pushes
    BY <1>1, SeqDomain
<1>3. \A q \in asking : q[1] \in DOMAIN rail /\ q[2] \in DOMAIN named
    BY DEF InvitationTypeOK
<1> QED
    BY <1>1, <1>2, <1>3

\* Nobody signs and nothing completed changes.
LEMMA NobodySigns ==
    ASSUME SignedIsNamed, SignedRows' = SignedRows, side' = "signed" <=> side = "signed",
           \A n \in DOMAIN rail : n \in DOMAIN rail' /\ (rail[n].result = "completed" => rail'[n] = rail[n])
    PROVE  SignedIsNamed'
<1>1. CASE side = "signed"
    <2>1. PICK i \in SignedRows : /\ SignedRows = {i}
                                  /\ \E n \in DOMAIN rail : rail[n] = [row |-> i, result |-> "completed"]
        BY <1>1 DEF SignedIsNamed, SignedRows
    <2>2. PICK n \in DOMAIN rail : rail[n] = [row |-> i, result |-> "completed"]
        BY <2>1
    <2>3. n \in DOMAIN rail' /\ rail'[n] = [row |-> i, result |-> "completed"]
        BY <2>2
    <2> QED
        BY <1>1, <2>1, <2>3 DEF SignedIsNamed, SignedRows
<1>2. CASE side # "signed"
    BY <1>2 DEF SignedIsNamed, SignedRows
<1> QED
    BY <1>1, <1>2

\* A row is inserted, and one row changes that was not signed and is not then.
LEMMA RowInserted ==
    ASSUME InvitationTypeOK, NEW who \in People, Begin(who)
    PROVE  /\ named' \in Seq(Rows) /\ Len(named') <= MaxNamed /\ DOMAIN named \subseteq DOMAIN named'
           /\ SignedRows' = SignedRows
<1>1. PICK row \in Rows : row = [who |-> who, stage |-> "writing"] /\ row.stage = "writing"
    <2>1. [who |-> who, stage |-> "writing"] \in Rows
        BY DEF Rows
    <2> QED
        BY <2>1
<1>2. named' = Append(named, row) /\ Len(named) < MaxNamed
    BY <1>1 DEF Begin
<1>3. /\ named' \in Seq(Rows) /\ Len(named') = Len(named) + 1
      /\ \A i \in 1 .. Len(named) : named'[i] = named[i]
      /\ named'[Len(named) + 1] = row
    BY <1>2, InvitationTypes, AppendProperties
<1>4. DOMAIN named' = 1 .. Len(named) + 1 /\ DOMAIN named = 1 .. Len(named) /\ Len(named) \in Nat
    BY <1>3, InvitationTypes, SeqDomain
<1> QED
    BY <1>1, <1>2, <1>3, <1>4, InvitationTypes DEF SignedRows

LEMMA RowChanged ==
    ASSUME InvitationTypeOK, NEW i \in DOMAIN named, NEW stage \in {"writing", "there", "signed", "gone"},
           named' = [named EXCEPT ![i].stage = stage]
    PROVE  /\ named' \in Seq(Rows) /\ Len(named') <= MaxNamed /\ DOMAIN named' = DOMAIN named
           /\ \A j \in DOMAIN named \ {i} : named'[j] = named[j]
           /\ named'[i].stage = stage
<1>1. PICK row \in Rows : row = [named[i] EXCEPT !.stage = stage] /\ row.stage = stage
    <2>1. named[i] \in Rows
        BY InvitationTypes
    <2>2. [named[i] EXCEPT !.stage = stage] \in Rows
        BY <2>1 DEF Rows
    <2> QED
        BY <2>1, <2>2 DEF Rows
<1>2. named' = [named EXCEPT ![i] = row]
    BY <1>1
<1>3. named \in Seq(Rows) /\ Len(named) <= MaxNamed
    BY DEF InvitationTypeOK
<1>4. /\ named' \in Seq(Rows) /\ Len(named') = Len(named)
      /\ \A j \in 1 .. Len(named) : named'[j] = IF j = i THEN row ELSE named[j]
    BY <1>1, <1>2, <1>3, ExceptSeq, SeqDomain
<1>5. DOMAIN named = 1 .. Len(named) /\ DOMAIN named' = 1 .. Len(named')
    BY <1>3, <1>4, SeqDomain
<1> QED
    BY <1>1, <1>3, <1>4, <1>5

\* What leaves the people and the ceremonies alone.
LEMMA DoorSteps ==
    ASSUME InvitationInv, side' \in Sides, link' \in {"none", "live"},
           visit' \in [Visitors -> Reads], admitted' \subseteq Inside,
           side' = "signed" <=> side = "signed",
           UNCHANGED <<named, rail>>, starting' \subseteq DOMAIN named,
           asking' \subseteq asking \cup {<<open, openedBy>>},
           (asking' \subseteq asking) \/ (open # 0 /\ openedBy # 0),
           (open' = 0 /\ openedBy' = 0) \/ UNCHANGED <<open, openedBy>>
    PROVE  InvitationInv'
<1>1. InvitationTypeOK /\ CeremonyIsTheirs /\ SignedIsNamed
    BY DEF InvitationInv
<1>2. \A q \in asking' : q \in asking \/ (open # 0 /\ openedBy # 0 /\ q = <<open, openedBy>>)
    OBVIOUS
<1>3. InvitationTypeOK'
    BY <1>1, <1>2 DEF InvitationTypeOK
<1>4. CeremonyIsTheirs'
    BY <1>1, <1>2 DEF CeremonyIsTheirs
<1>5. SignedIsNamed'
    <2>1. SignedRows' = SignedRows
        BY DEF SignedRows
    <2> QED
        BY <1>1, <2>1, NobodySigns
<1> QED
    BY <1>3, <1>4, <1>5 DEF InvitationInv

LEMMA ByLinkKeeps == InvitationInv /\ ByLink => InvitationInv'
<1> SUFFICES ASSUME InvitationInv, ByLink PROVE InvitationInv'
    OBVIOUS
<1>1. /\ InvitationTypeOK /\ CeremonyIsTheirs /\ SignedIsNamed
      /\ side \in Sides /\ link \in {"none", "live"} /\ visit \in [Visitors -> Reads]
      /\ admitted \subseteq Inside /\ starting \subseteq DOMAIN named
    BY DEF InvitationInv, InvitationTypeOK
<1>2. ASSUME NEW v \in Visitors, OpenInvite(v) \/ VisitEnds(v) \/ ShowByLink(v) \/ DeclineByLink(v)
      PROVE  InvitationInv'
    <2>1. /\ side' \in Sides /\ link' \in {"none", "live"} /\ admitted' \subseteq Inside
          /\ side' = "signed" <=> side = "signed"
        BY <1>1, <1>2 DEF OpenInvite, VisitEnds, ShowByLink, DeclineByLink, Leaves, Sides, MayAnswer
    <2>2. visit' \in [Visitors -> Reads]
        <3>1. "none" \in Reads /\ "closed" \in Reads /\ MayAnswer \subseteq Reads
            BY DEF Reads
        <3> QED
            BY <1>1, <1>2, <3>1 DEF OpenInvite, VisitEnds, ShowByLink, DeclineByLink, Leaves
    <2>3. UNCHANGED <<named, rail, starting, asking>>
          /\ ((open' = 0 /\ openedBy' = 0) \/ UNCHANGED <<open, openedBy>>)
        BY <1>2 DEF OpenInvite, VisitEnds, ShowByLink, DeclineByLink, ceremonies, Shut
    <2> QED
        BY <1>1, <2>1, <2>2, <2>3, DoorSteps
<1>3. ASSUME NEW v \in Visitors, NEW who \in People, NominateByLink(v, who)
      PROVE  InvitationInv'
    <2>1. /\ Begin(who) /\ UNCHANGED <<side, link, admitted, starting, rail, open, openedBy, asking>>
          /\ visit' \in [Visitors -> Reads]
        BY <1>1, <1>3 DEF NominateByLink, Leaves, ceremonies, Reads
    <2>2. /\ named' \in Seq(Rows) /\ Len(named') <= MaxNamed /\ DOMAIN named \subseteq DOMAIN named'
          /\ SignedRows' = SignedRows
        BY <1>1, <2>1, RowInserted
    <2>3. InvitationTypeOK'
        BY <1>1, <2>1, <2>2 DEF InvitationTypeOK
    <2>4. CeremonyIsTheirs'
        BY <1>1, <2>1 DEF CeremonyIsTheirs
    <2>5. SignedIsNamed'
        BY <1>1, <2>1, <2>2, NobodySigns
    <2> QED
        BY <2>3, <2>4, <2>5 DEF InvitationInv
<1>4. ASSUME NEW v \in Visitors, NEW i \in DOMAIN named, SignByLink(v, i) PROVE InvitationInv'
    <2>1. /\ UNCHANGED <<side, link, admitted, named, rail, open, openedBy, asking>>
          /\ visit' \in [Visitors -> Reads] /\ starting' = starting \cup {i}
        BY <1>1, <1>4 DEF SignByLink, Leaves, Reads
    <2> QED
        BY <1>1, <2>1, DoorSteps
<1> QED
    BY <1>2, <1>3, <1>4 DEF ByLink

\* A signatory who has not signed is struck off.
LEMMA StrikeOffKeeps ==
    ASSUME InvitationInv, NEW i \in DOMAIN named, StrikeOff(i)
    PROVE  InvitationInv'
<1>1. /\ InvitationTypeOK /\ CeremonyIsTheirs /\ SignedIsNamed /\ 0 \notin DOMAIN named
    BY InvitationTypes DEF InvitationInv
<1>2. /\ named[i].stage = "there" /\ named' = [named EXCEPT ![i].stage = "gone"]
      /\ openedBy' \in {0, openedBy}
      /\ UNCHANGED <<side, link, visit, admitted, starting, rail, open, asking>>
    BY DEF StrikeOff, doors
<1>3. /\ named' \in Seq(Rows) /\ Len(named') <= MaxNamed /\ DOMAIN named' = DOMAIN named
      /\ \A j \in DOMAIN named \ {i} : named'[j] = named[j]
      /\ named'[i].stage = "gone"
    BY <1>1, <1>2, RowChanged
<1>4. InvitationTypeOK'
    BY <1>1, <1>2, <1>3 DEF InvitationTypeOK
<1>5. CeremonyIsTheirs'
    BY <1>1, <1>2 DEF CeremonyIsTheirs
<1>6. SignedIsNamed'
    <2>1. SignedRows' = SignedRows
        BY <1>2, <1>3 DEF SignedRows
    <2> QED
        BY <1>1, <1>2, <2>1, NobodySigns
<1> QED
    BY <1>4, <1>5, <1>6 DEF InvitationInv

LEMMA BySignedInKeeps == InvitationInv /\ BySignedIn => InvitationInv'
<1> SUFFICES ASSUME InvitationInv, BySignedIn PROVE InvitationInv'
    OBVIOUS
<1>1. /\ InvitationTypeOK /\ CeremonyIsTheirs /\ SignedIsNamed
      /\ side \in Sides /\ link \in {"none", "live"} /\ visit \in [Visitors -> Reads]
      /\ admitted \subseteq Inside /\ starting \subseteq DOMAIN named
    BY DEF InvitationInv, InvitationTypeOK
<1>2. CASE CreateInvite \/ RevokeLink \/ ShowInside \/ WithdrawSide \/ ReopenSide
           \/ \E door \in Inside : NameCheck(door)
    <2>1. /\ side' \in Sides /\ link' \in {"none", "live"} /\ admitted' \subseteq Inside
          /\ side' = "signed" <=> side = "signed"
        BY <1>1, <1>2 DEF CreateInvite, RevokeLink, ShowInside, WithdrawSide, ReopenSide, NameCheck,
                          doors, Sides, MayAnswer
    <2>2. UNCHANGED <<visit, named, rail, starting, asking>>
          /\ ((open' = 0 /\ openedBy' = 0) \/ UNCHANGED <<open, openedBy>>)
        BY <1>2 DEF CreateInvite, RevokeLink, ShowInside, WithdrawSide, ReopenSide, NameCheck,
                    doors, ceremonies, Shut
    <2> QED
        BY <1>1, <2>1, <2>2, DoorSteps
<1>3. ASSUME NEW door \in Inside, NEW who \in People, Name(door, who) PROVE InvitationInv'
    <2>1. /\ Begin(who) /\ admitted' \subseteq admitted
          /\ UNCHANGED <<side, link, visit, starting, rail, open, openedBy, asking>>
        BY <1>3 DEF Name, ceremonies
    <2>2. /\ named' \in Seq(Rows) /\ Len(named') <= MaxNamed /\ DOMAIN named \subseteq DOMAIN named'
          /\ SignedRows' = SignedRows
        BY <1>1, <2>1, RowInserted
    <2>3. InvitationTypeOK'
        BY <1>1, <2>1, <2>2 DEF InvitationTypeOK
    <2>4. CeremonyIsTheirs'
        BY <1>1, <2>1 DEF CeremonyIsTheirs
    <2>5. SignedIsNamed'
        BY <1>1, <2>1, <2>2, NobodySigns
    <2> QED
        BY <2>3, <2>4, <2>5 DEF InvitationInv
<1>4. ASSUME NEW i \in DOMAIN named, StrikeOff(i) PROVE InvitationInv'
    BY <1>4, StrikeOffKeeps
<1>5. ASSUME NEW i \in DOMAIN named, SignInside(i) PROVE InvitationInv'
    <2>1. /\ UNCHANGED <<side, link, visit, admitted, named, rail, open, openedBy, asking>>
          /\ starting' = starting \cup {i}
        BY <1>5 DEF SignInside, doors
    <2> QED
        BY <1>1, <2>1, DoorSteps
<1> QED
    BY <1>2, <1>3, <1>4, <1>5 DEF BySignedIn

\* A ceremony is asked of the rail, and a phone answers one.
LEMMA RailKeeps ==
    ASSUME InvitationInv, (\E i \in starting : Push(i)) \/ (\E n \in DOMAIN rail : PhoneAnswers(n))
    PROVE  InvitationInv'
<1>1. /\ InvitationTypeOK /\ CeremonyIsTheirs /\ SignedIsNamed
      /\ rail \in Seq(Pushes) /\ Len(rail) \in Nat /\ DOMAIN rail = 1 .. Len(rail)
      /\ \A n \in DOMAIN rail : rail[n] \in Pushes
      /\ starting \subseteq DOMAIN named /\ open \in {0} \cup DOMAIN rail /\ Len(rail) <= MaxPushes
      /\ \A q \in asking : q[1] \in DOMAIN rail
      /\ MaxPushes \in Nat
    BY InvitationTypes DEF InvitationInv, InvitationTypeOK
<1>2. ASSUME NEW i \in starting, Push(i) PROVE InvitationInv'
    <2>1. PICK new \in Pushes : new = [row |-> i, result |-> "pending"] /\ new.row = i
        <3>1. i \in 1 .. MaxNamed
            BY <1>1, InvitationTypes
        <3>2. [row |-> i, result |-> "pending"] \in Pushes
            BY <3>1 DEF Pushes
        <3> QED
            BY <3>2
    <2>2. /\ rail' = Append(rail, new) /\ Len(rail) < MaxPushes
          /\ open' = Len(rail) + 1 /\ openedBy' = i /\ starting' \subseteq starting
          /\ UNCHANGED <<side, link, visit, admitted, named, asking>>
        BY <1>2, <2>1 DEF Push, doors
    <2>3. /\ rail' \in Seq(Pushes) /\ Len(rail') = Len(rail) + 1
          /\ \A n \in 1 .. Len(rail) : rail'[n] = rail[n]
          /\ rail'[Len(rail) + 1] = new
        BY <1>1, <2>2, AppendProperties
    <2>4. DOMAIN rail' = 1 .. Len(rail) + 1
        BY <2>3, SeqDomain
    <2>5. /\ DOMAIN rail \subseteq DOMAIN rail' /\ Len(rail) + 1 \in DOMAIN rail'
          /\ Len(rail') <= MaxPushes /\ \A n \in DOMAIN rail : rail'[n] = rail[n]
        BY <1>1, <2>2, <2>3, <2>4
    <2>6. InvitationTypeOK'
        BY <1>1, <2>2, <2>3, <2>5 DEF InvitationTypeOK
    <2>7. CeremonyIsTheirs'
        BY <1>1, <2>1, <2>2, <2>3, <2>5 DEF CeremonyIsTheirs
    <2>8. SignedIsNamed'
        <3>1. SignedRows' = SignedRows
            BY <2>2 DEF SignedRows
        <3> QED
            BY <1>1, <2>2, <2>5, <3>1, NobodySigns
    <2> QED
        BY <2>6, <2>7, <2>8 DEF InvitationInv
<1>3. ASSUME NEW n \in DOMAIN rail, PhoneAnswers(n) PROVE InvitationInv'
    <2>1. PICK result \in {"completed", "failed"} : rail' = [rail EXCEPT ![n].result = result]
        BY <1>3 DEF PhoneAnswers
    <2>2. rail[n].result = "pending"
          /\ UNCHANGED <<side, link, visit, admitted, named, starting, open, openedBy, asking>>
        BY <1>3 DEF PhoneAnswers, doors
    <2>3. PICK new \in Pushes : new = [rail[n] EXCEPT !.result = result] /\ new.row = rail[n].row
        <3>1. [rail[n] EXCEPT !.result = result] \in Pushes
            BY <1>1 DEF Pushes
        <3> QED
            BY <1>1, <3>1 DEF Pushes
    <2>4. rail' = [rail EXCEPT ![n] = new]
        BY <2>1, <2>3
    <2>5. /\ rail' \in Seq(Pushes) /\ Len(rail') = Len(rail) /\ DOMAIN rail' = DOMAIN rail
          /\ \A k \in DOMAIN rail : rail'[k] = IF k = n THEN new ELSE rail[k]
        BY <1>1, <2>4, ExceptSeq, SeqDomain
    <2>6. InvitationTypeOK'
        BY <1>1, <2>2, <2>5 DEF InvitationTypeOK
    <2>7. CeremonyIsTheirs'
        <3>1. \A k \in DOMAIN rail : rail'[k].row = rail[k].row
            BY <2>3, <2>5
        <3> QED
            BY <1>1, <2>2, <3>1 DEF CeremonyIsTheirs
    <2>8. SignedIsNamed'
        <3>1. SignedRows' = SignedRows
            BY <2>2 DEF SignedRows
        <3>2. \A k \in DOMAIN rail : k \in DOMAIN rail' /\ (rail[k].result = "completed" => rail'[k] = rail[k])
            BY <2>2, <2>5
        <3> QED
            BY <1>1, <2>2, <3>1, <3>2, NobodySigns
    <2> QED
        BY <2>6, <2>7, <2>8 DEF InvitationInv
<1> QED
    BY <1>2, <1>3

\* The party signs: the row that began the ceremony, and no other.
LEMMA RecordKeeps ==
    ASSUME InvitationInv, NEW q \in asking, RecordSignature(q)
    PROVE  InvitationInv'
<1>1. /\ InvitationTypeOK /\ CeremonyIsTheirs /\ SignedIsNamed
      /\ q[1] \in DOMAIN rail /\ q[2] \in DOMAIN named /\ rail[q[1]] \in Pushes
    BY InvitationTypes DEF InvitationInv
<1>2. /\ rail[q[1]].result = "completed" /\ side \in MayAnswer /\ side' = "signed"
      /\ named' = [named EXCEPT ![q[2]].stage = "signed"]
      /\ open' = 0 /\ openedBy' = 0 /\ asking' = asking \ {q}
      /\ UNCHANGED <<link, visit, admitted, starting, rail>>
    BY DEF RecordSignature, doors
<1>3. PICK i \in DOMAIN named : i = q[2]
    BY <1>1
<1>4. /\ named' \in Seq(Rows) /\ Len(named') <= MaxNamed /\ DOMAIN named' = DOMAIN named
      /\ \A j \in DOMAIN named \ {i} : named'[j] = named[j]
      /\ named'[i].stage = "signed"
    BY <1>1, <1>2, <1>3, RowChanged
<1>5. InvitationTypeOK'
    BY <1>1, <1>2, <1>4 DEF InvitationTypeOK, Sides
<1>6. CeremonyIsTheirs'
    BY <1>1, <1>2 DEF CeremonyIsTheirs
<1>7. SignedRows = {}
    BY <1>1, <1>2 DEF SignedIsNamed, SignedRows, MayAnswer
<1>8. SignedRows' = {i}
    BY <1>4, <1>7 DEF SignedRows
<1>9. rail[q[1]] = [row |-> i, result |-> "completed"]
    BY <1>1, <1>2, <1>3 DEF Pushes, CeremonyIsTheirs
<1>10. SignedIsNamed'
    BY <1>1, <1>2, <1>8, <1>9 DEF SignedIsNamed, SignedRows
<1> QED
    BY <1>5, <1>6, <1>10 DEF InvitationInv

LEMMA UnderwayKeeps == InvitationInv /\ Underway => InvitationInv'
<1> SUFFICES ASSUME InvitationInv, Underway PROVE InvitationInv'
    OBVIOUS
<1>1. /\ InvitationTypeOK /\ CeremonyIsTheirs /\ SignedIsNamed
      /\ side \in Sides /\ link \in {"none", "live"} /\ visit \in [Visitors -> Reads]
      /\ admitted \subseteq Inside /\ starting \subseteq DOMAIN named
    BY DEF InvitationInv, InvitationTypeOK
<1>2. ASSUME NEW i \in DOMAIN named, Named(i) PROVE InvitationInv'
    <2>1. PICK stage \in {"there", "gone"} : named' = [named EXCEPT ![i].stage = stage]
        BY <1>2 DEF Named
    <2>2. named[i].stage = "writing"
          /\ UNCHANGED <<side, link, visit, admitted, starting, rail, open, openedBy, asking>>
        BY <1>2 DEF Named, doors, ceremonies
    <2>3. /\ named' \in Seq(Rows) /\ Len(named') <= MaxNamed /\ DOMAIN named' = DOMAIN named
          /\ \A j \in DOMAIN named \ {i} : named'[j] = named[j]
          /\ named'[i].stage = stage
        BY <1>1, <2>1, RowChanged
    <2>4. InvitationTypeOK'
        BY <1>1, <2>2, <2>3 DEF InvitationTypeOK
    <2>5. CeremonyIsTheirs'
        BY <1>1, <2>2 DEF CeremonyIsTheirs
    <2>6. SignedIsNamed'
        <3>1. SignedRows' = SignedRows
            BY <2>2, <2>3 DEF SignedRows
        <3> QED
            BY <1>1, <2>2, <3>1, NobodySigns
    <2> QED
        BY <2>4, <2>5, <2>6 DEF InvitationInv
<1>3. CASE (\E i \in starting : Push(i)) \/ (\E n \in DOMAIN rail : PhoneAnswers(n))
    BY <1>3, RailKeeps
<1>4. CASE \/ \E i \in starting : PushRefused(i)
           \/ CeremonyAbandoned \/ PollReads
           \/ \E q \in asking : PollStops(q) \/ PollClears(q)
    <2>1. /\ UNCHANGED <<side, link, visit, admitted, named, rail>> /\ starting' \subseteq starting
          /\ asking' \subseteq asking \cup {<<open, openedBy>>}
          /\ (asking' \subseteq asking) \/ (open # 0 /\ openedBy # 0)
          /\ (open' = 0 /\ openedBy' = 0) \/ UNCHANGED <<open, openedBy>>
        BY <1>4 DEF PushRefused, CeremonyAbandoned, PollReads, PollStops, PollClears, doors, Shut
    <2> QED
        BY <1>1, <2>1, DoorSteps
<1>5. ASSUME NEW q \in asking, RecordSignature(q) PROVE InvitationInv'
    BY <1>5, RecordKeeps
<1> QED
    BY <1>2, <1>3, <1>4, <1>5 DEF Underway

LEMMA InvitationHolds == InvitationSpec => []InvitationInv
<1>1. InvitationInit => InvitationInv
    <2> SUFFICES ASSUME InvitationInit PROVE InvitationInv
        OBVIOUS
    <2>1. <<>> \in Seq(Rows) /\ <<>> \in Seq(Pushes) /\ Len(<<>>) = 0 /\ DOMAIN <<>> = {}
        BY EmptySeq, SeqDomain
    <2> QED
        BY <2>1, InvitationAssumption
           DEF InvitationInit, InvitationInv, InvitationTypeOK, CeremonyIsTheirs, SignedIsNamed,
               Sides, MayAnswer, Reads
<1>2. InvitationInv /\ [InvitationNext]_invitationVars => InvitationInv'
    <2>1. InvitationInv /\ UNCHANGED invitationVars => InvitationInv'
        BY DEF InvitationInv, InvitationTypeOK, CeremonyIsTheirs, SignedIsNamed, invitationVars,
               doors, ceremonies
    <2> QED
        BY <2>1, ByLinkKeeps, BySignedInKeeps, UnderwayKeeps DEF InvitationNext
<1> QED
    BY <1>1, <1>2, PTL DEF InvitationSpec

\* A party has signed when exactly one of its people has, on their own phone.
THEOREM PartySignsThroughOne == InvitationSpec => []SignedIsNamed
<1>1. InvitationInv => SignedIsNamed
    BY DEF InvitationInv
<1> QED
    BY <1>1, InvitationHolds, PTL

-----------------------------------------------------------------------------
(* Issuing *)

Past(r) == run[r].stage \in {"locked", "clear"}
AtWork(r) == run[r].stage \in {"inserted", "locked", "clear"}

\* One run at the lock of a recipient, and what it knows when it may go on.
LocksHeld ==
    /\ \A r, s \in Runners : r # s /\ Past(r) /\ Past(s) => run[r].now # run[s].now
    /\ \A r \in Runners : run[r].stage = "clear" =>
         \A k \in DOMAIN copies : copies[k].to = run[r].now => ~Live(copies[k]) \/ copies[k].touched # {}

\* Only a copy that was struck is without its signatory.
Untouched == \A k \in DOMAIN copies : copies[k].touched # {} \/ copies[k].keyed

\* A request prints what is in the row, unless that was saved since it read; and
\* an issue puts that into the row of the copy.
PrintsKnown ==
    \A r \in Runners : ~run[r].crossed =>
        /\ run[r].stage \in IssueStages => run[r].printed = facts
        /\ AtWork(r) => run[r].printed = run[r].recorded
        /\ run[r].stage \in SendStages => run[r].printed = copies[run[r].copy].facts

SendsCopies == \A r \in Runners : run[r].stage \in SendStages => run[r].copy \in DOMAIN copies

\* A draft whose file is out is being sent, unless it is known to be out of step.
OpenIsWatched ==
    \A k \in DOMAIN copies :
        Out(copies[k]) /\ copies[k].contract = "DRAFT" =>
            copies[k].ajar \/ copies[k].crossed \/ \E r \in Runners : Frozen(r, k)

IssueInv ==
    /\ IssueTypeOK
    /\ LocksHeld /\ Untouched /\ PrintsKnown /\ SendsCopies /\ OpenIsWatched
    /\ OneLiveCopy /\ PrintedIsRecorded

LEMMA IssueTypes ==
    ASSUME IssueTypeOK
    PROVE  /\ copies \in Seq(Copies) /\ Len(copies) \in Nat /\ DOMAIN copies = 1 .. Len(copies)
           /\ \A k \in DOMAIN copies : copies[k] \in Copies /\ copies[k].to \in Recipients
           /\ run \in [Runners -> Runs] /\ \A r \in Runners : run[r] \in Runs
           /\ facts \in Editions /\ masterState \in MasterStates
           /\ \A r \in Runners : AtWork(r) => run[r].now \in Recipients
<1>1. copies \in Seq(Copies) /\ run \in [Runners -> Runs]
    BY DEF IssueTypeOK
<1>2. /\ Len(copies) \in Nat /\ DOMAIN copies = 1 .. Len(copies)
      /\ \A k \in DOMAIN copies : copies[k] \in Copies
    BY <1>1, SeqDomain
<1>3. \A k \in DOMAIN copies : copies[k].to \in Recipients
    BY <1>2 DEF Copies
<1>4. \A r \in Runners : run[r] \in Runs /\ (AtWork(r) => run[r].now \in Recipients)
    BY <1>1 DEF IssueTypeOK, Runs, AtWork
<1> QED
    BY <1>1, <1>2, <1>3, <1>4 DEF IssueTypeOK

\* The locks are held by the same runs, and no copy that was out of the way counts
\* again.
LEMMA LocksKept ==
    ASSUME LocksHeld, DOMAIN copies' = DOMAIN copies,
           \A k \in DOMAIN copies :
               /\ copies'[k].to = copies[k].to
               /\ ~Live(copies[k]) \/ copies[k].touched # {} => ~Live(copies'[k]) \/ copies'[k].touched # {},
           \A r \in Runners : Past(r)' => run'[r].stage = run[r].stage /\ run'[r].now = run[r].now
    PROVE  LocksHeld'
<1>1. \A r \in Runners : Past(r)' => Past(r)
    BY DEF Past
<1>2. \A r, s \in Runners : r # s /\ Past(r)' /\ Past(s)' => run'[r].now # run'[s].now
    BY <1>1 DEF LocksHeld
<1>3. ASSUME NEW r \in Runners, run'[r].stage = "clear", NEW k \in DOMAIN copies,
             copies'[k].to = run'[r].now
      PROVE  ~Live(copies'[k]) \/ copies'[k].touched # {}
    <2>1. run[r].stage = "clear" /\ run'[r].now = run[r].now
        BY <1>3 DEF Past
    <2> QED
        BY <1>3, <2>1 DEF LocksHeld
<1> QED
    BY <1>2, <1>3 DEF LocksHeld, Live

\* Requests learn of nothing, but that what they print is old.
LEMMA CrossedRuns ==
    ASSUME IssueTypeOK, NEW requests \in SUBSET Runners, run' = Crossed(requests)
    PROVE  /\ run' \in [Runners -> Runs]
           /\ \A r \in Runners :
                /\ run'[r].stage = run[r].stage /\ run'[r].now = run[r].now
                /\ run'[r].printed = run[r].printed /\ run'[r].recorded = run[r].recorded
                /\ run'[r].copy = run[r].copy
                /\ r \in requests => run'[r].crossed
                /\ r \notin requests => run'[r] = run[r]
           /\ \A r \in Runners : run'[r].now = Noone <=> run'[r].stage \notin {"inserted", "locked", "clear"}
<1>1. ASSUME NEW r \in Runners
      PROVE  /\ run'[r] \in Runs /\ run'[r].stage = run[r].stage /\ run'[r].now = run[r].now
             /\ run'[r].printed = run[r].printed /\ run'[r].recorded = run[r].recorded
             /\ run'[r].copy = run[r].copy
             /\ r \in requests => run'[r].crossed
             /\ r \notin requests => run'[r] = run[r]
    <2>1. run[r] \in Runs
        BY IssueTypes
    <2>2. run'[r] = IF r \in requests THEN [run[r] EXCEPT !.crossed = TRUE] ELSE run[r]
        BY DEF Crossed
    <2>3. CASE r \in requests
        <3>1. PICK new : new = [run[r] EXCEPT !.crossed = TRUE]
            OBVIOUS
        <3>2. /\ new \in Runs /\ new.stage = run[r].stage /\ new.now = run[r].now
              /\ new.printed = run[r].printed /\ new.recorded = run[r].recorded
              /\ new.copy = run[r].copy /\ new.crossed
            BY <2>1, <3>1 DEF Runs
        <3> QED
            BY <2>2, <2>3, <3>1, <3>2
    <2>4. CASE r \notin requests
        BY <2>1, <2>2, <2>4
    <2> QED
        BY <2>3, <2>4
<1>2. run' \in [Runners -> Runs]
    BY <1>1 DEF Crossed
<1> QED
    BY <1>1, <1>2 DEF IssueTypeOK

\* A step of one run that freezes nothing and commits nothing: it goes back from
\* the lock or stays, or it takes the lock or goes on as nobody else is there.
LEMMA RunStep ==
    ASSUME IssueInv, NEW r \in Runners, NEW new \in Runs, run' = [run EXCEPT ![r] = new],
           new.now = Noone <=> new.stage \notin {"inserted", "locked", "clear"},
           UNCHANGED <<facts, copies>>, masterState' \in MasterStates,
           run[r].stage # "frozen",
           new.stage \in {"locked", "clear"} =>
               \A s \in Runners \ {r} : Past(s) => run[s].now # new.now,
           new.stage = "clear" =>
               \A k \in DOMAIN copies : copies[k].to = new.now => ~Live(copies[k]) \/ copies[k].touched # {},
           ~new.crossed =>
               /\ new.stage \in IssueStages => new.printed = facts
               /\ new.stage \in {"inserted", "locked", "clear"} => new.printed = new.recorded
               /\ new.stage \in SendStages => new.printed = copies[new.copy].facts,
           new.stage \in SendStages => new.copy \in DOMAIN copies
    PROVE  IssueInv'
<1>1. /\ IssueTypeOK /\ LocksHeld /\ Untouched /\ PrintsKnown /\ SendsCopies /\ OpenIsWatched
      /\ OneLiveCopy /\ PrintedIsRecorded /\ run \in [Runners -> Runs]
    BY DEF IssueInv, IssueTypeOK
<1>2. /\ run' \in [Runners -> Runs] /\ run'[r] = new
      /\ \A s \in Runners \ {r} : run'[s] = run[s]
    BY <1>1
<1>3. IssueTypeOK'
    BY <1>1, <1>2 DEF IssueTypeOK
<1>4. LocksHeld'
    <2>1. ASSUME NEW s \in Runners, NEW t \in Runners, s # t, Past(s)', Past(t)'
          PROVE  run'[s].now # run'[t].now
        <3>1. CASE s = r
            BY <1>2, <2>1, <3>1 DEF Past
        <3>2. CASE t = r
            BY <1>2, <2>1, <3>2 DEF Past
        <3>3. CASE s # r /\ t # r
            BY <1>1, <1>2, <2>1, <3>3 DEF Past, LocksHeld
        <3> QED
            BY <3>1, <3>2, <3>3
    <2>2. ASSUME NEW s \in Runners, run'[s].stage = "clear",
                 NEW k \in DOMAIN copies, copies[k].to = run'[s].now
          PROVE  ~Live(copies[k]) \/ copies[k].touched # {}
        <3>1. CASE s = r
            BY <1>2, <2>2, <3>1
        <3>2. CASE s # r
            BY <1>1, <1>2, <2>2, <3>2 DEF LocksHeld
        <3> QED
            BY <3>1, <3>2
    <2> QED
        BY <2>1, <2>2 DEF LocksHeld, Live
<1>5. PrintsKnown'
    <2> SUFFICES ASSUME NEW s \in Runners, ~run'[s].crossed
                 PROVE  /\ run'[s].stage \in IssueStages => run'[s].printed = facts
                        /\ AtWork(s)' => run'[s].printed = run'[s].recorded
                        /\ run'[s].stage \in SendStages => run'[s].printed = copies[run'[s].copy].facts
        BY DEF PrintsKnown
    <2>1. CASE s = r
        BY <1>2, <2>1 DEF AtWork
    <2>2. CASE s # r
        BY <1>1, <1>2, <2>2 DEF AtWork, PrintsKnown
    <2> QED
        BY <2>1, <2>2
<1>6. SendsCopies'
    BY <1>1, <1>2 DEF SendsCopies
<1>7. OpenIsWatched'
    <2>1. \A s \in Runners, k \in DOMAIN copies : Frozen(s, k) => Frozen(s, k)'
        BY <1>2 DEF Frozen
    <2> QED
        BY <1>1, <2>1 DEF OpenIsWatched, Out
<1>8. Untouched' /\ OneLiveCopy' /\ PrintedIsRecorded'
    BY <1>1 DEF Untouched, OneLiveCopy, PrintedIsRecorded, Live, Out
<1> QED
    BY <1>3, <1>4, <1>5, <1>6, <1>7, <1>8 DEF IssueInv

\* What a change of one copy keeps by itself.
LEMMA OneCopyChanges ==
    ASSUME IssueInv, NEW k \in DOMAIN copies, NEW new \in Copies, copies' = [copies EXCEPT ![k] = new],
           new.to = copies[k].to,
           copies[k].touched # {} => new.touched # {},
           new.touched # {} \/ new.keyed,
           Live(new) => Live(copies[k]) \/ new.touched # {},
           Out(new) => new.printed = new.facts \/ new.crossed \/ new.ajar
    PROVE  /\ copies' \in Seq(Copies) /\ DOMAIN copies' = DOMAIN copies /\ copies'[k] = new
           /\ \A j \in DOMAIN copies \ {k} : copies'[j] = copies[j]
           /\ \A j \in DOMAIN copies :
                /\ copies'[j].to = copies[j].to
                /\ ~Live(copies[j]) \/ copies[j].touched # {} => ~Live(copies'[j]) \/ copies'[j].touched # {}
           /\ Untouched' /\ OneLiveCopy' /\ PrintedIsRecorded'
<1>1. /\ Untouched /\ OneLiveCopy /\ PrintedIsRecorded /\ copies \in Seq(Copies)
    BY DEF IssueInv, IssueTypeOK
<1>2. /\ copies' \in Seq(Copies) /\ Len(copies') = Len(copies)
      /\ \A j \in 1 .. Len(copies) : copies'[j] = IF j = k THEN new ELSE copies[j]
    BY <1>1, ExceptSeq, SeqDomain
<1>3. /\ DOMAIN copies' = DOMAIN copies /\ copies'[k] = new
      /\ \A j \in DOMAIN copies \ {k} : copies'[j] = copies[j]
    BY <1>1, <1>2, SeqDomain
<1>4. \A j \in DOMAIN copies :
         /\ copies'[j].to = copies[j].to
         /\ ~Live(copies[j]) \/ copies[j].touched # {} => ~Live(copies'[j]) \/ copies'[j].touched # {}
    <2>1. ~Live(copies[k]) \/ copies[k].touched # {} => ~Live(new) \/ new.touched # {}
        OBVIOUS
    <2> QED
        BY <1>3, <2>1
<1>5. Untouched'
    BY <1>1, <1>3 DEF Untouched
<1>6. PrintedIsRecorded'
    <2>1. \A j \in DOMAIN copies : Out(copies'[j]) =>
             copies'[j].printed = copies'[j].facts \/ copies'[j].crossed \/ copies'[j].ajar
        BY <1>1, <1>3 DEF PrintedIsRecorded
    <2> QED
        BY <1>3, <2>1 DEF PrintedIsRecorded, Out
<1>7. OneLiveCopy'
    <2>1. ASSUME NEW i \in DOMAIN copies, NEW j \in DOMAIN copies, i # j, copies'[i].to = copies'[j].to
          PROVE  \E x \in {i, j} : ~Live(copies'[x]) \/ copies'[x].touched # {}
        <3>1. PICK x \in {i, j} : ~Live(copies[x]) \/ copies[x].touched # {}
            BY <1>1, <1>4, <2>1 DEF OneLiveCopy
        <3> QED
            BY <1>4, <3>1
    <2> QED
        BY <1>3, <2>1 DEF OneLiveCopy, Live
<1> QED
    BY <1>2, <1>3, <1>4, <1>5, <1>6, <1>7

\* A step of one copy after it was issued, no facts saved and nothing frozen.
LEMMA CopyStep ==
    ASSUME IssueInv, NEW k \in DOMAIN copies, NEW new \in Copies,
           copies' = [copies EXCEPT ![k] = new], UNCHANGED <<masterState, facts, run>>,
           new.to = copies[k].to,
           copies[k].touched # {} => new.touched # {},
           new.touched # {} \/ new.keyed,
           Live(new) => Live(copies[k]) \/ new.touched # {},
           new.facts = copies[k].facts, new.printed = copies[k].printed, new.crossed = copies[k].crossed,
           copies[k].ajar => new.ajar,
           Out(new) => Out(copies[k]),
           Out(new) /\ new.contract = "DRAFT" => copies[k].contract = "DRAFT" \/ new.ajar
    PROVE  IssueInv'
<1>1. /\ IssueTypeOK /\ LocksHeld /\ PrintsKnown /\ SendsCopies /\ OpenIsWatched /\ PrintedIsRecorded
    BY DEF IssueInv
<1>2. Out(new) => new.printed = new.facts \/ new.crossed \/ new.ajar
    BY <1>1 DEF PrintedIsRecorded
<1>3. /\ copies' \in Seq(Copies) /\ DOMAIN copies' = DOMAIN copies /\ copies'[k] = new
      /\ \A j \in DOMAIN copies \ {k} : copies'[j] = copies[j]
      /\ \A j \in DOMAIN copies :
           /\ copies'[j].to = copies[j].to
           /\ ~Live(copies[j]) \/ copies[j].touched # {} => ~Live(copies'[j]) \/ copies'[j].touched # {}
      /\ Untouched' /\ OneLiveCopy' /\ PrintedIsRecorded'
    BY <1>2, OneCopyChanges
<1>4. IssueTypeOK'
    BY <1>1, <1>3 DEF IssueTypeOK
<1>5. LocksHeld'
    BY <1>1, <1>3, LocksKept
<1>6. PrintsKnown' /\ SendsCopies'
    <2>1. \A j \in DOMAIN copies : copies'[j].facts = copies[j].facts
        BY <1>3
    <2> QED
        BY <1>1, <1>3, <2>1 DEF PrintsKnown, SendsCopies, AtWork
<1>7. OpenIsWatched'
    <2> SUFFICES ASSUME NEW j \in DOMAIN copies, Out(copies'[j]), copies'[j].contract = "DRAFT"
                 PROVE  copies'[j].ajar \/ copies'[j].crossed \/ \E r \in Runners : Frozen(r, j)
        BY <1>3 DEF OpenIsWatched, Out, Frozen
    <2>1. CASE j = k
        BY <1>1, <1>3, <2>1 DEF OpenIsWatched
    <2>2. CASE j # k
        BY <1>1, <1>3, <2>2 DEF OpenIsWatched
    <2> QED
        BY <2>1, <2>2
<1> QED
    BY <1>3, <1>4, <1>5, <1>6, <1>7 DEF IssueInv

\* A step of a request that sends a copy, after it has read.
LEMMA SendStep ==
    ASSUME IssueInv, NEW r \in Runners, NEW k \in DOMAIN copies, NEW new \in Copies, NEW next \in Runs,
           run[r].stage \in SendStages, run[r].copy = k,
           copies' = [copies EXCEPT ![k] = new], run' = [run EXCEPT ![r] = next],
           UNCHANGED <<masterState, facts>>,
           next.stage \in {"idle", "frozen"}, next.now = Noone, next.copy \in {0, k},
           next.stage = "frozen" =>
               /\ next.copy = k /\ next.printed = run[r].printed /\ next.crossed = run[r].crossed,
           new.to = copies[k].to, new.touched = copies[k].touched, new.keyed = copies[k].keyed,
           Live(new) => Live(copies[k]),
           new.facts = copies[k].facts,
           Out(new) => new.printed = new.facts \/ new.crossed \/ new.ajar,
           Out(new) /\ new.contract = "DRAFT" => new.ajar \/ next.stage = "frozen"
    PROVE  IssueInv'
<1>1. /\ IssueTypeOK /\ LocksHeld /\ PrintsKnown /\ SendsCopies /\ OpenIsWatched /\ Untouched
      /\ run \in [Runners -> Runs]
    BY DEF IssueInv, IssueTypeOK
<1>2. new.touched # {} \/ new.keyed
    BY <1>1 DEF Untouched
<1>3. /\ copies' \in Seq(Copies) /\ DOMAIN copies' = DOMAIN copies /\ copies'[k] = new
      /\ \A j \in DOMAIN copies \ {k} : copies'[j] = copies[j]
      /\ \A j \in DOMAIN copies :
           /\ copies'[j].to = copies[j].to
           /\ ~Live(copies[j]) \/ copies[j].touched # {} => ~Live(copies'[j]) \/ copies'[j].touched # {}
      /\ Untouched' /\ OneLiveCopy' /\ PrintedIsRecorded'
    BY <1>2, OneCopyChanges
<1>4. /\ run' \in [Runners -> Runs] /\ run'[r] = next
      /\ \A s \in Runners \ {r} : run'[s] = run[s]
    BY <1>1
<1>5. IssueTypeOK'
    BY <1>1, <1>3, <1>4 DEF IssueTypeOK
<1>6. LocksHeld'
    <2>1. \A s \in Runners : Past(s)' => run'[s].stage = run[s].stage /\ run'[s].now = run[s].now
        BY <1>4 DEF Past
    <2> QED
        BY <1>1, <1>3, <2>1, LocksKept
<1>7. PrintsKnown'
    <2>1. \A j \in DOMAIN copies : copies'[j].facts = copies[j].facts
        BY <1>3
    <2> SUFFICES ASSUME NEW s \in Runners, ~run'[s].crossed
                 PROVE  /\ run'[s].stage \in IssueStages => run'[s].printed = facts
                        /\ AtWork(s)' => run'[s].printed = run'[s].recorded
                        /\ run'[s].stage \in SendStages => run'[s].printed = copies'[run'[s].copy].facts
        BY DEF PrintsKnown
    <2>2. CASE s = r
        BY <1>1, <1>4, <2>1, <2>2 DEF PrintsKnown, AtWork, IssueStages, SendStages
    <2>3. CASE s # r
        BY <1>1, <1>4, <2>1, <2>3 DEF PrintsKnown, AtWork, SendsCopies
    <2> QED
        BY <2>2, <2>3
<1>8. SendsCopies'
    BY <1>1, <1>3, <1>4 DEF SendsCopies, SendStages
<1>9. OpenIsWatched'
    <2> SUFFICES ASSUME NEW j \in DOMAIN copies, Out(copies'[j]), copies'[j].contract = "DRAFT"
                 PROVE  copies'[j].ajar \/ copies'[j].crossed \/ \E s \in Runners : Frozen(s, j)'
        BY <1>3 DEF OpenIsWatched, Out
    <2>1. CASE j = k
        BY <1>3, <1>4, <2>1 DEF Frozen
    <2>2. CASE j # k
        <3>1. \A s \in Runners : Frozen(s, j) => Frozen(s, j)'
            BY <1>4, <2>2 DEF Frozen
        <3> QED
            BY <1>1, <1>3, <2>2, <3>1 DEF OpenIsWatched
    <2> QED
        BY <2>1, <2>2
<1> QED
    BY <1>3, <1>5, <1>6, <1>7, <1>8, <1>9 DEF IssueInv

\* Facts are saved: whoever prints them prints old ones.
LEMMA FactsKeep ==
    ASSUME IssueInv, SaveFacts \/ \E k \in DOMAIN copies : SaveCopyFacts(k)
    PROVE  IssueInv'
<1>1. /\ IssueTypeOK /\ LocksHeld /\ Untouched /\ PrintsKnown /\ SendsCopies /\ OpenIsWatched
      /\ OneLiveCopy /\ PrintedIsRecorded
      /\ facts \in Editions /\ MaxEditions \in Nat
    BY IssueAssumption DEF IssueInv, IssueTypeOK
<1>2. CASE SaveFacts
    <2>1. PICK requests : requests = {r \in Runners : run[r].stage \in IssueStages}
        OBVIOUS
    <2>2. /\ run' = Crossed(requests) /\ requests \in SUBSET Runners
          /\ facts' = facts + 1 /\ facts < MaxEditions /\ UNCHANGED <<masterState, copies>>
        BY <1>2, <2>1 DEF SaveFacts
    <2>3. /\ run' \in [Runners -> Runs]
          /\ \A r \in Runners :
               /\ run'[r].stage = run[r].stage /\ run'[r].now = run[r].now
               /\ run'[r].printed = run[r].printed /\ run'[r].recorded = run[r].recorded
               /\ run'[r].copy = run[r].copy
               /\ r \in requests => run'[r].crossed
               /\ r \notin requests => run'[r] = run[r]
          /\ \A r \in Runners : run'[r].now = Noone <=> run'[r].stage \notin {"inserted", "locked", "clear"}
        BY <1>1, <2>2, CrossedRuns
    <2>4. IssueTypeOK'
        BY <1>1, <2>2, <2>3 DEF IssueTypeOK, Editions
    <2>5. LocksHeld'
        BY <1>1, <2>2, <2>3, LocksKept
    <2>6. PrintsKnown'
        <3> SUFFICES ASSUME NEW s \in Runners, ~run'[s].crossed
                     PROVE  /\ run'[s].stage \in IssueStages => run'[s].printed = facts'
                            /\ AtWork(s)' => run'[s].printed = run'[s].recorded
                            /\ run'[s].stage \in SendStages => run'[s].printed = copies[run'[s].copy].facts
            BY <2>2 DEF PrintsKnown
        <3>1. run'[s] = run[s] /\ run[s].stage \notin IssueStages
            BY <2>1, <2>3
        <3> QED
            BY <1>1, <3>1 DEF PrintsKnown, AtWork, IssueStages
    <2>7. SendsCopies' /\ OpenIsWatched'
        BY <1>1, <2>2, <2>3 DEF SendsCopies, OpenIsWatched, Frozen, Out
    <2>8. Untouched' /\ OneLiveCopy' /\ PrintedIsRecorded'
        BY <1>1, <2>2 DEF Untouched, OneLiveCopy, PrintedIsRecorded, Live, Out
    <2> QED
        BY <2>4, <2>5, <2>6, <2>7, <2>8 DEF IssueInv
<1>3. ASSUME NEW k \in DOMAIN copies, SaveCopyFacts(k) PROVE IssueInv'
    <2>1. PICK requests : requests = {r \in Runners : run[r].stage \in SendStages /\ run[r].copy = k}
        OBVIOUS
    <2>2. copies[k] \in Copies
        BY <1>1, IssueTypes
    <2>3. PICK over \in BOOLEAN : over = (copies[k].crossed \/ \E r \in Runners : Frozen(r, k))
        BY <2>2 DEF Copies
    <2>4. /\ run' = Crossed(requests) /\ requests \in SUBSET Runners
          /\ UNCHANGED <<masterState, facts>> /\ copies[k].facts < MaxEditions
          /\ MayEdit(copies[k].contract)
        BY <1>3, <2>1 DEF SaveCopyFacts
    <2>5. PICK edition \in Editions : edition = copies[k].facts + 1
        <3>1. copies[k].facts \in Editions
            BY <2>2 DEF Copies
        <3> QED
            BY <1>1, <2>4, <3>1 DEF Editions
    <2>6. PICK new : new = [copies[k] EXCEPT !.facts = edition, !.crossed = over]
        OBVIOUS
    <2>7. /\ copies' = [copies EXCEPT ![k] = new]
          /\ new \in Copies /\ new.to = copies[k].to /\ new.state = copies[k].state
          /\ new.contract = copies[k].contract /\ new.touched = copies[k].touched
          /\ new.keyed = copies[k].keyed /\ new.crossed = over /\ new.ajar = copies[k].ajar
        <3>1. copies' = [copies EXCEPT ![k] = new]
            BY <1>3, <2>3, <2>5, <2>6 DEF SaveCopyFacts
        <3>2. new \in Copies
            BY <2>2, <2>5, <2>6 DEF Copies
        <3>3. /\ new.to = copies[k].to /\ new.state = copies[k].state
              /\ new.contract = copies[k].contract /\ new.touched = copies[k].touched
              /\ new.keyed = copies[k].keyed /\ new.crossed = over /\ new.ajar = copies[k].ajar
            BY <2>2, <2>6 DEF Copies
        <3> QED
            BY <3>1, <3>2, <3>3
    <2>8. copies[k].contract = "DRAFT"
        BY <2>2, <2>4 DEF MayEdit, Open, Copies
    <2>9. Out(new) => new.ajar \/ new.crossed
        BY <1>1, <2>3, <2>7, <2>8 DEF OpenIsWatched, Out
    <2>10. (new.touched # {} \/ new.keyed) /\ (Live(new) => Live(copies[k]))
        BY <1>1, <2>7 DEF Untouched, Live
    <2>11. /\ copies' \in Seq(Copies) /\ DOMAIN copies' = DOMAIN copies /\ copies'[k] = new
           /\ \A j \in DOMAIN copies \ {k} : copies'[j] = copies[j]
           /\ \A j \in DOMAIN copies :
                /\ copies'[j].to = copies[j].to
                /\ ~Live(copies[j]) \/ copies[j].touched # {} => ~Live(copies'[j]) \/ copies'[j].touched # {}
           /\ Untouched' /\ OneLiveCopy' /\ PrintedIsRecorded'
        BY <2>7, <2>9, <2>10, OneCopyChanges
    <2>12. /\ run' \in [Runners -> Runs]
           /\ \A r \in Runners :
                /\ run'[r].stage = run[r].stage /\ run'[r].now = run[r].now
                /\ run'[r].printed = run[r].printed /\ run'[r].recorded = run[r].recorded
                /\ run'[r].copy = run[r].copy
                /\ r \in requests => run'[r].crossed
                /\ r \notin requests => run'[r] = run[r]
           /\ \A r \in Runners : run'[r].now = Noone <=> run'[r].stage \notin {"inserted", "locked", "clear"}
        BY <1>1, <2>4, CrossedRuns
    <2>13. IssueTypeOK'
        BY <1>1, <2>4, <2>11, <2>12 DEF IssueTypeOK
    <2>14. LocksHeld'
        BY <1>1, <2>11, <2>12, LocksKept
    <2>15. PrintsKnown'
        <3> SUFFICES ASSUME NEW s \in Runners, ~run'[s].crossed
                     PROVE  /\ run'[s].stage \in IssueStages => run'[s].printed = facts
                            /\ AtWork(s)' => run'[s].printed = run'[s].recorded
                            /\ run'[s].stage \in SendStages => run'[s].printed = copies'[run'[s].copy].facts
            BY <2>4 DEF PrintsKnown
        <3>1. run'[s] = run[s] /\ (run[s].stage \in SendStages => run[s].copy # k)
            BY <2>1, <2>12
        <3>2. run[s].stage \in SendStages => copies'[run[s].copy] = copies[run[s].copy]
            BY <1>1, <2>11, <3>1 DEF SendsCopies
        <3> QED
            BY <1>1, <3>1, <3>2 DEF PrintsKnown, AtWork
    <2>16. SendsCopies'
        BY <1>1, <2>11, <2>12 DEF SendsCopies
    <2>17. OpenIsWatched'
        <3> SUFFICES ASSUME NEW j \in DOMAIN copies, Out(copies'[j]), copies'[j].contract = "DRAFT"
                     PROVE  copies'[j].ajar \/ copies'[j].crossed \/ \E r \in Runners : Frozen(r, j)'
            BY <2>11 DEF OpenIsWatched, Out
        <3>1. CASE j = k
            BY <2>9, <2>11, <3>1
        <3>2. CASE j # k
            BY <1>1, <2>11, <2>12, <3>2 DEF OpenIsWatched, Frozen
        <3> QED
            BY <3>1, <3>2
    <2> QED
        BY <2>11, <2>13, <2>14, <2>15, <2>16, <2>17 DEF IssueInv
<1> QED
    BY <1>2, <1>3

\* What else happens to the master.
LEMMA MasterKeeps ==
    ASSUME IssueInv, BecomesContract \/ WithdrawMaster \/ ReopenMaster
    PROVE  IssueInv'
<1>1. UNCHANGED <<facts, run, copies>> /\ masterState' \in MasterStates
    BY DEF BecomesContract, WithdrawMaster, ReopenMaster, MasterStates, Open
<1> QED
    BY <1>1 DEF IssueInv, IssueTypeOK, LocksHeld, Past, Untouched, PrintsKnown, AtWork, SendsCopies,
                OpenIsWatched, Frozen, OneLiveCopy, PrintedIsRecorded, Live, Out

\* Reading, skipping, inserting, failing and ending.
LEMMA UnlockedRunKeeps ==
    ASSUME IssueInv, NEW r \in Runners,
           \/ RunReads(r) \/ RunKnows(r) \/ RunEnds(r) \/ RunStops(r) \/ RollBackIssue(r)
           \/ \E to \in Recipients : SkipRecipient(r, to) \/ InsertCopy(r, to)
           \/ \E k \in DOMAIN copies : SendReads(r, k)
    PROVE  IssueInv'
<1>1. /\ run[r] \in Runs /\ facts \in Editions /\ masterState \in MasterStates /\ PrintsKnown
      /\ UNCHANGED <<facts, copies>> /\ IssueTypeOK
    BY IssueTypes DEF IssueInv, RunReads, RunKnows, RunEnds, RunStops, RollBackIssue, SkipRecipient,
                      InsertCopy, SendReads
<1>2. /\ NoRun \in Runs /\ NoRun.stage = "idle" /\ NoRun.now = Noone /\ NoRun.copy = 0
    BY IssueAssumption DEF NoRun, Runs, Editions
<1>3. CASE RunReads(r)
    <2>1. PICK wanted \in (SUBSET Recipients) \ {{}} :
             run' = [run EXCEPT ![r] = [NoRun EXCEPT !.stage = "read", !.left = wanted,
                                                     !.printed = facts]]
        BY <1>3 DEF RunReads
    <2>2. PICK new : new = [NoRun EXCEPT !.stage = "read", !.left = wanted, !.printed = facts]
        OBVIOUS
    <2>3. wanted \subseteq Recipients
        OBVIOUS
    <2>4. new \in Runs
        BY <1>1, <1>2, <2>2, <2>3 DEF Runs, IssueStages
    <2>5. new.stage = "read" /\ new.now = Noone /\ new.printed = facts
        BY <1>1, <1>2, <2>2 DEF Runs
    <2>6. run' = [run EXCEPT ![r] = new] /\ UNCHANGED masterState /\ run[r].stage = "idle"
        BY <1>3, <2>1, <2>2 DEF RunReads
    <2> QED
        BY <1>1, <2>4, <2>5, <2>6, RunStep DEF SendStages
<1>4. CASE RunKnows(r)
    <2>1. PICK new : new = [run[r] EXCEPT !.stage = "looping", !.known = Issued]
        OBVIOUS
    <2>2. Issued \subseteq Recipients
        BY <1>1, IssueTypes DEF Issued
    <2>3. /\ new \in Runs /\ new.stage = "looping" /\ new.now = run[r].now
          /\ new.printed = run[r].printed /\ new.crossed = run[r].crossed
        BY <1>1, <2>1, <2>2 DEF Runs, IssueStages
    <2>4. run' = [run EXCEPT ![r] = new] /\ UNCHANGED masterState /\ run[r].stage = "read"
        BY <1>4, <2>1 DEF RunKnows
    <2>5. run[r].now = Noone
        BY <1>1, <2>4 DEF IssueTypeOK
    <2> QED
        BY <1>1, <2>3, <2>4, <2>5, RunStep DEF PrintsKnown, IssueStages, SendStages
<1>5. CASE RunEnds(r) \/ RunStops(r)
    <2>1. /\ run' = [run EXCEPT ![r] = NoRun] /\ masterState' \in MasterStates
          /\ run[r].stage # "frozen"
        BY <1>1, <1>5 DEF RunEnds, RunStops, MasterStates, Open, IssueStages
    <2> QED
        BY <1>1, <1>2, <2>1, RunStep DEF IssueStages, SendStages
<1>6. CASE RollBackIssue(r)
    <2>1. PICK new : new = [run[r] EXCEPT !.stage = "looping", !.now = Noone]
        OBVIOUS
    <2>2. /\ new \in Runs /\ new.stage = "looping" /\ new.now = Noone
          /\ new.printed = run[r].printed /\ new.crossed = run[r].crossed
        BY <1>1, <2>1 DEF Runs, IssueStages
    <2>3. /\ run' = [run EXCEPT ![r] = new] /\ UNCHANGED masterState
          /\ run[r].stage \in {"inserted", "locked", "clear"}
        BY <1>6, <2>1 DEF RollBackIssue
    <2> QED
        BY <1>1, <2>2, <2>3, RunStep DEF PrintsKnown, IssueStages, SendStages
<1>7. ASSUME NEW to \in Recipients, SkipRecipient(r, to) PROVE IssueInv'
    <2>1. PICK new : new = [run[r] EXCEPT !.left = run[r].left \ {to}]
        OBVIOUS
    <2>2. /\ new \in Runs /\ new.stage = run[r].stage /\ new.now = run[r].now
          /\ new.printed = run[r].printed /\ new.crossed = run[r].crossed
        BY <1>1, <2>1 DEF Runs
    <2>3. run' = [run EXCEPT ![r] = new] /\ UNCHANGED masterState /\ run[r].stage = "looping"
        BY <1>7, <2>1 DEF SkipRecipient
    <2>4. run[r].now = Noone
        BY <1>1, <2>3 DEF IssueTypeOK
    <2> QED
        BY <1>1, <2>2, <2>3, <2>4, RunStep DEF PrintsKnown, IssueStages, SendStages
<1>8. ASSUME NEW to \in Recipients, InsertCopy(r, to) PROVE IssueInv'
    <2>1. PICK new : new = [run[r] EXCEPT !.stage = "inserted", !.now = to, !.left = run[r].left \ {to},
                                          !.recorded = facts]
        OBVIOUS
    <2>2. /\ new \in Runs /\ new.stage = "inserted" /\ new.now = to /\ new.recorded = facts
          /\ new.printed = run[r].printed /\ new.crossed = run[r].crossed
        BY <1>1, <2>1 DEF Runs, IssueStages
    <2>3. run' = [run EXCEPT ![r] = new] /\ UNCHANGED masterState /\ run[r].stage = "looping"
        BY <1>8, <2>1, ZenonT(60) DEF InsertCopy
    <2> QED
        BY <1>1, <2>2, <2>3, RunStep, IssueAssumption DEF PrintsKnown, IssueStages, SendStages
<1>9. ASSUME NEW k \in DOMAIN copies, SendReads(r, k) PROVE IssueInv'
    <2>1. PICK new : new = [NoRun EXCEPT !.stage = "sending", !.copy = k, !.printed = copies[k].facts]
        OBVIOUS
    <2>2. copies[k].facts \in Editions /\ k \in Nat
        <3>1. copies[k] \in Copies /\ k \in 1 .. Len(copies) /\ Len(copies) \in Nat
            BY <1>1, IssueTypes
        <3> QED
            BY <3>1 DEF Copies
    <2>3. /\ new \in Runs /\ new.stage = "sending" /\ new.now = Noone /\ new.copy = k
          /\ new.printed = copies[k].facts
        BY <1>2, <2>1, <2>2 DEF Runs, SendStages
    <2>4. run' = [run EXCEPT ![r] = new] /\ UNCHANGED masterState /\ run[r].stage = "idle"
        BY <1>9, <2>1 DEF SendReads
    <2> QED
        BY <1>1, <2>3, <2>4, RunStep DEF IssueStages
<1> QED
    BY <1>3, <1>4, <1>5, <1>6, <1>7, <1>8, <1>9

\* The lock, and the question under it.
LEMMA LockedRunKeeps ==
    ASSUME IssueInv, NEW r \in Runners, LockRecipient(r) \/ AskAgain(r)
    PROVE  IssueInv'
<1>1. /\ run[r] \in Runs /\ masterState \in MasterStates /\ PrintsKnown /\ LocksHeld /\ Untouched
      /\ UNCHANGED <<facts, copies, masterState>> /\ IssueTypeOK
    BY IssueTypes DEF IssueInv, LockRecipient, AskAgain
<1>2. CASE LockRecipient(r)
    <2>1. PICK new : new = [run[r] EXCEPT !.stage = "locked"]
        OBVIOUS
    <2>2. /\ new \in Runs /\ new.stage = "locked" /\ new.now = run[r].now
          /\ new.printed = run[r].printed /\ new.crossed = run[r].crossed /\ new.recorded = run[r].recorded
        BY <1>1, <2>1 DEF Runs, IssueStages
    <2>3. /\ run' = [run EXCEPT ![r] = new] /\ run[r].stage = "inserted"
          /\ \A s \in Runners \ {r} : Past(s) => run[s].now # run[r].now
        BY <1>2, <2>1 DEF LockRecipient, Past
    <2>4. run[r].now # Noone
        BY <1>1, <2>3 DEF IssueTypeOK
    <2> QED
        BY <1>1, <2>2, <2>3, <2>4, RunStep DEF PrintsKnown, AtWork, IssueStages, SendStages
<1>3. CASE AskAgain(r) /\ run[r].now \in Issued
    <2>1. PICK new : new = [run[r] EXCEPT !.stage = "looping", !.now = Noone]
        OBVIOUS
    <2>2. /\ new \in Runs /\ new.stage = "looping" /\ new.now = Noone
          /\ new.printed = run[r].printed /\ new.crossed = run[r].crossed
        BY <1>1, <2>1 DEF Runs, IssueStages
    <2>3. run' = [run EXCEPT ![r] = new] /\ run[r].stage = "locked"
        BY <1>3, <2>1 DEF AskAgain
    <2> QED
        BY <1>1, <2>2, <2>3, RunStep DEF PrintsKnown, IssueStages, SendStages
<1>4. CASE AskAgain(r) /\ run[r].now \notin Issued
    <2>1. PICK new : new = [run[r] EXCEPT !.stage = "clear"]
        OBVIOUS
    <2>2. /\ new \in Runs /\ new.stage = "clear" /\ new.now = run[r].now
          /\ new.printed = run[r].printed /\ new.crossed = run[r].crossed /\ new.recorded = run[r].recorded
        BY <1>1, <2>1 DEF Runs, IssueStages
    <2>3. run' = [run EXCEPT ![r] = new] /\ run[r].stage = "locked"
        BY <1>4, <2>1 DEF AskAgain
    <2>4. run[r].now # Noone
        BY <1>1, <2>3 DEF IssueTypeOK
    <2>5. \A k \in DOMAIN copies : copies[k].to = run[r].now => ~Live(copies[k]) \/ copies[k].touched # {}
        BY <1>1, <1>4 DEF Issued, Untouched
    <2>6. \A s \in Runners \ {r} : Past(s) => run[s].now # run[r].now
        BY <1>1, <2>3 DEF LocksHeld, Past
    <2> QED
        BY <1>1, <2>2, <2>3, <2>4, <2>5, <2>6, RunStep DEF PrintsKnown, AtWork, IssueStages, SendStages
<1> QED
    BY <1>2, <1>3, <1>4

\* A copy is committed: no other is live, and no other run knows otherwise.
LEMMA CommitKeeps ==
    ASSUME IssueInv, NEW r \in Runners, CommitIssue(r)
    PROVE  IssueInv'
<1>1. /\ IssueTypeOK /\ LocksHeld /\ Untouched /\ PrintsKnown /\ SendsCopies /\ OpenIsWatched
      /\ OneLiveCopy /\ PrintedIsRecorded
      /\ run \in [Runners -> Runs] /\ run[r] \in Runs
      /\ copies \in Seq(Copies) /\ Len(copies) \in Nat /\ DOMAIN copies = 1 .. Len(copies)
    BY IssueTypes DEF IssueInv
<1>2. run[r].stage = "clear" /\ UNCHANGED <<masterState, facts>>
    BY DEF CommitIssue
<1>3. run[r].now \in Recipients
    BY <1>1, <1>2, IssueTypes DEF AtWork
<1>4. PICK copy : copy = [to |-> run[r].now, state |-> "invited", contract |-> "SENT", keyed |-> TRUE,
                          touched |-> {}, facts |-> run[r].recorded, printed |-> run[r].printed,
                          crossed |-> run[r].crossed, ajar |-> FALSE]
    OBVIOUS
<1>5. /\ copy \in Copies /\ copy.to = run[r].now /\ copy.keyed /\ copy.contract = "SENT"
      /\ copy.facts = run[r].recorded /\ copy.printed = run[r].printed /\ copy.crossed = run[r].crossed
    BY <1>1, <1>3, <1>4 DEF Copies, Runs
<1>6. copy.printed = copy.facts \/ copy.crossed
    BY <1>1, <1>2, <1>5 DEF PrintsKnown, AtWork
<1>7. PICK new : new = [run[r] EXCEPT !.stage = "looping", !.known = run[r].known \cup {run[r].now},
                                      !.now = Noone, !.issued = TRUE]
    OBVIOUS
<1>8. /\ new \in Runs /\ new.stage = "looping" /\ new.now = Noone
      /\ new.printed = run[r].printed /\ new.crossed = run[r].crossed
    BY <1>1, <1>3, <1>7 DEF Runs, IssueStages
<1>9. copies' = Append(copies, copy) /\ run' = [run EXCEPT ![r] = new]
    BY <1>4, <1>7 DEF CommitIssue
<1>10. /\ copies' \in Seq(Copies) /\ Len(copies') = Len(copies) + 1
       /\ \A k \in 1 .. Len(copies) : copies'[k] = copies[k]
       /\ copies'[Len(copies) + 1] = copy
    BY <1>1, <1>5, <1>9, AppendProperties
<1>11. DOMAIN copies' = 1 .. Len(copies) + 1
    BY <1>10, SeqDomain
<1>12. PICK n : n = Len(copies) + 1
    OBVIOUS
<1>13. /\ \A k \in DOMAIN copies' : k = n \/ k \in DOMAIN copies
       /\ \A k \in DOMAIN copies : copies'[k] = copies[k]
       /\ copies'[n] = copy
    BY <1>1, <1>10, <1>11, <1>12
<1>14. /\ run' \in [Runners -> Runs] /\ run'[r] = new
       /\ \A s \in Runners \ {r} : run'[s] = run[s]
    BY <1>1, <1>8, <1>9
<1>15. IssueTypeOK'
    BY <1>1, <1>2, <1>8, <1>10, <1>14 DEF IssueTypeOK
<1>16. LocksHeld'
    <2>1. \A s \in Runners : Past(s)' => s # r /\ Past(s) /\ run'[s] = run[s]
        BY <1>8, <1>14 DEF Past
    <2>2. \A s, t \in Runners : s # t /\ Past(s)' /\ Past(t)' => run'[s].now # run'[t].now
        BY <1>1, <2>1 DEF LocksHeld
    <2>3. ASSUME NEW s \in Runners, run'[s].stage = "clear",
                 NEW k \in DOMAIN copies', copies'[k].to = run'[s].now
          PROVE  ~Live(copies'[k]) \/ copies'[k].touched # {}
        <3>1. s # r /\ run'[s] = run[s] /\ run[s].stage = "clear"
            BY <1>8, <1>14, <2>3
        <3>2. run[s].now # run[r].now
            BY <1>1, <1>2, <3>1 DEF LocksHeld, Past
        <3>3. k \in DOMAIN copies /\ copies'[k] = copies[k]
            BY <1>5, <1>13, <2>3, <3>1, <3>2
        <3> QED
            BY <1>1, <2>3, <3>1, <3>3 DEF LocksHeld
    <2> QED
        BY <2>2, <2>3 DEF LocksHeld, Live
<1>17. Untouched' /\ PrintedIsRecorded' /\ OpenIsWatched'
    <2>1. Untouched'
        BY <1>1, <1>5, <1>13 DEF Untouched
    <2>2. PrintedIsRecorded'
        <3> SUFFICES ASSUME NEW k \in DOMAIN copies', Out(copies'[k])
                     PROVE  copies'[k].printed = copies'[k].facts \/ copies'[k].crossed \/ copies'[k].ajar
            BY DEF PrintedIsRecorded, Out
        <3>1. CASE k = n
            BY <1>6, <1>13, <3>1
        <3>2. CASE k # n
            BY <1>1, <1>13, <3>2 DEF PrintedIsRecorded
        <3> QED
            BY <3>1, <3>2
    <2>3. OpenIsWatched'
        <3> SUFFICES ASSUME NEW k \in DOMAIN copies', Out(copies'[k]), copies'[k].contract = "DRAFT"
                     PROVE  copies'[k].ajar \/ copies'[k].crossed \/ \E s \in Runners : Frozen(s, k)'
            BY DEF OpenIsWatched, Out
        <3>1. k \in DOMAIN copies /\ copies'[k] = copies[k]
            BY <1>5, <1>13
        <3>2. \A s \in Runners : Frozen(s, k) => Frozen(s, k)'
            BY <1>2, <1>14 DEF Frozen
        <3> QED
            BY <1>1, <3>1, <3>2 DEF OpenIsWatched
    <2> QED
        BY <2>1, <2>2, <2>3
<1>18. PrintsKnown' /\ SendsCopies'
    <2>1. ASSUME NEW s \in Runners, run'[s].stage \in SendStages
          PROVE  s # r /\ run'[s] = run[s] /\ run[s].copy \in DOMAIN copies
        BY <1>1, <1>8, <1>14, <2>1 DEF SendsCopies, SendStages
    <2>2. SendsCopies'
        BY <1>1, <1>11, <1>13, <2>1 DEF SendsCopies
    <2>3. ASSUME NEW s \in Runners, ~run'[s].crossed
          PROVE  /\ run'[s].stage \in IssueStages => run'[s].printed = facts
                 /\ AtWork(s)' => run'[s].printed = run'[s].recorded
                 /\ run'[s].stage \in SendStages => run'[s].printed = copies'[run'[s].copy].facts
        <3>1. CASE s = r
            BY <1>1, <1>2, <1>8, <1>14, <2>3, <3>1 DEF PrintsKnown, AtWork, IssueStages, SendStages
        <3>2. CASE s # r
            BY <1>1, <1>13, <1>14, <2>1, <2>3, <3>2 DEF PrintsKnown, AtWork
        <3> QED
            BY <3>1, <3>2
    <2> QED
        BY <1>2, <2>2, <2>3 DEF PrintsKnown
<1>19. OneLiveCopy'
    <2>1. ASSUME NEW i \in DOMAIN copies', NEW j \in DOMAIN copies', i # j,
                 copies'[i].to = copies'[j].to
          PROVE  \E x \in {i, j} : ~Live(copies'[x]) \/ copies'[x].touched # {}
        <3>1. \A k \in DOMAIN copies : copies[k].to = run[r].now => ~Live(copies[k]) \/ copies[k].touched # {}
            BY <1>1, <1>2 DEF LocksHeld
        <3>2. CASE i = n
            BY <1>5, <1>13, <2>1, <3>1, <3>2
        <3>3. CASE j = n
            BY <1>5, <1>13, <2>1, <3>1, <3>3
        <3>4. CASE i # n /\ j # n
            BY <1>1, <1>13, <2>1, <3>4 DEF OneLiveCopy
        <3> QED
            BY <3>2, <3>3, <3>4
    <2> QED
        BY <2>1 DEF OneLiveCopy, Live
<1> QED
    BY <1>15, <1>16, <1>17, <1>18, <1>19 DEF IssueInv

\* What becomes of the copies.
LEMMA CopiesKeep ==
    ASSUME IssueInv, NEW k \in DOMAIN copies,
           \/ \E answer \in {"signed", "declined"} : AnswerCopy(k, answer)
           \/ WithdrawCopy(k) \/ ReopenCopy(k) \/ StrikeSignatory(k) \/ NameSignatoryAgain(k)
    PROVE  IssueInv'
<1>1. copies[k] \in Copies /\ (copies[k].touched # {} \/ copies[k].keyed)
    BY IssueTypes DEF IssueInv, Untouched
<1>2. UNCHANGED <<masterState, facts, run>>
    BY DEF AnswerCopy, WithdrawCopy, ReopenCopy, StrikeSignatory, NameSignatoryAgain
<1>3. ASSUME NEW answer \in {"signed", "declined"}, AnswerCopy(k, answer) PROVE IssueInv'
    <2>1. PICK count : count = Counted(copies[k].contract, answer)
        OBVIOUS
    <2>2. /\ count \in {"DRAFT", "SENT", "EXECUTED", "DECLINED", "WITHDRAWN"}
          /\ count = "DRAFT" => copies[k].contract = "DRAFT"
        BY <1>1, <2>1 DEF Counted, Copies
    <2>3. PICK new : new = [copies[k] EXCEPT !.state = answer, !.contract = count]
        OBVIOUS
    <2>4. new \in Copies /\ new.state = answer /\ new.contract = count
        BY <1>1, <2>2, <2>3 DEF Copies
    <2>5. /\ new.to = copies[k].to /\ new.touched = copies[k].touched /\ new.keyed = copies[k].keyed
          /\ new.facts = copies[k].facts /\ new.printed = copies[k].printed
          /\ new.crossed = copies[k].crossed /\ new.ajar = copies[k].ajar
        BY <1>1, <2>3 DEF Copies
    <2>6. copies' = [copies EXCEPT ![k] = new] /\ copies[k].state = "invited"
        BY <1>3, <2>1, <2>3 DEF AnswerCopy
    <2>7. Live(copies[k]) /\ Out(copies[k])
        BY <2>6 DEF Live, Out
    <2> QED
        BY <1>1, <1>2, <2>2, <2>4, <2>5, <2>6, <2>7, CopyStep
<1>4. CASE WithdrawCopy(k)
    <2>1. PICK state : state = IF copies[k].state \in {"draft", "invited"} THEN "withdrawn" ELSE copies[k].state
        OBVIOUS
    <2>2. PICK new : new = [copies[k] EXCEPT !.state = state, !.contract = "WITHDRAWN"]
        OBVIOUS
    <2>3. new \in Copies /\ new.state = state /\ new.contract = "WITHDRAWN"
        BY <1>1, <2>1, <2>2 DEF Copies
    <2>4. /\ new.to = copies[k].to /\ new.touched = copies[k].touched /\ new.keyed = copies[k].keyed
          /\ new.facts = copies[k].facts /\ new.printed = copies[k].printed
          /\ new.crossed = copies[k].crossed /\ new.ajar = copies[k].ajar
        BY <1>1, <2>2 DEF Copies
    <2>5. copies' = [copies EXCEPT ![k] = new]
        BY <1>4, <2>1, <2>2 DEF WithdrawCopy
    <2>6. (Live(new) => Live(copies[k])) /\ (Out(new) => Out(copies[k]))
        BY <2>1, <2>3 DEF Live, Out
    <2> QED
        BY <1>1, <1>2, <2>3, <2>4, <2>5, <2>6, CopyStep
<1>5. CASE ReopenCopy(k)
    <2>1. PICK state : state = IF copies[k].state = "withdrawn" THEN "draft" ELSE copies[k].state
        OBVIOUS
    <2>2. PICK loose \in BOOLEAN : loose = (copies[k].ajar \/ Out(copies[k]))
        BY <1>1 DEF Copies
    <2>3. PICK new : new = [copies[k] EXCEPT !.state = state, !.contract = "DRAFT",
                                             !.touched = copies[k].touched \cup {"reopened"}, !.ajar = loose]
        OBVIOUS
    <2>4. /\ new \in Copies /\ new.state = state /\ new.contract = "DRAFT" /\ new.ajar = loose
          /\ new.touched # {}
        BY <1>1, <2>1, <2>3 DEF Copies
    <2>5. /\ new.to = copies[k].to /\ new.facts = copies[k].facts
          /\ new.printed = copies[k].printed /\ new.crossed = copies[k].crossed
        BY <1>1, <2>3 DEF Copies
    <2>6. copies' = [copies EXCEPT ![k] = new]
        BY <1>5, <2>1, <2>2, <2>3 DEF ReopenCopy
    <2>7. Out(new) => Out(copies[k])
        BY <2>1, <2>4 DEF Out
    <2> QED
        BY <1>1, <1>2, <2>2, <2>4, <2>5, <2>6, <2>7, CopyStep
<1>6. CASE StrikeSignatory(k)
    <2>1. PICK new : new = [copies[k] EXCEPT !.keyed = FALSE, !.touched = copies[k].touched \cup {"unkeyed"}]
        OBVIOUS
    <2>2. /\ new \in Copies /\ new.touched # {} /\ new.to = copies[k].to /\ new.state = copies[k].state
          /\ new.contract = copies[k].contract /\ new.facts = copies[k].facts
          /\ new.printed = copies[k].printed /\ new.crossed = copies[k].crossed /\ new.ajar = copies[k].ajar
        BY <1>1, <2>1 DEF Copies
    <2>3. copies' = [copies EXCEPT ![k] = new]
        BY <1>6, <2>1 DEF StrikeSignatory
    <2> QED
        BY <1>1, <1>2, <2>2, <2>3, CopyStep DEF Out
<1>7. CASE NameSignatoryAgain(k)
    <2>1. PICK new : new = [copies[k] EXCEPT !.keyed = TRUE]
        OBVIOUS
    <2>2. /\ new \in Copies /\ new.touched = copies[k].touched /\ new.keyed /\ new.to = copies[k].to
          /\ new.state = copies[k].state
          /\ new.contract = copies[k].contract /\ new.facts = copies[k].facts
          /\ new.printed = copies[k].printed /\ new.crossed = copies[k].crossed /\ new.ajar = copies[k].ajar
        BY <1>1, <2>1 DEF Copies
    <2>3. copies' = [copies EXCEPT ![k] = new]
        BY <1>7, <2>1 DEF NameSignatoryAgain
    <2> QED
        BY <1>1, <1>2, <2>2, <2>3, CopyStep DEF Live, Out
<1> QED
    BY <1>3, <1>4, <1>5, <1>6, <1>7

\* The sending of a copy.
LEMMA SendsKeep ==
    ASSUME IssueInv, NEW r \in Runners, SendFreezes(r) \/ SendEnds(r) \/ SendStops(r)
    PROVE  IssueInv'
<1>1. /\ IssueTypeOK /\ run[r] \in Runs /\ PrintsKnown /\ SendsCopies /\ OpenIsWatched
      /\ PrintedIsRecorded /\ UNCHANGED <<masterState, facts>> /\ masterState \in MasterStates
      /\ run[r].stage \in SendStages
    BY IssueTypes DEF IssueInv, SendFreezes, SendEnds, SendStops, SendStages
<1>2. PICK k : k = run[r].copy
    OBVIOUS
<1>3. k \in DOMAIN copies /\ copies[k] \in Copies /\ run[r].now = Noone
    BY <1>1, <1>2, IssueTypes DEF SendsCopies, IssueTypeOK, SendStages
<1>4. /\ NoRun \in Runs /\ NoRun.stage = "idle" /\ NoRun.now = Noone /\ NoRun.copy = 0
    BY IssueAssumption DEF NoRun, Runs, Editions
<1>5. CASE SendFreezes(r)
    <2>1. PICK next : next = [run[r] EXCEPT !.stage = "frozen"]
        OBVIOUS
    <2>2. /\ next \in Runs /\ next.stage = "frozen" /\ next.now = run[r].now /\ next.copy = k
          /\ next.printed = run[r].printed /\ next.crossed = run[r].crossed
        BY <1>1, <1>2, <2>1 DEF Runs, SendStages
    <2>3. PICK file : file = IF copies[k].state = "signed" THEN copies[k]
                             ELSE [copies[k] EXCEPT !.printed = run[r].printed,
                                                    !.crossed = run[r].crossed, !.ajar = FALSE]
        OBVIOUS
    <2>4. PICK state : state = IF copies[k].state = "draft" THEN "invited" ELSE copies[k].state
        OBVIOUS
    <2>5. file \in Copies
        BY <1>1, <1>3, <2>3 DEF Copies, Runs
    <2>6. /\ file.to = copies[k].to /\ file.state = copies[k].state /\ file.contract = copies[k].contract
          /\ file.touched = copies[k].touched /\ file.keyed = copies[k].keyed
          /\ file.facts = copies[k].facts
        BY <1>3, <2>3 DEF Copies
    <2>7. PICK count : count = Counted(file.contract, state)
        OBVIOUS
    <2>8. count \in {"DRAFT", "SENT", "EXECUTED", "DECLINED", "WITHDRAWN"}
        BY <2>5, <2>7 DEF Counted, Copies
    <2>9. PICK new : new = [file EXCEPT !.state = state, !.contract = count]
        OBVIOUS
    <2>10. /\ new \in Copies /\ new.state = state /\ new.to = copies[k].to
           /\ new.touched = copies[k].touched /\ new.keyed = copies[k].keyed
           /\ new.facts = copies[k].facts
           /\ new.printed = file.printed /\ new.crossed = file.crossed /\ new.ajar = file.ajar
        BY <1>3, <2>4, <2>5, <2>6, <2>8, <2>9 DEF Copies
    <2>11. copies' = [copies EXCEPT ![k] = new] /\ run' = [run EXCEPT ![r] = next]
        BY <1>2, <1>5, <2>1, <2>3, <2>4, <2>7, <2>9 DEF SendFreezes
    <2>12. new.printed = new.facts \/ new.crossed \/ new.ajar
        <3>1. CASE copies[k].state = "signed"
            BY <1>1, <1>3, <2>3, <2>10, <3>1 DEF PrintedIsRecorded, Out
        <3>2. CASE copies[k].state # "signed"
            <4>1. file.printed = run[r].printed /\ file.crossed = run[r].crossed
                BY <1>3, <2>3, <3>2 DEF Copies
            <4> QED
                BY <1>1, <1>2, <2>10, <4>1 DEF PrintsKnown
        <3> QED
            BY <3>1, <3>2
    <2>13. Live(new) => Live(copies[k])
        BY <2>4, <2>10 DEF Live
    <2> QED
        BY <1>1, <1>2, <1>3, <2>2, <2>10, <2>11, <2>12, <2>13, SendStep
<1>6. CASE SendEnds(r)
    <2>1. PICK state : state = IF copies[k].contract = "DRAFT" THEN "SENT" ELSE copies[k].contract
        OBVIOUS
    <2>2. PICK new : new = [copies[k] EXCEPT !.contract = state]
        OBVIOUS
    <2>3. /\ new \in Copies /\ new.contract = state /\ new.to = copies[k].to /\ new.state = copies[k].state
          /\ new.touched = copies[k].touched /\ new.keyed = copies[k].keyed /\ new.facts = copies[k].facts
          /\ new.printed = copies[k].printed /\ new.crossed = copies[k].crossed /\ new.ajar = copies[k].ajar
        BY <1>3, <2>1, <2>2 DEF Copies
    <2>4. copies' = [copies EXCEPT ![k] = new] /\ run' = [run EXCEPT ![r] = NoRun]
        BY <1>2, <1>6, <2>1, <2>2 DEF SendEnds
    <2>5. /\ Live(new) => Live(copies[k])
          /\ Out(new) => new.printed = new.facts \/ new.crossed \/ new.ajar
          /\ new.contract # "DRAFT"
        BY <1>1, <1>3, <2>1, <2>3 DEF Live, Out, PrintedIsRecorded
    <2> QED
        BY <1>1, <1>2, <1>3, <1>4, <2>3, <2>4, <2>5, SendStep
<1>7. CASE SendStops(r) /\ run[r].stage = "sending"
    <2>1. copies' = copies /\ run' = [run EXCEPT ![r] = NoRun]
        BY <1>7 DEF SendStops, Frozen
    <2> QED
        BY <1>1, <1>4, <1>7, <2>1, RunStep DEF IssueStages, SendStages
<1>8. CASE SendStops(r) /\ run[r].stage = "frozen"
    <2>1. PICK loose \in BOOLEAN : loose = (copies[k].ajar \/ copies[k].contract = "DRAFT")
        BY <1>3 DEF Copies
    <2>2. PICK new : new = [copies[k] EXCEPT !.ajar = loose]
        OBVIOUS
    <2>3. /\ new \in Copies /\ new.contract = copies[k].contract /\ new.to = copies[k].to
          /\ new.state = copies[k].state
          /\ new.touched = copies[k].touched /\ new.keyed = copies[k].keyed /\ new.facts = copies[k].facts
          /\ new.printed = copies[k].printed /\ new.crossed = copies[k].crossed /\ new.ajar = loose
        BY <1>3, <2>2 DEF Copies
    <2>4. copies' = [copies EXCEPT ![k] = new]
        <3>1. CASE copies[k].contract = "DRAFT"
            <4>1. loose = TRUE
                BY <2>1, <3>1
            <4>2. copies' = [copies EXCEPT ![k].ajar = TRUE]
                BY <1>2, <1>8, <3>1 DEF SendStops, Frozen
            <4> QED
                BY <2>2, <4>1, <4>2
        <3>2. CASE copies[k].contract # "DRAFT"
            <4>1. copies' = copies
                BY <1>2, <1>8, <3>2 DEF SendStops, Frozen
            <4>2. new = copies[k]
                BY <1>3, <2>1, <2>2, <3>2 DEF Copies
            <4>3. copies \in [1 .. Len(copies) -> Copies]
                BY <1>1, IssueTypes, SeqDomain
            <4> QED
                BY <4>1, <4>2, <4>3
        <3> QED
            BY <3>1, <3>2
    <2>5. run' = [run EXCEPT ![r] = NoRun]
        BY <1>8 DEF SendStops
    <2>6. /\ Live(new) => Live(copies[k])
          /\ Out(new) => new.printed = new.facts \/ new.crossed \/ new.ajar
          /\ new.contract = "DRAFT" => new.ajar
        BY <1>1, <1>3, <2>1, <2>3 DEF Live, Out, PrintedIsRecorded
    <2> QED
        BY <1>1, <1>2, <1>3, <1>4, <2>3, <2>4, <2>5, <2>6, SendStep
<1> QED
    BY <1>1, <1>5, <1>6, <1>7, <1>8 DEF SendStages

LEMMA IssueHolds == IssueSpec => []IssueInv
<1>1. IssueInit => IssueInv
    <2> SUFFICES ASSUME IssueInit PROVE IssueInv
        OBVIOUS
    <2>1. <<>> \in Seq(Copies) /\ DOMAIN <<>> = {}
        BY EmptySeq, SeqDomain
    <2>2. NoRun \in Runs /\ NoRun.stage = "idle" /\ NoRun.now = Noone
        BY IssueAssumption DEF NoRun, Runs, Editions
    <2>3. IssueTypeOK
        BY <2>1, <2>2, IssueAssumption DEF IssueInit, IssueTypeOK, MasterStates, Editions
    <2> QED
        BY <2>1, <2>2, <2>3 DEF IssueInit, IssueInv, LocksHeld, Past, Untouched, PrintsKnown,
                                AtWork, SendsCopies, IssueStages, SendStages, OpenIsWatched,
                                OneLiveCopy, PrintedIsRecorded
<1>2. IssueInv /\ [IssueNext]_issueVars => IssueInv'
    <2> SUFFICES ASSUME IssueInv, [IssueNext]_issueVars PROVE IssueInv'
        OBVIOUS
    <2>1. CASE SaveFacts \/ BecomesContract \/ WithdrawMaster \/ ReopenMaster
        BY <2>1, MasterKeeps, FactsKeep
    <2>2. ASSUME NEW r \in Runners,
                 \/ RunReads(r) \/ RunKnows(r) \/ RunEnds(r) \/ RunStops(r) \/ RollBackIssue(r)
                 \/ \E to \in Recipients : SkipRecipient(r, to) \/ InsertCopy(r, to)
                 \/ \E k \in DOMAIN copies : SendReads(r, k)
          PROVE  IssueInv'
        BY <2>2, UnlockedRunKeeps
    <2>3. ASSUME NEW r \in Runners, LockRecipient(r) \/ AskAgain(r) PROVE IssueInv'
        BY <2>3, LockedRunKeeps
    <2>4. ASSUME NEW r \in Runners, CommitIssue(r) PROVE IssueInv'
        BY <2>4, CommitKeeps
    <2>5. ASSUME NEW k \in DOMAIN copies,
                 \/ \E answer \in {"signed", "declined"} : AnswerCopy(k, answer)
                 \/ WithdrawCopy(k) \/ ReopenCopy(k) \/ StrikeSignatory(k) \/ NameSignatoryAgain(k)
          PROVE  IssueInv'
        BY <2>5, CopiesKeep
    <2>6. ASSUME NEW k \in DOMAIN copies, SaveCopyFacts(k) PROVE IssueInv'
        BY <2>6, FactsKeep
    <2>7. ASSUME NEW r \in Runners, SendFreezes(r) \/ SendEnds(r) \/ SendStops(r) PROVE IssueInv'
        BY <2>7, SendsKeep
    <2>8. CASE UNCHANGED issueVars
        BY <2>8 DEF issueVars, IssueInv, IssueTypeOK, LocksHeld, Past, Untouched, PrintsKnown, AtWork,
                    SendsCopies, OpenIsWatched, Frozen, OneLiveCopy, PrintedIsRecorded, Live, Out
    <2> QED
        BY <2>1, <2>2, <2>3, <2>4, <2>5, <2>6, <2>7, <2>8 DEF IssueNext
<1> QED
    BY <1>1, <1>2, PTL DEF IssueSpec

\* However many runs overlap, a recipient has one live copy.
THEOREM CopiesAreSingle == IssueSpec => []OneLiveCopy
<1>1. IssueInv => OneLiveCopy
    BY DEF IssueInv
<1> QED
    BY <1>1, IssueHolds, PTL

\* What a recipient holds prints the facts of the copy's record, unless facts were
\* saved while it was made, or the contract was left or put open with it out.
THEOREM PrintsAreRecorded == IssueSpec => []PrintedIsRecorded
<1>1. IssueInv => PrintedIsRecorded
    BY DEF IssueInv
<1> QED
    BY <1>1, IssueHolds, PTL

-----------------------------------------------------------------------------
(* The three together, as the runs check them *)

\* With every bound of MCDocuments, a behaviour of the three side by side is one of
\* each: what is proved of a component holds beside the others, and the bounds
\* of the runs leave steps out and add none.
THEOREM SideBySide == DocumentsSpec => ApprovalSpec /\ InvitationSpec /\ IssueSpec
<1>1. DocumentsInit => ApprovalInit /\ InvitationInit /\ IssueInit
    BY DEF DocumentsInit
<1>2. [DocumentsNext]_<<approvalVars, invitationVars, issueVars, atWork>>
      => [ApprovalNext]_approvalVars /\ [InvitationNext]_invitationVars /\ [IssueNext]_issueVars
    <2>1. UNCHANGED <<approvalVars, invitationVars, issueVars, atWork>> =>
              UNCHANGED approvalVars /\ UNCHANGED invitationVars /\ UNCHANGED issueVars
        OBVIOUS
    <2>2. DocumentsNext =>
              [ApprovalNext]_approvalVars /\ [InvitationNext]_invitationVars /\ [IssueNext]_issueVars
        BY DEF DocumentsNext
    <2> QED
        BY <2>1, <2>2
<1> QED
    BY <1>1, <1>2, PTL DEF DocumentsSpec, ApprovalSpec, InvitationSpec, IssueSpec

\* The variables of documents, parties and copies keep their types.
THEOREM TypesCorrect == DocumentsSpec => []TypesOK
<1>1. ApprovalInv /\ InvitationInv /\ IssueInv => TypesOK
    BY DEF ApprovalInv, InvitationInv, IssueInv, TypesOK
<1> QED
    BY <1>1, SideBySide, ApprovalHolds, InvitationHolds, IssueHolds, PTL
=============================================================================
