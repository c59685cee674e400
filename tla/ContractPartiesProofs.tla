------------------------ MODULE ContractPartiesProofs ------------------------
(***************************************************************************)
(* Theorems about ContractParties, for any parties, any signing order, any *)
(* number of signatories, of sends and of ceremonies.                      *)
(***************************************************************************)
EXTENDS ContractParties, TLAPS

-----------------------------------------------------------------------------
(* The trigger *)

\* A count is a state of a contract that was sent, or leaves the row alone.
LEMMA TallyType ==
    ASSUME NEW state
    PROVE  Tally(state) \in Sent \cup {"keep"}
BY DEF Tally, Sent

LEMMA VerdictType ==
    ASSUME NEW state
    PROVE  Verdict(state) \in Sent \cup {"keep"}
BY TallyType DEF Verdict

LEMMA JudgedType ==
    ASSUME contract \in ContractStates, NEW verdict \in ContractStates \cup {"keep"}
    PROVE  Judged(verdict) \in ContractStates
BY DEF Judged

\* EXECUTED is counted only when every required party that is there has signed,
\* and somebody has.
LEMMA ExecutedTally ==
    ASSUME NEW state, Tally(state) = "EXECUTED"
    PROVE  /\ \A p \in Required \cap Parties :
                state[p] \notin {"absent", "removed"} => state[p] = "signed"
           /\ \E p \in Parties : state[p] = "signed"
<1> DEFINE there == {p \in Parties : state[p] \notin {"absent", "removed"}}
<1>1. /\ Deciding(state) # {}
      /\ {p \in Deciding(state) : state[p] = "signed"} = Deciding(state)
    BY DEF Tally
<1>2. Deciding(state) \subseteq Parties
    BY DEF Deciding
<1>3. there \cap Required # {} => Deciding(state) = there \cap Required
    BY DEF Deciding
<1> QED
    BY <1>1, <1>2, <1>3

-----------------------------------------------------------------------------
(* Types *)

LEMMA ConstantTypes ==
    /\ Unsigned \in Signature
    /\ NoTx \in Transaction
    /\ Idle \in Sends
    /\ 0 \in Sessions /\ 0 \in Freezings
    /\ Nobody \in People
    /\ \A p \in Parties : Signatories[p] \subseteq People
    /\ Sent \subseteq ContractStates
BY ContractAssumption
   DEF Unsigned, Signature, NoTx, Transaction, Idle, Sends, Sessions, Freezings, People,
       ContractStates, Sent

LEMMA ClosedTypes ==
    ASSUME TypeOK, NEW S \in SUBSET Parties, Closed(S)
    PROVE  /\ session' \in [Parties -> Sessions]
           /\ by' \in [Parties -> People]
           /\ aged' \subseteq Parties
BY ConstantTypes DEF TypeOK, Closed

LEMMA RequestTypes ==
    ASSUME TypeOK, NEW r \in Requests, Passed(r) \/ Check(r)
    PROVE  checked' \subseteq Requests
BY DEF TypeOK, Passed, Check

LEMMA IssuerTypes ==
    ASSUME TypeOK, Issuer
    PROVE  TypeOK'
<1>1. ASSUME NEW r \in Requests, Check(r) PROVE TypeOK'
    BY <1>1, RequestTypes DEF TypeOK, Check, rows
<1>2. ASSUME NEW p \in Parties, AddParty(p) PROVE TypeOK'
    <2>1. checked' \subseteq Requests
        BY <1>2, RequestTypes DEF AddParty, InsertParty, Requests
    <2>2. contract' \in ContractStates
        BY <1>2, VerdictType, JudgedType, ConstantTypes DEF AddParty, InsertParty, TypeOK, ContractStates
    <2>3. party' \in [Parties -> PartyStates]
        BY <1>2 DEF AddParty, InsertParty, TypeOK, PartyStates
    <2> QED
        BY <1>2, <2>1, <2>2, <2>3 DEF AddParty, InsertParty, TypeOK
<1>3. ASSUME NEW p \in Parties, RemoveParty(p) PROVE TypeOK'
    <2>1. checked' \subseteq Requests
        BY <1>3, RequestTypes DEF RemoveParty, Requests
    <2>2. contract' \in ContractStates
        BY <1>3, VerdictType, JudgedType, ConstantTypes DEF RemoveParty, TypeOK
    <2>3. /\ party' \in [Parties -> PartyStates]
          /\ copy' \in [Parties -> Freezings]
        BY <1>3, ConstantTypes DEF RemoveParty, TypeOK, PartyStates
    <2>4. /\ session' \in [Parties -> Sessions]
          /\ by' \in [Parties -> People]
          /\ aged' \subseteq Parties
        BY <1>3, ClosedTypes DEF RemoveParty
    <2> QED
        BY <1>3, <2>1, <2>2, <2>3, <2>4 DEF RemoveParty, TypeOK
<1>4. ASSUME Withdraw PROVE TypeOK'
    <2>1. checked' \subseteq Requests
        BY <1>4, RequestTypes DEF Withdraw, Requests
    <2>2. party' \in [Parties -> PartyStates]
        BY <1>4 DEF Withdraw, TypeOK, PartyStates
    <2>3. /\ session' \in [Parties -> Sessions]
          /\ by' \in [Parties -> People]
          /\ aged' \subseteq Parties
        BY <1>4, ClosedTypes DEF Withdraw
    <2> QED
        BY <1>4, <2>1, <2>2, <2>3 DEF Withdraw, TypeOK, ContractStates
<1>5. ASSUME Reopen PROVE TypeOK'
    <2>1. checked' \subseteq Requests
        BY <1>5, RequestTypes DEF Reopen, Requests
    <2>2. /\ party' \in [Parties -> PartyStates]
          /\ copy' \in [Parties -> Freezings]
        BY <1>5, ConstantTypes DEF Reopen, TypeOK, PartyStates
    <2> QED
        BY <1>5, <2>1, <2>2 DEF Reopen, TypeOK, ContractStates
<1> QED
    BY <1>1, <1>2, <1>3, <1>4, <1>5 DEF Issuer

LEMMA SendingTypes ==
    ASSUME TypeOK, Sending
    PROVE  TypeOK'
<1>1. ASSUME NEW s \in Senders, SendRead(s) PROVE TypeOK'
    BY <1>1 DEF SendRead, TypeOK, Sends, Present, rows
<1>2. ASSUME NEW s \in Senders, NEW p \in Parties, OpenCopy(s, p) PROVE TypeOK'
    <2> DEFINE state == [party EXCEPT ![p] = IF @ = "draft" THEN "invited" ELSE @]
    <2>1. Verdict(state) \in ContractStates \cup {"keep"}
        BY VerdictType, ConstantTypes
    <2>2. freezes' \in Freezings /\ freezes' = freezes + 1
        BY <1>2, ContractAssumption DEF OpenCopy, TypeOK, Freezings
    <2>3. [kind |-> "copy", session |-> 0, who |-> Nobody, digest |-> freezes + 1,
           verdict |-> Verdict(state)] \in Transaction
        BY <2>1, <2>2, ConstantTypes DEF Transaction
    <2>4. tx' \in [Parties -> Transaction]
        BY <1>2, <2>3 DEF OpenCopy, TypeOK
    <2>5. sends' \in [Senders -> Sends]
        BY <1>2, ZenonT(60) DEF OpenCopy, TypeOK, Sends
    <2> QED
        BY <1>2, <2>2, <2>4, <2>5 DEF OpenCopy, TypeOK, rows
<1>3. ASSUME NEW s \in Senders, NEW p \in Parties, CommitCopy(s, p) PROVE TypeOK'
    <2>1. tx[p] \in Transaction
        BY DEF TypeOK
    <2>2. contract' \in ContractStates
        BY <1>3, <2>1, JudgedType DEF CommitCopy, TypeOK, Transaction
    <2>3. copy' \in [Parties -> Freezings]
        BY <1>3, <2>1 DEF CommitCopy, TypeOK, Transaction
    <2>4. /\ party' \in [Parties -> PartyStates]
          /\ tx' \in [Parties -> Transaction]
          /\ sends' \in [Senders -> Sends]
        BY <1>3, ConstantTypes DEF CommitCopy, TypeOK, PartyStates, Answerable, Sends
    <2> QED
        BY <1>3, <2>2, <2>3, <2>4 DEF CommitCopy, TypeOK
<1>4. ASSUME NEW s \in Senders, NEW p \in Parties, SkipParty(s, p) PROVE TypeOK'
    BY <1>4 DEF SkipParty, TypeOK, Sends, rows
<1>5. ASSUME NEW s \in Senders, SendFinish(s) PROVE TypeOK'
    BY <1>5, ConstantTypes DEF SendFinish, TypeOK, Sent, rows
<1>6. ASSUME NEW s \in Senders, SendAbort(s) PROVE TypeOK'
    BY <1>6, ConstantTypes DEF SendAbort, TypeOK, rows
<1> QED
    BY <1>1, <1>2, <1>3, <1>4, <1>5, <1>6 DEF Sending

LEMMA CeremonyTypes ==
    ASSUME TypeOK, Ceremony
    PROVE  TypeOK'
<1>1. ASSUME NEW p \in Parties, TwentyMinutes(p) PROVE TypeOK'
    BY <1>1 DEF TwentyMinutes, TypeOK
<1>2. ASSUME NEW p \in Parties, PollRead(p) PROVE TypeOK'
    <2>1. polls' \subseteq Polls
        BY <1>2 DEF PollRead, TypeOK, Polls
    <2> QED
        BY <1>2, <2>1 DEF PollRead, TypeOK, rows
<1>3. ASSUME NEW p \in Parties, NEW w \in Signatories[p], StartRead(p, w) PROVE TypeOK'
    <2>1. starts' \subseteq Starts
        BY <1>3, ConstantTypes DEF StartRead, TypeOK, Starts
    <2> QED
        BY <1>3, <2>1 DEF StartRead, TypeOK, rows
<1>4. ASSUME NEW c \in starts, StartLocked(c) PROVE TypeOK'
    <2>1. c \in Starts
        BY DEF TypeOK
    <2>2. PICK n \in DOMAIN rail :
             /\ rail' = [rail EXCEPT ![n] = [party |-> c.party, who |-> c.who, over |-> c.over,
                                              result |-> "pending"]]
             /\ session' = [session EXCEPT ![c.party] = n]
             /\ by' = [by EXCEPT ![c.party] = c.who]
             /\ aged' = aged \ {c.party}
             /\ starts' = starts \ {c}
             /\ UNCHANGED <<contract, party, copy, signature, freezes, tx, sends, polls, checked>>
        BY <1>4 DEF StartLocked
    <2>3. n \in Sessions
        BY <2>2 DEF TypeOK
    <2>4. rail' \in [Sessions \ {0} -> Ceremonies]
        BY <2>1, <2>2 DEF TypeOK, Starts, Ceremonies
    <2> QED
        BY <2>1, <2>2, <2>3, <2>4 DEF TypeOK, Starts
<1>5. ASSUME NEW c \in starts, StartRefused(c) PROVE TypeOK'
    BY <1>5 DEF StartRefused, TypeOK, rows
<1>6. ASSUME NEW n \in DOMAIN rail, CitizenAnswers(n) PROVE TypeOK'
    BY <1>6 DEF CitizenAnswers, TypeOK, Ceremonies, rows
<1>7. ASSUME NEW q \in polls, PollFailed(q) PROVE TypeOK'
    <2>1. q.party \in Parties
        BY DEF TypeOK, Polls
    <2>2. /\ session' \in [Parties -> Sessions]
          /\ by' \in [Parties -> People]
          /\ aged' \subseteq Parties
        BY <1>7, <2>1, ClosedTypes DEF PollFailed
    <2> QED
        BY <1>7, <2>2 DEF PollFailed, TypeOK
<1>8. ASSUME NEW q \in polls, PollEnds(q) PROVE TypeOK'
    BY <1>8 DEF PollEnds, TypeOK, rows
<1> QED
    BY <1>1, <1>2, <1>3, <1>4, <1>5, <1>6, <1>7, <1>8 DEF Ceremony

LEMMA OpenTypes ==
    ASSUME TypeOK, NEW p \in Parties, NEW kind \in {"view", "decline", "sign"}, NEW state,
           NEW n \in Sessions, NEW w \in People, NEW d \in Freezings,
           Open(p, kind, state, n, w, d)
    PROVE  tx' \in [Parties -> Transaction]
<1> DEFINE next == [party EXCEPT ![p] = state]
<1>1. Verdict(next) \in ContractStates \cup {"keep"}
    BY VerdictType, ConstantTypes
<1>2. [kind |-> kind, session |-> n, who |-> w, digest |-> d, verdict |-> Verdict(next)]
        \in Transaction
    BY <1>1 DEF Transaction
<1> QED
    BY <1>2 DEF Open, TypeOK

LEMMA AnsweringTypes ==
    ASSUME TypeOK, Answering
    PROVE  TypeOK'
<1>1. ASSUME NEW p \in Parties, OpenView(p) PROVE TypeOK'
    <2>1. tx' \in [Parties -> Transaction]
        BY <1>1, OpenTypes, ConstantTypes DEF OpenView
    <2> QED
        BY <1>1, <2>1 DEF OpenView, TypeOK, rows
<1>2. ASSUME NEW p \in Parties, OpenDecline(p) PROVE TypeOK'
    <2>1. tx' \in [Parties -> Transaction]
        BY <1>2, OpenTypes, ConstantTypes DEF OpenDecline
    <2> QED
        BY <1>2, <2>1 DEF OpenDecline, TypeOK, rows
<1>3. ASSUME NEW q \in polls, OpenSign(q) PROVE TypeOK'
    <2>1. q \in Polls
        BY DEF TypeOK
    <2>2. tx' \in [Parties -> Transaction]
        BY <1>3, <2>1, OpenTypes DEF OpenSign, Polls
    <2> QED
        BY <1>3, <2>2 DEF OpenSign, TypeOK, rows
<1>4. ASSUME NEW p \in Parties, CommitView(p) PROVE TypeOK'
    <2>1. contract' \in ContractStates
        BY <1>4, JudgedType DEF CommitView, TypeOK, Transaction
    <2> QED
        BY <1>4, <2>1, ConstantTypes DEF CommitView, TypeOK, PartyStates, Answerable
<1>5. ASSUME NEW p \in Parties, CommitDecline(p) PROVE TypeOK'
    <2>1. contract' \in ContractStates
        BY <1>5, JudgedType DEF CommitDecline, TypeOK, Transaction
    <2>2. /\ session' \in [Parties -> Sessions]
          /\ by' \in [Parties -> People]
          /\ aged' \subseteq Parties
        BY <1>5, ClosedTypes DEF CommitDecline
    <2> QED
        BY <1>5, <2>1, <2>2, ConstantTypes DEF CommitDecline, TypeOK, PartyStates
<1>6. ASSUME NEW p \in Parties, CommitSign(p) PROVE TypeOK'
    <2>1. contract' \in ContractStates
        BY <1>6, JudgedType DEF CommitSign, TypeOK, Transaction
    <2>2. /\ session' \in [Parties -> Sessions]
          /\ by' \in [Parties -> People]
          /\ aged' \subseteq Parties
        BY <1>6, ClosedTypes DEF CommitSign
    <2>3. signature' \in [Parties -> Signature]
        BY <1>6 DEF CommitSign, TypeOK, Transaction, Signature
    <2> QED
        BY <1>6, <2>1, <2>2, <2>3, ConstantTypes DEF CommitSign, TypeOK, PartyStates
<1>7. ASSUME NEW p \in Parties, Rollback(p) PROVE TypeOK'
    BY <1>7, ConstantTypes DEF Rollback, TypeOK, rows
<1> QED
    BY <1>1, <1>2, <1>3, <1>4, <1>5, <1>6, <1>7 DEF Answering

LEMMA TypeStep ==
    ASSUME TypeOK, [Next]_vars
    PROVE  TypeOK'
<1>1. CASE UNCHANGED vars
    BY <1>1 DEF vars, rows, TypeOK
<1> QED
    BY <1>1, IssuerTypes, SendingTypes, CeremonyTypes, AnsweringTypes DEF Next

LEMMA TypeInit == Init => TypeOK
BY ConstantTypes DEF Init, TypeOK, ContractStates, PartyStates, Ceremonies, People, Sessions

\* Every variable keeps its type: rows, transactions, sends, ceremonies.
THEOREM TypeCorrect == Spec => []TypeOK
BY TypeInit, TypeStep, PTL DEF Spec

-----------------------------------------------------------------------------
(* Rows and the transactions that hold them *)

\* A row that an answer has locked can still be answered, and one that a copy is
\* stored for is there.
Locked ==
    \A p \in Parties :
      /\ tx[p].kind \in {"view", "decline", "sign"} => party[p] \in Answerable
      /\ tx[p].kind = "sign" => tx[p].session # 0
      /\ tx[p].kind = "copy" => party[p] \notin {"absent", "removed"}

\* Each copy under way has its own transaction.
Copying ==
    \A s \in Senders :
      /\ \A p \in sends[s].left : party[p] # "absent"
      /\ sends[s].now \in Parties =>
            /\ tx[sends[s].now].kind = "copy"
            /\ \A t \in Senders : sends[t].now = sends[s].now => t = s

\* Who has signed has a signature, and nobody else.
SignedIsSigned == \A p \in Parties : party[p] = "signed" <=> signature[p] # Unsigned

\* Who was not sent to has no copy.
NotSent == \A p \in Parties : party[p] \in {"absent", "draft", "removed"} => copy[p] = 0

RowInv == TypeOK /\ Locked /\ Copying /\ SignedIsSigned /\ NotSent /\ CeremonyOnlyWhileOpen

LEMMA RowInit == Init => RowInv
<1> SUFFICES ASSUME Init PROVE RowInv
    OBVIOUS
<1>1. Locked
    BY DEF Init, Locked, NoTx
<1>2. Copying
    BY ContractAssumption DEF Init, Copying, Idle
<1>3. SignedIsSigned /\ NotSent /\ CeremonyOnlyWhileOpen
    BY DEF Init, SignedIsSigned, NotSent, CeremonyOnlyWhileOpen
<1> QED
    BY <1>1, <1>2, <1>3, TypeInit DEF RowInv

LEMMA RowIssuer ==
    ASSUME RowInv, Issuer, TypeOK'
    PROVE  RowInv'
<1>1. ASSUME NEW r \in Requests, Check(r) PROVE RowInv'
    BY <1>1 DEF Check, rows, RowInv, Locked, Copying, SignedIsSigned, NotSent, CeremonyOnlyWhileOpen
<1>2. ASSUME NEW p \in Parties, AddParty(p) PROVE RowInv'
    <2> USE <1>2 DEF AddParty, InsertParty, RowInv, TypeOK, PartyStates
    <2>1. Locked'
        BY DEF Locked, Answerable
    <2>2. Copying'
        BY DEF Copying
    <2>3. SignedIsSigned' /\ NotSent' /\ CeremonyOnlyWhileOpen'
        BY DEF SignedIsSigned, NotSent, CeremonyOnlyWhileOpen, Answerable
    <2> QED
        BY <2>1, <2>2, <2>3
<1>3. ASSUME NEW p \in Parties, RemoveParty(p) PROVE RowInv'
    <2> USE <1>3 DEF RemoveParty, Closed, Free, RowInv, TypeOK, PartyStates
    <2>1. Locked'
        BY DEF Locked, Answerable
    <2>2. Copying'
        BY DEF Copying
    <2>3. SignedIsSigned' /\ NotSent' /\ CeremonyOnlyWhileOpen'
        BY DEF SignedIsSigned, NotSent, CeremonyOnlyWhileOpen, Answerable
    <2> QED
        BY <2>1, <2>2, <2>3
<1>4. ASSUME Withdraw PROVE RowInv'
    <2> USE <1>4 DEF Withdraw, Closed, Free, RowInv, TypeOK, PartyStates
    <2>1. Locked'
        BY DEF Locked, Answerable
    <2>2. Copying'
        <3>1. \A p \in Parties : party[p] # "absent" => party'[p] # "absent"
            OBVIOUS
        <3>2. \A s \in Senders : sends[s].left \subseteq Parties
            BY DEF Sends
        <3>3. UNCHANGED <<sends, tx>>
            OBVIOUS
        <3> HIDE <1>4 DEF Withdraw, RowInv, TypeOK
        <3>4. Copying
            BY DEF RowInv
        <3> QED
            BY <3>1, <3>2, <3>3, <3>4 DEF Copying
    <2>3. SignedIsSigned' /\ NotSent' /\ CeremonyOnlyWhileOpen'
        BY DEF SignedIsSigned, NotSent, CeremonyOnlyWhileOpen, Answerable
    <2> QED
        BY <2>1, <2>2, <2>3
<1>5. ASSUME Reopen PROVE RowInv'
    <2> USE <1>5 DEF Reopen, Free, RowInv, TypeOK, PartyStates
    <2>1. Locked'
        BY DEF Locked, Answerable
    <2>2. Copying'
        <3>1. \A p \in Parties : party[p] # "absent" => party'[p] # "absent"
            OBVIOUS
        <3>2. \A s \in Senders : sends[s].left \subseteq Parties
            BY DEF Sends
        <3>3. UNCHANGED <<sends, tx>>
            OBVIOUS
        <3> HIDE <1>5 DEF Reopen, RowInv, TypeOK
        <3>4. Copying
            BY DEF RowInv
        <3> QED
            BY <3>1, <3>2, <3>3, <3>4 DEF Copying
    <2>3. SignedIsSigned' /\ NotSent' /\ CeremonyOnlyWhileOpen'
        BY DEF SignedIsSigned, NotSent, CeremonyOnlyWhileOpen, Answerable
    <2> QED
        BY <2>1, <2>2, <2>3
<1> QED
    BY <1>1, <1>2, <1>3, <1>4, <1>5 DEF Issuer

LEMMA RowSending ==
    ASSUME RowInv, Sending, TypeOK'
    PROVE  RowInv'
<1> USE DEF RowInv
<1>1. ASSUME NEW s \in Senders, SendRead(s) PROVE RowInv'
    <2>1. UNCHANGED <<rows, tx>>
        BY <1>1 DEF SendRead
    <2>2. \A t \in Senders :
            /\ t # s => sends'[t] = sends[t]
            /\ sends'[s].now = Nobody
            /\ sends'[s].left \subseteq Present
        BY <1>1 DEF SendRead, TypeOK, Present
    <2>3. Copying'
        BY <2>1, <2>2, ContractAssumption DEF Copying, Present, rows
    <2> QED
        BY <2>1, <2>3 DEF rows, Locked, SignedIsSigned, NotSent, CeremonyOnlyWhileOpen
<1>2. ASSUME NEW s \in Senders, NEW p \in Parties, OpenCopy(s, p) PROVE RowInv'
    <2>1. UNCHANGED rows /\ Free(p) /\ party[p] # "removed" /\ p \in sends[s].left
        BY <1>2 DEF OpenCopy
    <2>2. \A q \in Parties : q # p => tx'[q] = tx[q]
        BY <1>2 DEF OpenCopy, TypeOK
    <2>3. tx'[p].kind = "copy"
        BY <1>2 DEF OpenCopy, TypeOK
    <2>4. \A t \in Senders :
            /\ t # s => sends'[t] = sends[t]
            /\ sends'[s].now = p
            /\ sends'[s].left \subseteq sends[s].left
        BY <1>2 DEF OpenCopy, TypeOK, Sends
    <2>5. \A t \in Senders : sends[t].now # p
        BY <2>1 DEF Copying, Free
    <2>6. Locked'
        BY <2>1, <2>2, <2>3 DEF Locked, Copying, rows
    <2>7. Copying'
        BY <2>1, <2>2, <2>3, <2>4, <2>5 DEF Copying, rows
    <2> QED
        BY <2>1, <2>6, <2>7 DEF rows, SignedIsSigned, NotSent, CeremonyOnlyWhileOpen
<1>3. ASSUME NEW s \in Senders, NEW p \in Parties, CommitCopy(s, p) PROVE RowInv'
    <2>1. /\ UNCHANGED <<session, signature>>
          /\ sends[s].now = p /\ tx[p].kind = "copy"
          /\ party[p] \notin {"absent", "removed"}
        BY <1>3 DEF CommitCopy, Copying, Locked
    <2>2. \A q \in Parties : q # p => /\ tx'[q] = tx[q]
                                      /\ party'[q] = party[q]
                                      /\ copy'[q] = copy[q]
        BY <1>3 DEF CommitCopy, TypeOK
    <2>3. /\ tx'[p] = NoTx
          /\ party'[p] = IF party[p] = "draft" THEN "invited" ELSE party[p]
        BY <1>3 DEF CommitCopy, TypeOK
    <2>4. \A t \in Senders :
            /\ t # s => sends'[t] = sends[t]
            /\ sends'[s].now = Nobody
            /\ sends'[s].left = sends[s].left
        BY <1>3 DEF CommitCopy, TypeOK, Sends
    <2>5. Locked'
        BY <2>2, <2>3 DEF Locked, NoTx
    <2>6. Copying'
        <3>1. \A t \in Senders : t # s => sends[t].now # p
            BY <2>1 DEF Copying
        <3>2. \A t \in Senders : sends[t].left \subseteq Parties
            BY DEF TypeOK, Sends
        <3>3. \A q \in Parties : party[q] # "absent" => party'[q] # "absent"
            BY <2>2, <2>3
        <3> QED
            BY <2>2, <2>4, <3>1, <3>2, <3>3, ContractAssumption DEF Copying
    <2>7. SignedIsSigned' /\ NotSent'
        BY <2>1, <2>2, <2>3 DEF SignedIsSigned, NotSent
    <2>8. CeremonyOnlyWhileOpen'
        BY <2>1, <2>2, <2>3 DEF CeremonyOnlyWhileOpen, Answerable
    <2> QED
        BY <2>5, <2>6, <2>7, <2>8
<1>4. ASSUME NEW s \in Senders, NEW p \in Parties, SkipParty(s, p) PROVE RowInv'
    <2> USE <1>4 DEF SkipParty, rows, RowInv, TypeOK, PartyStates
    <2>1. Locked'
        BY DEF Locked, Answerable, NoTx
    <2>2. Copying'
        BY DEF Copying, Locked, Sends, Transaction, NoTx, Idle
    <2>3. SignedIsSigned' /\ NotSent' /\ CeremonyOnlyWhileOpen'
        BY DEF SignedIsSigned, NotSent, CeremonyOnlyWhileOpen, Answerable, Locked
    <2> QED
        BY <2>1, <2>2, <2>3
<1>5. ASSUME NEW s \in Senders, SendFinish(s) PROVE RowInv'
    <2> USE <1>5 DEF SendFinish, rows, RowInv, TypeOK, PartyStates
    <2>1. Locked'
        BY DEF Locked, Answerable, NoTx
    <2>2. Copying'
        BY DEF Copying, Locked, Sends, Transaction, NoTx, Idle
    <2>3. SignedIsSigned' /\ NotSent' /\ CeremonyOnlyWhileOpen'
        BY DEF SignedIsSigned, NotSent, CeremonyOnlyWhileOpen, Answerable, Locked
    <2> QED
        BY <2>1, <2>2, <2>3
<1>6. ASSUME NEW s \in Senders, SendAbort(s) PROVE RowInv'
    <2>1. UNCHANGED rows
        BY <1>6 DEF SendAbort
    <2>2. \A q \in Parties : tx'[q] = IF q = sends[s].now THEN NoTx ELSE tx[q]
        BY <1>6 DEF SendAbort
    <2>3. \A t \in Senders : sends'[t] = IF t = s THEN Idle ELSE sends[t]
        BY <1>6 DEF SendAbort, TypeOK
    <2>4. Locked'
        BY <2>1, <2>2 DEF Locked, NoTx, rows
    <2>5. Copying'
        BY <2>1, <2>2, <2>3, ContractAssumption DEF Copying, Idle, rows
    <2> QED
        BY <2>1, <2>4, <2>5 DEF rows, SignedIsSigned, NotSent, CeremonyOnlyWhileOpen
<1> QED
    BY <1>1, <1>2, <1>3, <1>4, <1>5, <1>6 DEF Sending

LEMMA RowAnswering ==
    ASSUME RowInv, Answering, TypeOK'
    PROVE  RowInv'
<1>1. ASSUME NEW p \in Parties, OpenView(p) PROVE RowInv'
    <2> USE <1>1 DEF OpenView, Open, rows, Free, RowInv, TypeOK, PartyStates
    <2>1. Locked'
        BY DEF Locked, Answerable, NoTx
    <2>2. Copying'
        BY DEF Copying, Locked, Sends, Transaction, NoTx, Idle
    <2>3. SignedIsSigned' /\ NotSent' /\ CeremonyOnlyWhileOpen'
        BY DEF SignedIsSigned, NotSent, CeremonyOnlyWhileOpen, Answerable, Locked
    <2> QED
        BY <2>1, <2>2, <2>3
<1>2. ASSUME NEW p \in Parties, OpenDecline(p) PROVE RowInv'
    <2> USE <1>2 DEF OpenDecline, Open, rows, Free, RowInv, TypeOK, PartyStates
    <2>1. Locked'
        BY DEF Locked, Answerable, NoTx
    <2>2. Copying'
        BY DEF Copying, Locked, Sends, Transaction, NoTx, Idle
    <2>3. SignedIsSigned' /\ NotSent' /\ CeremonyOnlyWhileOpen'
        BY DEF SignedIsSigned, NotSent, CeremonyOnlyWhileOpen, Answerable, Locked
    <2> QED
        BY <2>1, <2>2, <2>3
<1>3. ASSUME NEW q \in polls, OpenSign(q) PROVE RowInv'
    <2> USE <1>3 DEF OpenSign, Open, rows, Free, Polls, RowInv, TypeOK, PartyStates
    <2>1. Locked'
        BY DEF Locked, Answerable, NoTx
    <2>2. Copying'
        BY DEF Copying, Locked, Sends, Transaction, NoTx, Idle
    <2>3. SignedIsSigned' /\ NotSent' /\ CeremonyOnlyWhileOpen'
        BY DEF SignedIsSigned, NotSent, CeremonyOnlyWhileOpen, Answerable, Locked
    <2> QED
        BY <2>1, <2>2, <2>3
<1>4. ASSUME NEW p \in Parties, CommitView(p) PROVE RowInv'
    <2> USE <1>4 DEF CommitView, RowInv, TypeOK, PartyStates
    <2>1. Locked'
        BY DEF Locked, Answerable, NoTx
    <2>2. Copying'
        BY DEF Copying, Locked, Sends, Transaction, NoTx, Idle
    <2>3. SignedIsSigned' /\ NotSent' /\ CeremonyOnlyWhileOpen'
        BY DEF SignedIsSigned, NotSent, CeremonyOnlyWhileOpen, Answerable, Locked
    <2> QED
        BY <2>1, <2>2, <2>3
<1>5. ASSUME NEW p \in Parties, CommitDecline(p) PROVE RowInv'
    <2> USE <1>5 DEF CommitDecline, Closed, RowInv, TypeOK, PartyStates
    <2>1. Locked'
        BY DEF Locked, Answerable, NoTx
    <2>2. Copying'
        BY DEF Copying, Locked, Sends, Transaction, NoTx, Idle
    <2>3. SignedIsSigned' /\ NotSent' /\ CeremonyOnlyWhileOpen'
        BY DEF SignedIsSigned, NotSent, CeremonyOnlyWhileOpen, Answerable, Locked
    <2> QED
        BY <2>1, <2>2, <2>3
<1>6. ASSUME NEW p \in Parties, CommitSign(p) PROVE RowInv'
    <2> USE <1>6 DEF CommitSign, Closed, Unsigned, RowInv, TypeOK, PartyStates
    <2>1. Locked'
        BY DEF Locked, Answerable, NoTx
    <2>2. Copying'
        BY DEF Copying, Locked, Sends, Transaction, NoTx, Idle
    <2>3. SignedIsSigned' /\ NotSent' /\ CeremonyOnlyWhileOpen'
        BY DEF SignedIsSigned, NotSent, CeremonyOnlyWhileOpen, Answerable, Locked
    <2> QED
        BY <2>1, <2>2, <2>3
<1>7. ASSUME NEW p \in Parties, Rollback(p) PROVE RowInv'
    <2> USE <1>7 DEF Rollback, rows, RowInv, TypeOK, PartyStates
    <2>1. Locked'
        BY DEF Locked, Answerable, NoTx
    <2>2. Copying'
        BY DEF Copying, Locked, Sends, Transaction, NoTx, Idle
    <2>3. SignedIsSigned' /\ NotSent' /\ CeremonyOnlyWhileOpen'
        BY DEF SignedIsSigned, NotSent, CeremonyOnlyWhileOpen, Answerable, Locked
    <2> QED
        BY <2>1, <2>2, <2>3
<1> QED
    BY <1>1, <1>2, <1>3, <1>4, <1>5, <1>6, <1>7 DEF Answering

\* A ceremony touches session, signatory and age of the rows, and nothing else.
LEMMA RowCeremony ==
    ASSUME RowInv, Ceremony, TypeOK'
    PROVE  RowInv'
<1>1. UNCHANGED <<party, copy, signature, tx, sends>>
    BY DEF Ceremony, TwentyMinutes, PollRead, StartRead, StartLocked, StartRefused, CitizenAnswers,
           PollFailed, PollEnds, rows
<1>2. CeremonyOnlyWhileOpen'
    <2>1. ASSUME NEW c \in starts, StartLocked(c) PROVE CeremonyOnlyWhileOpen'
        BY <2>1 DEF StartLocked, RowInv, TypeOK, CeremonyOnlyWhileOpen
    <2>2. ASSUME NEW q \in polls, PollFailed(q) PROVE CeremonyOnlyWhileOpen'
        BY <2>2 DEF PollFailed, Closed, RowInv, CeremonyOnlyWhileOpen
    <2>3. ASSUME session' = session PROVE CeremonyOnlyWhileOpen'
        BY <1>1, <2>3 DEF RowInv, CeremonyOnlyWhileOpen
    <2> QED
        BY <2>1, <2>2, <2>3
           DEF Ceremony, TwentyMinutes, PollRead, StartRead, StartRefused, CitizenAnswers, PollEnds,
               rows
<1>3. Locked' /\ Copying' /\ SignedIsSigned' /\ NotSent'
    BY <1>1 DEF RowInv, Locked, Copying, SignedIsSigned, NotSent
<1> QED
    BY <1>2, <1>3 DEF RowInv

LEMMA RowStep ==
    ASSUME RowInv, [Next]_vars
    PROVE  RowInv'
<1>1. TypeOK'
    BY TypeStep DEF RowInv
<1>2. CASE UNCHANGED vars
    BY <1>1, <1>2
       DEF vars, rows, RowInv, Locked, Copying, SignedIsSigned, NotSent, CeremonyOnlyWhileOpen
<1> QED
    BY <1>1, <1>2, RowIssuer, RowSending, RowCeremony, RowAnswering DEF Next

LEMMA RowInvariant == Spec => []RowInv
BY RowInit, RowStep, PTL DEF Spec

\* A ceremony is open only at a party that can still answer.
THEOREM CeremoniesClose == Spec => []CeremonyOnlyWhileOpen
<1>1. RowInv => CeremonyOnlyWhileOpen
    BY DEF RowInv
<1> QED
    BY <1>1, RowInvariant, PTL

\* A draft has no copy, whatever was sent, withdrawn and reopened before.
THEOREM DraftsAreClean == Spec => []DraftHasNoCopy
<1>1. RowInv => DraftHasNoCopy
    BY DEF RowInv, NotSent, DraftHasNoCopy
<1> QED
    BY <1>1, RowInvariant, PTL

-----------------------------------------------------------------------------
(* Answers *)

Stands(p) ==
    /\ party[p] = "signed" => /\ party'[p] = "signed"
                              /\ copy'[p] = copy[p]
                              /\ signature'[p] = signature[p]
    /\ party[p] = "declined" => party'[p] \in {"declined", "removed"}

LEMMA StandsStep ==
    ASSUME RowInv, [Next]_vars, NEW p \in Parties
    PROVE  Stands(p)
<1> USE DEF RowInv, Stands
<1>1. CASE UNCHANGED rows
    BY <1>1 DEF rows
<1>2. CASE Issuer
    <2>1. ASSUME NEW q \in Parties, AddParty(q) PROVE Stands(p)
        BY <2>1 DEF AddParty, InsertParty, TypeOK
    <2>2. ASSUME NEW q \in Parties, RemoveParty(q) PROVE Stands(p)
        BY <2>2 DEF RemoveParty, TypeOK
    <2>3. ASSUME Withdraw PROVE Stands(p)
        BY <2>3 DEF Withdraw, Answerable
    <2>4. ASSUME Reopen PROVE Stands(p)
        BY <2>4 DEF Reopen
    <2> QED
        BY <1>1, <1>2, <2>1, <2>2, <2>3, <2>4 DEF Issuer, Check
<1>3. CASE Sending
    <2>1. ASSUME NEW s \in Senders, NEW q \in Parties, CommitCopy(s, q) PROVE Stands(p)
        BY <2>1 DEF CommitCopy, TypeOK, SignedIsSigned
    <2> QED
        BY <1>1, <1>3, <2>1 DEF Sending, SendRead, OpenCopy, SkipParty, SendFinish, SendAbort
<1>4. CASE Ceremony
    BY <1>4 DEF Ceremony, TwentyMinutes, PollRead, StartRead, StartLocked, StartRefused,
                CitizenAnswers, PollFailed, PollEnds, rows
<1>5. CASE Answering
    <2>1. ASSUME NEW q \in Parties, CommitView(q) PROVE Stands(p)
        BY <2>1 DEF CommitView, TypeOK, Locked, Answerable
    <2>2. ASSUME NEW q \in Parties, CommitDecline(q) PROVE Stands(p)
        BY <2>2 DEF CommitDecline, TypeOK, Locked, Answerable
    <2>3. ASSUME NEW q \in Parties, CommitSign(q) PROVE Stands(p)
        BY <2>3 DEF CommitSign, TypeOK, Locked, Answerable
    <2> QED
        BY <1>1, <1>5, <2>1, <2>2, <2>3 DEF Answering, OpenView, OpenDecline, OpenSign, Rollback
<1> QED
    BY <1>1, <1>2, <1>3, <1>4, <1>5 DEF Next, vars

\* What a party answered stands, whatever was under way when it answered.
THEOREM AnswersStand == Spec => AnswerStands
<1>1. RowInv /\ [Next]_vars => \A p \in Parties : Stands(p)
    BY StandsStep
<1> QED
    BY <1>1, RowInvariant, PTL DEF Spec, AnswerStands, Stands

-----------------------------------------------------------------------------
(* Ceremonies *)

\* Ceremony n was asked of the rail for p and of the person w.
AskedFor(n, p, w) ==
    /\ n \in DOMAIN rail
    /\ rail[n].party = p
    /\ rail[n].who = w
    /\ rail[n].result # "none"

RailInv ==
    /\ \A p \in Parties : session[p] # 0 => AskedFor(session[p], p, by[p])
    /\ \A q \in polls : AskedFor(q.session, q.party, q.who)
    /\ \A p \in Parties : tx[p].kind = "sign" =>
         /\ AskedFor(tx[p].session, p, tx[p].who)
         /\ rail[tx[p].session].result = "completed"
    /\ SignatureIsTheCeremonys

\* What the rail was asked for is not changed, and a completed ceremony stays.
RailKept ==
    /\ DOMAIN rail' = DOMAIN rail
    /\ \A n \in DOMAIN rail : rail[n].result # "none" =>
         /\ rail'[n].party = rail[n].party
         /\ rail'[n].who = rail[n].who
         /\ rail'[n].result # "none"
         /\ rail[n].result = "completed" => rail'[n].result = "completed"

LEMMA RailGrows ==
    ASSUME TypeOK, [Next]_vars
    PROVE  RailKept
<1>1. ASSUME NEW c \in starts, StartLocked(c) PROVE RailKept
    <2>1. PICK n \in DOMAIN rail :
             /\ \A m \in DOMAIN rail : (rail[m].result = "none") <=> (m >= n)
             /\ rail' = [rail EXCEPT ![n] = [party |-> c.party, who |-> c.who, over |-> c.over,
                                             result |-> "pending"]]
        BY <1>1 DEF StartLocked
    <2>2. n \in Int
        BY <2>1, ContractAssumption DEF TypeOK, Sessions
    <2>3. rail[n].result = "none"
        BY <2>1, <2>2
    <2> QED
        BY <2>1, <2>3 DEF RailKept
<1>2. ASSUME NEW n \in DOMAIN rail, CitizenAnswers(n) PROVE RailKept
    BY <1>2 DEF CitizenAnswers, TypeOK, Ceremonies, RailKept
<1>3. ASSUME rail' = rail PROVE RailKept
    BY <1>3 DEF RailKept
<1>4. CASE Issuer
    BY <1>3, <1>4 DEF Issuer, Check, AddParty, InsertParty, RemoveParty, Withdraw, Reopen
<1>5. CASE Sending
    BY <1>3, <1>5, ZenonT(60) DEF Sending, SendRead, OpenCopy, CommitCopy, SkipParty, SendFinish, SendAbort
<1>6. CASE Ceremony
    BY <1>1, <1>2, <1>3, <1>6
       DEF Ceremony, TwentyMinutes, PollRead, StartRead, StartRefused, PollFailed, PollEnds
<1>7. CASE Answering
    BY <1>3, <1>7 DEF Answering, OpenView, OpenDecline, OpenSign, CommitView, CommitDecline,
                      CommitSign, Rollback
<1> QED
    BY <1>3, <1>4, <1>5, <1>6, <1>7 DEF Next, vars

\* Sessions, polls and transactions that only disappear keep the invariant.
LEMMA RailFewer ==
    ASSUME RailInv, RailKept,
           \A p \in Parties : session'[p] = 0 \/ (session'[p] = session[p] /\ by'[p] = by[p]),
           polls' \subseteq polls,
           \A p \in Parties : tx'[p].kind # "sign" \/ tx'[p] = tx[p],
           signature' = signature
    PROVE  RailInv'
<1>1. \A n, p, w : AskedFor(n, p, w) => AskedFor(n, p, w)'
    BY DEF AskedFor, RailKept
<1>2. SignatureIsTheCeremonys'
    BY DEF RailInv, SignatureIsTheCeremonys, RailKept
<1>3. \A p \in Parties : session'[p] # 0 => AskedFor(session[p], p, by[p])'
    BY <1>1 DEF RailInv
<1>4. \A q \in polls' : AskedFor(q.session, q.party, q.who)'
    BY <1>1 DEF RailInv
<1>5. \A p \in Parties : tx'[p].kind = "sign" =>
         /\ AskedFor(tx[p].session, p, tx[p].who)'
         /\ rail'[tx'[p].session].result = "completed"
    BY <1>1 DEF RailInv, RailKept, AskedFor
<1> QED
    BY <1>2, <1>3, <1>4, <1>5 DEF RailInv

LEMMA RailInit == Init => RailInv
BY DEF Init, RailInv, SignatureIsTheCeremonys, NoTx

LEMMA RailIssuer ==
    ASSUME RowInv, RailInv, RailKept, Issuer
    PROVE  RailInv'
<1>1. /\ polls' = polls
      /\ tx' = tx
      /\ signature' = signature
    BY DEF Issuer, Check, AddParty, InsertParty, RemoveParty, Withdraw, Reopen, rows
<1>2. \A p \in Parties : session'[p] = 0 \/ (session'[p] = session[p] /\ by'[p] = by[p])
    BY DEF Issuer, Check, AddParty, InsertParty, RemoveParty, Withdraw, Reopen, Closed, rows
<1> QED
    BY <1>1, <1>2, RailFewer

LEMMA RailSending ==
    ASSUME RowInv, RailInv, RailKept, Sending
    PROVE  RailInv'
<1>1. UNCHANGED <<polls, signature, session, by>>
    BY ZenonT(60) DEF Sending, SendRead, OpenCopy, CommitCopy, SkipParty, SendFinish, SendAbort, rows
<1>2. \A p \in Parties : tx'[p].kind # "sign" \/ tx'[p] = tx[p]
    <2>1. ASSUME NEW s \in Senders, NEW q \in Parties, OpenCopy(s, q)
          PROVE  \A p \in Parties : tx'[p].kind # "sign" \/ tx'[p] = tx[p]
        BY <2>1 DEF OpenCopy, RowInv, TypeOK
    <2>2. ASSUME NEW s \in Senders, NEW q \in Parties, CommitCopy(s, q)
          PROVE  \A p \in Parties : tx'[p].kind # "sign" \/ tx'[p] = tx[p]
        BY <2>2 DEF CommitCopy, NoTx, RowInv, TypeOK
    <2>3. ASSUME NEW s \in Senders, SendAbort(s)
          PROVE  \A p \in Parties : tx'[p].kind # "sign" \/ tx'[p] = tx[p]
        BY <2>3 DEF SendAbort, NoTx
    <2> QED
        BY <2>1, <2>2, <2>3 DEF Sending, SendRead, SkipParty, SendFinish
<1> QED
    BY <1>1, <1>2, RailFewer

LEMMA RailCeremony ==
    ASSUME RowInv, RailInv, RailKept, Ceremony
    PROVE  RailInv'
<1>1. UNCHANGED <<tx, signature>>
    BY DEF Ceremony, TwentyMinutes, PollRead, StartRead, StartLocked, StartRefused, CitizenAnswers,
           PollFailed, PollEnds, rows
<1>2. \A n, p, w : AskedFor(n, p, w) => AskedFor(n, p, w)'
    BY DEF AskedFor, RailKept
<1>3. ASSUME NEW c \in starts, StartLocked(c) PROVE RailInv'
    <2>1. PICK n \in DOMAIN rail :
             /\ rail' = [rail EXCEPT ![n] = [party |-> c.party, who |-> c.who, over |-> c.over,
                                             result |-> "pending"]]
             /\ session' = [session EXCEPT ![c.party] = n]
             /\ by' = [by EXCEPT ![c.party] = c.who]
             /\ polls' = polls
        BY <1>3 DEF StartLocked
    <2>2. AskedFor(n, c.party, c.who)'
        BY <2>1 DEF AskedFor
    <2>3. \A p \in Parties : session'[p] # 0 => AskedFor(session[p], p, by[p])'
        BY <1>2, <2>1, <2>2 DEF RailInv, RowInv, TypeOK
    <2>4. \A q \in polls' : AskedFor(q.session, q.party, q.who)'
        BY <1>2, <2>1 DEF RailInv
    <2>5. \A p \in Parties : tx'[p].kind = "sign" =>
             /\ AskedFor(tx[p].session, p, tx[p].who)'
             /\ rail'[tx'[p].session].result = "completed"
        BY <1>1, <1>2 DEF RailInv, RailKept, AskedFor
    <2>6. SignatureIsTheCeremonys'
        BY <1>1 DEF RailInv, SignatureIsTheCeremonys, RailKept
    <2> QED
        BY <2>3, <2>4, <2>5, <2>6 DEF RailInv
<1>4. ASSUME NEW p \in Parties, PollRead(p) PROVE RailInv'
    <2>1. UNCHANGED <<session, by, rail>>
        BY <1>4 DEF PollRead, rows
    <2>2. \A q \in polls' : q \in polls \/ (q.session = session[p] /\ q.party = p /\ q.who = by[p])
        BY <1>4 DEF PollRead
    <2>3. AskedFor(session[p], p, by[p])
        BY <1>4 DEF PollRead, RailInv
    <2>4. \A q \in polls' : AskedFor(q.session, q.party, q.who)'
        BY <2>1, <2>2, <2>3 DEF RailInv, AskedFor
    <2> QED
        BY <1>1, <2>1, <2>4 DEF RailInv, AskedFor, SignatureIsTheCeremonys
<1>5. ASSUME polls' \subseteq polls,
             \A p \in Parties : session'[p] = 0 \/ (session'[p] = session[p] /\ by'[p] = by[p])
      PROVE  RailInv'
    BY <1>1, <1>5, RailFewer
<1> QED
    BY <1>3, <1>4, <1>5
       DEF Ceremony, TwentyMinutes, StartRead, StartRefused, CitizenAnswers, PollFailed, PollEnds,
           Closed, rows

LEMMA RailAnswering ==
    ASSUME RowInv, RailInv, RailKept, Answering
    PROVE  RailInv'
<1> USE DEF RowInv
<1>1. ASSUME NEW q \in polls, OpenSign(q) PROVE RailInv'
    <2>1. /\ UNCHANGED <<session, by, rail, signature>>
          /\ polls' \subseteq polls
          /\ rail[q.session].result = "completed"
          /\ AskedFor(q.session, q.party, q.who)
        BY <1>1 DEF OpenSign, RailInv, rows
    <2>2. \A p \in Parties : \/ tx'[p] = tx[p]
                             \/ p = q.party /\ tx'[p].session = q.session /\ tx'[p].who = q.who
        BY <1>1 DEF OpenSign, Open, TypeOK
    <2>3. \A p \in Parties : tx'[p].kind = "sign" =>
             /\ AskedFor(tx[p].session, p, tx[p].who)'
             /\ rail'[tx'[p].session].result = "completed"
        BY <2>1, <2>2 DEF RailInv, AskedFor
    <2> QED
        BY <2>1, <2>3 DEF RailInv, AskedFor, SignatureIsTheCeremonys
<1>2. ASSUME NEW p \in Parties, CommitSign(p) PROVE RailInv'
    <2>1. /\ UNCHANGED <<rail, polls>>
          /\ \A q \in Parties : session'[q] = 0 \/ (session'[q] = session[q] /\ by'[q] = by[q])
          /\ \A q \in Parties : tx'[q].kind # "sign" \/ tx'[q] = tx[q]
        BY <1>2 DEF CommitSign, Closed, TypeOK, NoTx
    <2>2. \A q \in Parties : \/ signature'[q] = signature[q]
                             \/ /\ q = p
                                /\ signature'[q].session = tx[q].session
                                /\ signature'[q].who = tx[q].who
        BY <1>2 DEF CommitSign, TypeOK
    <2>3. SignatureIsTheCeremonys'
        BY <1>2, <2>1, <2>2 DEF CommitSign, SignatureIsTheCeremonys, RailInv, AskedFor
    <2>4. \A q \in Parties : session'[q] # 0 => AskedFor(session[q], q, by[q])'
        BY <2>1 DEF RailInv, AskedFor
    <2>5. \A q \in Parties : tx'[q].kind = "sign" =>
             /\ AskedFor(tx[q].session, q, tx[q].who)'
             /\ rail'[tx'[q].session].result = "completed"
        BY <2>1 DEF RailInv, AskedFor
    <2> QED
        BY <2>1, <2>3, <2>4, <2>5 DEF RailInv, AskedFor
<1>3. ASSUME NEW p \in Parties,
             OpenView(p) \/ OpenDecline(p) \/ CommitView(p) \/ CommitDecline(p) \/ Rollback(p)
      PROVE  RailInv'
    <2>1. /\ polls' = polls
          /\ signature' = signature
          /\ \A q \in Parties : session'[q] = 0 \/ (session'[q] = session[q] /\ by'[q] = by[q])
        BY <1>3 DEF OpenView, OpenDecline, CommitView, CommitDecline, Rollback, Closed, rows
    <2>2. \A q \in Parties : tx'[q].kind # "sign" \/ tx'[q] = tx[q]
        BY <1>3 DEF OpenView, OpenDecline, CommitView, CommitDecline, Rollback, Open, TypeOK, NoTx
    <2> QED
        BY <2>1, <2>2, RailFewer
<1> QED
    BY <1>1, <1>2, <1>3 DEF Answering

LEMMA RailStep ==
    ASSUME RowInv, RailInv, [Next]_vars
    PROVE  RailInv'
<1>1. RailKept
    BY RailGrows DEF RowInv
<1>2. CASE UNCHANGED vars
    BY <1>2 DEF vars, rows, RailInv, AskedFor, SignatureIsTheCeremonys
<1> QED
    BY <1>1, <1>2, RailIssuer, RailSending, RailCeremony, RailAnswering DEF Next

\* A signature is the completed ceremony's, of that party and under that person,
\* with any number of signatories, polls and expired ceremonies.
THEOREM SignatureIsHis == Spec => []SignatureIsTheCeremonys
<1>1. Init => RowInv /\ RailInv
    BY RowInit, RailInit
<1>2. RowInv /\ RailInv /\ [Next]_vars => RowInv' /\ RailInv'
    BY RowStep, RailStep
<1>3. RailInv => SignatureIsTheCeremonys
    BY DEF RailInv
<1> QED
    BY <1>1, <1>2, <1>3, PTL DEF Spec

-----------------------------------------------------------------------------
(* Withdrawal and execution *)

\* No party is added and no contract reopened on a check that is out of date.
\* Two requests of the issuer that race are enough to break what follows.
InTime == "add" \notin Stale /\ "reopen" \notin Stale

LateAreStale == \A r \in checked : r[1] \in Stale

LEMMA LateStep ==
    ASSUME LateAreStale, [Next]_vars
    PROVE  LateAreStale'
<1>1. CASE UNCHANGED checked
    BY <1>1 DEF LateAreStale
<1>2. CASE Issuer
    BY <1>1, <1>2 DEF Issuer, Check, AddParty, InsertParty, RemoveParty, Withdraw, Reopen, Passed, LateAreStale
<1>3. CASE Sending
    BY <1>1, <1>3, ZenonT(60) DEF Sending, SendRead, OpenCopy, CommitCopy, SkipParty, SendFinish, SendAbort
<1>4. CASE Ceremony
    BY <1>1, <1>4 DEF Ceremony, TwentyMinutes, PollRead, StartRead, StartLocked, StartRefused,
                      CitizenAnswers, PollFailed, PollEnds
<1>5. CASE Answering
    BY <1>1, <1>5 DEF Answering, OpenView, OpenDecline, OpenSign, CommitView, CommitDecline,
                      CommitSign, Rollback
<1> QED
    BY <1>1, <1>2, <1>3, <1>4, <1>5 DEF Next, vars

\* Both requests see the contract as it is.
LEMMA AddedInTime ==
    ASSUME InTime, LateAreStale, NEW p \in Parties, AddParty(p)
    PROVE  contract \in {"NONE", "DRAFT"} /\ \A q \in Present : signature[q] = Unsigned
BY DEF AddParty, InsertParty, Passed, Allowed, LateAreStale, InTime

LEMMA ReopenedInTime ==
    ASSUME InTime, LateAreStale, Reopen
    PROVE  contract = "WITHDRAWN"
BY DEF Reopen, Passed, Allowed, LateAreStale, InTime

\* A verdict never takes a contract out of the states that are counted.
LEMMA JudgedKeeps ==
    ASSUME NEW verdict \in Sent \cup {"keep"}
    PROVE  /\ contract \in Sent => Judged(verdict) \in Sent
           /\ contract \notin Sent => Judged(verdict) = contract
BY DEF Judged, Sent

\* Every open transaction carries such a verdict.
Verdicts == \A p \in Parties : tx[p].verdict \in Sent \cup {"keep"}

LEMMA VerdictsStep ==
    ASSUME TypeOK, Verdicts, [Next]_vars
    PROVE  Verdicts'
<1>1. CASE UNCHANGED tx
    BY <1>1 DEF Verdicts
<1>2. CASE Sending
    <2>1. ASSUME NEW s \in Senders, NEW p \in Parties, OpenCopy(s, p) PROVE Verdicts'
        BY <2>1, VerdictType DEF OpenCopy, TypeOK, Verdicts
    <2>2. ASSUME NEW s \in Senders, NEW p \in Parties, CommitCopy(s, p) PROVE Verdicts'
        BY <2>2 DEF CommitCopy, TypeOK, Verdicts, NoTx
    <2>3. ASSUME NEW s \in Senders, SendAbort(s) PROVE Verdicts'
        BY <2>3 DEF SendAbort, Verdicts, NoTx
    <2> QED
        BY <1>1, <1>2, <2>1, <2>2, <2>3 DEF Sending, SendRead, SkipParty, SendFinish
<1>3. CASE Answering
    <2>1. ASSUME NEW p \in Parties, OpenView(p) \/ OpenDecline(p) PROVE Verdicts'
        BY <2>1, VerdictType DEF OpenView, OpenDecline, Open, TypeOK, Verdicts
    <2>2. ASSUME NEW q \in polls, OpenSign(q) PROVE Verdicts'
        BY <2>2, VerdictType DEF OpenSign, Open, TypeOK, Verdicts
    <2>3. ASSUME NEW p \in Parties,
                 CommitView(p) \/ CommitDecline(p) \/ CommitSign(p) \/ Rollback(p)
          PROVE  Verdicts'
        BY <2>3 DEF CommitView, CommitDecline, CommitSign, Rollback, TypeOK, Verdicts, NoTx
    <2> QED
        BY <1>3, <2>1, <2>2, <2>3 DEF Answering
<1>4. CASE Issuer
    BY <1>1, <1>4 DEF Issuer, Check, AddParty, InsertParty, RemoveParty, Withdraw, Reopen
<1>5. CASE Ceremony
    BY <1>1, <1>5 DEF Ceremony, TwentyMinutes, PollRead, StartRead, StartLocked, StartRefused,
                      CitizenAnswers, PollFailed, PollEnds
<1> QED
    BY <1>1, <1>2, <1>3, <1>4, <1>5 DEF Next, vars

WithdrawInv == RowInv /\ LateAreStale /\ Verdicts /\ WithdrawnIsClosed

LEMMA WithdrawnStep ==
    ASSUME InTime, WithdrawInv, [Next]_vars
    PROVE  WithdrawnIsClosed'
<1> USE DEF WithdrawInv, RowInv, WithdrawnIsClosed
<1>1. CASE UNCHANGED <<contract, party>>
    BY <1>1
<1>2. CASE Issuer
    <2>1. ASSUME NEW p \in Parties, AddParty(p) PROVE WithdrawnIsClosed'
        <3>1. contract \in {"NONE", "DRAFT"}
            BY <2>1, AddedInTime
        <3>2. contract' # "WITHDRAWN"
            BY <2>1, <3>1 DEF AddParty, InsertParty, Judged, Sent
        <3> QED
            BY <3>2
    <2>2. ASSUME NEW p \in Parties, RemoveParty(p) PROVE WithdrawnIsClosed'
        <3>1. contract' = "WITHDRAWN" => contract = "WITHDRAWN"
            BY <2>2, VerdictType, JudgedKeeps DEF RemoveParty, Sent
        <3>2. \A q \in Parties : party'[q] = party[q] \/ party'[q] = "removed"
            BY <2>2 DEF RemoveParty, TypeOK
        <3> QED
            BY <3>1, <3>2 DEF Answerable
    <2>3. ASSUME Withdraw PROVE WithdrawnIsClosed'
        BY <2>3 DEF Withdraw, Answerable
    <2>4. ASSUME Reopen PROVE WithdrawnIsClosed'
        BY <2>4 DEF Reopen
    <2> QED
        BY <1>1, <1>2, <2>1, <2>2, <2>3, <2>4 DEF Issuer, Check, rows
<1>3. CASE Sending
    <2>1. ASSUME NEW s \in Senders, NEW p \in Parties, CommitCopy(s, p) PROVE WithdrawnIsClosed'
        <3>1. contract' = "WITHDRAWN" => contract = "WITHDRAWN"
            BY <2>1, JudgedKeeps DEF CommitCopy, Verdicts, Sent
        <3>2. \A q \in Parties : party[q] # "draft" => party'[q] = party[q]
            BY <2>1 DEF CommitCopy, TypeOK
        <3> QED
            BY <3>1, <3>2
    <2>2. ASSUME NEW s \in Senders, SendFinish(s) PROVE WithdrawnIsClosed'
        BY <2>2 DEF SendFinish, rows
    <2> QED
        BY <1>1, <1>3, <2>1, <2>2 DEF Sending, SendRead, OpenCopy, SkipParty, SendAbort, rows
<1>4. CASE Ceremony
    BY <1>1, <1>4 DEF Ceremony, TwentyMinutes, PollRead, StartRead, StartLocked, StartRefused,
                      CitizenAnswers, PollFailed, PollEnds, rows
<1>5. CASE Answering
    <2>1. ASSUME NEW p \in Parties, CommitView(p) \/ CommitDecline(p) \/ CommitSign(p)
          PROVE  WithdrawnIsClosed'
        <3>1. party[p] \in Answerable
            BY <2>1 DEF CommitView, CommitDecline, CommitSign, Locked
        <3>2. contract' = "WITHDRAWN" => contract = "WITHDRAWN"
            BY <2>1, JudgedKeeps DEF CommitView, CommitDecline, CommitSign, Verdicts, Sent
        <3> QED
            BY <3>1, <3>2
    <2> QED
        BY <1>1, <1>5, <2>1 DEF Answering, OpenView, OpenDecline, OpenSign, Rollback, rows
<1> QED
    BY <1>1, <1>2, <1>3, <1>4, <1>5 DEF Next, vars, rows

LEMMA WithdrawInvariant == InTime => (Spec => []WithdrawInv)
<1> SUFFICES ASSUME InTime PROVE Spec => []WithdrawInv
    OBVIOUS
<1>1. Init => WithdrawInv
    BY RowInit DEF Init, WithdrawInv, LateAreStale, Verdicts, NoTx, WithdrawnIsClosed
<1>2. WithdrawInv /\ [Next]_vars => WithdrawInv'
    BY RowStep, LateStep, VerdictsStep, WithdrawnStep DEF WithdrawInv, RowInv
<1> QED
    BY <1>1, <1>2, PTL DEF Spec

\* Nobody is invited to a withdrawn contract, even by a send that was under way.
THEOREM WithdrawnStaysClosed ==
    ASSUME InTime
    PROVE  Spec => []WithdrawnIsClosed
<1>1. WithdrawInv => WithdrawnIsClosed
    BY DEF WithdrawInv
<1> QED
    BY <1>1, WithdrawInvariant, PTL

\* A transaction that will write EXECUTED was counted with everybody's signature,
\* its own among them when it signs.
Sound(p) ==
    tx[p].verdict = "EXECUTED" =>
      /\ \A r \in Required \cap Present : party[r] = "signed" \/ (r = p /\ tx[p].kind = "sign")
      /\ (\E r \in Parties : party[r] = "signed") \/ tx[p].kind = "sign"

\* While a signature that counts is being recorded the contract stays sent: its
\* row is locked, so the contract cannot be withdrawn.
SignedWhileSent ==
    \A p \in Parties : tx[p].kind = "sign" /\ tx[p].verdict # "keep" => contract \in Sent

ExecuteInv ==
    /\ WithdrawInv
    /\ SignedWhileSent
    /\ \A p \in Parties : Sound(p)
    /\ ExecutedByAll

\* Nobody joins, who signed stays, and no new count begins.
Settled ==
    /\ \A p \in Parties : tx'[p] = tx[p] \/ tx'[p] = NoTx
    /\ Present' \subseteq Present
    /\ \A p \in Parties : party[p] = "signed" => party'[p] = "signed"

\* A new count on p's row, as if its state were the one given.
Counts(p, state) ==
    /\ UNCHANGED <<contract, party>>
    /\ tx' = [tx EXCEPT ![p] = tx'[p]]
    /\ tx'[p].verdict = Verdict([party EXCEPT ![p] = state])
    /\ state = "signed" => party[p] = "signed" \/ tx'[p].kind = "sign"
    /\ state \notin {"absent", "removed"}

LEMMA OpensCount ==
    ASSUME RowInv, NEW p \in Parties
    PROVE  /\ OpenView(p) \/ OpenDecline(p) => \E state : Counts(p, state)
           /\ \A s \in Senders : OpenCopy(s, p) => \E state : Counts(p, state)
<1> USE DEF RowInv, TypeOK
<1>1. ASSUME OpenView(p) PROVE Counts(p, "viewed")
    BY <1>1 DEF OpenView, Open, Counts, rows
<1>2. ASSUME OpenDecline(p) PROVE Counts(p, "declined")
    BY <1>2 DEF OpenDecline, Open, Counts, rows
<1>3. ASSUME NEW s \in Senders, OpenCopy(s, p)
      PROVE  Counts(p, IF party[p] = "draft" THEN "invited" ELSE party[p])
    <2>1. party[p] \notin {"absent", "removed"}
        BY <1>3 DEF OpenCopy, Copying
    <2> QED
        BY <1>3, <2>1 DEF OpenCopy, Counts, rows
<1> QED
    BY <1>1, <1>2, <1>3

LEMMA SignCounts ==
    ASSUME RowInv, NEW q \in polls, OpenSign(q)
    PROVE  q.party \in Parties /\ \E state : Counts(q.party, state)
<1>1. q.party \in Parties
    BY DEF RowInv, TypeOK, Polls
<1>2. Counts(q.party, "signed")
    BY <1>1 DEF OpenSign, Open, Counts, RowInv, TypeOK, rows
<1> QED
    BY <1>1, <1>2

LEMMA Steps ==
    ASSUME RowInv, [Next]_vars
    PROVE  \/ Settled
           \/ \E p \in Parties : AddParty(p)
           \/ \E p \in Parties : \E state : Counts(p, state)
<1>1. \A p \in Parties : party[p] = "signed" => party'[p] = "signed"
    BY StandsStep DEF Stands
<1> USE DEF RowInv, TypeOK
<1>2. CASE UNCHANGED <<party, tx>>
    BY <1>2 DEF Settled, Present
<1>3. CASE Issuer
    <2>1. ASSUME NEW p \in Parties, RemoveParty(p) PROVE Settled
        BY <1>1, <2>1 DEF RemoveParty, Settled, Present
    <2>2. ASSUME Withdraw \/ Reopen PROVE Settled
        BY <1>1, <2>2 DEF Withdraw, Reopen, Settled, Present, Answerable
    <2> QED
        BY <1>2, <1>3, <2>1, <2>2 DEF Issuer, Check, rows
<1>4. CASE Sending
    <2>1. ASSUME NEW s \in Senders, NEW p \in Parties, CommitCopy(s, p) PROVE Settled
        BY <1>1, <2>1 DEF CommitCopy, Settled, Present
    <2>2. ASSUME NEW s \in Senders, SendAbort(s) PROVE Settled
        BY <1>1, <2>2 DEF SendAbort, Settled, Present, rows
    <2> QED
        BY <1>2, <1>4, <2>1, <2>2, OpensCount DEF Sending, SendRead, SkipParty, SendFinish, rows
<1>5. CASE Ceremony
    BY <1>2, <1>5 DEF Ceremony, TwentyMinutes, PollRead, StartRead, StartLocked, StartRefused,
                      CitizenAnswers, PollFailed, PollEnds, rows
<1>6. CASE Answering
    <2>1. ASSUME NEW p \in Parties,
                 CommitView(p) \/ CommitDecline(p) \/ CommitSign(p)
          PROVE  Settled
        <3>1. party[p] \in Answerable
            BY <2>1 DEF CommitView, CommitDecline, CommitSign, Locked
        <3> QED
            BY <1>1, <2>1, <3>1
               DEF CommitView, CommitDecline, CommitSign, Settled, Present, Answerable
    <2>2. ASSUME NEW p \in Parties, Rollback(p) PROVE Settled
        BY <1>1, <2>2 DEF Rollback, Settled, Present, rows
    <2> QED
        BY <1>6, <2>1, <2>2, OpensCount, SignCounts DEF Answering
<1> QED
    BY <1>2, <1>3, <1>4, <1>5, <1>6 DEF Next, vars, rows

\* Whoever is added finds nobody who signed, and so no count that says EXECUTED.
LEMMA NoneExecuting ==
    ASSUME InTime, ExecuteInv, NEW p \in Parties, AddParty(p), NEW q \in Parties
    PROVE  tx[q].verdict # "EXECUTED"
<1> USE DEF ExecuteInv, WithdrawInv, RowInv
<1>1. contract \notin Sent /\ \A r \in Present : signature[r] = Unsigned
    BY AddedInTime DEF Sent
<1>2. \A r \in Parties : party[r] # "signed"
    BY <1>1 DEF SignedIsSigned, Present
<1>3. tx[q].kind = "sign" => tx[q].verdict = "keep"
    BY <1>1 DEF SignedWhileSent
<1> QED
    BY <1>2, <1>3 DEF Sound

LEMMA SoundStep ==
    ASSUME InTime, ExecuteInv, [Next]_vars, NEW q \in Parties
    PROVE  Sound(q)'
<1> USE DEF ExecuteInv, WithdrawInv, RowInv
<1>1. CASE Settled
    BY <1>1 DEF Settled, Sound, NoTx, Present
<1>2. ASSUME NEW p \in Parties, AddParty(p) PROVE Sound(q)'
    BY <1>2, NoneExecuting DEF AddParty, InsertParty, Sound
<1>3. ASSUME NEW p \in Parties, NEW state, Counts(p, state) PROVE Sound(q)'
    <2> DEFINE next == [party EXCEPT ![p] = state]
    <2>1. CASE q # p
        BY <1>3, <2>1 DEF Counts, Sound, Present, TypeOK
    <2>2. CASE q = p /\ tx'[p].verdict = "EXECUTED"
        <3>1. Tally(next) = "EXECUTED"
            BY <1>3, <2>2 DEF Counts, Verdict
        <3>2. /\ \A r \in Required \cap Parties :
                   next[r] \notin {"absent", "removed"} => next[r] = "signed"
              /\ \E r \in Parties : next[r] = "signed"
            BY <3>1, ExecutedTally
        <3>3. next[p] = state /\ \A r \in Parties : r # p => next[r] = party[r]
            BY DEF TypeOK
        <3>4. party' = party /\ Present' = Present
            BY <1>3 DEF Counts, Present
        <3>5. \A r \in Required \cap Present :
                 party[r] = "signed" \/ (r = p /\ tx'[p].kind = "sign")
            BY <1>3, <3>2, <3>3 DEF Counts, Present
        <3>6. (\E r \in Parties : party[r] = "signed") \/ tx'[p].kind = "sign"
            BY <1>3, <3>2, <3>3 DEF Counts
        <3> QED
            BY <2>2, <3>4, <3>5, <3>6 DEF Sound
    <2>3. CASE q = p /\ tx'[p].verdict # "EXECUTED"
        BY <2>3 DEF Sound
    <2> QED
        BY <2>1, <2>2, <2>3
<1> QED
    BY <1>1, <1>2, <1>3, Steps

LEMMA SignedWhileSentStep ==
    ASSUME InTime, ExecuteInv, [Next]_vars
    PROVE  SignedWhileSent'
<1> USE DEF ExecuteInv, WithdrawInv, RowInv, TypeOK
<1>1. CASE UNCHANGED <<contract, tx>>
    BY <1>1 DEF SignedWhileSent
<1>2. CASE Issuer
    <2>1. ASSUME NEW p \in Parties, AddParty(p) PROVE SignedWhileSent'
        <3>1. contract \notin Sent
            BY <2>1, AddedInTime DEF Sent
        <3> QED
            BY <2>1, <3>1 DEF AddParty, InsertParty, SignedWhileSent
    <2>2. ASSUME NEW p \in Parties, RemoveParty(p) PROVE SignedWhileSent'
        BY <2>2, VerdictType, JudgedKeeps DEF RemoveParty, SignedWhileSent
    <2>3. ASSUME Withdraw PROVE SignedWhileSent'
        BY <2>3 DEF Withdraw, SignedWhileSent, Locked, Free
    <2>4. ASSUME Reopen PROVE SignedWhileSent'
        <3>1. contract \notin Sent
            BY <2>4, ReopenedInTime DEF Sent
        <3> QED
            BY <2>4, <3>1 DEF Reopen, SignedWhileSent
    <2> QED
        BY <1>1, <1>2, <2>1, <2>2, <2>3, <2>4 DEF Issuer, Check
<1>3. CASE Sending
    <2>1. ASSUME NEW s \in Senders, NEW p \in Parties, OpenCopy(s, p) PROVE SignedWhileSent'
        BY <2>1 DEF OpenCopy, SignedWhileSent
    <2>2. ASSUME NEW s \in Senders, NEW p \in Parties, CommitCopy(s, p) PROVE SignedWhileSent'
        BY <2>2, JudgedKeeps DEF CommitCopy, SignedWhileSent, Verdicts, NoTx
    <2>3. ASSUME NEW s \in Senders, SendFinish(s) PROVE SignedWhileSent'
        BY <2>3 DEF SendFinish, SignedWhileSent, Sent
    <2>4. ASSUME NEW s \in Senders, SendAbort(s) PROVE SignedWhileSent'
        BY <2>4 DEF SendAbort, SignedWhileSent, NoTx
    <2> QED
        BY <1>1, <1>3, <2>1, <2>2, <2>3, <2>4 DEF Sending, SendRead, SkipParty
<1>4. CASE Ceremony
    BY <1>1, <1>4 DEF Ceremony, TwentyMinutes, PollRead, StartRead, StartLocked, StartRefused,
                      CitizenAnswers, PollFailed, PollEnds
<1>5. CASE Answering
    <2>1. ASSUME NEW p \in Parties, OpenView(p) \/ OpenDecline(p) PROVE SignedWhileSent'
        BY <2>1 DEF OpenView, OpenDecline, Open, SignedWhileSent
    <2>2. ASSUME NEW q \in polls, OpenSign(q) PROVE SignedWhileSent'
        BY <2>2 DEF OpenSign, Open, Verdict, SignedWhileSent
    <2>3. ASSUME NEW p \in Parties, CommitView(p) \/ CommitDecline(p) \/ CommitSign(p)
          PROVE  SignedWhileSent'
        BY <2>3, JudgedKeeps
           DEF CommitView, CommitDecline, CommitSign, SignedWhileSent, Verdicts, NoTx
    <2>4. ASSUME NEW p \in Parties, Rollback(p) PROVE SignedWhileSent'
        BY <2>4 DEF Rollback, SignedWhileSent, NoTx
    <2> QED
        BY <1>5, <2>1, <2>2, <2>3, <2>4 DEF Answering
<1> QED
    BY <1>1, <1>2, <1>3, <1>4, <1>5 DEF Next, vars

\* What a commit writes: its verdict, and the contract is EXECUTED already or by it.
LEMMA ExecutedByVerdict ==
    ASSUME NEW verdict, Judged(verdict) = "EXECUTED"
    PROVE  contract = "EXECUTED" \/ verdict = "EXECUTED"
BY DEF Judged

LEMMA ExecutedStep ==
    ASSUME InTime, ExecuteInv, [Next]_vars
    PROVE  ExecutedByAll'
<1> USE DEF ExecuteInv, WithdrawInv, RowInv, TypeOK
<1>1. CASE contract' # "EXECUTED"
    BY <1>1 DEF ExecutedByAll
<1>2. CASE Settled /\ contract = "EXECUTED"
    BY <1>2 DEF Settled, ExecutedByAll, Present
<1>3. CASE UNCHANGED <<contract, party>>
    BY <1>3 DEF ExecutedByAll, Present
<1>4. ASSUME NEW p \in Parties, AddParty(p) PROVE ExecutedByAll'
    <2>1. contract' # "EXECUTED"
        BY <1>4, AddedInTime DEF AddParty, InsertParty, Judged, Sent
    <2> QED
        BY <1>1, <2>1
<1>5. ASSUME NEW p \in Parties, RemoveParty(p), contract' = "EXECUTED" PROVE ExecutedByAll'
    <2>1. Settled
        BY <1>5 DEF RemoveParty, Settled, Present
    <2>2. CASE Tally(party') = "EXECUTED"
        BY <2>2, ExecutedTally DEF ExecutedByAll, Present
    <2>3. contract = "EXECUTED" \/ Tally(party') = "EXECUTED"
        BY <1>5, ExecutedByVerdict DEF RemoveParty, Verdict
    <2> QED
        BY <1>2, <2>1, <2>2, <2>3
<1>6. ASSUME NEW s \in Senders, NEW p \in Parties, CommitCopy(s, p) PROVE ExecutedByAll'
    <2>1. tx[p].kind = "copy"
        BY <1>6 DEF CommitCopy, Copying
    <2>2. \A r \in Parties : party'[r] = party[r] \/ (party[r] = "draft" /\ party'[r] = "invited")
        BY <1>6 DEF CommitCopy
    <2>3. contract' = "EXECUTED" => contract = "EXECUTED" \/ tx[p].verdict = "EXECUTED"
        BY <1>6, ExecutedByVerdict DEF CommitCopy
    <2> QED
        BY <2>1, <2>2, <2>3 DEF Sound, ExecutedByAll, Present
<1>7. ASSUME NEW p \in Parties, CommitView(p) \/ CommitDecline(p) \/ CommitSign(p)
      PROVE  ExecutedByAll'
    <2>1. party[p] \in Answerable
        BY <1>7 DEF CommitView, CommitDecline, CommitSign, Locked
    <2>2. \A r \in Parties : r # p => party'[r] = party[r]
        BY <1>7 DEF CommitView, CommitDecline, CommitSign
    <2>3. tx[p].kind = "sign" => party'[p] = "signed"
        BY <1>7 DEF CommitView, CommitDecline, CommitSign
    <2>4. contract' = "EXECUTED" => contract = "EXECUTED" \/ tx[p].verdict = "EXECUTED"
        BY <1>7, ExecutedByVerdict DEF CommitView, CommitDecline, CommitSign
    <2>5. contract' = "EXECUTED" => p \notin Required \/ party'[p] = "signed"
        BY <2>1, <2>3, <2>4 DEF Sound, ExecutedByAll, Present, Answerable
    <2> QED
        BY <2>1, <2>2, <2>3, <2>4, <2>5 DEF Sound, ExecutedByAll, Present, Answerable
<1>8. CASE Issuer
    BY <1>1, <1>3, <1>4, <1>5, <1>8 DEF Issuer, Check, Withdraw, Reopen, rows
<1>9. CASE Sending
    BY <1>1, <1>3, <1>6, <1>9
       DEF Sending, SendRead, OpenCopy, SkipParty, SendFinish, SendAbort, rows
<1>10. CASE Ceremony
    BY <1>3, <1>10 DEF Ceremony, TwentyMinutes, PollRead, StartRead, StartLocked, StartRefused,
                       CitizenAnswers, PollFailed, PollEnds, rows
<1>11. CASE Answering
    BY <1>3, <1>7, <1>11 DEF Answering, OpenView, OpenDecline, OpenSign, Rollback, rows
<1> QED
    BY <1>3, <1>8, <1>9, <1>10, <1>11 DEF Next, vars, rows

\* A contract is executed by all its parties, however answers, sends and
\* withdrawals overlap, if nothing is added or reopened on an old check.
THEOREM ExecutedContract ==
    ASSUME InTime
    PROVE  Spec => []ExecutedByAll
<1>1. Init => ExecuteInv
    BY RowInit DEF Init, ExecuteInv, WithdrawInv, LateAreStale, Verdicts, NoTx,
                   WithdrawnIsClosed, SignedWhileSent, Sound, ExecutedByAll
<1>2. ExecuteInv /\ [Next]_vars => ExecuteInv'
    BY RowStep, LateStep, VerdictsStep, WithdrawnStep, SignedWhileSentStep, SoundStep, ExecutedStep
       DEF ExecuteInv, WithdrawInv, RowInv
<1>3. ExecuteInv => ExecutedByAll
    BY DEF ExecuteInv
<1> QED
    BY <1>1, <1>2, <1>3, PTL DEF Spec

=============================================================================
