--------------------------- MODULE ContractParties ---------------------------
(***************************************************************************)
(* A contract and its parties: modules/documents/parties.go, sending.go,   *)
(* partysign.go, the answers of inbox.go and invite.go, and the trigger of *)
(* migrations/00007 that counts the parties.                               *)
(*                                                                         *)
(* The issuer adds parties, sends each of them a frozen copy, withdraws    *)
(* and reopens.  A party views, declines, or signs through a ceremony on   *)
(* the phone of one of its signatories.  Every change of a party's row     *)
(* fires the trigger, which counts all parties as the statement's snapshot *)
(* shows them (READ COMMITTED) and writes contract_state when it has the   *)
(* lock of the record: between the two, another party may have answered.   *)
(*                                                                         *)
(* Parties are those that receive the contract; the issuer's own row is    *)
(* neither sent to nor counted.  Each freezing gives new bytes: the        *)
(* rendering carries its date.                                             *)
(***************************************************************************)
EXTENDS Integers, FiniteSets

CONSTANTS
    Parties,         \* the parties the issuer may add
    Required,        \* those that have to sign
    Before,          \* Before[p]: the required parties with a smaller sign_order
    Signatories,     \* Signatories[p]: who is registered to sign for p
    Nobody,
    Senders,         \* sends that may run at the same moment
    Stale,           \* requests whose check may be out of date when they write
    MaxFreezes,      \* bound: copies frozen
    MaxCeremonies,   \* bound: ceremonies opened on the signing rail
    MaxHandlers      \* bound: starts and polls at work

ASSUME ContractAssumption ==
    /\ Required \subseteq Parties
    /\ Before \in [Parties -> SUBSET Required]
    /\ DOMAIN Signatories = Parties
    /\ Nobody \notin Parties
    /\ \A p \in Parties : Nobody \notin Signatories[p]
    /\ Stale \subseteq {"add", "remove", "withdraw", "reopen"}
    /\ MaxFreezes \in Nat
    /\ MaxCeremonies \in Nat
    /\ MaxHandlers \in Nat

VARIABLES
    contract,   \* document_records.contract_state
    party,      \* document_parties.state; "absent" before the row, "removed" after it
    copy,       \* document_party_files: which freezing, 0 without a row
    session,    \* session_id: a ceremony, 0 when none is open
    by,         \* session_signatory_id
    aged,       \* parties whose session_at is more than 20 minutes ago
    signature,  \* the party's document_signatures row and signed_content
    rail,       \* the signing rail: the ceremonies it was asked for
    freezes,    \* freezings so far
    tx,         \* the open transaction on each party's row
    sends,      \* sendHandler at work
    starts,     \* between signerFor and the UPDATE of startPartySignature
    polls,      \* between the read of pollPartySignature and its record
    checked     \* requests that have passed their check and not yet written

rows == <<party, copy, session, by, aged, signature>>
vars == <<contract, rows, rail, freezes, tx, sends, starts, polls, checked>>

-----------------------------------------------------------------------------
(* The tables *)

Sent == {"SENT", "PARTIALLY_SIGNED", "EXECUTED", "DECLINED"}
ContractStates == Sent \cup {"NONE", "DRAFT", "WITHDRAWN"}
Answerable == {"invited", "viewed"}
PartyStates == Answerable \cup {"absent", "draft", "signed", "declined", "withdrawn", "removed"}

People == (UNION {Signatories[p] : p \in Parties}) \cup {Nobody}
Freezings == 0 .. MaxFreezes
Sessions == 0 .. MaxCeremonies
Requests == ({"withdraw", "reopen"} \X {Nobody}) \cup ({"add", "remove"} \X Parties)

Signature == [session : Sessions, who : People, digest : Freezings]
Unsigned == [session |-> 0, who |-> Nobody, digest |-> 0]

Ceremonies == [party : Parties \cup {Nobody}, who : People, over : Freezings,
               result : {"none", "pending", "completed", "failed"}]

Transaction == [kind : {"none", "view", "decline", "sign", "copy"},
                verdict : ContractStates \cup {"keep"},
                session : Sessions, who : People, digest : Freezings]
NoTx == [kind |-> "none", verdict |-> "keep", session |-> 0, who |-> Nobody, digest |-> 0]

Sends == [busy : BOOLEAN, left : SUBSET Parties, now : Parties \cup {Nobody}, sent : BOOLEAN]
Idle == [busy |-> FALSE, left |-> {}, now |-> Nobody, sent |-> FALSE]

Starts == [party : Parties, who : People, over : Freezings]
Polls == [party : Parties, session : Sessions \ {0}, who : People, digest : Freezings]

Present == {p \in Parties : party[p] \notin {"absent", "removed"}}

TypeOK ==
    /\ contract \in ContractStates
    /\ party \in [Parties -> PartyStates]
    /\ copy \in [Parties -> Freezings]
    /\ session \in [Parties -> Sessions]
    /\ by \in [Parties -> People]
    /\ aged \subseteq Parties
    /\ signature \in [Parties -> Signature]
    /\ rail \in [Sessions \ {0} -> Ceremonies]
    /\ freezes \in Freezings
    /\ tx \in [Parties -> Transaction]
    /\ sends \in [Senders -> Sends]
    /\ starts \subseteq Starts
    /\ polls \subseteq Polls
    /\ checked \subseteq Requests

Init ==
    /\ contract = "NONE"
    /\ party = [p \in Parties |-> "absent"]
    /\ copy = [p \in Parties |-> 0]
    /\ session = [p \in Parties |-> 0]
    /\ by = [p \in Parties |-> Nobody]
    /\ aged = {}
    /\ signature = [p \in Parties |-> Unsigned]
    /\ rail = [n \in Sessions \ {0} |->
                 [party |-> Nobody, who |-> Nobody, over |-> 0, result |-> "none"]]
    /\ freezes = 0
    /\ tx = [p \in Parties |-> NoTx]
    /\ sends = [s \in Senders |-> Idle]
    /\ starts = {}
    /\ polls = {}
    /\ checked = {}

-----------------------------------------------------------------------------
(* The trigger documents_refresh_contract_state *)

\* Slip: drafts are not counted, as in migrations/00005.
DecidingSent(state) ==
    LET sent == {p \in Parties : state[p] \notin {"absent", "removed", "draft"}}
    IN  IF sent \cap Required # {} THEN sent \cap Required ELSE sent

\* The parties that decide: the required ones, sent or not; if nobody is
\* required, those that were sent to.
Deciding(state) ==
    LET there == {p \in Parties : state[p] \notin {"absent", "removed"}}
    IN  IF there \cap Required # {} THEN there \cap Required
        ELSE {p \in there : state[p] # "draft"}

\* The new contract_state; "keep" is the row's own.
Tally(state) ==
    LET deciding == Deciding(state)
        signed == {p \in deciding : state[p] = "signed"}
    IN  IF deciding = {} THEN "keep"
        ELSE IF \E p \in Parties : state[p] = "declined" THEN "DECLINED"
        ELSE IF signed = deciding THEN "EXECUTED"
        ELSE IF signed # {} THEN "PARTIALLY_SIGNED" ELSE "SENT"

\* Only a contract that was sent is counted: a record that does not match when
\* the statement starts is not written.
Verdict(state) == IF contract \in Sent THEN Tally(state) ELSE "keep"

\* Slip: the row's own state is not asked for.
JudgedAnyway(verdict) ==
    IF contract \notin Sent THEN contract ELSE verdict

\* Writing a verdict: the record may have changed while the statement waited
\* for its lock, so whether it still matches is asked again; the count is not.
Judged(verdict) ==
    IF verdict = "keep" \/ contract \notin Sent THEN contract ELSE verdict

\* The row is not locked by another transaction.
Free(p) == tx[p].kind = "none"

\* A party's ceremony is forgotten.
Closed(S) ==
    /\ session' = [p \in Parties |-> IF p \in S THEN 0 ELSE session[p]]
    /\ by' = [p \in Parties |-> IF p \in S THEN Nobody ELSE by[p]]
    /\ aged' = aged \ S

-----------------------------------------------------------------------------
(* Requests of the issuer that check the contract before they write *)

Allowed(r) ==
    CASE r[1] \in {"withdraw", "remove"} -> contract # "EXECUTED"
      [] r[1] = "reopen" -> contract = "WITHDRAWN"
      [] r[1] = "add" -> /\ contract \in {"NONE", "DRAFT"}
                         /\ \A p \in Present : signature[p] = Unsigned

\* contractShapeOf, outside any transaction.
Check(r) ==
    /\ r[1] \in Stale
    /\ Allowed(r)
    /\ r \notin checked
    /\ checked' = checked \cup {r}
    /\ UNCHANGED <<contract, rows, rail, freezes, tx, sends, starts, polls>>

\* The write follows the check, at once or late.
Passed(r) ==
    \/ Allowed(r) /\ UNCHANGED checked
    \/ r \in checked /\ checked' = checked \ {r}

\* insertParty: refused if the party is there already.
InsertParty(p) == party[p] = "absent" /\ party' = [party EXCEPT ![p] = "draft"]

\* addPartyHandler: the row, and DRAFT for a document that was no contract yet.
\* importPartiesHandler adds its lines one after the other on one check.
AddParty(p) ==
    /\ Passed(<<"add", p>>)
    /\ InsertParty(p)
    /\ contract' = IF contract = "NONE" THEN "DRAFT" ELSE Judged(Verdict(party'))
    /\ UNCHANGED <<copy, session, by, aged, signature, rail, freezes, tx, sends, starts, polls>>

\* removePartyHandler: the row goes, with its file and its open ceremony.
RemoveParty(p) ==
    /\ Passed(<<"remove", p>>)
    /\ Free(p)
    /\ party[p] \in {"draft", "declined", "withdrawn"}
    /\ party' = [party EXCEPT ![p] = "removed"]
    /\ copy' = [copy EXCEPT ![p] = 0]
    /\ Closed({p})
    /\ contract' = Judged(Verdict(party'))
    /\ UNCHANGED <<signature, rail, freezes, tx, sends, starts, polls>>

\* withdrawHandler: whoever has not answered is closed, and the contract with
\* them; the record is written last.
Withdraw ==
    LET open == {p \in Parties : party[p] \in Answerable \cup {"draft"}}
    IN  /\ Passed(<<"withdraw", Nobody>>)
        /\ \A p \in open : Free(p)
        /\ party' = [p \in Parties |-> IF p \in open THEN "withdrawn" ELSE party[p]]
        /\ Closed(open)
        /\ contract' = "WITHDRAWN"
        /\ UNCHANGED <<copy, signature, rail, freezes, tx, sends, starts, polls>>

\* reopenHandler: withdrawn parties are drafts again, and copies that nobody
\* signed are deleted.
Reopen ==
    /\ Passed(<<"reopen", Nobody>>)
    /\ \A p \in Parties : party[p] = "withdrawn" => Free(p)
    /\ party' = [p \in Parties |-> IF party[p] = "withdrawn" THEN "draft" ELSE party[p]]
    /\ copy' = [p \in Parties |->
                  IF party'[p] = "draft" /\ signature[p] = Unsigned THEN 0 ELSE copy[p]]
    /\ contract' = "DRAFT"
    /\ UNCHANGED <<session, by, aged, signature, rail, freezes, tx, sends, starts, polls>>

-----------------------------------------------------------------------------
(* sendHandler *)

\* The contract and the parties as they are now decide who gets a copy.  The
\* reads that refuse a contract without text or issuer, and who may see whom
\* (audience), are left out.
SendRead(s) ==
    /\ ~sends[s].busy
    /\ contract \notin {"EXECUTED", "WITHDRAWN"}
    /\ \E only \in (SUBSET Present) \ {{}} :
         sends' = [sends EXCEPT ![s] =
            [busy |-> TRUE, now |-> Nobody, sent |-> FALSE,
             left |-> {p \in only : party[p] \in Answerable \cup {"draft"}}]]
    /\ UNCHANGED <<contract, rows, rail, freezes, tx, starts, polls, checked>>

\* A copy is rendered for p, storePartyCopy begins and updates p's row.
OpenCopy(s, p) ==
    /\ p \in sends[s].left /\ sends[s].now = Nobody
    /\ Free(p)
    /\ party[p] # "removed"
    /\ freezes < MaxFreezes
    /\ freezes' = freezes + 1
    /\ sends' = [sends EXCEPT ![s].left = @ \ {p}, ![s].now = p]
    /\ tx' = [tx EXCEPT ![p] =
          [kind |-> "copy", session |-> 0, who |-> Nobody, digest |-> freezes + 1,
           verdict |-> Verdict([party EXCEPT ![p] = IF @ = "draft" THEN "invited" ELSE @])]]
    /\ UNCHANGED <<contract, rows, rail, starts, polls, checked>>

\* Slip: whoever was sent a copy is invited, and the copy is replaced.
CommitCopyAnew(s, p) ==
    /\ sends[s].now = p /\ p \in Parties
    /\ copy' = [copy EXCEPT ![p] = tx[p].digest]
    /\ party' = [party EXCEPT ![p] = IF @ = "draft" THEN "invited" ELSE @]
    /\ contract' = Judged(tx[p].verdict)
    /\ tx' = [tx EXCEPT ![p] = NoTx]
    /\ sends' = [sends EXCEPT ![s].now = Nobody, ![s].sent = TRUE]
    /\ UNCHANGED <<session, by, aged, signature, rail, freezes, starts, polls, checked>>

\* Slip: a party that is not answered is invited, a withdrawn one too.
CommitCopyInvites(s, p) ==
    /\ sends[s].now = p /\ p \in Parties
    /\ copy' = [copy EXCEPT ![p] = IF signature[p] = Unsigned THEN tx[p].digest ELSE @]
    /\ party' = [party EXCEPT ![p] = IF @ \in {"signed", "declined"} THEN @ ELSE "invited"]
    /\ contract' = Judged(tx[p].verdict)
    /\ tx' = [tx EXCEPT ![p] = NoTx]
    /\ sends' = [sends EXCEPT ![s].now = Nobody, ![s].sent = TRUE]
    /\ UNCHANGED <<session, by, aged, signature, rail, freezes, starts, polls, checked>>

\* The commit.  A copy that was signed meanwhile stays, and so does any state
\* but draft.
CommitCopy(s, p) ==
    /\ sends[s].now = p /\ p \in Parties
    /\ copy' = [copy EXCEPT ![p] = IF signature[p] = Unsigned THEN tx[p].digest ELSE @]
    /\ party' = [party EXCEPT ![p] = IF @ = "draft" THEN "invited" ELSE @]
    /\ contract' = Judged(tx[p].verdict)
    /\ tx' = [tx EXCEPT ![p] = NoTx]
    /\ sends' = [sends EXCEPT ![s].now = Nobody, ![s].sent = TRUE]
    /\ UNCHANGED <<session, by, aged, signature, rail, freezes, starts, polls, checked>>

\* The rendering fails and the party is named among the skipped.
SkipParty(s, p) ==
    /\ p \in sends[s].left /\ sends[s].now = Nobody
    /\ sends' = [sends EXCEPT ![s].left = @ \ {p}]
    /\ UNCHANGED <<contract, rows, rail, freezes, tx, starts, polls, checked>>

\* After the last party: a contract that was not sent is now.
SendFinish(s) ==
    /\ sends[s].busy /\ sends[s].left = {} /\ sends[s].now = Nobody
    /\ contract' = IF sends[s].sent /\ contract \in {"NONE", "DRAFT"} THEN "SENT" ELSE contract
    /\ sends' = [sends EXCEPT ![s] = Idle]
    /\ UNCHANGED <<rows, rail, freezes, tx, starts, polls, checked>>

\* A statement fails or the caller goes away: what was committed stays.
SendAbort(s) ==
    /\ sends[s].busy
    /\ tx' = [p \in Parties |-> IF p = sends[s].now THEN NoTx ELSE tx[p]]
    /\ sends' = [sends EXCEPT ![s] = Idle]
    /\ UNCHANGED <<contract, rows, rail, freezes, starts, polls, checked>>

-----------------------------------------------------------------------------
(* A ceremony: startPartySignature, the rail and pollPartySignature *)

\* One more start or poll may begin.
Idling == Cardinality(starts) + Cardinality(polls) < MaxHandlers

\* signerFor: whose turn it is, who signs, and the bytes to be signed.
StartRead(p, w) ==
    /\ Idling
    /\ p \in Present
    /\ w \in Signatories[p] /\ w # signature[p].who
    /\ \A q \in Before[p] \cap Present : party[q] = "signed"
    /\ copy[p] # 0
    /\ starts' = starts \cup {[party |-> p, who |-> w, over |-> copy[p]]}
    /\ UNCHANGED <<contract, rows, rail, freezes, tx, sends, polls, checked>>

\* The rail takes the bytes, and the ceremony is put on the party's row unless
\* one is open there that is younger than 20 minutes.
StartLocked(c) ==
    \E n \in DOMAIN rail :
      /\ c \in starts
      /\ \A m \in DOMAIN rail : (rail[m].result = "none") <=> (m >= n)
      /\ Free(c.party) /\ party[c.party] \in Answerable
      /\ session[c.party] = 0 \/ c.party \in aged
      /\ rail' = [rail EXCEPT ![n] = [party |-> c.party, who |-> c.who, over |-> c.over,
                                      result |-> "pending"]]
      /\ session' = [session EXCEPT ![c.party] = n]
      /\ by' = [by EXCEPT ![c.party] = c.who]
      /\ aged' = aged \ {c.party}
      /\ starts' = starts \ {c}
      /\ UNCHANGED <<contract, party, copy, signature, freezes, tx, sends, polls, checked>>

\* ErrCeremonyOpen, or an error: whatever the rail opened, nobody asks for it.
StartRefused(c) ==
    /\ c \in starts
    /\ starts' = starts \ {c}
    /\ UNCHANGED <<contract, rows, rail, freezes, tx, sends, polls, checked>>

\* The citizen enters PIN2, or refuses, or lets it pass.  Only a ceremony that
\* somebody may still ask for matters.
CitizenAnswers(n) ==
    /\ rail[n].result = "pending"
    /\ (\E p \in Parties : session[p] = n) \/ (\E q \in polls : q.session = n)
    /\ \E result \in {"completed", "failed"} : rail' = [rail EXCEPT ![n].result = result]
    /\ UNCHANGED <<contract, rows, freezes, tx, sends, starts, polls, checked>>

TwentyMinutes(p) ==
    /\ session[p] # 0 /\ p \notin aged
    /\ aged' = aged \cup {p}
    /\ UNCHANGED <<contract, party, copy, session, by, signature, rail, freezes, tx, sends,
                   starts, polls, checked>>

\* The ceremony, its signatory and the frozen copy, in one query.
PollRead(p) ==
    /\ Idling
    /\ session[p] # 0 /\ by[p] # Nobody /\ copy[p] # 0
    /\ polls' = polls \cup {[party |-> p, session |-> session[p], who |-> by[p],
                             digest |-> copy[p]]}
    /\ UNCHANGED <<contract, rows, rail, freezes, tx, sends, starts, checked>>

\* Settled without a signature: the ceremony is taken off the row.
PollFailed(q) ==
    /\ q \in polls /\ rail[q.session].result = "failed"
    /\ Free(q.party) /\ session[q.party] = q.session
    /\ Closed({q.party})
    /\ polls' = polls \ {q}
    /\ UNCHANGED <<contract, party, copy, signature, rail, freezes, tx, sends, starts, checked>>

\* Still pending, overtaken, or an error: the caller polls again.
PollEnds(q) ==
    /\ q \in polls
    /\ polls' = polls \ {q}
    /\ UNCHANGED <<contract, rows, rail, freezes, tx, sends, starts, checked>>

-----------------------------------------------------------------------------
(* What a party answers *)

\* A transaction that answers for p: its row is updated and the parties counted.
Open(p, kind, state, session_, who, digest) ==
    tx' = [tx EXCEPT ![p] =
             [kind |-> kind, session |-> session_, who |-> who, digest |-> digest,
              verdict |-> Verdict([party EXCEPT ![p] = state])]]

\* markViewed.
OpenView(p) ==
    /\ Free(p) /\ party[p] = "invited"
    /\ Open(p, "view", "viewed", 0, Nobody, 0)
    /\ UNCHANGED <<contract, rows, rail, freezes, sends, starts, polls, checked>>

\* declinePartyHandler, inboxDeclineHandler, inviteDeclineHandler.
OpenDecline(p) ==
    /\ Free(p) /\ party[p] \in Answerable
    /\ Open(p, "decline", "declined", 0, Nobody, 0)
    /\ UNCHANGED <<contract, rows, rail, freezes, sends, starts, polls, checked>>

\* Slip: the ceremony on the row is taken for the one that was polled.
OpenSignRow(q) ==
    /\ q \in polls /\ rail[q.session].result = "completed"
    /\ Free(q.party) /\ party[q.party] \in Answerable /\ session[q.party] # 0
    /\ Open(q.party, "sign", "signed", session[q.party], q.who, q.digest)
    /\ polls' = polls \ {q}
    /\ UNCHANGED <<contract, rows, rail, freezes, sends, starts, checked>>

\* recordPartySignature.  The digest compared before it is the digest of the
\* very bytes it was read with, and so never differs.
OpenSign(q) ==
    /\ q \in polls /\ rail[q.session].result = "completed"
    /\ Free(q.party) /\ party[q.party] \in Answerable /\ session[q.party] = q.session
    /\ Open(q.party, "sign", "signed", q.session, q.who, q.digest)
    /\ polls' = polls \ {q}
    /\ UNCHANGED <<contract, rows, rail, freezes, sends, starts, checked>>

CommitView(p) ==
    /\ tx[p].kind = "view"
    /\ party' = [party EXCEPT ![p] = "viewed"]
    /\ contract' = Judged(tx[p].verdict)
    /\ tx' = [tx EXCEPT ![p] = NoTx]
    /\ UNCHANGED <<copy, session, by, aged, signature, rail, freezes, sends, starts, polls, checked>>

CommitDecline(p) ==
    /\ tx[p].kind = "decline"
    /\ party' = [party EXCEPT ![p] = "declined"]
    /\ Closed({p})
    /\ contract' = Judged(tx[p].verdict)
    /\ tx' = [tx EXCEPT ![p] = NoTx]
    /\ UNCHANGED <<copy, signature, rail, freezes, sends, starts, polls, checked>>

\* The state, the signed copy and the signature together.
CommitSign(p) ==
    /\ tx[p].kind = "sign"
    /\ party' = [party EXCEPT ![p] = "signed"]
    /\ signature' = [signature EXCEPT ![p] =
          [session |-> tx[p].session, who |-> tx[p].who, digest |-> tx[p].digest]]
    /\ Closed({p})
    /\ contract' = Judged(tx[p].verdict)
    /\ tx' = [tx EXCEPT ![p] = NoTx]
    /\ UNCHANGED <<copy, rail, freezes, sends, starts, polls, checked>>

\* The transaction fails.
Rollback(p) ==
    /\ tx[p].kind \in {"view", "decline", "sign"}
    /\ tx' = [tx EXCEPT ![p] = NoTx]
    /\ UNCHANGED <<contract, rows, rail, freezes, sends, starts, polls, checked>>

-----------------------------------------------------------------------------
Issuer == \/ \E r \in Requests : Check(r)
          \/ Withdraw
          \/ Reopen
          \/ \E p \in Parties : AddParty(p) \/ RemoveParty(p)

Sending == \E s \in Senders :
             \/ SendRead(s)
             \/ SendFinish(s)
             \/ SendAbort(s)
             \/ \E p \in Parties : OpenCopy(s, p) \/ CommitCopy(s, p) \/ SkipParty(s, p)

Ceremony == \/ \E p \in Parties : TwentyMinutes(p) \/ PollRead(p)
            \/ \E p \in Parties : \E w \in Signatories[p] : StartRead(p, w)
            \/ \E c \in starts : StartLocked(c) \/ StartRefused(c)
            \/ \E n \in DOMAIN rail : CitizenAnswers(n)
            \/ \E q \in polls : PollFailed(q) \/ PollEnds(q)

Answering == \/ \E p \in Parties : OpenView(p) \/ OpenDecline(p)
             \/ \E p \in Parties : CommitView(p) \/ CommitDecline(p) \/ CommitSign(p)
             \/ \E p \in Parties : Rollback(p)
             \/ \E q \in polls : OpenSign(q)

Next == Issuer \/ Sending \/ Ceremony \/ Answering

Spec == Init /\ [][Next]_vars

-----------------------------------------------------------------------------
(* Properties *)

\* What a party answered stands.  Whatever sends, ceremonies and withdrawals
\* were under way when it answered, its state, the copy it signed and the
\* signature are never rewritten; only a party that declined can be removed.
\* recordPartySignature, storePartyCopy, withdrawHandler, reopenHandler.
AnswerStands ==
    [][\A p \in Parties :
         /\ party[p] = "signed" => /\ party'[p] = "signed"
                                   /\ copy'[p] = copy[p]
                                   /\ signature'[p] = signature[p]
         /\ party[p] = "declined" => party'[p] \in {"declined", "removed"}]_vars

\* A signature is recorded for the party and under the person whose phone gave
\* it, and only if the rail completed it: partysign.go's first rule, with polls
\* of an expired ceremony racing the next one.
SignatureIsTheCeremonys ==
    \A p \in Parties : signature[p] # Unsigned =>
        LET n == signature[p].session
        IN  /\ n \in DOMAIN rail
            /\ rail[n].result = "completed"
            /\ rail[n].party = p
            /\ rail[n].who = signature[p].who

\* A contract is executed by all of its parties: none that is required is
\* still to be sent to, to answer, or has left.  The heading of migrations/00007.
ExecutedByAll ==
    contract = "EXECUTED" =>
        /\ \A p \in Required \cap Present : party[p] = "signed"
        /\ \E p \in Parties : party[p] = "signed"

\* A ceremony is open only at a party that can still answer, so that a late
\* PIN2 finds nothing to sign: decline, withdrawal and signature clear it.
CeremonyOnlyWhileOpen ==
    \A p \in Parties : session[p] # 0 => party[p] \in Answerable

\* Nobody can answer a withdrawn contract: also a send that was under way
\* invites nobody to it.
WithdrawnIsClosed ==
    contract = "WITHDRAWN" => \A p \in Parties : party[p] \notin Answerable \cup {"draft"}

\* A party that is a draft has no frozen copy, so a contract reopened for
\* editing is not delivered with the old text.  reopenHandler's comment.
DraftHasNoCopy ==
    \A p \in Parties : party[p] = "draft" => copy[p] = 0

\* "If the bytes change during the ceremony, the signature is not accepted":
\* partysign.go's third rule.  What the rail was given is what is recorded as
\* signed, and is the party's copy.
SignedWhatWasShown ==
    \A p \in Parties : signature[p] # Unsigned =>
        /\ rail[signature[p].session].over = signature[p].digest
        /\ copy[p] = signature[p].digest

\* "If all sign, EXECUTED": the heading of migrations/00007, of a contract that
\* was sent and whose answers are all committed.
SignedIsExecuted ==
    /\ contract \in Sent
    /\ \A p \in Parties : Free(p)
    /\ Deciding(party) # {}
    /\ \A p \in Deciding(party) : party[p] = "signed"
    =>  contract = "EXECUTED" \/ \E p \in Parties : party[p] = "declined"
=============================================================================
