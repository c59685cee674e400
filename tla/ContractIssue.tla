---------------------------- MODULE ContractIssue ----------------------------
(***************************************************************************)
(* Issuing a master contract: modules/documents/issue.go, with the facts   *)
(* of contractlist.go and what happens to the copies afterwards, among it  *)
(* that they are sent anew (sending.go).                                   *)
(*                                                                         *)
(* Each recipient gets a contract of their own.  A run reads the master    *)
(* once and then makes the copies one transaction each; two runs may       *)
(* overlap, as the screen sends a long list in pieces.  What keeps a       *)
(* recipient from two live copies is a list read at the start, an advisory *)
(* lock on (master, recipient), and the list asked again under the lock.   *)
(* Facts are the number, the amount and the dates: printed on the copy as  *)
(* the request read them, and held by the copy's own row, which the INSERT *)
(* fills from the master's row as it is then.                              *)
(***************************************************************************)
EXTENDS Integers, Sequences

CONSTANTS
    Recipients,
    Noone,
    Runners,       \* requests that may run at the same moment: to issue, or to send a copy
    MaxCopies,     \* bound: copies committed
    MaxEditions    \* bound: the facts of a contract are changed

ASSUME IssueAssumption == Noone \notin Recipients /\ MaxCopies \in Nat /\ MaxEditions \in Nat

VARIABLES
    masterState,   \* the master's contract_state
    facts,         \* which edition of its facts
    run,           \* issueHandler at work, or sendHandler on a copy
    copies         \* the children of the master that are committed

issueVars == <<masterState, facts, run, copies>>

-----------------------------------------------------------------------------
(* The tables and the requests *)

Open == {"NONE", "DRAFT"}
MasterStates == Open \cup {"SENT", "WITHDRAWN"}
Editions == 0 .. MaxEditions

IssueStages == {"read", "looping", "inserted", "locked", "clear"}
SendStages == {"sending", "frozen"}

\* printed: the facts it read and prints.  crossed: the facts were saved since.
\* copy: which copy is sent, or 0.
Runs == [stage : {"idle"} \cup IssueStages \cup SendStages,
         left : SUBSET Recipients, now : Recipients \cup {Noone}, known : SUBSET Recipients,
         printed : Editions, recorded : Editions, crossed : BOOLEAN, issued : BOOLEAN,
         copy : Nat]
NoRun == [stage |-> "idle", left |-> {}, now |-> Noone, known |-> {}, printed |-> 0,
          recorded |-> 0, crossed |-> FALSE, issued |-> FALSE, copy |-> 0]

\* state: of its recipient.  contract: of the copy itself.  keyed: its signatory
\* is registered.  touched: it was without a signatory once, or was reopened, so
\* that it did not count and then may again.  facts: those of its record;
\* printed: those of its frozen file.  crossed: facts were saved while the file
\* was being made.  ajar: the file was left with its recipient, or signed by
\* them, and the record open to edits.
Copies == [to : Recipients, state : {"invited", "draft", "signed", "declined", "withdrawn"},
           contract : {"DRAFT", "SENT", "EXECUTED", "DECLINED", "WITHDRAWN"},
           keyed : BOOLEAN, touched : SUBSET {"unkeyed", "reopened"},
           facts : Editions, printed : Editions, crossed : BOOLEAN, ajar : BOOLEAN]

IssueTypeOK ==
    /\ masterState \in MasterStates
    /\ facts \in Editions
    /\ run \in [Runners -> Runs]
    /\ \A r \in Runners : run[r].now = Noone <=> run[r].stage \notin {"inserted", "locked", "clear"}
    /\ copies \in Seq(Copies)

IssueInit ==
    /\ masterState \in Open
    /\ facts = 0
    /\ run = [r \in Runners |-> NoRun]
    /\ copies = <<>>

\* Who cannot be refused a copy as a duplicate: the refused and the withdrawn.
Live(c) == c.state \notin {"declined", "withdrawn"}

\* Its recipient holds the frozen file.
Out(c) == c.state \in {"invited", "signed"}

\* A sending that froze the copy and has not ended.
Frozen(r, k) == run[r].stage = "frozen" /\ run[r].copy = k

\* issuedKeys, and the same question again in issueOne.
Issued == {copies[k].to : k \in {j \in DOMAIN copies : Live(copies[j]) /\ copies[j].keyed}}

-----------------------------------------------------------------------------
(* The master *)

\* saveContractFactsHandler: one UPDATE, of a contract that was not sent.
MayEdit(state) == state \in Open

\* The facts that these requests print are no longer those.
Crossed(requests) == [r \in Runners |-> IF r \in requests THEN [run[r] EXCEPT !.crossed = TRUE]
                                        ELSE run[r]]

SaveFacts ==
    /\ facts < MaxEditions /\ MayEdit(masterState)
    /\ facts' = facts + 1
    /\ run' = Crossed({r \in Runners : run[r].stage \in IssueStages})
    /\ UNCHANGED <<masterState, copies>>

\* createContractHandler and addPartyHandler: a document becomes a contract.
BecomesContract ==
    /\ masterState = "NONE"
    /\ masterState' = "DRAFT"
    /\ UNCHANGED <<facts, run, copies>>

\* withdrawHandler and reopenHandler on the master; its copies are left alone.
WithdrawMaster ==
    /\ masterState' = "WITHDRAWN"
    /\ UNCHANGED <<facts, run, copies>>

ReopenMaster ==
    /\ masterState = "WITHDRAWN"
    /\ masterState' = "DRAFT"
    /\ UNCHANGED <<facts, run, copies>>

-----------------------------------------------------------------------------
(* issueHandler *)

\* contractShapeOf, the attached master, the body, the issuer, the list.
RunReads(r) ==
    /\ run[r].stage = "idle"
    /\ \E wanted \in (SUBSET Recipients) \ {{}} :
         run' = [run EXCEPT ![r] = [NoRun EXCEPT !.stage = "read", !.left = wanted,
                                                           !.printed = facts]]
    /\ UNCHANGED <<masterState, facts, copies>>

\* The recipients that have a copy already.
RunKnows(r) ==
    /\ run[r].stage = "read"
    /\ run' = [run EXCEPT ![r].stage = "looping", ![r].known = Issued]
    /\ UNCHANGED <<masterState, facts, copies>>

\* One of the list is skipped: known, incomplete, or not to be rendered.
SkipRecipient(r, to) ==
    /\ run[r].stage = "looping" /\ to \in run[r].left
    /\ run' = [run EXCEPT ![r].left = @ \ {to}]
    /\ UNCHANGED <<masterState, facts, copies>>

\* issueOne begins: the record is INSERTed from the master's row as it is now.
InsertCopy(r, to) ==
    /\ run[r].stage = "looping" /\ to \in run[r].left \ run[r].known
    /\ run' = [run EXCEPT ![r].stage = "inserted", ![r].now = to, ![r].left = @ \ {to},
                          ![r].recorded = facts]
    /\ UNCHANGED <<masterState, facts, copies>>

\* Slip: nobody waits.
LockNothing(r) ==
    /\ run[r].stage = "inserted"
    /\ run' = [run EXCEPT ![r].stage = "locked"]
    /\ UNCHANGED <<masterState, facts, copies>>

\* pg_advisory_xact_lock on the master and the recipient.
LockRecipient(r) ==
    /\ run[r].stage = "inserted"
    /\ \A s \in Runners \ {r} : run[s].stage \in {"locked", "clear"} => run[s].now # run[r].now
    /\ run' = [run EXCEPT ![r].stage = "locked"]
    /\ UNCHANGED <<masterState, facts, copies>>

\* The list is asked again; a duplicate takes the whole transaction back.
AskAgain(r) ==
    /\ run[r].stage = "locked"
    /\ run' = IF run[r].now \in Issued
              THEN [run EXCEPT ![r].stage = "looping", ![r].now = Noone]
              ELSE [run EXCEPT ![r].stage = "clear"]
    /\ UNCHANGED <<masterState, facts, copies>>

\* Parties, signatory, frozen copy; the commit lets the lock go.
CommitIssue(r) ==
    /\ run[r].stage = "clear"
    /\ Len(copies) < MaxCopies
    /\ copies' = Append(copies, [to |-> run[r].now, state |-> "invited",
                                 contract |-> "SENT", keyed |-> TRUE, touched |-> {},
                                 facts |-> run[r].recorded, printed |-> run[r].printed,
                                 crossed |-> run[r].crossed, ajar |-> FALSE])
    /\ run' = [run EXCEPT ![r].stage = "looping", ![r].known = @ \cup {run[r].now},
                          ![r].now = Noone, ![r].issued = TRUE]
    /\ UNCHANGED <<masterState, facts>>

\* Slip: the recipient that failed stays the one in hand.
RollBackKeeping(r) ==
    /\ run[r].stage \in {"inserted", "locked", "clear"}
    /\ run' = [run EXCEPT ![r].stage = "looping"]
    /\ UNCHANGED <<masterState, facts, copies>>

\* A statement fails: this recipient is named among the skipped.
RollBackIssue(r) ==
    /\ run[r].stage \in {"inserted", "locked", "clear"}
    /\ run' = [run EXCEPT ![r].stage = "looping", ![r].now = Noone]
    /\ UNCHANGED <<masterState, facts, copies>>

\* After the last recipient the master knows that it was issued.
RunEnds(r) ==
    /\ run[r].stage = "looping" /\ run[r].left = {}
    /\ masterState' = IF run[r].issued /\ masterState \in Open THEN "SENT" ELSE masterState
    /\ run' = [run EXCEPT ![r] = NoRun]
    /\ UNCHANGED <<facts, copies>>

\* The caller goes away, or the process: what was committed stays.
RunStops(r) ==
    /\ run[r].stage \in IssueStages
    /\ run' = [run EXCEPT ![r] = NoRun]
    /\ UNCHANGED <<masterState, facts, copies>>

-----------------------------------------------------------------------------
(* A copy is a contract like any other *)

\* The trigger of migration 00007 on a change of its one party's state.
Counted(contract, state) ==
    IF contract \notin {"SENT", "EXECUTED", "DECLINED"} THEN contract
    ELSE IF state = "declined" THEN "DECLINED"
    ELSE IF state = "signed" THEN "EXECUTED" ELSE "SENT"

\* Its recipient signs or refuses.
AnswerCopy(k, answer) ==
    /\ copies[k].state = "invited"
    /\ answer = "signed" => copies[k].keyed
    /\ copies' = [copies EXCEPT ![k].state = answer,
                                ![k].contract = Counted(@, answer)]
    /\ UNCHANGED <<masterState, facts, run>>

\* withdrawHandler.  It looks whether the contract is executed before its
\* transaction, and a look may be as old as the contract, which began as SENT.
WithdrawCopy(k) ==
    /\ copies' = [copies EXCEPT ![k].state = IF @ \in {"draft", "invited"} THEN "withdrawn" ELSE @,
                                ![k].contract = "WITHDRAWN"]
    /\ UNCHANGED <<masterState, facts, run>>

\* reopenHandler: of a contract withdrawn, or that was so when it looked, before
\* somebody else reopened it.  Who signed or refused stays as he is.
ReopenCopy(k) ==
    /\ copies[k].contract = "WITHDRAWN" \/ "reopened" \in copies[k].touched
    /\ copies' = [copies EXCEPT ![k].state = IF @ = "withdrawn" THEN "draft" ELSE @,
                                ![k].contract = "DRAFT",
                                ![k].touched = @ \cup {"reopened"},
                                ![k].ajar = @ \/ Out(copies[k])]
    /\ UNCHANGED <<masterState, facts, run>>

\* saveContractFactsHandler on the copy: no request is waited for.
SaveCopyFacts(k) ==
    /\ copies[k].facts < MaxEditions /\ MayEdit(copies[k].contract)
    /\ copies' = [copies EXCEPT ![k].facts = @ + 1,
                                ![k].crossed = @ \/ \E r \in Runners : Frozen(r, k)]
    /\ run' = Crossed({r \in Runners : run[r].stage \in SendStages /\ run[r].copy = k})
    /\ UNCHANGED <<masterState, facts>>

\* sendHandler reads the copy's facts and state, and its recipient.
SendReads(r, k) ==
    /\ run[r].stage = "idle"
    /\ copies[k].contract \notin {"EXECUTED", "WITHDRAWN"}
    /\ copies[k].state \in {"draft", "invited"}
    /\ run' = [run EXCEPT ![r] = [NoRun EXCEPT !.stage = "sending", !.copy = k,
                                               !.printed = copies[k].facts]]
    /\ UNCHANGED <<masterState, facts, copies>>

\* storePartyCopy: a transaction that asks nothing again, but keeps a file that
\* is signed; the trigger counts.
SendFreezes(r) ==
    /\ run[r].stage = "sending"
    /\ LET k == run[r].copy
           file == IF copies[k].state = "signed" THEN copies[k]
                   ELSE [copies[k] EXCEPT !.printed = run[r].printed,
                                          !.crossed = run[r].crossed, !.ajar = FALSE]
           state == IF copies[k].state = "draft" THEN "invited" ELSE copies[k].state
       IN copies' = [copies EXCEPT ![k] = [file EXCEPT !.state = state, !.contract = Counted(@, state)]]
    /\ run' = [run EXCEPT ![r].stage = "frozen"]
    /\ UNCHANGED <<masterState, facts>>

\* Slip: the state of the contract is not written.
SendForgetsState(r) ==
    /\ run[r].stage = "frozen"
    /\ run' = [run EXCEPT ![r] = NoRun]
    /\ UNCHANGED <<masterState, facts, copies>>

\* The copy is sent: closed to edits again.
SendEnds(r) ==
    /\ run[r].stage = "frozen"
    /\ copies' = [copies EXCEPT ![run[r].copy].contract = IF @ = "DRAFT" THEN "SENT" ELSE @]
    /\ run' = [run EXCEPT ![r] = NoRun]
    /\ UNCHANGED <<masterState, facts>>

\* It fails or is cut off; after the freezing the recipient has a file, of a
\* contract that may be open to edits.
SendStops(r) ==
    /\ run[r].stage \in SendStages
    /\ LET k == run[r].copy
       IN copies' = IF Frozen(r, k) /\ copies[k].contract = "DRAFT"
                    THEN [copies EXCEPT ![k].ajar = TRUE] ELSE copies
    /\ run' = [run EXCEPT ![r] = NoRun]
    /\ UNCHANGED <<masterState, facts>>

\* Either side strikes off the signatory, and one is named again
\* (addSignatoryHandler): without a signatory a copy is not in the list of the
\* issued.
StrikeSignatory(k) ==
    /\ copies[k].keyed /\ copies[k].state # "signed"
    /\ copies' = [copies EXCEPT ![k].keyed = FALSE, ![k].touched = @ \cup {"unkeyed"}]
    /\ UNCHANGED <<masterState, facts, run>>

NameSignatoryAgain(k) ==
    /\ ~copies[k].keyed /\ copies[k].state \notin {"signed", "declined"}
    /\ copies' = [copies EXCEPT ![k].keyed = TRUE]
    /\ UNCHANGED <<masterState, facts, run>>

-----------------------------------------------------------------------------
IssueNext ==
    \/ SaveFacts \/ BecomesContract \/ WithdrawMaster \/ ReopenMaster
    \/ \E r \in Runners : RunReads(r) \/ RunKnows(r) \/ RunEnds(r) \/ RunStops(r)
    \/ \E r \in Runners, to \in Recipients : SkipRecipient(r, to) \/ InsertCopy(r, to)
    \/ \E r \in Runners : LockRecipient(r) \/ AskAgain(r) \/ CommitIssue(r) \/ RollBackIssue(r)
    \/ \E k \in DOMAIN copies, answer \in {"signed", "declined"} : AnswerCopy(k, answer)
    \/ \E k \in DOMAIN copies : WithdrawCopy(k) \/ ReopenCopy(k) \/ SaveCopyFacts(k)
    \/ \E k \in DOMAIN copies : StrikeSignatory(k) \/ NameSignatoryAgain(k)
    \/ \E r \in Runners, k \in DOMAIN copies : SendReads(r, k)
    \/ \E r \in Runners : SendFreezes(r) \/ SendEnds(r) \/ SendStops(r)

IssueSpec == IssueInit /\ [][IssueNext]_issueVars

-----------------------------------------------------------------------------
(* Properties *)

\* However many runs overlap, a recipient has one live copy.  Copies that were
\* reopened, or lost their signatory for a while, are not covered: another may
\* have been issued meanwhile, and reopenHandler does not ask.
OneLiveCopy ==
    \A i, j \in DOMAIN copies :
        i # j /\ copies[i].to = copies[j].to =>
            \E k \in {i, j} : ~Live(copies[k]) \/ copies[k].touched # {}

\* What a recipient holds or has signed prints the facts of the copy's record:
\* saveContractFactsHandler refuses a contract that was sent, as its facts would
\* differ from the frozen file.  That takes the freezing and the state to be
\* written in one piece, and they are not.  Out of step are the files that facts
\* were saved under while they were made, and those whose contract stayed or
\* became a draft with the file out: a sending that stopped between its two
\* writes, a reopening of what was signed, or on an old look.  No other.
PrintedIsRecorded ==
    \A k \in DOMAIN copies :
        Out(copies[k]) =>
            copies[k].printed = copies[k].facts \/ copies[k].crossed \/ copies[k].ajar
=============================================================================
