# Urtuu and its neighbours, in TLA+

This directory models the parts of `client-gerege-nexus` in which several
processes, installations or people act on shared state: first of all **Urtuu**,
the exchange of work between installations of different organisations, and
**documents**: their approval, and contracts between parties, signed by ceremonies
on phones. Around them stand the links and code lists of Urtuu, the structure of an
organisation, connectors to outside services, and reports shown to others. It holds
TLA+ modules, TLC configurations, and proofs checked by TLAPS.

    tlc -workers 2 -config ChannelOverlap.cfg MCUrtuuChannel     # check one run
    tlapm UrtuuChannelProofs.tla                                 # check the proofs

`PROJECT.json` lists every run, property, mutant, theorem and hazard, and maps
each definition to the lines of the repository it stands for.

## 1. The system

One installation serves one or more organisations (tenants) from one PostgreSQL
database. Installations are joined pairwise by *links* into a graph: the parent
of a link only answers, the child only dials. The graph may contain cycles, and
two installations may be above each other for different kinds of work.

| Part | Where | State it keeps | Operations |
|---|---|---|---|
| Channel | `modules/urtuu/channel/exchange.go`, `store.go`, `housekeeping.go` | `urtuu_outbox`, `urtuu_deliveries` (delivered_at, attempts, next_attempt_at), `urtuu_inbox` (acked_at, processed_at) | queue, push, pull, accept, acknowledge, back off, sweep |
| Peering | `channel/peers.go` | `urtuu_peers` (status, keys, `token_hash`, `invite_code_hash`, `invite_expires_at`) | invite, redeem, confirm, revoke |
| Inbox dispatch, code list | `channel/codesync.go`, `codes.go`, `ring.go` | `urtuu_request_codes`, the links' code selections | process a batch, announce and import code lists |
| Board | `modules/urtuu/handlers.go`, `tasks.go`, `envelopes.go`; `domain/urtuu` | `urtuu_tasks` (status, answer, parent, origin, chain), `urtuu_task_events` | raise, delegate, five moves, report up, two readers, roll up |
| Numbers, evidence | `modules/urtuu/numbers.go`, `evidence.go` | counter rows; JSON on the task | issue a number; attach, refresh |
| Document approval | `modules/documents/documents.go`, `workflow.go`, `policies.go`, `eidsign.go`, `contentsign.go`, `files.go`; `domain/documents/chain.go` | chain and policy of a type; document, its copy of the chain, signatures, file and signed copy; sessions | edit chain and policy, create, route, rename, attach, reject, sign a step (ceremony on a phone, or DAN's code) |
| Contracts | `modules/documents/parties.go`, `partysign.go`, `sending.go` | parties, contract status (a trigger counts), frozen copy | send, sign, refuse, withdraw, reopen |
| Invitations | `modules/documents/invite.go`, `inbox.go`, `partysign.go` | links, signatories, the ceremony on a party's row | invite, name, strike off, begin, poll, refuse by each of three doors |
| Issuing | `modules/documents/issue.go`, `contractlist.go`, `sending.go` | copies of a master, their facts and frozen files | issue under an advisory lock, edit, withdraw, reopen, send a copy anew |
| Organisation | `domain/organisation/service.go` | tree of units, memberships | create, move, archive, delete; place, deactivate |
| Integrations | `modules/integrations/*` | OAuth states and tokens; the log of deliveries, the rest of them in memory | connect, renew, disconnect; dispatch, retry |
| Reports | `domain/reports/service.go`, `modules/reports` | agreements and schedules, in the platform's tables | ask, agree, end, run over several organisations; schedule |
| The rest | e-government lookups, providers, rendering, `main.go` | none of its own, or single statements | reads and calls outward |

How they meet: the board queues envelopes through `link.Enqueue`/`EnqueueTx` and
is called back by `ProcessInbox` with each verified envelope; the channel moves
rows between outboxes and inboxes; peering decides which links are live; the
code list decides which assignments an office accepts.

What is hard: a round of the channel may fail at every step, and an operator's
"sync now" overlaps the loop's; every board handler is a series of separate
transactions with the rest of its work in memory only; envelopes overtake one
another on the backoff; an envelope can be read twice; two branches finish at the
same moment. The full list, each at its line, is in `PROJECT.json` under `hazards`.

What makes each part correct:

* channel: nothing counts as delivered that was not stored; nothing is executed
  again after the inbox forgot it; what can be delivered is, and both sides learn it;
* board: work never returns to an office it has passed through; one assignment
  makes one task; a mirror never claims more than the work below; a roll-up means
  that everything below is done, and happens once it is; the answer arrives with it;
* peering: an active link was redeemed with its own key, and an invitation serves
  one installation;
* code list: what is authored here stays, a definition does not go back, and only
  its source withdraws a code;
* numbers and evidence: a register has no gap; what was attached or arrived is not
  erased by a refresh;
* approval: whom a document waits for can sign it; approved is exactly complete; no
  file holds a signature the ledger lacks; what was decided stands;
* contracts: a signature is its ceremony's and its signer's; a contract is executed
  only when everyone asked has signed; answers are never rewritten;
* issuing: a recipient has one live copy; a file out with its recipient differs from its
  record only where facts were saved while it was made, or the contract stayed or became
  a draft with the file out;
* organisation: the units form a tree, and every organisation keeps an administrator;
* integrations: a renewal token is presented once; the log tells what happened;
* reports: nobody sees more than its owner agreed to.

Where the code keeps one of these only up to some overlap of requests, the property
names the overlap, and section 2 says what happens there.

## 2. Modules

| Module | What it is |
|---|---|
| `UrtuuDelivery` | What a link promises: send, store, settle, in that order and for good. |
| `UrtuuChannel` | The transport of one link; implements `UrtuuDelivery`. |
| `UrtuuChannelProofs` | Theorems about it. |
| `UrtuuStatus` | The states of a task, their order, and when news supersedes. |
| `UrtuuBoard` | One piece of work on the boards of several installations, above the promise of `UrtuuDelivery`. |
| `UrtuuBoardProofs` | Theorems about it. |
| `ContractParties` | One contract: its issuer, its parties, their ceremonies and the trigger that counts them. |
| `ContractPartiesProofs` | Theorems about it. |
| `DocumentApproval` | Documents of one type: chain, policy, ceremonies, signatures, file. |
| `ContractInvitations` | One party of a contract and its three doors: link, inbox, issuer. |
| `ContractIssue` | A master contract and the copies that overlapping runs make of it. |
| `DocumentsProofs` | Theorems about these three, and about `MCDocuments`, which puts them side by side. |
| `UrtuuPeering` | How a link comes to be and ends. |
| `UrtuuCodes` | The vocabulary of one organisation and its three sources. |
| `UrtuuNumbers` | Registers of tasks. |
| `UrtuuEvidence` | The documents a task refers to. |
| `UrtuuSideProofs` | Theorems about these four. |
| `Organisation`, `OrganisationProofs` | The tree of departments, memberships, and theorems about them. |
| `IntegrationGrants`, `IntegrationDeliveries`, `IntegrationProofs` | One connector's grant; events on their way to subscribers; theorems about both. |
| `ReportSharing` | Agreements to show a report, and schedules. |
| `AroundProofs` | Theorems about it, and about `MCAround`, which puts the eight modules above side by side. |
| `MCUrtuuChannel`, `MCUrtuuBoard`, `MCContractParties` | Small constants for TLC. |
| `MCDocuments`, `MCAround` | Small constants for several modules that share no state, one of them at work in each behaviour. |

How they compose: `UrtuuChannel` implements `UrtuuDelivery`, and `UrtuuBoard` takes
its envelopes from there (queued, delivered in any order, read more than once).
`UrtuuPeering` ends where `UrtuuChannel` begins, with both rows active. `UrtuuCodes`
is the detail of the board's code list that lags. `ContractInvitations` is the detail
of "who signs" in `ContractParties`: there a party has a fixed set of signatories and
its ceremonies expire, here people are named and struck off meanwhile.

Operators called *Slip* in a comment are not part of any specification. Each is a
plausible mistake in the code at that point; put in the place of the definition
that follows it, it makes TLC report the property it is paired with.

### UrtuuChannel

The state is the rows of both databases for one link (`delivery`, `pause`, `age`,
`inbox`, `held`, `acked`, `link`) and the conversations in progress (`conv`). A
conversation is one `exchangeOnce` on the child with the parent's handler it is
talking to; its stages are the points between two commits or two messages:

    idle -Book-> booked -Report-> reported -TakeReport-> accepting -AnswerReport->
    answered -SettleReport-> settled -SettleAcks-> asking -AskPull-> polling
    -OfferEnvelopes-> offered -EndRound-> idle

`AcceptEnvelope` and `RefuseBatch` are the loop of `accept`, on the parent while
"accepting" and on the child while "offered". `BreakOff` is everything that can
end a conversation: a lost request or answer, a timeout, a failed statement, a
crash of either side. It loses what was in memory and nothing else.

What is abstracted, and why it does not matter to the properties:

* the backoff (30 s doubling to six hours) is *any* pause up to `MaxPause`, and
  the order in which due envelopes are taken is any order;
* time is kept as ages, stopped at `Horizon`;
* a parent's handler that outlives the child's request is not a separate process;
  a second conversation over the same rows does what it would do;
* signatures and hashes: `accept` verifies them first, and an envelope that fails
  never comes from the other side of this link;
* `last_seen`, `last_error`, skew statistics, and the pruning of settled
  deliveries, whose rows nothing reads again.

A stale envelope (older than `MaxAge`) is never dropped: `RefuseBatch` refuses
every batch it is in, without naming the others, and the failed push skips that
round's pull. The model keeps this.

### UrtuuBoard

`rows` are the `urtuu_tasks` of all installations. `origin` of a row is the
mirror it was made from at the office above; in the code the pair
(origin_peer_id, origin_task_id). `done` and `rolled` are events of the row that
the properties refer to. `mail` are envelopes queued and not yet marked read. A
handler commits its transactions one by one and holds the rest of its work in
memory: an element of `todo` is such a rest.

| Code | Actions |
|---|---|
| `handleCreateTask` | `Raise` (once: one piece of work) |
| `handleDelegate` | `Delegate` (branches and envelopes), `FinishDelegate` (the move), `ReportUp` |
| `transition` | `GiveAnswer` (its own UPDATE), `Act` (the move), `ReportUp`, then the roll-up of the row above |
| `rollUp` | `CountBranches` (count, gather), `RollUp` (the move), `ReportUp`, then the row above |
| `receiveAssignment`, `receiveUpdate` | `ReadAssigned`, `ReadUpdate`, with `MarkRead` of `ProcessInbox` |
| a crash, or an error only logged | `Lose` |
| `lookupCode`, `domain.AssignmentRefusal` | `Known`, `AssignmentRefusal` |
| the arrival of a code list | `LearnCode` |

`move` locks and writes one row in one transaction; the read of the row that
follows it is taken in the same step. `CountBranches` joins the count with the
gathering of answers, two statements without a transaction: between the two a
branch's answer cannot disappear, so only a later answer could be gathered.
Titles, notes, deadlines, numbers and evidence are left out.

`Careful` names what the operators of a run refrain from although the code
allows it. Without the named restraint a property can fail, and this is recorded
rather than hidden:

* `"delegate"`: nobody delegates a task that may not be delegated. `handleDelegate`
  commits the branches before it finds out (the caller is told 409, the work has
  been sent); a roll-up may already have counted.
* `"mirrors"`: nobody moves or delegates a mirror by hand. `tasks.go` says a mirror
  is never moved by a person; nothing in `transition` prevents it. Closing is allowed.
* `"close"`: only the task raised here is closed. A branch completed and then closed
  stops the roll-up above for good: the run `BoardCloses`.

### ContractParties

The state is the contract's record (`contract`), the columns of a party's row that
decide anything (`party`, `session`, `by`, `aged`), its frozen copy, its signature,
and the ceremonies the signing rail was asked for (`rail`). A copy is the number of
its freezing: each rendering has its own bytes. The rest is work in progress: `tx`
is the open transaction on a party's row, and the lock of that row; `sends`,
`starts` and `polls` are handlers between two statements; `checked` are requests of
the issuer whose check is already old.

| Code | Actions |
|---|---|
| `addPartyHandler`, `removePartyHandler` | `AddParty`, `RemoveParty` |
| `withdrawHandler`, `reopenHandler` | `Withdraw`, `Reopen` |
| the check of these four, when it is out of date | `Check` (which requests: `Stale`) |
| `sendHandler` with `storePartyCopy` | `SendRead`, `OpenCopy`, `CommitCopy`, `SkipParty`, `SendFinish`, `SendAbort` |
| `signerFor`, `startPartySignature` | `StartRead`, `StartLocked`, `StartRefused` |
| `pollPartySignature`, `recordPartySignature` | `PollRead`, `PollFailed`, `PollEnds`, `OpenSign`, `CommitSign` |
| `markViewed`, `markViewedByInvite` | `OpenView`, `CommitView` |
| the three decline handlers | `OpenDecline`, `CommitDecline` |
| a failed transaction | `Rollback` |
| the rail, the citizen, the clock (external) | `CitizenAnswers`, `TwentyMinutes` |

The trigger `documents_refresh_contract_state` runs inside the statement that
changes a party. It counts on a snapshot, then waits for the lock of the record,
and PostgreSQL asks its WHERE clause again but keeps the count. So a transaction
takes its `Verdict` when it opens and writes it, `Judged`, when it commits; other
transactions may commit between the two.

What is abstracted:

* `AddParty`, `RemoveParty`, `Withdraw` and `Reopen` are one step apart from their
  check: they hold the locks they need until they commit. `sendHandler` reads the
  contract and the parties in one step: after a withdrawal between the two reads it
  finds no party to send to, which is also a step of the model;
* `sendHandler` takes the parties in any order, where the code takes them in theirs;
* a ceremony that the rail opened and the row refused is not kept: its number is
  written nowhere, so nobody can ask for it;
* who signs is any registered signatory that has not signed; nomination and links are
  in `ContractInvitations`; audience, titles and events are left out; `expired`, which
  nothing writes, is left out too;
* a removed party does not come back: adding it again makes another row.

### DocumentApproval

Documents of one type, with the type's chain and policy. `making` are transactions
that have read the chain and not committed; `ceremony` are the rows of
`document_eid_sign_sessions` together with the phones; `ledger` is
`document_signatures`.

| Code | Actions |
|---|---|
| `ReplaceWorkflow`, `SaveSignaturePolicy` | `SaveChain`, `SavePolicy`, each one transaction under the type's advisory lock |
| `CreateDocument`, `RouteDocument` with `snapshotApprovalChain` | `Create`, `Route` (the chain is read), `MakeCommit` |
| `RejectDocument`, `RenameDocument` | `Reject`, `Rename` |
| `AttachFile` | `AttachCheck`, `AttachWrite` |
| `StartEIDSignature`, `startContentSignature` | `StartPush`, `InsertSession`, `InsertFails`, `RetireOlder` |
| `PollEIDSignature`, `pollContentSignature` | `SignByApproval`, `SignContent`, `ApprovalEnds`, `ContentEnds` |
| `SignWithDAN` | `SignDAN` |
| `writeSignature`, `checkSigner`, `nextApprovalStep` | `Fills`, `MayWrite`, `MaySign`, `IsNext` |
| the phone (external) | `Approve` |

A signature is one transaction under the lock of the document's row, so it is one
action; what it asks again there (status, policy, chain) is its guard. Whether a
request is past its time is any moment, since no property depends on how long.
`FillableChain` is applied when the chain is copied: `Legacy` holds chains stored
before `ValidateChain`, which name somebody twice. Certificates and digests, lists and
searches are left out.

What the code does outside the properties:

* two PAdES ceremonies begun from one copy: the file keeps the signature recorded
  last, the ledger both (`OnlySignersInFile` is the direction that holds);
* `CreateDocument` takes no part in the advisory lock, so a document made while chain
  and policy are edited can wait for a signature nobody may give (`overtaken`);
* `AttachFile` counts signatures in one statement and inserts in another: a signature
  in between then stands on a document whose file was replaced;
* two starts of one citizen can each retire the other's row.

### ContractInvitations

One party. A request reads the party first and writes in a later statement: `visit`
is what each request by the link has read, `admitted` the requests from inside that
passed their check. A signatory's INSERT begins and commits at different moments,
since a second naming waits for the first on the unique index.

| Code | Actions |
|---|---|
| `createInviteHandler`, `revokeInviteHandler` | `CreateInvite`, `RevokeLink` |
| `openInvite`, `inviteShowHandler`, `inboxShowHandler` | `OpenInvite`, `ShowByLink`, `ShowInside`, `VisitEnds` |
| `inviteNominateHandler` | `NominateByLink`, `Named` |
| `addSignatoryHandler`, `inboxNominateHandler` | `NameCheck`, `Name`, `Named` |
| `removeSignatoryHandler`, `inboxWithdrawNomineeHandler` | `StrikeOff` |
| `signerFor` with the three sign/start handlers | `SignByLink`, `SignInside`, then `Push`, `PushRefused` |
| `pollPartySignature`, `recordPartySignature` | `PollReads`, `PollStops`, `PollClears`, `RecordSignature` |
| the decline handlers, `withdrawHandler`, `reopenHandler` | `DeclineByLink`, `WithdrawSide`, `ReopenSide` |
| the phone, twenty minutes (external) | `PhoneAnswers`, `CeremonyAbandoned` |

`DeclineByLink` stands for a refusal by any door: the UPDATE is the same, and a door
that asks more can only refuse more. The link's counter of openings, its token and
rate limits are left out; a link past its time lets nobody in, which is a link without
visits. Outside the property: `inviteNominateHandler`'s comment says that nobody can be
named twice, but its question sees only what is committed, so two at once name two
people, of whom one can sign; an expired link that was not revoked makes a new one fail; striking
off the person whose ceremony runs makes its polls fail until it is abandoned.

### ContractIssue

`run` is a request at work, statement by statement. For `issueHandler`: `RunReads` (the
master, its facts, the list), `RunKnows` (`issuedKeys`), then for each recipient
`InsertCopy`, `LockRecipient` (`pg_advisory_xact_lock`), `AskAgain`, `CommitIssue`, or
`RollBackIssue`; `RunEnds` marks the master, `RunStops` is a caller or process that goes
away. For `sendHandler` on a copy, which is a contract like any other: `SendReads` (its
facts and its recipient's state), `SendFreezes` (`storePartyCopy`, a transaction that asks
nothing again), `SendEnds` (the contract is marked SENT), or `SendStops` at any point.

`saveContractFactsHandler` is `SaveFacts` on the master and `SaveCopyFacts` on a copy, each
whenever the contract's state allows it and whatever requests are at work; a copy's
`contract` is that state, and `Counted` is what the trigger of migration 00007 makes of
it. `AnswerCopy`, `WithdrawCopy`, `ReopenCopy`, `StrikeSignatory` and `NameSignatoryAgain`
are what else happens to a copy. A recipient is the key `issueKeyOf` makes. Reading the
uploaded list, rendering and the preview are left out.

Outside the properties: a copy withdrawn, replaced by another run and then reopened
makes two live ones (`touched`). And the file a recipient holds may print other facts than
its record has, although `contractlist.go` refuses to edit a contract that was sent for
exactly that reason. There are two ways. Facts are saved between the reading and the last
write of the request that makes the file (`crossed`): on the first issue of a master that
is still open, or on a copy that was reopened and is sent anew. Or a contract is open to
edits with its file out (`ajar`): a sending cut off between the file and SENT, a reopening
of what was signed, or one on an old look. `PrintedIsRecorded` says that there is no other.

### UrtuuPeering, UrtuuCodes

`UrtuuPeering` has the rows of both sides: `above` for those that invite, `below` for
those that join. `handleInvite` is `Invite`, `handleJoin` is `Join` and, after the
answer, `Activate` or `JoinFails`; `HandleRedeem` is `Redeem` or `RefuseRedeem`;
`handleConfirm` is `Confirm`; `handleRevoke` is `RevokeAbove`, `RevokeBelow`. The
request may be lost (`RequestLost`) or its answer (`JoinFails` from "accepted").
Outside the property: a revocation below, made while the parent is being asked, is
undone by `Activate`; after a lost answer the code is spent and the row below stays
pending.

`UrtuuCodes` is one organisation's `urtuu_request_codes` with its three sources:
`CreateCode` and `UpdateCode` here, `FetchRegister` and `StoreImport` (`ring.go`,
`importRing`) with the tag in memory, and `ReadSnapshot` (`receiveCodeSync`) of
announcements made by `SetPeerCodes` above, in any order and again. Versions are
numbers. `Parsed` is what `convertRingProcesses` leaves of the register, which may not
speak of local codes; a register whose signature does not hold is not read at all.
Outside the property: an older list removes what a newer one opened, although
`codesync.go` says that the version of each code settles the order; and one tag serves
all organisations, so a failed import is not repeated until the register changes or the
process restarts.

### UrtuuNumbers, UrtuuEvidence

`UrtuuNumbers`: a transaction (`BeginRaise`, `CommitRaise`, `RollBackRaise`) takes
numbers (`NumberTask`, `NumberMirror`) and holds the counter's row until it ends; a
task's number is of the year of its request, a mirror's of the year it is by then.

`UrtuuEvidence`: a request reads the list (`ReadTask`, `MoveTask`), and writes it back
whole (`AttachDocument`, `Refresh` then `SaveEvidence`), without a lock. `SignDocument`
and `LoseDocument` are the register of documents. On a mirror the news from below brings
its own list, and `ReceiveUpdate` puts it in the place of ours; there is nothing to report
upward, so nothing is refreshed. Outside the property: what was attached while another
request held an older list, or after the task was given away, is lost (`overtaken`).

### Organisation

Every refusal of the service is a check in one statement (`CheckMove`, `CheckRestore`,
`CheckDelete`, `CheckDeactivate`) and a write in another (`WriteMove` and so on);
`request` holds what was checked. `CreateDepartment` and `PlacePerson` are one
statement, checked by a foreign key. `IsDescendant` is the recursive query, written as
the least set closed under children. Names, codes, managers and job titles are left out.

Outside the properties: two overlapping moves tie a knot (`crossed`), and from then on the
recursive walk over it does not end; two overlapping deactivations leave no administrator
(`emptied`); a unit restored can stand under one archived meanwhile; a person placed in
a unit while it is being deleted loses the department.

### IntegrationGrants, IntegrationDeliveries

`IntegrationGrants` is one connector: `BeginConnect`, `RedeemState`, `ExchangeCode`,
`SaveGrant` are the consent; `TakeToken`, `TurnsStale`, `Renew`, `StoreRenewed` are
`accessToken` and `refreshAccess` with the process's lock; `ProviderRenews` and
`RenewFails` are the provider (external), which may replace the renewal token and lose its
answer; `Restart` forgets what was in memory. Tokens are numbered as they are given
out. One process is assumed, as the lock is one process's. Outside the property: a
renewal under way writes its grant over a disconnection or a new consent.

`IntegrationDeliveries`: `DispatchEvent` starts deliveries; `TakeSlot`,
`GiveUpWaiting`, `Accepted`, `Refused`, `NotNow`, `Resend` are `deliver`, which keeps
its slot through the pauses; `PruneLog` is the sweep; `ProcessStops` loses what is in
memory, without a row. `NotNow(d, TRUE)` is an attempt that was taken and whose answer
was lost: a receiver may see the event again, with its id.

### ReportSharing

`Ask`, `ReadOwnNumber`, `CreateGrant` are the statements of `RequestGrant`;
`AcceptGrant`, `RevokeGrant`; `Resolve` and `RunConsolidated` are
`handleRunConsolidated`; `CheckSchedule`, then `CreateSchedule` or `UpdateSchedule`;
`DeleteSchedule`. Between any two of them an organisation may change its registration number or
its applications (`EditNumber`, `InstallOrRemove`). The rows of agreements and the
engine are the platform's, taken from how this code uses them. Reading and exporting
one's own reports, and the audit log, are left out. A schedule can be saved for an
application removed after its check; the engine is left to refuse it.

## 3. Runs

Passing runs:

| Run | What it asks | Bounds, and why they are enough |
|---|---|---|
| `ChannelOverlap` | `TypeOK`, `SettledIsStored`, `AckedIsSettled`, `StoredOnce`, `KeepsPromise` | One envelope each way, two conversations at once (symmetric), one broken off; ages run past `MaxAge` and `InboxRetention`, so sweeps and refusals happen. Envelopes only meet in a batch, and a batch is accepted one by one. |
| `ChannelSettles` | `EverythingSettles`, `HeldSettles` under fairness | Two envelopes down and one up, in one batch, each in time or already stale; one fault. `Horizon = MaxAge`: an envelope in time stays so, as the seven days are far longer than the backoff. |
| `BoardTravels` | `MirrorCatchesUp`, `RolledUpIsDone`, `DelegatedCompletes` under fairness | A ministry over two agencies; both branches at once or one later, or the same agency twice; two handlers or readers at a time, so that two roll-ups overlap. One agency's operators may do all the code allows them; the other's accept and complete (`SouthIsPlain`), so that the two differ in how much news each sends. Only operators are bound, nothing that fairness is about. |
| `BoardLoses` | `TypeOK`, `TakenOnce`, `NoOfficeTwice`, `MirrorNotAhead`, `AnswerTravels` | Two offices above each other, a service request; five rows, one more than work can make before the cycle guard must act; two envelopes on the way at once, so that one overtakes the other (`TwoOnTheWay`); a code list that lags; one lost step or one repeated reading. |
| `ContractAnswers` | `TypeOK`, `AnswerStands`, `SignatureIsTheCeremonys`, `ExecutedByAll`, `WithdrawnIsClosed` | Two required parties, alike, one person each; one send under way at a time, two freezings, two ceremonies; withdrawal may be decided on an old state. Where one party is `alone`, two starts or polls are at work and its ceremony can expire and be replaced while a poll still holds it; where there are two, one start or poll at a time and ceremonies that last: what two parties have in common is the count, not their ceremonies. More people, sends and ceremonies are covered by the theorems. |
| `DocumentsDecide` | `NamedCanSign`, `ApprovedIsComplete`, `OnlySignersInFile`, `SpentIsSigned`, `NotStranded`, `RecordStands`; `SignedIsNamed`; `OneLiveCopy`, `PrintedIsRecorded`; `TypesOK` | One document, two citizens, every chain of at most two steps (open, named, named twice in the old way), every policy, two edits beside one ceremony or one beside two: a chain needs two steps for one signature to take another's, and two ceremonies to overlap; `ApprovalInit` starts from whatever earlier edits left. One party, two people, one request by the link and two others at a time, two rows of signatories, two ceremonies. One recipient, two requests, two copies, of which the first may be reopened or lose its signatory, one change of facts of each contract while there is one copy; two sendings of it overlap while nobody issues: locks and lists are per recipient, and a sending reads and writes its own copy only. The bounds between the components' own are `Within` of `MCDocuments`. |
| `AroundHolds` | `LinkIsEarned`, `VocabularyIsKept`, `RegisterHasNoGap`, `EvidenceStays`, `StructureIsTree`, `AdminRemains`, `SpentOnce`, `RowPerEvent`, `SharedIsAgreed`; `TypesOK` | Two invitations and two attempts to join; two links, three announcements, two versions, one code authored here or one published; one register in two years, two transactions, three numbers; two documents filed here and one elsewhere, two requests, on a task of ours or a mirror; three units (two moves that overlap tie a knot of two, and a third unit between them one of three), two administrators, two requests of which one at most restores or deletes, one unit archived and one person placed at a time; two consents, two exports, six tokens; three events, two slots, two tries; two organisations, two numbers, one report at a time, two agreements, two schedules. |

`TravelSpec`, `LossySpec`, `AloneSpec`, `DocumentsSpec` and `AroundSpec` of the MC modules
take the modules' own steps and leave some out, as the table says; the theorems are
about the specifications without these bounds. That `DocumentsSpec` and `AroundSpec`
really are such specifications, for any values of their constants, is itself proved
(`SideBySide`, `EightSideBySide`).

`atWork` in the last two names the component that moves in a behaviour: they share no
state, so checking each beside the others would only multiply the states. For the same
reason `AroundHolds` works on one kind of code and one report at a time: `ReadSnapshot`,
`Upsert` and the agreements treat each by itself. The components share names in
`AroundHolds` (`x1` to `x3`, `y1`, `y2`), so that one symmetry serves all of them.

Runs that end in a counterexample, each quoting a statement of the repository
that the code does not keep (`PROJECT.json`, `findings`):

| Run | What the code does |
|---|---|
| `ChannelLostAck` | `HandlePush` only logs a failure to settle acknowledgements and answers 200. The child then strikes them off ("the parent settled these when it answered"). The parent repeats the envelope for ever, and once it is older than `MaxAge` it spoils every batch it is in. |
| `BoardCloses` | `rollUp` waits for branches that are not COMPLETED. A branch completed and then closed before the count is outstanding for ever, though "it completes when they all do". |
| `BoardTies` | IN_PROGRESS and DELEGATED have one rank, and equal ranks pass. The two updates read in the other order leave the mirror at IN_PROGRESS, though Rank is there so that they "settle the same way round". |
| `ContractResent` | `pollPartySignature` compares the frozen copy with the digest stored beside it, not with what the phone was given. A contract sent again during a ceremony replaces the copy, and the old text's signature is recorded over the new one, though "if the bytes change during the ceremony, the signature is not accepted". |
| `ContractCounts` | A party is invited before `sendHandler` marks the contract sent, and the trigger leaves a draft alone. A party that signs in between is not counted, and nothing counts again: all signed, and SENT for ever. Two last signatures recorded at once end alike, since neither count sees the other. |

With one party each these two need nothing else; they are small on purpose.

`ContractAnswers` takes `Stale = {"withdraw"}`. The other checks can be late too, and
then the code does break: a party added late to a contract that was withdrawn is a
draft in it (`WithdrawnIsClosed`), and a contract reopened late becomes a draft while
a signature is being recorded, gains a party, and is then written EXECUTED without it
(`ExecutedByAll`; this takes `Stale = {"reopen"}` and `MaxFreezes = 3`). Both need two
requests of the issuer's own staff to race; the theorems name them (`InTime`). A
contract that was executed between the check and the write of a withdrawal becomes
WITHDRAWN; its signatures stand.

`CHECK_DEADLOCK FALSE` throughout: a link with nothing queued, a piece of work that
is closed, a contract with its answers, or an office with nothing to do may rest for
ever.

Two things the board code never repairs are assumed away where a property says
so (`faults = 0`, or "if no step of the way is lost"). A process that stops between
`receiveUpdate`'s commit and `rollUp` leaves the task delegated: the repeated
envelope is superseded by itself and nothing counts again. A report lost after a
move leaves the mirror behind until the next move.

Fairness. `exchangeLoop` starts a round after every round and every call in it
has a timeout: `WF(Converse(w))`. Time passes: `WF(Tick)`. The loop drains the
inbox every round: `WF(Read)`. A handler runs to its end unless it is lost:
`WF(Continue)`. Nothing is assumed of operators, administrators or faults.

## 4. Proofs

All theorems hold for every value of the constants that meets the named
assumptions, for any number of envelopes, conversations, offices and rows.

`UrtuuChannelProofs`:

* `TypeCorrect`: `Spec => []TypeOK`.
* `NoSettledLoss`: `Spec => []SettledIsStored`. Not inductive as it stands: a
  delivery is settled from an acknowledgement held in a conversation's memory. The
  strengthening `BackedByTables` says that what a conversation carries is queued
  and what it acknowledges or names is stored; `PushGoesUp` says on which side.
* `ReplayDefence`: `Spec => StoredOnce`. Needs `RetentionOutlastsAge` (180 days
  against 7 days and 5 minutes). The strengthening `AgesAgree` says that an inbox
  row is never older than its envelope by more than the skew, so that a swept row's
  envelope is past `MaxAge` and `accept` refuses it.
* `AcksReachTheParent`: `Spec => []AckedIsSettled` if the parent's settling
  statement does not fail; by `AcksAreSettled`, the same fact inside a conversation.
  `ChannelLostAck` is what remains without that assumption.
* `LinkKeepsPromise`: `Spec => KeepsPromise`, the refinement of `UrtuuDelivery`.

`UrtuuBoardProofs`: one inductive invariant `BoardInv`, the conjunction of the
four properties. Types alone are not inductive, since a reader indexes `rows` with
an id out of an envelope; `BoardsConnect` says the ids are there and name mirrors,
and it needs the types of the rows. Every action either rewrites status, answer and
events of one row (`RewriteKeeps`), leaves the boards alone (`SameBoardsKeep`) or
adds rows (`GrowthKeeps`); each action's lemma puts it into one of the three.

* `TypeCorrect`, `PointersHold`: `[]TypeOK`, `[]BoardsConnect`.
* `ReadOnce`: `[]TakenOnce`; an assignment read any number of times makes one task.
* `WorkEnds`: `[]NoOfficeTwice`; in any graph of links, cycles included.
* `NothingTakenBack`: `[][Rises]_vars`, whatever operators do. Ranks, answers and
  completions only grow and a row stays where it belongs, since every write passes
  `CanMoveTo` or `SupersededBy`.

The theorems about news assume of the operators what `Careful` names, each only what it
needs; all other interleavings, losses, repetitions and the number of offices are free.
They rest on `StepFrom`, which says of a step where everything it changes comes from: a
mirror follows an envelope (`MirrorFrom`), a task its operator or a roll-up (`TaskFrom`,
`RolledFrom`), a new row an assignment or a mother (`RowFrom`), an envelope a handler
(`NewsFrom`), a handler a move or a handler before it (`HandlerFrom`), and an envelope or
a handler that is gone did its work, or there is one fault more (`MailFrom`, `EndsFrom`).
`EveryStepFrom` proves it once, action by action, from `BoardInv` and `TasksOnly` (no
handler works on a mirror, which needs `"mirrors"`); what follows is about `StepFrom`.

* `AnswerArrives`: `[]AnswerTravels`, with `"mirrors"`. `Told`: news of a completion
  carries the answer in the envelope and in the handler already.
* `RollUpIsTrue`: `[]RolledUpIsDone`, with `"mirrors"` and `"delegate"`. `DoneNews`: news
  of a completion, and a mirror that is complete, have a task behind them that is done.
  `RollsRightly`: whoever is to complete a task counted branches all of which are done,
  and since then no branch was added.
* `NewsIsNeverEarly`: `[]MirrorNotAhead`, with `"mirrors"` and `"close"`, from `Ranks`:
  no envelope and no handler is ahead of the task it tells of.
* `NewsIsNeverLost`: `[]MirrorCatchesUp`, the same assumptions, from `Catching`: while
  nothing is lost, a task is not ahead of its mirror unless there is an envelope or a
  handler that is as far (`OnTheWay`), and an assignment not yet read is all the news
  there is of its mirror (`FirstNews`).
* `RollUpIsNotMissed`: `[]RollsUpAtRest`, with all three: when no envelope and no handler
  is left and nothing was lost, no task is still delegated whose branches are all done.
  It is what `DelegatedCompletes` says, without time: that a rest is reached is
  TLC's. `SomebodyCounts`: while nothing is lost, a task whose branches are all complete
  and that can be completed has a handler that has still to count them or to complete it.
  Two roll-ups at once, or one that counted before the last branch, leave the last to
  count; and whoever is to complete has the answer the service line asks for
  (`AnswerAtHand`). `Returns` tells a refused branch from a completed one, which `Rank`
  cannot: news of a return stands for a task that came back or was never taken.

With any of these assumptions dropped TLC finds the property violated on boards of the
size of `BoardTravels` or `BoardLoses`, but for `"mirrors"` in `RollUpIsNotMissed`, where it found
nothing: there the proof needs it and the fact may not.

`ContractPartiesProofs`, for any parties, orders of signing, signatories, sends and
ceremonies:

* `TypeCorrect`, `CeremoniesClose`, `DraftsAreClean`: from the inductive invariant
  `RowInv`. `Locked` says that a row an answer has locked can still be answered, and
  `Copying` that each copy under way has its own transaction; without them a commit
  could write over a withdrawal. `NotSent` is `DraftHasNoCopy` for parties that are
  not there as well: a removed party's copy must be gone.
* `AnswersStand`: `Spec => AnswerStands`, for every `Stale`, from `RowInv` with
  `SignedIsSigned` (who has signed has a signature, and nobody else).
* `SignatureIsHis`: `[]SignatureIsTheCeremonys`, from `RailInv`: every ceremony on a
  row, in a poll and in a transaction was asked of the rail for that party and person;
  `RailKept`: what the rail was asked for does not change.
* `WithdrawnStaysClosed`: `[]WithdrawnIsClosed` if `InTime`; `Verdicts` says that no
  transaction carries a verdict that would bring a contract back.
* `ExecutedContract`: `[]ExecutedByAll` if `InTime`. `Sound` says that whoever will
  write EXECUTED counted everybody's signature or is recording the last one, and
  `SignedWhileSent` that the contract stays sent while it does: its row is locked, so
  no withdrawal can pass. So a stale count can lose an execution, never invent one.

`DocumentsProofs`, for any documents, citizens, chains, people, runs and bounds:

* `SideBySide`: what the run `DocumentsDecide` checks implements `ApprovalSpec`,
  `InvitationSpec` and `IssueSpec`: a step of one component is a step of its own and a
  stutter of the other two. `TypesCorrect`: `DocumentsSpec => []TypesOK`, from it and the
  invariants below.

* `ApprovalInv` for the approval. `LedgerInv` says that a copied chain
  names nobody twice, that each signature keeps to the name of its step, and that nothing
  is signed before it waits. The lemmas `NextStep` and `SignerFits` get from it that the
  next signature fills the next unfilled step and is nobody's whom a later step names
  (`NamedSignersCanSign`, `ApprovalIsComplete`).
  `ReadRightly` says that a chain a transaction has read is still the type's unless it
  was edited since: `PolicyStrandsNone`. `CeremonyInv` says that the copy a ceremony
  started from holds only signatures the ledger has: `FileHoldsSigners`,
  `RequestsSpentBySigning`. `WhatWasSignedStands` is the action property from the same.
* `PartySignsThroughOne`: `InvitationInv`, with `CeremonyIsTheirs`: the ceremony on the
  row, and every poll's, was pushed for the row it will mark as signed.
* `CopiesAreSingle`, `PrintsAreRecorded`: `IssueInv`. `LocksHeld` says that two runs are
  never past one recipient's lock and that a run which has asked again knows of no live
  copy; `Untouched`, that a copy left alone still counts. `PrintsKnown`: what a request
  prints is in the row unless that was saved since it read (`crossed`). `OpenIsWatched`:
  a draft whose file is out is being sent, unless it is known to be out of step; so an
  edit that is not refused always finds a sending to mark, or a file marked already.

`UrtuuSideProofs`:

* `LinksAreEarned`: a key stays with its invitation, since the statement that stores it
  clears the code (`KeysAreFinal`, `RequestsAreGranted`).
* `VocabularyKept`: an action property; needs only that a code which is not there has an empty row.
* `RegistersHaveNoGap`: `NumbersFollow` says that an open transaction has the numbers
  after the counter, and one transaction at most a given register's.
* `EvidenceKept`: `ListKeeps` says that a list held by a request has everything it
  read; what was attached meanwhile, or is not in the news, is known to be lost.

`OrganisationProofs`: `TreeStands`. A checked move carries a witness, a set of units
that holds the moved one and what is below it and not the new parent (`MoveIsSafe`);
creations, deletions and moves to the root leave such a set, and another move marks the
check outdated. `SomebodyAdministers`: `SomebodyStays`, in the same way.

`IntegrationProofs`: `TokensSpentOnce`: one caller at the lock (`OneAtLock`), what it
presents is the row's and current (`HolderIsCurrent`, `RowIsCurrent`), and a token not
yet stored is nobody else's (`Fresh`). `LogTellsTruth`: until a delivery is over it
has written no row (`Silent`), and what was taken without a lost answer ended it.

`AroundProofs`: `TypeCorrect`, and `SharedRightly`: scope and reference are
decided when an agreement is asked for (`AskedRightly`, `GrantedRightly`). For
`MCAround`, `EightSideBySide` (what the run `AroundHolds` checks implements each of the
eight specifications) and `EightTypesCorrect`, `AroundSpec => []TypesOK`.

Every safety and action property a passing run checks is a theorem. Model-checked only
are the liveness properties (`EverythingSettles`, `HeldSettles`, `DelegatedCompletes`),
since fairness and ENABLED are out of the prover's reach.

## 5. Not modelled

Everything without a module is listed in `PROJECT.json` with the reason. E-government
lookups, providers, rendering and start-up keep no state that two actors could disagree
about; the import of a list of parties is `AddParty` many times after one check;
cryptography is taken to work. The batch of a hundred that `ProcessInbox` takes is left
out: a hundred envelopes of a kind nobody reads stop it, until the sweep deletes
them, and what comes after waits as long. Metrics, labels, titles, notes and error
texts are display.

## 6. Plan

1. An abstract specification of the board, one office that delegates and is told, and
   the proof that `UrtuuBoard` implements it; what it needs is in the invariants about
   news. `RollUpIsNotMissed` without `"mirrors"`.
2. `ContractParties` with the people of `ContractInvitations`: one module that has both
   the expiry of a ceremony and naming, and the signing order after a late addition.
3. The inbox: a batch of bounded size with kinds that nobody reads, below `UrtuuBoard`.
4. Abstract specifications: for a contract, "signed by all exactly once, over one
   text"; for a link, "made once, ended once", which `UrtuuPeering` would implement.
