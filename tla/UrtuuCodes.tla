------------------------------ MODULE UrtuuCodes ------------------------------
(***************************************************************************)
(* The vocabulary of one organisation: modules/urtuu/channel/codes.go,      *)
(* codesync.go and ring.go.                                                 *)
(*                                                                         *)
(* A code is authored here, imported from the state register, or announced  *)
(* by an organisation above on its link.  An announcement is a snapshot of  *)
(* what is open on the link; snapshots travel as envelopes, are read in any *)
(* order, and again when the mark that they were read is lost.              *)
(***************************************************************************)
EXTENDS Naturals, FiniteSets

CONSTANTS
    Codes,
    Local,         \* those of Codes in the local namespace
    Links,         \* links to the organisations above
    NoLink,
    MaxVersion,    \* bound: editions of one definition
    MaxSnapshots   \* bound: announcements that differ

ASSUME CodesAssumption ==
    /\ NoLink \notin Links /\ Local \subseteq Codes
    /\ MaxVersion \in Nat \ {0} /\ MaxSnapshots \in Nat

VARIABLES
    code,          \* urtuu_request_codes of the organisation
    theirs,        \* version of each definition above, 0 while there is none
    inbox,         \* the announcements that have reached us
    register,      \* version of each code in the state register
    unchanged,     \* whether the register would answer our tag with a 304
    importing      \* what an import has read and not stored yet

codesVars == <<code, theirs, inbox, register, unchanged, importing>>

-----------------------------------------------------------------------------
(* The tables *)

Versions == 0 .. MaxVersion
Row == [source : {"none", "local", "ring", "link"}, link : Links \cup {NoLink},
        version : Versions, active : BOOLEAN]
NoRow == [source |-> "none", link |-> NoLink, version |-> 0, active |-> FALSE]

\* A snapshot: the version of each code in it, 0 for a code that is not in it.
Snapshots == [Codes -> Versions]
Envelopes == [from : Links, list : Snapshots]

CodesTypeOK ==
    /\ code \in [Codes -> Row]
    /\ \A c \in Codes : code[c].link # NoLink => code[c].source = "link"
    /\ theirs \in [Links -> Snapshots]
    /\ inbox \in SUBSET Envelopes
    /\ register \in Snapshots
    /\ unchanged \in BOOLEAN
    /\ importing \in SUBSET Snapshots

CodesInit ==
    /\ code = [c \in Codes |-> NoRow]
    /\ theirs = [p \in Links |-> [c \in Codes |-> 0]]
    /\ inbox = {}
    /\ register = [c \in Codes |-> 0]
    /\ unchanged = FALSE
    /\ importing = {}

\* Slip: a definition taken over from a link still counts as the link's.
UpsertKeepingLink(row, source, link, version) ==
    IF row.source = "none"
    THEN [source |-> source, link |-> link, version |-> version, active |-> TRUE]
    ELSE IF row.version <= version /\ row.source # "local"
    THEN [row EXCEPT !.source = source, !.version = version]
    ELSE row

\* upsertCode: a definition yields to one that is not older; one authored here
\* to none; whether it is used here is kept.
Upsert(row, source, link, version) ==
    IF row.source = "none"
    THEN [source |-> source, link |-> link, version |-> version, active |-> TRUE]
    ELSE IF row.version <= version /\ row.source # "local"
    THEN [row EXCEPT !.source = source, !.link = link, !.version = version]
    ELSE row

-----------------------------------------------------------------------------
(* Here *)

\* handleCreateCode: the local namespace, and no row yet.
CreateCode(c) ==
    /\ c \in Local /\ code[c].source = "none"
    /\ code' = [code EXCEPT ![c] = [source |-> "local", link |-> NoLink, version |-> 1, active |-> TRUE]]
    /\ UNCHANGED <<theirs, inbox, register, unchanged, importing>>

\* handleUpdateCode: what was authored here is edited, of the others only the use.
UpdateCode(c, used) ==
    /\ \/ code[c].source = "local" /\ code[c].version < MaxVersion
          /\ code' = [code EXCEPT ![c].version = @ + 1, ![c].active = used]
       \/ code[c].source \in {"ring", "link"} /\ code' = [code EXCEPT ![c].active = used]
    /\ UNCHANGED <<theirs, inbox, register, unchanged, importing>>

\* Slip: what the link no longer announces goes, whoever it came from.
ReadSnapshotSweeping(e) ==
    /\ e \in inbox
    /\ code' = [c \in Codes |->
                   IF e.list[c] > 0 THEN Upsert(code[c], "link", e.from, e.list[c])
                   ELSE IF code[c].source = "link" THEN NoRow ELSE code[c]]
    /\ UNCHANGED <<theirs, inbox, register, unchanged, importing>>

\* receiveCodeSync, called by ProcessInbox: each code of the snapshot, then the
\* DELETE of what came from this link and is not in it.  One transaction; the
\* envelope is read again when it fails or is not marked.
ReadSnapshot(e) ==
    /\ e \in inbox
    /\ code' = [c \in Codes |->
                   IF e.list[c] > 0 THEN Upsert(code[c], "link", e.from, e.list[c])
                   ELSE IF code[c].link = e.from THEN NoRow ELSE code[c]]
    /\ UNCHANGED <<theirs, inbox, register, unchanged, importing>>

-----------------------------------------------------------------------------
(* The register *)

Publish(c) ==
    /\ register[c] < MaxVersion
    /\ register' = [register EXCEPT ![c] = @ + 1]
    /\ unchanged' = FALSE
    /\ UNCHANGED <<code, theirs, inbox, importing>>

\* parse: of a verified document what convertRingProcesses leaves, the local
\* namespace being no business of the register's.
Parsed(list) == [c \in Codes |-> IF c \in Local THEN 0 ELSE list[c]]

\* Processes: the tag is remembered once the document is verified, before
\* anything of it is stored; with it the next import is told that nothing is new,
\* though the one that fetched may have failed or be another organisation's.
FetchRegister ==
    /\ ~unchanged
    /\ importing' \in {importing, importing \cup {Parsed(register)}}
    /\ unchanged' = TRUE
    /\ UNCHANGED <<code, theirs, inbox, register>>

\* importRing stores what Processes read, in one transaction, or fails.
StoreImport(s) ==
    /\ s \in importing
    /\ \/ code' = [c \in Codes |-> IF s[c] > 0 THEN Upsert(code[c], "ring", NoLink, s[c]) ELSE code[c]]
       \/ UNCHANGED code
    /\ importing' = importing \ {s}
    /\ UNCHANGED <<theirs, inbox, register, unchanged>>

\* The tag is held in memory: a restart asks again, and what was read is lost.
RestartImporter ==
    /\ unchanged' = FALSE
    /\ importing' = {}
    /\ UNCHANGED <<code, theirs, inbox, register>>

-----------------------------------------------------------------------------
(* Above *)

\* The organisation above authors, imports or edits a definition of its own.
TheirEdit(p, c) ==
    /\ theirs[p][c] < MaxVersion
    /\ theirs' = [theirs EXCEPT ![p][c] = @ + 1]
    /\ UNCHANGED <<code, inbox, register, unchanged, importing>>

\* announceCodes: the definitions of what is open, as they are now.
Announcement(p, opened) ==
    [from |-> p, list |-> [c \in Codes |-> IF c \in opened THEN theirs[p][c] ELSE 0]]

\* handleSetPeerCodes: the set is replaced in a transaction and read again to be
\* announced, with what is switched off left out.  Two of them may interleave, so
\* any set may be announced after any other.
SetPeerCodes(p, opened) ==
    /\ Cardinality(inbox) < MaxSnapshots
    /\ \A c \in opened : theirs[p][c] > 0
    /\ inbox' = inbox \cup {Announcement(p, opened)}
    /\ UNCHANGED <<code, theirs, register, unchanged, importing>>

-----------------------------------------------------------------------------
\* What may happen while only these codes are authored, published and announced.
CodesOver(these) ==
    \/ \E c \in these : CreateCode(c) \/ Publish(c)
    \/ \E c \in these, used \in BOOLEAN : UpdateCode(c, used)
    \/ \E e \in inbox : ReadSnapshot(e)
    \/ \E s \in importing : StoreImport(s)
    \/ FetchRegister \/ RestartImporter
    \/ \E p \in Links, c \in these : TheirEdit(p, c)
    \/ \E p \in Links, opened \in SUBSET these : SetPeerCodes(p, opened)

CodesNext == CodesOver(Codes)

CodesSpec == CodesInit /\ [][CodesNext]_codesVars

-----------------------------------------------------------------------------
(* Properties *)

\* However announcements, imports and edits interleave and overtake each other:
\* what was authored here stays ours and a definition that stays does not go
\* back to an older edition; and a code disappears only if the organisation it
\* came from sent a list without it.  What upsertCode's condition and the DELETE
\* of receiveCodeSync promise to a sibling's codes and to our own.
VocabularyIsKept ==
    [][\A c \in Codes :
          /\ code[c].source = "local" => code'[c].source = "local"
          /\ code'[c].source # "none" => code'[c].version >= code[c].version
          /\ code[c].source # "none" /\ code'[c].source = "none" =>
                \E e \in inbox : e.from = code[c].link /\ e.list[c] = 0]_codesVars
=============================================================================
