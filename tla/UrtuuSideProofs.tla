--------------------------- MODULE UrtuuSideProofs ---------------------------
(***************************************************************************)
(* Theorems about what stands around the channel and the board, each for    *)
(* every value of its constants: how a link comes to be, the vocabulary,    *)
(* the register numbers, and the documents a task refers to.  The four      *)
(* components share no state, and each has an invariant of its own here.    *)
(***************************************************************************)
EXTENDS UrtuuPeering, UrtuuCodes, UrtuuNumbers, UrtuuEvidence, TLAPS

-----------------------------------------------------------------------------
(* Peering: a key that an invitation was redeemed with stays its key, since *)
(* the code is cleared by the statement that stores the key.                *)

KeysAreFinal ==
    \A i \in Invitations :
        /\ above[i].key # Unheld => above[i].code = "cleared" /\ above[i].status # "none"
        /\ above[i].token => above[i].key # Unheld
        /\ above[i].status = "active" => above[i].token

\* The request of j was granted: its invitation holds its key.
Granted(j) == below[j].code \in Invitations /\ above[below[j].code].key = j

RequestsAreGranted ==
    \A j \in Joins :
        /\ below[j].status = "none" <=> asked[j] = "no"
        /\ asked[j] = "accepted" => Granted(j)
        /\ below[j].status = "active" => Granted(j)

PeeringInv == PeeringTypeOK /\ KeysAreFinal /\ RequestsAreGranted

LEMMA PeeringStarts == PeeringInit => PeeringInv
BY DEF PeeringInit, PeeringInv, PeeringTypeOK, Above, Below, PeerStatus, KeysAreFinal,
       RequestsAreGranted

\* The inviting side alone: no key is changed.
LEMMA AboveSteps ==
    ASSUME PeeringInv, NEW i \in Invitations,
           Invite(i) \/ InviteExpires(i) \/ Confirm(i) \/ RevokeAbove(i)
    PROVE  PeeringInv'
<1>1. above[i] \in Above
    BY DEF PeeringInv, PeeringTypeOK
<1>2. PICK row \in Above :
        /\ above' = [above EXCEPT ![i] = row]
        /\ row.key = above[i].key
        /\ row.key # Unheld => row.code = "cleared" /\ row.status # "none"
        /\ row.token => row.key # Unheld
        /\ row.status = "active" => row.token
    <2>1. CASE Invite(i)
        <3> DEFINE row == [above[i] EXCEPT !.status = "pending", !.code = "open"]
        <3>1. row \in Above /\ above' = [above EXCEPT ![i] = row]
            BY <1>1, <2>1 DEF Invite, Above, PeerStatus, PeeringInv, PeeringTypeOK
        <3> QED
            BY <1>1, <2>1, <3>1 DEF Invite, PeeringInv, KeysAreFinal, Above
    <2>2. CASE InviteExpires(i)
        <3> DEFINE row == [above[i] EXCEPT !.code = "expired"]
        <3>1. row \in Above /\ above' = [above EXCEPT ![i] = row]
            BY <1>1, <2>2 DEF InviteExpires, Above, PeeringInv, PeeringTypeOK
        <3> QED
            BY <1>1, <2>2, <3>1 DEF InviteExpires, PeeringInv, KeysAreFinal, Above
    <2>3. CASE Confirm(i)
        <3> DEFINE row == [above[i] EXCEPT !.status = "active"]
        <3>1. row \in Above /\ above' = [above EXCEPT ![i] = row]
            BY <1>1, <2>3 DEF Confirm, Above, PeerStatus, PeeringInv, PeeringTypeOK
        <3> QED
            BY <1>1, <2>3, <3>1 DEF Confirm, PeeringInv, KeysAreFinal, Above
    <2>4. CASE RevokeAbove(i)
        <3> DEFINE row == [above[i] EXCEPT !.status = "revoked", !.code = "cleared", !.token = FALSE]
        <3>1. row \in Above /\ above' = [above EXCEPT ![i] = row]
            BY <1>1, <2>4 DEF RevokeAbove, Above, PeerStatus, PeeringInv, PeeringTypeOK
        <3> QED
            BY <1>1, <2>4, <3>1 DEF RevokeAbove, PeeringInv, KeysAreFinal, Above
    <2> QED
        BY <2>1, <2>2, <2>3, <2>4
<1>3. UNCHANGED <<below, asked>>
    BY DEF Invite, InviteExpires, Confirm, RevokeAbove
<1>4. PeeringTypeOK'
    BY <1>2, <1>3 DEF PeeringInv, PeeringTypeOK
<1>5. KeysAreFinal'
    BY <1>2 DEF PeeringInv, PeeringTypeOK, KeysAreFinal
<1>6. RequestsAreGranted'
    BY <1>2, <1>3 DEF PeeringInv, PeeringTypeOK, RequestsAreGranted, Granted
<1> QED
    BY <1>4, <1>5, <1>6 DEF PeeringInv

\* An invitation that can be redeemed holds no key yet.
LEMMA RedeemSteps ==
    ASSUME PeeringInv, NEW j \in Joins, Redeem(j)
    PROVE  PeeringInv'
<1>1. below[j].code \in Invitations /\ asked[j] = "sent"
    BY DEF PeeringInv, PeeringTypeOK, Below, Redeem, Redeemable
<1> DEFINE i == below[j].code
           row == [above[i] EXCEPT !.code = "cleared", !.key = j, !.token = TRUE]
<1>2. above[i] \in Above /\ above[i].code = "open" /\ above[i].status = "pending"
    BY <1>1 DEF PeeringInv, PeeringTypeOK, Redeem, Redeemable
<1>3. above[i].key = Unheld
    BY <1>1, <1>2 DEF PeeringInv, KeysAreFinal
<1>4. row \in Above /\ row.key = j /\ row.code = "cleared" /\ row.token /\ row.status = "pending"
    BY <1>2 DEF Above
<1>5. /\ above' = [above EXCEPT ![i] = row]
      /\ asked' = [asked EXCEPT ![j] = "accepted"]
      /\ below' = below
    BY <1>1 DEF Redeem, PeeringInv, PeeringTypeOK
<1> HIDE DEF row
<1>6. PeeringTypeOK'
    BY <1>1, <1>4, <1>5 DEF PeeringInv, PeeringTypeOK
<1>7. KeysAreFinal'
    BY <1>1, <1>4, <1>5, PeeringAssumption DEF PeeringInv, PeeringTypeOK, KeysAreFinal
<1>8. RequestsAreGranted'
    <2> SUFFICES ASSUME NEW k \in Joins
                 PROVE  /\ below[k].status = "none" <=> asked'[k] = "no"
                        /\ asked'[k] = "accepted" => Granted(k)'
                        /\ below[k].status = "active" => Granted(k)'
        BY <1>5 DEF RequestsAreGranted
    <2>1. Granted(k) => Granted(k)'
        BY <1>1, <1>3, <1>4, <1>5, PeeringAssumption DEF Granted, PeeringInv, PeeringTypeOK
    <2>2. Granted(j)'
        BY <1>1, <1>4, <1>5 DEF Granted, PeeringInv, PeeringTypeOK
    <2> QED
        BY <1>1, <1>5, <2>1, <2>2 DEF PeeringInv, PeeringTypeOK, RequestsAreGranted
<1> QED
    BY <1>6, <1>7, <1>8 DEF PeeringInv

\* The joining side alone.
LEMMA BelowSteps ==
    ASSUME PeeringInv, NEW j \in Joins, NEW invitation \in Invitations \cup {Unheld},
           \/ RefuseRedeem(j) \/ JoinFails(j) \/ RequestLost(j)
           \/ Join(j, invitation) \/ Activate(j) \/ RevokeBelow(j)
    PROVE  PeeringInv'
<1>1. above' = above
    BY DEF RefuseRedeem, JoinFails, RequestLost, Join, Activate, RevokeBelow
<1>2. PeeringTypeOK'
    BY <1>1 DEF PeeringInv, PeeringTypeOK, Below, PeerStatus,
                RefuseRedeem, JoinFails, RequestLost, Join, Activate, RevokeBelow
<1>3. KeysAreFinal'
    BY <1>1 DEF PeeringInv, KeysAreFinal
<1>4. RequestsAreGranted'
    <2>1. CASE Join(j, invitation)
        BY <1>1, <2>1 DEF PeeringInv, PeeringTypeOK, Below, RequestsAreGranted, Granted, Join
    <2>2. CASE Activate(j)
        BY <1>1, <2>2 DEF PeeringInv, PeeringTypeOK, Below, RequestsAreGranted, Granted, Activate
    <2>3. CASE RevokeBelow(j)
        BY <1>1, <2>3 DEF PeeringInv, PeeringTypeOK, Below, RequestsAreGranted, Granted, RevokeBelow
    <2>4. CASE RefuseRedeem(j) \/ JoinFails(j) \/ RequestLost(j)
        BY <1>1, <2>4 DEF PeeringInv, PeeringTypeOK, Below, RequestsAreGranted, Granted,
                          RefuseRedeem, JoinFails, RequestLost
    <2> QED
        BY <2>1, <2>2, <2>3, <2>4
<1> QED
    BY <1>2, <1>3, <1>4 DEF PeeringInv

LEMMA PeeringSteps ==
    ASSUME PeeringInv, [PeeringNext]_peeringVars
    PROVE  PeeringInv'
<1>1. CASE UNCHANGED peeringVars
    BY <1>1 DEF PeeringInv, PeeringTypeOK, KeysAreFinal, RequestsAreGranted, Granted, peeringVars
<1>2. CASE PeeringNext
    BY <1>2, AboveSteps, RedeemSteps, BelowSteps DEF PeeringNext
<1> QED
    BY <1>1, <1>2

\* A link is active only where an invitation was redeemed, and an invitation
\* serves one installation, however often its code is tried.
THEOREM LinksAreEarned == PeeringSpec => []LinkIsEarned
<1>1. PeeringInv => LinkIsEarned
    BY DEF PeeringInv, PeeringTypeOK, Below, KeysAreFinal, RequestsAreGranted, Granted, LinkIsEarned
<1> QED
    BY <1>1, PeeringStarts, PeeringSteps, PTL DEF PeeringSpec

-----------------------------------------------------------------------------
(* The vocabulary *)

CodesInv == CodesTypeOK /\ \A c \in Codes : code[c].source = "none" => code[c] = NoRow

\* What one step does to one row.
RowKept(c) ==
    /\ code[c].source = "local" => code'[c].source = "local"
    /\ code'[c].source # "none" => code'[c].version >= code[c].version
    /\ code[c].source # "none" /\ code'[c].source = "none" =>
          \E e \in inbox : e.from = code[c].link /\ e.list[c] = 0

\* A definition that is taken over is not an older one, nor one authored here.
LEMMA Upserts ==
    ASSUME CodesInv, NEW c \in Codes, NEW source \in {"ring", "link"},
           NEW link \in Links \cup {NoLink}, link # NoLink => source = "link",
           NEW version \in Versions, version > 0
    PROVE  LET row == Upsert(code[c], source, link, version)
           IN  /\ row \in Row /\ row.source # "none" /\ row.version >= code[c].version
               /\ row.link # NoLink => row.source = "link"
               /\ code[c].source = "local" => row.source = "local"
<1>1. code[c] \in Row /\ (code[c].source = "none" => code[c] = NoRow)
      /\ (code[c].link # NoLink => code[c].source = "link")
    BY DEF CodesInv, CodesTypeOK
<1> DEFINE row == Upsert(code[c], source, link, version)
<1>2. CASE code[c].source = "none"
    <2>1. row = [source |-> source, link |-> link, version |-> version, active |-> TRUE]
        BY <1>2 DEF Upsert
    <2>2. code[c].version = 0
        BY <1>1, <1>2 DEF NoRow
    <2> QED
        BY <1>2, <2>1, <2>2 DEF Row, Versions
<1>3. CASE code[c].source \notin {"none", "local"} /\ code[c].version <= version
    <2>1. row = [code[c] EXCEPT !.source = source, !.link = link, !.version = version]
        BY <1>3 DEF Upsert
    <2>2. row \in Row
        BY <1>1, <2>1 DEF Row
    <2>3. row.source = source /\ row.link = link /\ row.version = version
        BY <1>1, <2>1 DEF Row
    <2> QED
        BY <1>3, <2>2, <2>3
<1>4. CASE code[c].source # "none" /\ ~(code[c].source # "local" /\ code[c].version <= version)
    <2>1. row = code[c]
        BY <1>4 DEF Upsert
    <2> QED
        BY <1>1, <1>4, <2>1 DEF Row, Versions
<1> QED
    BY <1>2, <1>3, <1>4

LEMMA CodesStart == CodesInit => CodesInv
<1>1. 0 \in Versions
    BY CodesAssumption DEF Versions
<1>2. NoRow \in Row /\ NoRow.link = NoLink /\ NoRow.source = "none"
    BY <1>1 DEF NoRow, Row
<1>3. [c \in Codes |-> 0] \in Snapshots
    BY <1>1 DEF Snapshots
<1> QED
    BY <1>2, <1>3 DEF CodesInit, CodesInv, CodesTypeOK

LEMMA CodeEdited ==
    ASSUME CodesInv, NEW c \in Codes, NEW used \in BOOLEAN, CreateCode(c) \/ UpdateCode(c, used)
    PROVE  CodesInv' /\ \A d \in Codes : RowKept(d)
<1>1. PICK row \in Row :
        /\ code' = [code EXCEPT ![c] = row]
        /\ row.source # "none" /\ row.version >= code[c].version
        /\ row.link # NoLink => row.source = "link"
        /\ code[c].source = "local" => row.source = "local"
    <2>0. code[c] \in Row /\ (code[c].source = "none" => code[c] = NoRow)
          /\ (code[c].link # NoLink => code[c].source = "link")
        BY DEF CodesInv, CodesTypeOK
    <2>1. CASE CreateCode(c)
        <3> DEFINE row == [source |-> "local", link |-> NoLink, version |-> 1, active |-> TRUE]
        <3>1. /\ row \in Row /\ row.source = "local" /\ row.link = NoLink
              /\ row.version = 1
            BY CodesAssumption DEF Row, Versions
        <3>2. /\ code' = [code EXCEPT ![c] = row]
              /\ code[c].version = 0 /\ code[c].source = "none"
            BY <2>0, <2>1 DEF CreateCode, NoRow
        <3> HIDE DEF row
        <3>3. row.source # "none" /\ row.version >= code[c].version
            BY <3>1, <3>2
        <3> QED
            BY <3>1, <3>2, <3>3
    <2>2. CASE code[c].source = "local" /\ UpdateCode(c, used)
        <3> DEFINE row == [code[c] EXCEPT !.version = @ + 1, !.active = used]
        <3>1. code' = [code EXCEPT ![c] = row] /\ code[c].version < MaxVersion
            BY <2>2 DEF UpdateCode, CodesInv, CodesTypeOK
        <3>0. code[c].version + 1 \in Versions /\ code[c].version + 1 >= code[c].version
            BY <2>0, <3>1, CodesAssumption DEF Row, Versions
        <3>2. /\ row \in Row /\ row.source = "local" /\ row.link = code[c].link
              /\ row.version >= code[c].version
            BY <2>0, <2>2, <3>0 DEF Row
        <3> HIDE DEF row
        <3> QED
            BY <2>0, <2>2, <3>1, <3>2
    <2>3. CASE code[c].source # "local" /\ UpdateCode(c, used)
        <3> DEFINE row == [code[c] EXCEPT !.active = used]
        <3>1. code' = [code EXCEPT ![c] = row] /\ code[c].source \in {"ring", "link"}
            BY <2>3 DEF UpdateCode, CodesInv, CodesTypeOK
        <3>2. /\ row \in Row /\ row.source = code[c].source /\ row.link = code[c].link
              /\ row.version >= code[c].version
            BY <2>0 DEF Row, Versions
        <3> HIDE DEF row
        <3> QED
            BY <2>0, <2>3, <3>1, <3>2
    <2> QED
        BY <2>1, <2>2, <2>3
<1>2. UNCHANGED <<theirs, inbox, register, unchanged, importing>>
    BY DEF CreateCode, UpdateCode
<1>3. CodesInv'
    BY <1>1, <1>2 DEF CodesInv, CodesTypeOK
<1>4. \A d \in Codes : RowKept(d)
    BY <1>1 DEF RowKept, CodesInv, CodesTypeOK, Row, Versions
<1> QED
    BY <1>3, <1>4

\* The DELETE reaches only what came from this link.
LEMMA SnapshotRead ==
    ASSUME CodesInv, NEW e \in inbox, ReadSnapshot(e)
    PROVE  CodesInv' /\ \A c \in Codes : RowKept(c)
<1>1. e.from \in Links /\ e.list \in Snapshots
    BY DEF CodesInv, CodesTypeOK, Envelopes
<1>2. ASSUME NEW c \in Codes
      PROVE  /\ code'[c] \in Row /\ (code'[c].link # NoLink => code'[c].source = "link")
             /\ code'[c].source = "none" => code'[c] = NoRow
             /\ RowKept(c)
    <2>1. code'[c] = IF e.list[c] > 0 THEN Upsert(code[c], "link", e.from, e.list[c])
                     ELSE IF code[c].link = e.from THEN NoRow ELSE code[c]
        BY DEF ReadSnapshot
    <2>2. e.list[c] \in Versions /\ code[c] \in Row
        BY <1>1 DEF Snapshots, CodesInv, CodesTypeOK
    <2>3. CASE e.list[c] > 0
        BY <1>1, <2>1, <2>2, <2>3, Upserts DEF RowKept
    <2>4. CASE ~(e.list[c] > 0) /\ code[c].link = e.from
        <3>1. code'[c] = NoRow /\ e.list[c] = 0 /\ code[c].source = "link"
            BY <1>1, <2>1, <2>2, <2>4, CodesAssumption DEF Versions, CodesInv, CodesTypeOK
        <3>2. NoRow \in Row /\ NoRow.link = NoLink /\ NoRow.source = "none"
            BY CodesAssumption DEF NoRow, Row, Versions
        <3>3. RowKept(c)
            BY <2>4, <3>1, <3>2 DEF RowKept
        <3> QED
            BY <3>1, <3>2, <3>3
    <2>5. CASE ~(e.list[c] > 0) /\ code[c].link # e.from
        BY <2>1, <2>2, <2>5 DEF RowKept, CodesInv, CodesTypeOK, Row, Versions
    <2> QED
        BY <2>3, <2>4, <2>5
<1>3. UNCHANGED <<theirs, inbox, register, unchanged, importing>>
      /\ code' = [c \in Codes |-> code'[c]]
    BY DEF ReadSnapshot
<1>4. code' \in [Codes -> Row]
    BY <1>2, <1>3
<1> QED
    BY <1>2, <1>3, <1>4 DEF CodesInv, CodesTypeOK

LEMMA ImportStored ==
    ASSUME CodesInv, NEW s \in importing, StoreImport(s)
    PROVE  CodesInv' /\ \A c \in Codes : RowKept(c)
<1>1. s \in Snapshots
    BY DEF CodesInv, CodesTypeOK
<1>2. ASSUME NEW c \in Codes
      PROVE  /\ code'[c] \in Row /\ (code'[c].link # NoLink => code'[c].source = "link")
             /\ code'[c].source = "none" => code'[c] = NoRow
             /\ RowKept(c)
    <2>1. code'[c] = code[c] \/ (s[c] > 0 /\ code'[c] = Upsert(code[c], "ring", NoLink, s[c]))
        BY DEF StoreImport
    <2>2. s[c] \in Versions /\ code[c] \in Row
        BY <1>1 DEF Snapshots, CodesInv, CodesTypeOK
    <2>3. CASE code'[c] = code[c]
        BY <2>2, <2>3 DEF RowKept, CodesInv, CodesTypeOK, Row, Versions
    <2>4. CASE s[c] > 0 /\ code'[c] = Upsert(code[c], "ring", NoLink, s[c])
        BY <2>2, <2>4, Upserts DEF RowKept
    <2> QED
        BY <2>1, <2>3, <2>4
<1>3. /\ UNCHANGED <<theirs, inbox, register, unchanged>> /\ importing' \subseteq importing
      /\ code' = [c \in Codes |-> code'[c]]
    BY DEF StoreImport, CodesInv, CodesTypeOK
<1>4. code' \in [Codes -> Row]
    BY <1>2, <1>3
<1> QED
    BY <1>2, <1>3, <1>4 DEF CodesInv, CodesTypeOK

\* The steps of others touch no row here.
LEMMA NoRowTouched ==
    ASSUME CodesInv, code' = code,
           theirs' \in [Links -> Snapshots], inbox' \in SUBSET Envelopes,
           register' \in Snapshots, unchanged' \in BOOLEAN, importing' \in SUBSET Snapshots
    PROVE  CodesInv' /\ \A c \in Codes : RowKept(c)
BY DEF RowKept, CodesInv, CodesTypeOK, Row, Versions

LEMMA CodesUnread ==
    ASSUME CodesInv, FetchRegister \/ RestartImporter
    PROVE  CodesInv' /\ \A c \in Codes : RowKept(c)
<1>0. Parsed(register) \in Snapshots
    BY CodesAssumption DEF Parsed, CodesInv, CodesTypeOK, Snapshots, Versions
<1>1. /\ UNCHANGED <<code, theirs, inbox, register>>
      /\ unchanged' \in BOOLEAN /\ importing' \in SUBSET Snapshots
    BY <1>0 DEF FetchRegister, RestartImporter, CodesInv, CodesTypeOK
<1> QED
    BY <1>1, NoRowTouched DEF CodesInv, CodesTypeOK

LEMMA CodesElsewhere ==
    ASSUME CodesInv, NEW d \in Codes, Publish(d) \/ \E p \in Links : TheirEdit(p, d)
    PROVE  CodesInv' /\ \A c \in Codes : RowKept(c)
<1>1. CASE Publish(d)
    <2>1. register[d] \in Versions /\ register[d] < MaxVersion
        BY <1>1 DEF Publish, CodesInv, CodesTypeOK, Snapshots
    <2>2. [register EXCEPT ![d] = @ + 1] \in Snapshots
        BY <2>1, CodesAssumption DEF CodesInv, CodesTypeOK, Snapshots, Versions
    <2> QED
        BY <1>1, <2>2, NoRowTouched DEF Publish, CodesInv, CodesTypeOK
<1>2. CASE \E p \in Links : TheirEdit(p, d)
    <2> PICK p \in Links : TheirEdit(p, d)
        BY <1>2
    <2>1. theirs[p] \in Snapshots /\ theirs[p][d] \in Versions /\ theirs[p][d] < MaxVersion
        BY DEF TheirEdit, CodesInv, CodesTypeOK, Snapshots
    <2>2. [theirs[p] EXCEPT ![d] = @ + 1] \in Snapshots
        BY <2>1, CodesAssumption DEF Snapshots, Versions
    <2>3. theirs' = [theirs EXCEPT ![p] = [theirs[p] EXCEPT ![d] = @ + 1]]
        BY DEF TheirEdit
    <2>4. theirs' \in [Links -> Snapshots]
        BY <2>2, <2>3 DEF CodesInv, CodesTypeOK
    <2> QED
        BY <2>4, NoRowTouched DEF TheirEdit, CodesInv, CodesTypeOK
<1> QED
    BY <1>1, <1>2

LEMMA CodesAnnounced ==
    ASSUME CodesInv, NEW p \in Links, NEW opened \in SUBSET Codes, SetPeerCodes(p, opened)
    PROVE  CodesInv' /\ \A c \in Codes : RowKept(c)
<1>1. theirs[p] \in Snapshots
    BY DEF CodesInv, CodesTypeOK
<1>2. [c \in Codes |-> IF c \in opened THEN theirs[p][c] ELSE 0] \in Snapshots
    BY <1>1, CodesAssumption DEF Snapshots, Versions
<1>3. Announcement(p, opened) \in Envelopes
    BY <1>2 DEF Announcement, Envelopes
<1> QED
    BY <1>3, NoRowTouched DEF SetPeerCodes, CodesInv, CodesTypeOK

LEMMA CodesSteps ==
    ASSUME CodesInv, [CodesNext]_codesVars
    PROVE  CodesInv' /\ \A c \in Codes : RowKept(c)
<1>1. CASE UNCHANGED codesVars
    BY <1>1 DEF codesVars, CodesInv, CodesTypeOK, RowKept, Row, Versions
<1>2. CASE CodesNext
    <2>1. CASE \E c \in Codes : CreateCode(c) \/ \E used \in BOOLEAN : UpdateCode(c, used)
        BY <2>1, CodeEdited
    <2>2. CASE \E e \in inbox : ReadSnapshot(e)
        BY <2>2, SnapshotRead
    <2>3. CASE \E s \in importing : StoreImport(s)
        BY <2>3, ImportStored
    <2>4. CASE FetchRegister \/ RestartImporter
        BY <2>4, CodesUnread
    <2>5. CASE \E c \in Codes : Publish(c) \/ \E p \in Links : TheirEdit(p, c)
        BY <2>5, CodesElsewhere
    <2>6. CASE \E p \in Links, opened \in SUBSET Codes : SetPeerCodes(p, opened)
        BY <2>6, CodesAnnounced
    <2> QED
        BY <1>2, <2>1, <2>2, <2>3, <2>4, <2>5, <2>6 DEF CodesNext, CodesOver
<1> QED
    BY <1>1, <1>2

\* However announcements, imports and edits interleave: what was authored here
\* stays, no definition goes back, and a code disappears only if its source sent
\* a list without it.
THEOREM VocabularyKept == CodesSpec => VocabularyIsKept
<1>1. CodesInv /\ [CodesNext]_codesVars => CodesInv' /\ \A c \in Codes : RowKept(c)
    BY CodesSteps
<1> QED
    BY <1>1, CodesStart, PTL DEF CodesSpec, VocabularyIsKept, RowKept

-----------------------------------------------------------------------------
(* Register numbers: a transaction that has touched a counter holds its row *)
(* until it ends, so its numbers follow the committed ones without a gap.   *)

\* The counter as transaction t sees it.
Seen(t, g) == IF raising[t].row[g] # 0 THEN raising[t].row[g] ELSE counter[g]

NumbersFollow ==
    /\ year \in Years
    /\ \A g \in Registers, n \in Nat : <<g, n>> \in filed <=> 1 <= n /\ n <= counter[g]
    /\ \A t \in Raisers, g \in Registers :
          /\ counter[g] <= Seen(t, g)
          /\ \A n \in Nat : <<g, n>> \in raising[t].numbers <=> counter[g] < n /\ n <= Seen(t, g)
    /\ \A t, u \in Raisers, g \in Registers :
          t # u /\ raising[t].row[g] # 0 => raising[u].row[g] = 0
    /\ \A t \in Raisers, g \in Registers : raising[t].row[g] # 0 => raising[t].open

NumbersInv == NumbersTypeOK /\ NumbersFollow

LEMMA NotRaisingTypes == NotRaising \in Raises /\ \A l \in Lines, y \in Years :
    [open |-> TRUE, line |-> l, at |-> y, row |-> Untouched, numbers |-> {}] \in Raises
BY NumbersAssumption DEF NotRaising, Raises, Untouched, Years

LEMMA NumbersStart == NumbersInit => NumbersInv
<1> SUFFICES ASSUME NumbersInit PROVE NumbersInv
    OBVIOUS
<1>1. NumbersTypeOK
    BY NotRaisingTypes DEF NumbersInit, NumbersTypeOK, Untouched
<1>2. NumbersFollow
    BY NumbersAssumption DEF NumbersInit, NumbersFollow, Seen, NotRaising, Untouched, Years
<1> QED
    BY <1>1, <1>2 DEF NumbersInv

LEMMA RaiseBegins ==
    ASSUME NumbersInv, NEW t \in Raisers, NEW line \in Lines, BeginRaise(t, line)
    PROVE  NumbersInv'
<1> DEFINE new == [open |-> TRUE, line |-> line, at |-> year, row |-> Untouched, numbers |-> {}]
<1>1. raising' = [raising EXCEPT ![t] = new] /\ ~raising[t].open
      /\ UNCHANGED <<year, counter, filed>>
    BY DEF BeginRaise
<1>2. new \in Raises /\ new.open /\ new.numbers = {} /\ \A g \in Registers : new.row[g] = 0
    BY NotRaisingTypes DEF NumbersInv, NumbersFollow, Untouched
<1> HIDE DEF new
<1>3. NumbersTypeOK'
    BY <1>1, <1>2 DEF NumbersInv, NumbersTypeOK
<1>4. \A u \in Raisers, g \in Registers : Seen(u, g)' = Seen(u, g)
    BY <1>1, <1>2 DEF NumbersInv, NumbersTypeOK, NumbersFollow, Seen
<1>5. \A g \in Registers : Seen(t, g) = counter[g]
    BY <1>1 DEF NumbersInv, NumbersFollow, Seen
<1>6. \A g \in Registers : counter[g] \in Nat
    BY DEF NumbersInv, NumbersTypeOK
<1>7. NumbersFollow'
    BY <1>1, <1>2, <1>4, <1>5, <1>6 DEF NumbersInv, NumbersTypeOK, NumbersFollow
<1> QED
    BY <1>3, <1>7 DEF NumbersInv

\* One number is taken, the next after those the transaction sees.
LEMMA NumberTaken ==
    ASSUME NumbersInv, NEW t \in Raisers, NEW g \in Registers, NextNumber(t, g)
    PROVE  NumbersInv'
<1> DEFINE n == 1 + Seen(t, g)
           new == [raising[t] EXCEPT !.row = [@ EXCEPT ![g] = n],
                                     !.numbers = @ \cup {<<g, n>>}]
<1>1. raising[t] \in Raises /\ counter[g] \in Nat /\ Seen(t, g) \in Nat
    BY DEF NumbersInv, NumbersTypeOK, Raises, Seen
<1>2. /\ raising' = [raising EXCEPT ![t] = new]
      /\ raising[t].open
      /\ \A u \in Raisers \ {t} : raising[u].open => raising[u].row[g] = 0
      /\ UNCHANGED <<year, counter, filed>>
    BY <1>1 DEF NextNumber, RowIsFree, Seen, NumbersInv, NumbersTypeOK, Raises
<1>3. /\ new \in Raises /\ new.open
      /\ new.row[g] = n /\ \A h \in Registers : h # g => new.row[h] = raising[t].row[h]
      /\ new.numbers = raising[t].numbers \cup {<<g, n>>}
    <2>1. n \in Nat \ {0}
        BY <1>1
    <2> HIDE DEF n
    <2>2. /\ raising[t].row \in [Registers -> Nat]
          /\ raising[t].numbers \subseteq Registers \X (Nat \ {0})
        BY <1>1 DEF Raises
    <2>3. [raising[t].row EXCEPT ![g] = n] \in [Registers -> Nat]
        BY <2>1, <2>2
    <2>4. <<g, n>> \in Registers \X (Nat \ {0})
        BY <2>1
    <2>5. raising[t].numbers \cup {<<g, n>>} \subseteq Registers \X (Nat \ {0})
        BY <2>2, <2>4
    <2>6. /\ new \in Raises /\ new.open = raising[t].open
          /\ new.row = [raising[t].row EXCEPT ![g] = n]
          /\ new.numbers = raising[t].numbers \cup {<<g, n>>}
        <3> DEFINE row == [raising[t].row EXCEPT ![g] = n]
                   numbers == raising[t].numbers \cup {<<g, n>>}
        <3>1. row \in [Registers -> Nat] /\ numbers \in SUBSET (Registers \X (Nat \ {0}))
            BY <2>3, <2>5
        <3>2. new = [raising[t] EXCEPT !.row = row, !.numbers = numbers]
            OBVIOUS
        <3> HIDE DEF new, row, numbers
        <3>3. /\ new \in Raises /\ new.open = raising[t].open
              /\ new.row = row /\ new.numbers = numbers
            BY <1>1, <3>1, <3>2 DEF Raises
        <3> QED
            BY <3>3 DEF row, numbers
    <2> QED
        BY <1>2, <2>2, <2>6
<1>4. n \in Nat /\ n # 0
    BY <1>1
<1> HIDE DEF new, n
<1>5. NumbersTypeOK'
    BY <1>2, <1>3 DEF NumbersInv, NumbersTypeOK
<1>6. \A u \in Raisers, h \in Registers : u # t \/ h # g => Seen(u, h)' = Seen(u, h)
    BY <1>2, <1>3 DEF Seen, NumbersInv, NumbersTypeOK
<1>7. Seen(t, g)' = n
    BY <1>2, <1>3, <1>4 DEF Seen, NumbersInv, NumbersTypeOK
<1>8. \A u \in Raisers \ {t} : raising'[u] = raising[u] /\ raising[u].row[g] = 0
    BY <1>2 DEF NumbersInv, NumbersTypeOK, NumbersFollow
<1>9. raising'[t] = new
    BY <1>2 DEF NumbersInv, NumbersTypeOK
<1>10. ASSUME NEW u \in Raisers, NEW h \in Registers
       PROVE  /\ counter'[h] <= Seen(u, h)'
              /\ \A m \in Nat : <<h, m>> \in raising'[u].numbers
                                  <=> counter'[h] < m /\ m <= Seen(u, h)'
    <2>0. /\ counter[h] <= Seen(u, h)
          /\ \A m \in Nat : <<h, m>> \in raising[u].numbers <=> counter[h] < m /\ m <= Seen(u, h)
        BY DEF NumbersInv, NumbersFollow
    <2>1. CASE u # t
        BY <1>2, <1>6, <1>8, <2>0, <2>1
    <2>2. CASE u = t /\ h # g
        BY <1>2, <1>3, <1>6, <1>9, <2>0, <2>2
    <2>3. CASE u = t /\ h = g
        <3>1. counter[g] <= Seen(t, g) /\ n = 1 + Seen(t, g)
            BY <2>0, <2>3 DEF n
        <3>2. \A m \in Nat : <<g, m>> \in raising'[t].numbers
                               <=> (counter[g] < m /\ m <= Seen(t, g)) \/ m = n
            BY <1>3, <1>9, <2>0, <2>3
        <3>3. counter[g] \in Nat /\ Seen(t, g) \in Nat
            BY <1>1
        <3>4. \A m \in Nat : <<g, m>> \in raising'[t].numbers <=> counter[g] < m /\ m <= n
            BY <3>1, <3>2, <3>3
        <3>5. counter[g] <= n
            BY <3>1, <3>3
        <3> QED
            BY <1>2, <1>7, <2>3, <3>4, <3>5
    <2> QED
        BY <2>1, <2>2, <2>3
<1>11. \A u, v \in Raisers, h \in Registers :
          u # v /\ raising'[u].row[h] # 0 => raising'[v].row[h] = 0
    BY <1>3, <1>8, <1>9 DEF NumbersInv, NumbersFollow
<1>12. \A u \in Raisers, h \in Registers : raising'[u].row[h] # 0 => raising'[u].open
    BY <1>3, <1>8, <1>9 DEF NumbersInv, NumbersFollow
<1>13. NumbersFollow'
    BY <1>2, <1>10, <1>11, <1>12 DEF NumbersInv, NumbersFollow
<1> QED
    BY <1>5, <1>13 DEF NumbersInv

\* The numbers of a transaction become the register's, all of them.
LEMMA RaiseCommits ==
    ASSUME NumbersInv, NEW t \in Raisers, CommitRaise(t)
    PROVE  NumbersInv'
<1>1. /\ counter' = [g \in Registers |-> Seen(t, g)]
      /\ filed' = filed \cup raising[t].numbers
      /\ raising' = [raising EXCEPT ![t] = NotRaising]
      /\ year' = year
    BY DEF CommitRaise, Seen
<1>2. raising[t] \in Raises /\ \A g \in Registers : counter[g] \in Nat /\ Seen(t, g) \in Nat
    BY DEF NumbersInv, NumbersTypeOK, Raises, Seen
<1>3. NumbersTypeOK'
    BY <1>1, <1>2, NotRaisingTypes DEF NumbersInv, NumbersTypeOK, Raises
<1>4. /\ \A u \in Raisers \ {t} : raising'[u] = raising[u]
      /\ raising'[t] = NotRaising /\ NotRaising.numbers = {}
      /\ \A g \in Registers : NotRaising.row[g] = 0
    BY <1>1 DEF NumbersInv, NumbersTypeOK, NotRaising, Untouched
<1>5. \A g \in Registers, n \in Nat : <<g, n>> \in filed' <=> 1 <= n /\ n <= counter'[g]
    <2> TAKE g \in Registers, n \in Nat
    <2>1. /\ counter[g] <= Seen(t, g)
          /\ <<g, n>> \in raising[t].numbers <=> counter[g] < n /\ n <= Seen(t, g)
          /\ <<g, n>> \in filed <=> 1 <= n /\ n <= counter[g]
        BY DEF NumbersInv, NumbersFollow
    <2>2. counter'[g] = Seen(t, g)
        BY <1>1
    <2>3. <<g, n>> \in filed' <=> <<g, n>> \in filed \/ <<g, n>> \in raising[t].numbers
        BY <1>1
    <2>4. counter[g] \in Nat /\ Seen(t, g) \in Nat
        BY <1>2
    <2> QED
        BY <2>1, <2>2, <2>3, <2>4
<1>6. ASSUME NEW u \in Raisers, NEW g \in Registers
      PROVE  /\ counter'[g] <= Seen(u, g)'
             /\ \A n \in Nat : <<g, n>> \in raising'[u].numbers
                                 <=> counter'[g] < n /\ n <= Seen(u, g)'
    <2>0. counter'[g] = Seen(t, g) /\ counter'[g] \in Nat
        BY <1>1, <1>2
    <2>1. CASE u = t
        <3>1. Seen(u, g)' = counter'[g] /\ raising'[u].numbers = {}
            BY <1>4, <2>1 DEF Seen
        <3> QED
            BY <2>0, <3>1
    <2>2. CASE u # t /\ raising[t].row[g] # 0
        <3>1. raising[u].row[g] = 0
            BY <2>2 DEF NumbersInv, NumbersFollow
        <3>2. Seen(u, g) = counter[g] /\ Seen(u, g)' = counter'[g]
            BY <1>4, <2>2, <3>1 DEF Seen
        <3>3. \A n \in Nat : <<g, n>> \notin raising'[u].numbers
            BY <1>2, <1>4, <2>2, <3>2 DEF NumbersInv, NumbersFollow
        <3> QED
            BY <2>0, <3>2, <3>3
    <2>3. CASE u # t /\ raising[t].row[g] = 0
        <3>1. counter'[g] = counter[g]
            BY <2>0, <2>3 DEF Seen
        <3>2. Seen(u, g)' = Seen(u, g)
            BY <1>4, <2>3, <3>1 DEF Seen
        <3> QED
            BY <1>4, <2>3, <3>1, <3>2 DEF NumbersInv, NumbersFollow
    <2> QED
        BY <2>1, <2>2, <2>3
<1>7. \A u, v \in Raisers, g \in Registers :
          u # v /\ raising'[u].row[g] # 0 => raising'[v].row[g] = 0
    BY <1>4 DEF NumbersInv, NumbersFollow
<1>8. \A u \in Raisers, g \in Registers : raising'[u].row[g] # 0 => raising'[u].open
    BY <1>4 DEF NumbersInv, NumbersFollow
<1>9. NumbersFollow'
    BY <1>1, <1>5, <1>6, <1>7, <1>8 DEF NumbersInv, NumbersFollow
<1> QED
    BY <1>3, <1>9 DEF NumbersInv

LEMMA RaiseRolledBack ==
    ASSUME NumbersInv, NEW t \in Raisers, RollBackRaise(t)
    PROVE  NumbersInv'
<1>1. raising' = [raising EXCEPT ![t] = NotRaising] /\ UNCHANGED <<year, counter, filed>>
    BY DEF RollBackRaise
<1>2. /\ \A u \in Raisers \ {t} : raising'[u] = raising[u]
      /\ raising'[t] = NotRaising /\ NotRaising.numbers = {}
      /\ \A g \in Registers : NotRaising.row[g] = 0 /\ counter[g] \in Nat
    BY <1>1 DEF NumbersInv, NumbersTypeOK, NotRaising, Untouched
<1>3. NumbersTypeOK'
    BY <1>1, NotRaisingTypes DEF NumbersInv, NumbersTypeOK
<1>4. ASSUME NEW u \in Raisers, NEW g \in Registers
      PROVE  /\ counter'[g] <= Seen(u, g)'
             /\ \A n \in Nat : <<g, n>> \in raising'[u].numbers
                                 <=> counter'[g] < n /\ n <= Seen(u, g)'
    <2>1. CASE u = t
        <3>1. Seen(u, g)' = counter[g] /\ raising'[u].numbers = {}
            BY <1>1, <1>2, <2>1 DEF Seen
        <3> QED
            BY <1>1, <1>2, <3>1
    <2>2. CASE u # t
        <3>1. Seen(u, g)' = Seen(u, g)
            BY <1>1, <1>2, <2>2 DEF Seen
        <3> QED
            BY <1>1, <1>2, <2>2, <3>1 DEF NumbersInv, NumbersFollow
    <2> QED
        BY <2>1, <2>2
<1>5. NumbersFollow'
    BY <1>1, <1>2, <1>4 DEF NumbersInv, NumbersFollow
<1> QED
    BY <1>3, <1>5 DEF NumbersInv

LEMMA NumbersSteps ==
    ASSUME NumbersInv, [NumbersNext]_numbersVars
    PROVE  NumbersInv'
<1>1. CASE UNCHANGED numbersVars
    BY <1>1 DEF NumbersInv, NumbersTypeOK, NumbersFollow, Seen, numbersVars
<1>2. CASE NewYear
    <2>1. year' \in Years /\ year' \in Nat /\ UNCHANGED <<counter, raising, filed>>
        BY <1>2, NumbersAssumption DEF NewYear, NumbersInv, NumbersFollow, Years
    <2> QED
        BY <2>1 DEF NumbersInv, NumbersTypeOK, NumbersFollow, Seen
<1>3. CASE \E t \in Raisers, line \in Lines : BeginRaise(t, line)
    BY <1>3, RaiseBegins
<1>4. CASE \E t \in Raisers : NumberTask(t) \/ NumberMirror(t)
    <2> PICK t \in Raisers : NumberTask(t) \/ NumberMirror(t)
        BY <1>4
    <2>1. raising[t] \in Raises /\ year \in Years
        BY DEF NumbersInv, NumbersTypeOK, NumbersFollow
    <2>2. <<raising[t].line, raising[t].at>> \in Registers /\ <<raising[t].line, year>> \in Registers
        BY <2>1 DEF Raises, Registers
    <2> QED
        BY <2>2, NumberTaken DEF NumberTask, NumberMirror
<1>5. CASE \E t \in Raisers : CommitRaise(t) \/ RollBackRaise(t)
    BY <1>5, RaiseCommits, RaiseRolledBack
<1> QED
    BY <1>1, <1>2, <1>3, <1>4, <1>5 DEF NumbersNext

\* The numbers of every register run from one to its counter, for any number of
\* overlapping transactions.
THEOREM RegistersHaveNoGap == NumbersSpec => []RegisterHasNoGap
<1>1. NumbersInv => RegisterHasNoGap
    <2> SUFFICES ASSUME NumbersInv, NEW g \in Registers
                 PROVE  {f \in filed : f[1] = g} = {g} \X (1 .. counter[g])
        BY DEF RegisterHasNoGap
    <2>1. counter[g] \in Nat /\ filed \subseteq Registers \X (Nat \ {0})
        BY DEF NumbersInv, NumbersTypeOK
    <2>2. \A n \in Nat : <<g, n>> \in filed <=> n \in 1 .. counter[g]
        BY <2>1 DEF NumbersInv, NumbersFollow
    <2>3. \A f \in filed : f = <<f[1], f[2]>> /\ f[2] \in Nat
        BY <2>1
    <2>4. ASSUME NEW f \in filed, f[1] = g PROVE f \in {g} \X (1 .. counter[g])
        <3>1. f = <<g, f[2]>> /\ f[2] \in Nat
            BY <2>3, <2>4
        <3> QED
            BY <2>2, <3>1
    <2>5. ASSUME NEW f \in {g} \X (1 .. counter[g]) PROVE f \in filed /\ f[1] = g
        <3>1. f = <<g, f[2]>> /\ f[2] \in 1 .. counter[g] /\ f[1] = g
            OBVIOUS
        <3> QED
            BY <2>1, <2>2, <3>1
    <2> QED
        BY <2>4, <2>5
<1> QED
    BY <1>1, NumbersStart, NumbersSteps, PTL DEF NumbersSpec

-----------------------------------------------------------------------------
(* Evidence: what a request holds back is never less than what it read.     *)

\* A list that keeps what the request read, and what is filed elsewhere as it read it.
ListKeeps(m) ==
    mover[m].stage # "idle" =>
      /\ \A d \in Refs : mover[m].seen[d] # "none" => mover[m].list[d] # "none"
      /\ \A d \in Foreign : mover[m].list[d] = mover[m].seen[d]

EvidenceInv == EvidenceTypeOK /\ EvidenceStays /\ \A m \in Movers : ListKeeps(m)

LEMMA EvidenceStart == EvidenceInit => EvidenceInv
<1> SUFFICES ASSUME EvidenceInit PROVE EvidenceInv
    OBVIOUS
<1>1. NotMoving \in [stage : {"idle", "read", "moved", "refreshed"}, seen : Lists, list : Lists]
    BY DEF NotMoving, Lists
<1>2. arrived \in Lists
    BY DEF EvidenceInit
<1>3. attached \subseteq Filed
    BY DEF EvidenceInit
<1>4. EvidenceTypeOK
    BY <1>1, <1>2, <1>3 DEF EvidenceInit, EvidenceTypeOK
<1>5. ASSUME NEW m \in Movers PROVE ListKeeps(m)
    BY DEF EvidenceInit, ListKeeps, NotMoving
<1> QED
    BY <1>4, <1>5 DEF EvidenceInit, EvidenceInv, EvidenceStays

\* Reading the row, and giving up.
LEMMA EvidenceRead ==
    ASSUME EvidenceInv, NEW m \in Movers, ReadTask(m) \/ MoveTask(m) \/ MoverStops(m)
    PROVE  EvidenceInv'
<1>1. UNCHANGED <<mirror, shown, evidence, arrived, attached, overtaken>>
    BY DEF ReadTask, MoveTask, MoverStops
<1>2. mover' \in [Movers -> [stage : {"idle", "read", "moved", "refreshed"},
                             seen : Lists, list : Lists]]
    <2>1. NotMoving \in [stage : {"idle", "read", "moved", "refreshed"}, seen : Lists, list : Lists]
        BY DEF NotMoving, Lists
    <2> QED
        BY <2>1 DEF ReadTask, MoveTask, MoverStops, EvidenceInv, EvidenceTypeOK
<1>3. ASSUME NEW k \in Movers PROVE ListKeeps(k)'
    BY <1>1 DEF ReadTask, MoveTask, MoverStops, EvidenceInv, EvidenceTypeOK,
                EvidenceStays, ListKeeps, NotMoving
<1> QED
    BY <1>1, <1>2, <1>3 DEF EvidenceInv, EvidenceTypeOK, EvidenceStays

\* Asking the register takes nothing out of a list.
LEMMA EvidenceRefreshed ==
    ASSUME EvidenceInv, NEW m \in Movers, Refresh(m)
    PROVE  EvidenceInv'
<1>1. mover[m].list \in Lists
    BY DEF EvidenceInv, EvidenceTypeOK
<1>2. /\ Refreshed(mover[m].list) \in Lists
      /\ \A d \in Refs : mover[m].list[d] # "none" => Refreshed(mover[m].list)[d] # "none"
      /\ \A d \in Foreign : Refreshed(mover[m].list)[d] = mover[m].list[d]
    BY <1>1 DEF Refreshed, Lists, Refs, EvidenceInv, EvidenceTypeOK
<1>3. /\ mover' = [mover EXCEPT ![m].stage = "refreshed", ![m].list = Refreshed(mover[m].list)]
      /\ mover[m].stage = "moved"
      /\ UNCHANGED <<mirror, shown, evidence, arrived, attached, overtaken>>
    BY DEF Refresh
<1>4. mover' \in [Movers -> [stage : {"idle", "read", "moved", "refreshed"},
                             seen : Lists, list : Lists]]
    BY <1>2, <1>3 DEF EvidenceInv, EvidenceTypeOK
<1>5. ASSUME NEW k \in Movers PROVE ListKeeps(k)'
    BY <1>2, <1>3 DEF EvidenceInv, EvidenceTypeOK, ListKeeps
<1> QED
    BY <1>3, <1>4, <1>5 DEF EvidenceInv, EvidenceTypeOK, EvidenceStays

\* A write keeps everything that was attached when the list was read.
LEMMA EvidenceWritten ==
    ASSUME EvidenceInv, NEW m \in Movers,
           UNCHANGED <<mirror, shown, arrived>>, mover' = [mover EXCEPT ![m] = NotMoving],
           evidence' \in Lists, attached' \subseteq Filed, overtaken' \subseteq Refs,
           \A e \in attached' \ overtaken' : evidence'[e] # "none",
           \A e \in Foreign \ overtaken' : evidence'[e] = arrived[e]
    PROVE  EvidenceInv'
<1>1. mover' \in [Movers -> [stage : {"idle", "read", "moved", "refreshed"},
                             seen : Lists, list : Lists]]
    <2>1. NotMoving \in [stage : {"idle", "read", "moved", "refreshed"}, seen : Lists, list : Lists]
        BY DEF NotMoving, Lists
    <2> QED
        BY <2>1 DEF EvidenceInv, EvidenceTypeOK
<1>2. ASSUME NEW k \in Movers PROVE ListKeeps(k)'
    BY DEF EvidenceInv, EvidenceTypeOK, ListKeeps, NotMoving
<1> QED
    BY <1>1, <1>2 DEF EvidenceInv, EvidenceTypeOK, EvidenceStays

LEMMA EvidenceSaved ==
    ASSUME EvidenceInv, NEW m \in Movers, SaveEvidence(m)
    PROVE  EvidenceInv'
<1>1. mover[m].list \in Lists /\ mover[m].stage # "idle" /\ ListKeeps(m) /\ attached \subseteq Refs
    BY DEF EvidenceInv, EvidenceTypeOK, SaveEvidence, Refs
<1>2. /\ evidence' \in Lists /\ attached' \subseteq Filed /\ overtaken' \subseteq Refs
      /\ \A e \in attached' \ overtaken' : evidence'[e] # "none"
      /\ \A e \in Foreign \ overtaken' : evidence'[e] = arrived[e]
    BY <1>1 DEF SaveEvidence, Overwritten, ListKeeps, EvidenceInv, EvidenceTypeOK, Refs
<1> QED
    BY <1>2, EvidenceWritten DEF SaveEvidence

LEMMA EvidenceAttached ==
    ASSUME EvidenceInv, NEW m \in Movers, NEW d \in Filed, AttachDocument(m, d)
    PROVE  EvidenceInv'
<1>1. /\ mover[m].list \in Lists /\ mover[m].stage # "idle" /\ ListKeeps(m)
      /\ d \notin Foreign /\ attached \subseteq Refs
    BY EvidenceAssumption DEF EvidenceInv, EvidenceTypeOK, AttachDocument, Refs
<1>2. /\ WithEvidence(mover[m].list, d) \in Lists
      /\ WithEvidence(mover[m].list, d)[d] # "none"
      /\ \A e \in Refs \ {d} : WithEvidence(mover[m].list, d)[e] = mover[m].list[e]
    BY <1>1 DEF AttachDocument, WithEvidence, Lists, Refs, EvidenceInv, EvidenceTypeOK
<1>3. /\ attached' = attached \cup {d} /\ evidence' = WithEvidence(mover[m].list, d)
      /\ overtaken' = Overwritten(m) \ {d}
    BY DEF AttachDocument
<1>4. \A e \in Foreign : e \in Refs \ {d}
    BY <1>1 DEF Refs
<1>5. Overwritten(m) \subseteq Refs
    BY <1>1 DEF Overwritten, Refs
<1>6. \A e \in attached \ Overwritten(m) : mover[m].list[e] # "none"
    BY <1>1 DEF Overwritten, ListKeeps
<1>7. attached \subseteq Filed
    BY DEF EvidenceInv, EvidenceTypeOK
<1>8. \A e \in attached' \ overtaken' : evidence'[e] # "none"
    BY <1>1, <1>2, <1>3, <1>6
<1>9. \A e \in Foreign \ overtaken' : evidence'[e] = arrived[e]
    BY <1>1, <1>2, <1>3, <1>4 DEF ListKeeps, Overwritten
<1>10. attached' \subseteq Filed /\ overtaken' \subseteq Refs /\ evidence' \in Lists
    BY <1>2, <1>3, <1>5, <1>7
<1> QED
    BY <1>8, <1>9, <1>10, EvidenceWritten DEF AttachDocument

\* News from below make the list theirs.
LEMMA EvidenceReceived ==
    ASSUME EvidenceInv, NEW list \in Lists, ReceiveUpdate(list)
    PROVE  EvidenceInv'
<1>1. attached \subseteq Refs /\ UNCHANGED <<mirror, shown, mover, attached>>
    BY DEF EvidenceInv, EvidenceTypeOK, ReceiveUpdate, Refs
<1>2. EvidenceTypeOK'
    BY <1>1 DEF EvidenceInv, EvidenceTypeOK, ReceiveUpdate
<1>3. EvidenceStays'
    BY <1>1 DEF ReceiveUpdate, EvidenceStays
<1>4. ASSUME NEW k \in Movers PROVE ListKeeps(k)'
    BY <1>1 DEF EvidenceInv, ListKeeps
<1> QED
    BY <1>2, <1>3, <1>4 DEF EvidenceInv

LEMMA EvidenceSteps ==
    ASSUME EvidenceInv, [EvidenceNext]_evidenceVars
    PROVE  EvidenceInv'
<1>1. CASE UNCHANGED evidenceVars
    BY <1>1 DEF EvidenceInv, EvidenceTypeOK, EvidenceStays, ListKeeps, evidenceVars
<1>2. CASE \E d \in Filed : SignDocument(d) \/ LoseDocument(d)
    BY <1>2 DEF EvidenceInv, EvidenceTypeOK, EvidenceStays, ListKeeps, SignDocument, LoseDocument
<1>3. CASE \E m \in Movers : ReadTask(m) \/ MoveTask(m) \/ MoverStops(m)
    BY <1>3, EvidenceRead
<1>4. CASE \E m \in Movers : Refresh(m) \/ SaveEvidence(m)
    BY <1>4, EvidenceRefreshed, EvidenceSaved
<1>5. CASE \E m \in Movers, d \in Filed : AttachDocument(m, d)
    BY <1>5, EvidenceAttached
<1>6. CASE \E list \in Lists : ReceiveUpdate(list)
    BY <1>6, EvidenceReceived
<1> QED
    BY <1>1, <1>2, <1>3, <1>4, <1>5, <1>6 DEF EvidenceNext

\* What was attached stays through any refreshing and what the other side sent
\* stays as it came, except for what a list older than it has overwritten.
THEOREM EvidenceKept == EvidenceSpec => []EvidenceStays
<1>1. EvidenceInv => EvidenceStays
    BY DEF EvidenceInv
<1> QED
    BY <1>1, EvidenceStart, EvidenceSteps, PTL DEF EvidenceSpec
=============================================================================
