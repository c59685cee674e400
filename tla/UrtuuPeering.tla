----------------------------- MODULE UrtuuPeering -----------------------------
(***************************************************************************)
(* How a link comes to be: modules/urtuu/channel/peers.go.                  *)
(*                                                                         *)
(* The organisation above invites and writes a row; the one below joins,    *)
(* writes a row of its own and hands over its key and token with the code;  *)
(* the one above confirms.  The request in between may be lost, be late, or *)
(* have its answer lost, and either side may end the link at any moment.    *)
(* UrtuuChannel takes up where both rows are active.                        *)
(***************************************************************************)
EXTENDS Naturals

CONSTANTS
    Invitations,   \* bound: rows of the organisation above
    Joins,         \* bound: attempts to join, each with a row below
    Unheld         \* no attempt, no invitation

ASSUME PeeringAssumption == Unheld \notin Invitations /\ Unheld \notin Joins

VARIABLES
    above,         \* urtuu_peers of the organisation that invites
    below,         \* urtuu_peers of those that join
    asked          \* the request for redemption an attempt has sent

peeringVars == <<above, below, asked>>

-----------------------------------------------------------------------------
(* The rows *)

PeerStatus == {"none", "pending", "active", "revoked"}

\* code: invite_code_hash and its expiry.  key: whose public key it holds.
\* token: whether token_hash is that attempt's.
Above == [status : PeerStatus, code : {"open", "expired", "cleared"},
          key : Joins \cup {Unheld}, token : BOOLEAN]

\* code: the invitation the administrator typed; ended: revoked_at.
Below == [status : PeerStatus, code : Invitations \cup {Unheld}, ended : BOOLEAN]

PeeringTypeOK ==
    /\ above \in [Invitations -> Above]
    /\ below \in [Joins -> Below]
    /\ asked \in [Joins -> {"no", "sent", "accepted", "refused", "heard", "unheard"}]

PeeringInit ==
    /\ above = [i \in Invitations |-> [status |-> "none", code |-> "cleared", key |-> Unheld,
                                       token |-> FALSE]]
    /\ below = [j \in Joins |-> [status |-> "none", code |-> Unheld, ended |-> FALSE]]
    /\ asked = [j \in Joins |-> "no"]

-----------------------------------------------------------------------------
(* Above *)

\* handleInvite.
Invite(i) ==
    /\ above[i].status = "none"
    /\ above' = [above EXCEPT ![i].status = "pending", ![i].code = "open"]
    /\ UNCHANGED <<below, asked>>

\* inviteWindow has passed.
InviteExpires(i) ==
    /\ above[i].code = "open"
    /\ above' = [above EXCEPT ![i].code = "expired"]
    /\ UNCHANGED <<below, asked>>

\* Whether the UPDATE of HandleRedeem finds a row.
Redeemable(i) == i # Unheld /\ above[i].code = "open" /\ above[i].status = "pending"

\* Slip: the code is kept, so that a retry finds it.
RedeemKeeping(j) ==
    /\ asked[j] = "sent" /\ Redeemable(below[j].code)
    /\ above' = [above EXCEPT ![below[j].code].key = j, ![below[j].code].token = TRUE]
    /\ asked' = [asked EXCEPT ![j] = "accepted"]
    /\ UNCHANGED below

\* HandleRedeem: one UPDATE by the code; the code goes as the token comes.
Redeem(j) ==
    /\ asked[j] = "sent" /\ Redeemable(below[j].code)
    /\ above' = [above EXCEPT ![below[j].code] =
                    [@ EXCEPT !.code = "cleared", !.key = j, !.token = TRUE]]
    /\ asked' = [asked EXCEPT ![j] = "accepted"]
    /\ UNCHANGED below

\* One answer for expired, spent, revoked and never issued.
RefuseRedeem(j) ==
    /\ asked[j] = "sent" /\ ~Redeemable(below[j].code)
    /\ asked' = [asked EXCEPT ![j] = "refused"]
    /\ UNCHANGED <<above, below>>

\* handleConfirm.
Confirm(i) ==
    /\ above[i].status = "pending"
    /\ above[i].key # Unheld /\ above[i].token
    /\ above' = [above EXCEPT ![i].status = "active"]
    /\ UNCHANGED <<below, asked>>

\* handleRevoke on the inviting side.
RevokeAbove(i) ==
    /\ above[i].status \in {"pending", "active"}
    /\ above' = [above EXCEPT ![i] = [@ EXCEPT !.status = "revoked", !.code = "cleared", !.token = FALSE]]
    /\ UNCHANGED <<below, asked>>

-----------------------------------------------------------------------------
(* Below *)

\* handleJoin as far as the POST: fetchWellKnown was answered by another
\* installation, the row is written, its token is derived from its id.  A code
\* that was mistyped is Unheld.
Join(j, invitation) ==
    /\ below[j].status = "none"
    /\ below' = [below EXCEPT ![j].status = "pending", ![j].code = invitation]
    /\ asked' = [asked EXCEPT ![j] = "sent"]
    /\ UNCHANGED above

\* The answer does not come, or not within wellKnownTimeout: the row keeps the
\* error.  The request may still be on its way.
JoinFails(j) ==
    /\ \/ asked[j] = "refused" /\ asked' = [asked EXCEPT ![j] = "heard"]
       \/ asked[j] = "accepted" /\ asked' = [asked EXCEPT ![j] = "unheard"]
    /\ UNCHANGED <<above, below>>

RequestLost(j) ==
    /\ asked[j] = "sent"
    /\ asked' = [asked EXCEPT ![j] = "unheard"]
    /\ UNCHANGED <<above, below>>

\* handleJoin after a 200: the row is active whatever it was by now; revoked_at
\* of a link that was revoked meanwhile is left in it.
Activate(j) ==
    /\ asked[j] = "accepted"
    /\ below' = [below EXCEPT ![j].status = "active"]
    /\ asked' = [asked EXCEPT ![j] = "heard"]
    /\ UNCHANGED above

\* handleRevoke on the joining side.
RevokeBelow(j) ==
    /\ below[j].status # "none" /\ ~below[j].ended
    /\ below' = [below EXCEPT ![j].status = "revoked", ![j].ended = TRUE]
    /\ UNCHANGED <<above, asked>>

-----------------------------------------------------------------------------
PeeringNext ==
    \/ \E i \in Invitations : Invite(i) \/ InviteExpires(i) \/ Confirm(i) \/ RevokeAbove(i)
    \/ \E j \in Joins : Redeem(j) \/ RefuseRedeem(j) \/ JoinFails(j) \/ RequestLost(j)
    \/ \E j \in Joins, invitation \in Invitations \cup {Unheld} : Join(j, invitation)
    \/ \E j \in Joins : Activate(j) \/ RevokeBelow(j)

PeeringSpec == PeeringInit /\ [][PeeringNext]_peeringVars

-----------------------------------------------------------------------------
(* Properties *)

\* A row below is active only if an invitation was redeemed with its key, and
\* that invitation serves no other row, however often the same code is tried
\* again after a lost answer; and the one above exchanges with nobody whose
\* token it does not hold.
LinkIsEarned ==
    /\ \A j \in Joins : below[j].status = "active" => \E i \in Invitations : above[i].key = j
    /\ \A i \in Invitations : above[i].status = "active" =>
           /\ above[i].token
           /\ \A j \in Joins \ {above[i].key} : below[j].status = "active" => below[j].code # i
=============================================================================
