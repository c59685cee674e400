-------------------------- MODULE IntegrationGrants --------------------------
(***************************************************************************)
(* One connector to an outside account: modules/integrations.               *)
(*                                                                         *)
(* An administrator's consent leaves a grant: an access token and, mostly,  *)
(* a token to renew it with.  Exports that find the access token unusable   *)
(* renew it under a lock held in the process.  Providers may rotate: the    *)
(* answer to a renewal carries a new renewal token, and the old one is      *)
(* spent.  Presenting a spent one loses the grant with such a provider.     *)
(* Tokens are numbers in the order they were given out; 0 is none.          *)
(***************************************************************************)
EXTENDS Integers, FiniteSets

CONSTANTS
    Attempts,    \* bound: consent screens opened
    Callers,     \* exports and meetings that may overlap
    MaxTokens    \* bound: tokens the provider gives out

ASSUME GrantsAssumption == MaxTokens \in Nat

VARIABLES
    connector,   \* the row of workspace.integrations
    attempt,     \* integration_oauth_states, and the callback at work
    caller,      \* accessToken and refreshAccess at work
    given,       \* tokens given out by the provider
    spent,       \* renewal tokens it has replaced
    unkept       \* those whose replacement never reached the row

grantVars == <<connector, attempt, caller, given, spent, unkept>>

-----------------------------------------------------------------------------
(* The row and the requests *)

Tokens == 0 .. MaxTokens
Grants == [access : Tokens, renewal : Tokens]
NoGrant == [access |-> 0, renewal |-> 0]

Connectors == [exists : BOOLEAN, active : BOOLEAN, grant : Grants]
Connected == connector.exists /\ connector.grant # NoGrant

AttemptStages == {"none", "begun", "redeemed", "granted", "over"}
Idle == [stage |-> "idle", held |-> NoGrant, presented |-> 0]
CallerStages == {"idle", "using", "stale", "asking", "answered"}

GrantsTypeOK ==
    /\ connector \in Connectors
    /\ attempt \in [Attempts -> [stage : AttemptStages, grant : Grants]]
    /\ caller \in [Callers -> [stage : CallerStages, held : Grants, presented : Tokens]]
    /\ given \in Tokens
    /\ spent \in SUBSET (1 .. MaxTokens) /\ unkept \subseteq spent

GrantsInit ==
    /\ connector = [exists |-> TRUE, active |-> TRUE, grant |-> NoGrant]
    /\ attempt = [a \in Attempts |-> [stage |-> "none", grant |-> NoGrant]]
    /\ caller = [c \in Callers |-> Idle]
    /\ given = 0
    /\ spent = {} /\ unkept = {}

\* The mutex of refreshLocks.
LockIsFree == \A c \in Callers : caller[c].stage \notin {"asking", "answered"}

-----------------------------------------------------------------------------
(* The administrator *)

\* Update, whose status may be the one it read earlier.
UpdateConnector(active) ==
    /\ connector.exists
    /\ connector' = [connector EXCEPT !.active = active]
    /\ UNCHANGED <<attempt, caller, given, spent, unkept>>

\* Disconnect.
Disconnect ==
    /\ connector.exists
    /\ connector' = [connector EXCEPT !.active = FALSE, !.grant = NoGrant]
    /\ UNCHANGED <<attempt, caller, given, spent, unkept>>

\* Delete; the state rows go with it.
DeleteConnector ==
    /\ connector.exists
    /\ connector' = [exists |-> FALSE, active |-> FALSE, grant |-> NoGrant]
    /\ attempt' = [a \in Attempts |-> IF attempt[a].stage = "begun"
                                      THEN [attempt[a] EXCEPT !.stage = "over"] ELSE attempt[a]]
    /\ UNCHANGED <<caller, given, spent, unkept>>

\* BeginConnect: a state row with a time limit.
BeginConnect(a) ==
    /\ connector.exists /\ attempt[a].stage = "none"
    /\ attempt' = [attempt EXCEPT ![a].stage = "begun"]
    /\ UNCHANGED <<connector, caller, given, spent, unkept>>

\* The time limit passes, and sweepOnce takes the row away.
AttemptExpires(a) ==
    /\ attempt[a].stage = "begun"
    /\ attempt' = [attempt EXCEPT ![a].stage = "over"]
    /\ UNCHANGED <<connector, caller, given, spent, unkept>>

\* CompleteConnect, DELETE ... RETURNING: a second callback finds no row.
RedeemState(a) ==
    /\ attempt[a].stage = "begun"
    /\ attempt' = [attempt EXCEPT ![a].stage = IF connector.exists THEN "redeemed" ELSE "over"]
    /\ UNCHANGED <<connector, caller, given, spent, unkept>>

\* exchangeCode: the provider's answer, with a renewal token or without, or none.
ExchangeCode(a, renewable) ==
    /\ attempt[a].stage = "redeemed" /\ given + 2 <= MaxTokens
    /\ attempt' = [attempt EXCEPT ![a] = [stage |-> "granted",
                       grant |-> [access |-> given + 1, renewal |-> IF renewable THEN given + 2 ELSE 0]]]
    /\ given' = given + (IF renewable THEN 2 ELSE 1)
    /\ UNCHANGED <<connector, caller, spent, unkept>>

ExchangeFails(a) ==
    /\ attempt[a].stage \in {"redeemed", "granted"}
    /\ attempt' = [attempt EXCEPT ![a] = [stage |-> "over", grant |-> NoGrant]]
    /\ UNCHANGED <<connector, caller, given, spent, unkept>>

\* saveGrant, of a connector that is still there.
SaveGrant(a) ==
    /\ attempt[a].stage = "granted"
    /\ connector' = IF connector.exists
                    THEN [connector EXCEPT !.active = TRUE, !.grant = attempt[a].grant]
                    ELSE connector
    /\ attempt' = [attempt EXCEPT ![a] = [stage |-> "over", grant |-> NoGrant]]
    /\ UNCHANGED <<caller, given, spent, unkept>>

-----------------------------------------------------------------------------
(* Exports and meetings *)

\* ExportFile and CreateMeeting read the connector, then accessToken the tokens.
TakeToken(c) ==
    /\ caller[c].stage = "idle"
    /\ Connected /\ connector.active
    /\ caller' = [caller EXCEPT ![c] = [Idle EXCEPT !.stage = "using", !.held = connector.grant]]
    /\ UNCHANGED <<connector, attempt, given, spent, unkept>>

\* It works, or fails for another reason.
Done(c) ==
    /\ caller[c].stage = "using"
    /\ caller' = [caller EXCEPT ![c] = Idle]
    /\ UNCHANGED <<connector, attempt, given, spent, unkept>>

\* It has expired, or the provider answers 401 (tokenAfterRejection).
TurnsStale(c) ==
    /\ caller[c].stage = "using"
    /\ caller' = [caller EXCEPT ![c].stage = "stale"]
    /\ UNCHANGED <<connector, attempt, given, spent, unkept>>

\* Slip: under the lock it does not read the row again.
RenewUnread(c) ==
    /\ caller[c].stage = "stale" /\ LockIsFree
    /\ caller' = [caller EXCEPT ![c] = IF caller[c].held.renewal = 0 THEN Idle
                                       ELSE [caller[c] EXCEPT !.stage = "asking",
                                                              !.presented = caller[c].held.renewal]]
    /\ UNCHANGED <<connector, attempt, given, spent, unkept>>

\* refreshAccess under the lock: another has renewed it, there is nothing to renew
\* it with, or the renewal token of the row is presented.
Renew(c) ==
    /\ caller[c].stage = "stale" /\ LockIsFree
    /\ caller' = [caller EXCEPT ![c] =
                     IF ~Connected \/ connector.grant.access # caller[c].held.access
                        \/ connector.grant.renewal = 0
                     THEN Idle ELSE [stage |-> "asking", held |-> connector.grant,
                                     presented |-> connector.grant.renewal]]
    /\ UNCHANGED <<connector, attempt, given, spent, unkept>>

\* The provider renews what it has not replaced, and may rotate; without a new
\* renewal token in the answer refresh keeps the old one.
ProviderRenews(c, rotates) ==
    /\ caller[c].stage = "asking" /\ caller[c].presented \notin spent
    /\ given + 2 <= MaxTokens
    /\ LET old == caller[c].presented
       IN  /\ caller' = [caller EXCEPT ![c] = [stage |-> "answered", presented |-> old,
                            held |-> [access |-> given + 1, renewal |-> IF rotates THEN given + 2 ELSE old]]]
           /\ given' = given + (IF rotates THEN 2 ELSE 1)
           /\ spent' = IF rotates THEN spent \cup {old} ELSE spent
           /\ unkept' = IF rotates THEN unkept \cup {old} ELSE unkept
    /\ UNCHANGED <<connector, attempt>>

\* The provider refuses, or its answer is lost, and it may have rotated.
RenewFails(c, rotated) ==
    /\ caller[c].stage = "asking"
    /\ caller' = [caller EXCEPT ![c] = Idle]
    /\ spent' = IF rotated THEN spent \cup {caller[c].presented} ELSE spent
    /\ unkept' = IF rotated THEN unkept \cup {caller[c].presented} ELSE unkept
    /\ UNCHANGED <<connector, attempt, given>>

\* refreshTokens: whatever the row holds by now, a grant of another account or
\* none; then the lock is let go.
StoreRenewed(c) ==
    /\ caller[c].stage = "answered"
    /\ connector' = IF connector.exists THEN [connector EXCEPT !.grant = caller[c].held] ELSE connector
    /\ unkept' = IF connector.exists THEN unkept \ {caller[c].presented} ELSE unkept
    /\ caller' = [caller EXCEPT ![c] = Idle]
    /\ UNCHANGED <<attempt, given, spent>>

\* The UPDATE fails.
StoreFails(c) ==
    /\ caller[c].stage = "answered"
    /\ caller' = [caller EXCEPT ![c] = Idle]
    /\ UNCHANGED <<connector, attempt, given, spent, unkept>>

\* The process restarts: callbacks, exports and locks are gone.
Restart ==
    /\ caller' = [c \in Callers |-> Idle]
    /\ attempt' = [a \in Attempts |-> IF attempt[a].stage \in {"redeemed", "granted"}
                                      THEN [stage |-> "over", grant |-> NoGrant] ELSE attempt[a]]
    /\ UNCHANGED <<connector, given, spent, unkept>>

-----------------------------------------------------------------------------
GrantsNext ==
    \/ \E active \in BOOLEAN : UpdateConnector(active)
    \/ Disconnect \/ DeleteConnector \/ Restart
    \/ \E a \in Attempts : BeginConnect(a) \/ AttemptExpires(a) \/ RedeemState(a)
    \/ \E a \in Attempts, renewable \in BOOLEAN : ExchangeCode(a, renewable)
    \/ \E a \in Attempts : ExchangeFails(a) \/ SaveGrant(a)
    \/ \E c \in Callers : TakeToken(c) \/ Done(c) \/ TurnsStale(c) \/ Renew(c)
    \/ \E c \in Callers, rotates \in BOOLEAN : ProviderRenews(c, rotates) \/ RenewFails(c, rotates)
    \/ \E c \in Callers : StoreRenewed(c) \/ StoreFails(c)

GrantsSpec == GrantsInit /\ [][GrantsNext]_grantVars

-----------------------------------------------------------------------------
(* Properties *)

\* Exports that find the token expired together renew it once: a renewal token
\* that the provider has replaced is not presented again, whatever the
\* administrator disconnects or reconnects meanwhile.  A replacement that never
\* reached the row, because the answer or the process was lost, is not covered.
SpentOnce ==
    \A c \in Callers : caller[c].stage = "asking" => caller[c].presented \notin spent \ unkept
=============================================================================
