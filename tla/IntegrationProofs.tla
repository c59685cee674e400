-------------------------- MODULE IntegrationProofs --------------------------
(***************************************************************************)
(* Theorems about IntegrationGrants and IntegrationDeliveries, for any      *)
(* numbers of exports, consent screens, events, subscribers, slots, tries   *)
(* and tokens.                                                             *)
(*                                                                         *)
(* Renewal tokens: only one caller holds the lock, and a token that nobody  *)
(* has stored yet differs from every token somebody else may present.       *)
(* Deliveries: until a delivery is over it has written no row, and it has   *)
(* been taken only if an answer was lost.                                  *)
(***************************************************************************)
EXTENDS IntegrationGrants, IntegrationDeliveries, TLAPS

-----------------------------------------------------------------------------
(* Grants *)

AtLock(c) == caller[c].stage \in {"asking", "answered"}
OneAtLock == \A c, b \in Callers : AtLock(c) /\ AtLock(b) => c = b

\* What the holder of the lock presents and has got is among the tokens given
\* out; what it has got is not spent, what it is about to present not to be seen.
HolderIsCurrent(c) ==
    AtLock(c) =>
      /\ caller[c].presented \in 1 .. given /\ caller[c].held.renewal \in 1 .. given
      /\ caller[c].stage = "asking" => /\ caller[c].presented \notin spent \ unkept
                                       /\ caller[c].held.renewal = caller[c].presented
      /\ caller[c].stage = "answered" => caller[c].held.renewal \notin spent

\* The renewal token of a grant that was not stored is nobody else's.
Fresh(token, a) ==
    /\ token # connector.grant.renewal
    /\ \A c \in Callers : AtLock(c) => token # caller[c].presented /\ token # caller[c].held.renewal
    /\ \A b \in Attempts \ {a} : token # attempt[b].grant.renewal

AttemptIsFresh(a) ==
    LET token == attempt[a].grant.renewal
    IN  token # 0 => token \in 1 .. given /\ token \notin spent /\ Fresh(token, a)

RowIsCurrent == connector.grant.renewal <= given /\ connector.grant.renewal \notin spent \ unkept

GrantsInv ==
    /\ GrantsTypeOK
    /\ spent \subseteq 1 .. given
    /\ RowIsCurrent
    /\ OneAtLock
    /\ \A c \in Callers : HolderIsCurrent(c)
    /\ \A a \in Attempts : AttemptIsFresh(a)

LEMMA GrantsStart == GrantsInit => GrantsInv
BY GrantsAssumption
   DEF GrantsInit, GrantsInv, GrantsTypeOK, Connectors, Grants, NoGrant, Tokens, Idle, AttemptStages,
       CallerStages, RowIsCurrent, OneAtLock, AtLock, HolderIsCurrent, AttemptIsFresh

\* The types of what the steps touch.
LEMMA GrantsTypes ==
    ASSUME GrantsInv
    PROVE  /\ given \in Nat /\ given <= MaxTokens /\ MaxTokens \in Nat
           /\ connector \in Connectors
           /\ connector.grant \in Grants /\ connector.grant.renewal \in Tokens
           /\ connector.exists \in BOOLEAN
           /\ \A a \in Attempts : /\ attempt[a] \in [stage : AttemptStages, grant : Grants]
                                  /\ attempt[a].grant \in Grants
                                  /\ attempt[a].grant.renewal \in Tokens
           /\ \A c \in Callers :
                /\ caller[c] \in [stage : CallerStages, held : Grants, presented : Tokens]
                /\ caller[c].held \in Grants /\ caller[c].held.renewal \in Tokens
                /\ caller[c].presented \in Tokens
           /\ NoGrant \in Grants /\ NoGrant.renewal = 0 /\ 0 \in Tokens
           /\ Idle \in [stage : CallerStages, held : Grants, presented : Tokens]
           /\ Idle.stage = "idle"
BY GrantsAssumption DEF GrantsInv, GrantsTypeOK, Tokens, Connectors, Grants, NoGrant, Idle, CallerStages

\* A step of the administrator: the row keeps its renewal token or loses it, and
\* consents not begun, or over, hold none.
LEMMA RowAndAttempts ==
    ASSUME GrantsInv, UNCHANGED <<caller, given, spent, unkept>>,
           connector' \in Connectors, connector'.grant \in {connector.grant, NoGrant},
           attempt' \in [Attempts -> [stage : AttemptStages, grant : Grants]],
           \A a \in Attempts : attempt'[a].grant \in {attempt[a].grant, NoGrant}
    PROVE  GrantsInv'
<1>1. connector'.grant.renewal \in {connector.grant.renewal, 0}
    BY GrantsTypes
<1>2. \A a \in Attempts : attempt'[a].grant.renewal \in {attempt[a].grant.renewal, 0}
    BY GrantsTypes
<1>3. GrantsTypeOK'
    BY DEF GrantsInv, GrantsTypeOK
<1>4. 0 \notin spent /\ 0 <= given
    BY GrantsTypes DEF GrantsInv
<1>5. RowIsCurrent'
    BY <1>1, <1>4 DEF GrantsInv, RowIsCurrent
<1>6. OneAtLock' /\ \A c \in Callers : HolderIsCurrent(c)' /\ AtLock(c)' = AtLock(c)
    BY DEF GrantsInv, OneAtLock, AtLock, HolderIsCurrent
<1>7. ASSUME NEW a \in Attempts PROVE AttemptIsFresh(a)'
    BY <1>1, <1>2, <1>6 DEF GrantsInv, AttemptIsFresh, Fresh
<1> QED
    BY <1>3, <1>5, <1>6, <1>7 DEF GrantsInv

\* Callers that are not at the lock, before and after.
LEMMA CallerElsewhere ==
    ASSUME GrantsInv, UNCHANGED <<connector, attempt, given, spent, unkept>>,
           caller' \in [Callers -> [stage : CallerStages, held : Grants, presented : Tokens]],
           \A c \in Callers : caller'[c] = caller[c] \/ caller'[c].stage \in {"idle", "using", "stale"}
    PROVE  GrantsInv'
<1>1. GrantsTypeOK' /\ RowIsCurrent'
    BY DEF GrantsInv, GrantsTypeOK, RowIsCurrent
<1>2. \A c \in Callers : AtLock(c)' => AtLock(c) /\ caller'[c] = caller[c]
    BY DEF AtLock
<1>3. OneAtLock' /\ \A c \in Callers : HolderIsCurrent(c)'
    BY <1>2 DEF GrantsInv, OneAtLock, AtLock, HolderIsCurrent
<1>4. ASSUME NEW a \in Attempts PROVE AttemptIsFresh(a)'
    BY <1>2 DEF GrantsInv, AttemptIsFresh, Fresh
<1> QED
    BY <1>1, <1>3, <1>4 DEF GrantsInv

\* A consent is answered: its tokens are the next the provider gives out.
LEMMA CodeExchanged ==
    ASSUME GrantsInv, NEW a \in Attempts, NEW renewable \in BOOLEAN, ExchangeCode(a, renewable)
    PROVE  GrantsInv'
<1> DEFINE token == IF renewable THEN given + 2 ELSE 0
           new == [stage |-> "granted", grant |-> [access |-> given + 1, renewal |-> token]]
<1>1. /\ attempt' = [attempt EXCEPT ![a] = new]
      /\ given' = given + (IF renewable THEN 2 ELSE 1)
      /\ given + 2 <= MaxTokens /\ UNCHANGED <<connector, caller, spent, unkept>>
    BY DEF ExchangeCode
<1>2. /\ given' \in Nat /\ given' <= MaxTokens /\ given < given'
      /\ token # 0 => token = given' /\ token > given
      /\ token \in Tokens /\ given + 1 \in Tokens
    BY <1>1, GrantsTypes DEF Tokens
<1>3. new \in [stage : AttemptStages, grant : Grants] /\ new.grant.renewal = token
    BY <1>2 DEF AttemptStages, Grants
<1> HIDE DEF token, new
<1>4. GrantsTypeOK'
    BY <1>1, <1>2, <1>3 DEF GrantsInv, GrantsTypeOK, Tokens
<1>5. spent' \subseteq 1 .. given' /\ RowIsCurrent'
    BY <1>1, <1>2, GrantsTypes DEF GrantsInv, RowIsCurrent, Tokens
<1>6. OneAtLock' /\ \A c \in Callers : HolderIsCurrent(c)' /\ AtLock(c)' = AtLock(c)
    BY <1>1, <1>2, GrantsTypes DEF GrantsInv, OneAtLock, AtLock, HolderIsCurrent, Tokens
<1>7. attempt'[a] = new /\ \A b \in Attempts \ {a} : attempt'[b] = attempt[b]
    BY <1>1 DEF GrantsInv, GrantsTypeOK
<1>8. \A b \in Attempts : attempt[b].grant.renewal <= given
    BY GrantsTypes DEF GrantsInv, AttemptIsFresh, Tokens
<1>9. \A c \in Callers : AtLock(c) => caller[c].presented <= given /\ caller[c].held.renewal <= given
    BY GrantsTypes DEF GrantsInv, HolderIsCurrent, Tokens
<1>10. ASSUME NEW b \in Attempts, b # a PROVE AttemptIsFresh(b)'
    <2>1. PICK mine \in Nat : mine = attempt[b].grant.renewal /\ mine <= given
        BY <1>8, GrantsTypes DEF Tokens
    <2>2. attempt'[b].grant.renewal = mine /\ (mine # 0 => mine # token)
        BY <1>2, <1>7, <1>10, <2>1, GrantsTypes
    <2>3. mine # 0 => mine \in 1 .. given /\ mine \notin spent /\ Fresh(mine, b)
        BY <2>1 DEF GrantsInv, AttemptIsFresh
    <2>4. mine # 0 => Fresh(mine, b)'
        BY <1>1, <1>3, <1>6, <1>7, <2>2, <2>3 DEF Fresh
    <2> QED
        BY <1>1, <1>2, <2>1, <2>2, <2>3, <2>4, GrantsTypes DEF AttemptIsFresh
<1>11. AttemptIsFresh(a)'
    <2>1. PICK mine \in Nat : mine = token
        BY <1>2 DEF Tokens
    <2>2. attempt'[a].grant.renewal = mine
        BY <1>3, <1>7, <2>1
    <2>3. mine # 0 => mine \in 1 .. given' /\ mine \notin spent' /\ mine > given
        BY <1>1, <1>2, <2>1, GrantsTypes DEF GrantsInv
    <2>4. mine # 0 => Fresh(mine, a)'
        <3> SUFFICES ASSUME mine > given PROVE Fresh(mine, a)'
            BY <2>3
        <3>1. mine # connector.grant.renewal
            BY GrantsTypes DEF GrantsInv, RowIsCurrent, Tokens
        <3>2. ASSUME NEW c \in Callers, AtLock(c)
              PROVE  mine # caller[c].presented /\ mine # caller[c].held.renewal
            BY <1>9, <3>2, GrantsTypes DEF Tokens
        <3>3. ASSUME NEW b \in Attempts \ {a} PROVE mine # attempt[b].grant.renewal
            BY <1>8, GrantsTypes DEF Tokens
        <3> QED
            BY <1>1, <1>6, <1>7, <3>1, <3>2, <3>3 DEF Fresh
    <2> QED
        BY <2>2, <2>3, <2>4 DEF AttemptIsFresh
<1> QED
    BY <1>4, <1>5, <1>6, <1>10, <1>11 DEF GrantsInv

\* A consent is stored: its token moves from the callback to the row.
LEMMA GrantSaved ==
    ASSUME GrantsInv, NEW a \in Attempts, SaveGrant(a)
    PROVE  GrantsInv'
<1> DEFINE token == attempt[a].grant.renewal
           new == [stage |-> "over", grant |-> NoGrant]
<1>1. /\ attempt' = [attempt EXCEPT ![a] = new]
      /\ UNCHANGED <<caller, given, spent, unkept>>
    BY DEF SaveGrant
<1>2. new \in [stage : AttemptStages, grant : Grants] /\ new.grant.renewal = 0
    BY GrantsTypes DEF AttemptStages
<1> HIDE DEF new
<1>3. /\ connector' \in Connectors
      /\ connector'.grant.renewal \in {connector.grant.renewal, token}
    BY GrantsTypes DEF SaveGrant, Connectors
<1>4. GrantsTypeOK'
    BY <1>1, <1>2, <1>3 DEF GrantsInv, GrantsTypeOK
<1>5. AttemptIsFresh(a) /\ token \in Nat /\ 0 \notin spent
    BY GrantsTypes DEF GrantsInv, Tokens
<1>6. RowIsCurrent'
    BY <1>1, <1>3, <1>5, GrantsTypes DEF GrantsInv, RowIsCurrent, AttemptIsFresh
<1>7. OneAtLock' /\ \A c \in Callers : HolderIsCurrent(c)' /\ AtLock(c)' = AtLock(c)
    BY <1>1 DEF GrantsInv, OneAtLock, AtLock, HolderIsCurrent
<1>8. attempt'[a] = new /\ \A b \in Attempts \ {a} : attempt'[b] = attempt[b]
    BY <1>1 DEF GrantsInv, GrantsTypeOK
<1>9. ASSUME NEW b \in Attempts, b # a PROVE AttemptIsFresh(b)'
    <2>1. attempt[b].grant.renewal # 0 => attempt[b].grant.renewal # token
        BY <1>9 DEF GrantsInv, AttemptIsFresh, Fresh
    <2>2. attempt[b].grant.renewal # 0 => Fresh(attempt[b].grant.renewal, b)'
        BY <1>1, <1>2, <1>3, <1>7, <1>8, <1>9, <2>1 DEF GrantsInv, AttemptIsFresh, Fresh
    <2> QED
        BY <1>1, <1>8, <1>9, <2>2 DEF GrantsInv, AttemptIsFresh
<1>10. AttemptIsFresh(a)'
    BY <1>2, <1>8 DEF AttemptIsFresh
<1> QED
    BY <1>1, <1>4, <1>6, <1>7, <1>9, <1>10 DEF GrantsInv

\* The lock is free: whoever takes it presents the token of the row.
LEMMA RenewalBegins ==
    ASSUME GrantsInv, NEW c \in Callers, Renew(c)
    PROVE  GrantsInv'
<1> DEFINE new == [stage |-> "asking", held |-> connector.grant,
                   presented |-> connector.grant.renewal]
<1>1. CASE caller' = [caller EXCEPT ![c] = Idle]
    <2>1. caller' \in [Callers -> [stage : CallerStages, held : Grants, presented : Tokens]]
        BY <1>1, GrantsTypes DEF GrantsInv, GrantsTypeOK
    <2>2. \A b \in Callers : caller'[b] = caller[b] \/ caller'[b].stage \in {"idle", "using", "stale"}
        BY <1>1, GrantsTypes DEF GrantsInv, GrantsTypeOK
    <2> QED
        BY <2>1, <2>2, CallerElsewhere DEF Renew
<1>2. CASE caller' = [caller EXCEPT ![c] = new] /\ connector.grant.renewal # 0
    <2>1. /\ new \in [stage : CallerStages, held : Grants, presented : Tokens]
          /\ new.stage = "asking" /\ new.presented = connector.grant.renewal
          /\ new.held.renewal = connector.grant.renewal
        BY GrantsTypes DEF CallerStages
    <2>2. LockIsFree /\ UNCHANGED <<connector, attempt, given, spent, unkept>>
        BY DEF Renew
    <2> HIDE DEF new
    <2>3. GrantsTypeOK' /\ RowIsCurrent'
        BY <1>2, <2>1, <2>2 DEF GrantsInv, GrantsTypeOK, RowIsCurrent
    <2>4. caller'[c] = new /\ \A b \in Callers \ {c} : caller'[b] = caller[b] /\ ~AtLock(b)'
        BY <1>2, <2>2 DEF GrantsInv, GrantsTypeOK, LockIsFree, AtLock
    <2>5. OneAtLock' /\ \A b \in Callers \ {c} : HolderIsCurrent(b)'
        BY <2>4 DEF OneAtLock, HolderIsCurrent
    <2>6. HolderIsCurrent(c)'
        BY <1>2, <2>1, <2>2, <2>4, GrantsTypes DEF HolderIsCurrent, GrantsInv, RowIsCurrent, Tokens
    <2>7. ASSUME NEW a \in Attempts PROVE AttemptIsFresh(a)'
        BY <2>1, <2>2, <2>4 DEF GrantsInv, AttemptIsFresh, Fresh
    <2> QED
        BY <2>2, <2>3, <2>5, <2>6, <2>7 DEF GrantsInv
<1> QED
    BY <1>1, <1>2 DEF Renew

\* The provider's answer: the old token once more, or the next it gives out.
LEMMA RenewalAnswered ==
    ASSUME GrantsInv, NEW c \in Callers, NEW rotates \in BOOLEAN, ProviderRenews(c, rotates)
    PROVE  GrantsInv'
<1> DEFINE old == caller[c].presented
           token == IF rotates THEN given + 2 ELSE old
           new == [stage |-> "answered", presented |-> old,
                   held |-> [access |-> given + 1, renewal |-> token]]
<1>1. /\ caller' = [caller EXCEPT ![c] = new]
      /\ given' = given + (IF rotates THEN 2 ELSE 1)
      /\ spent' = IF rotates THEN spent \cup {old} ELSE spent
      /\ unkept' = IF rotates THEN unkept \cup {old} ELSE unkept
      /\ given + 2 <= MaxTokens /\ caller[c].stage = "asking" /\ old \notin spent
      /\ UNCHANGED <<connector, attempt>>
    BY DEF ProviderRenews
<1>2. old \in 1 .. given /\ AtLock(c)
    BY <1>1 DEF GrantsInv, HolderIsCurrent, AtLock
<1>3. /\ given' \in Nat /\ given' <= MaxTokens /\ given < given'
      /\ token \in 1 .. given' /\ token \in Tokens /\ given + 1 \in Tokens /\ old \in Tokens
      /\ token = old \/ (token > given /\ rotates)
    BY <1>1, <1>2, GrantsTypes DEF Tokens
<1>4. /\ new \in [stage : CallerStages, held : Grants, presented : Tokens]
      /\ new.stage = "answered" /\ new.presented = old /\ new.held.renewal = token
    BY <1>3 DEF CallerStages, Grants
<1>5. token \notin spent'
    BY <1>1, <1>2, <1>3, GrantsTypes DEF GrantsInv
<1>6. spent' \subseteq 1 .. given' /\ unkept' \subseteq spent'
      /\ spent' \in SUBSET (1 .. MaxTokens)
    <2>1. 1 .. given \subseteq 1 .. given' /\ 1 .. given' \subseteq 1 .. MaxTokens
        BY <1>3, GrantsTypes
    <2>2. spent \subseteq 1 .. given /\ unkept \subseteq spent
        BY DEF GrantsInv, GrantsTypeOK
    <2> HIDE DEF old, new, token
    <2> QED
        BY <1>1, <1>2, <2>1, <2>2
<1>7. spent' \ unkept' \subseteq spent \ unkept /\ spent' \subseteq spent \cup {old}
    BY <1>1
<1> HIDE DEF new, token, old
<1>8. GrantsTypeOK'
    BY <1>1, <1>3, <1>4, <1>6 DEF GrantsInv, GrantsTypeOK, Tokens
<1>9. RowIsCurrent'
    BY <1>1, <1>3, <1>7, GrantsTypes DEF GrantsInv, RowIsCurrent, Tokens
<1>10. caller'[c] = new /\ \A b \in Callers \ {c} : caller'[b] = caller[b] /\ ~AtLock(b)'
    BY <1>1, <1>2 DEF GrantsInv, GrantsTypeOK, OneAtLock, AtLock
<1>11. OneAtLock' /\ \A b \in Callers \ {c} : HolderIsCurrent(b)'
    BY <1>10 DEF OneAtLock, HolderIsCurrent
<1>12. HolderIsCurrent(c)'
    BY <1>2, <1>3, <1>4, <1>5, <1>10, GrantsTypes DEF HolderIsCurrent
<1>13. ASSUME NEW a \in Attempts PROVE AttemptIsFresh(a)'
    <2>1. PICK mine \in Nat : mine = attempt[a].grant.renewal
        BY GrantsTypes DEF Tokens
    <2>0. mine # 0 => mine \in 1 .. given /\ mine \notin spent /\ Fresh(mine, a)
        BY <2>1 DEF GrantsInv, AttemptIsFresh
    <2>2. mine # 0 => mine # old /\ mine # token /\ mine \in 1 .. given' /\ mine \notin spent'
        <3> SUFFICES ASSUME mine # 0
                     PROVE  mine # old /\ mine # token /\ mine \in 1 .. given' /\ mine \notin spent'
            OBVIOUS
        <3>1. mine \in 1 .. given /\ mine \notin spent /\ mine # old
            BY <1>2, <2>0 DEF Fresh, old
        <3> QED
            BY <1>3, <1>7, <3>1, GrantsTypes
    <2>3. mine # 0 => Fresh(mine, a)'
        <3> SUFFICES ASSUME mine # 0 PROVE Fresh(mine, a)'
            OBVIOUS
        <3>1. ASSUME NEW b \in Callers, AtLock(b)'
              PROVE  mine # caller'[b].presented /\ mine # caller'[b].held.renewal
            BY <1>4, <1>10, <2>2, <3>1
        <3> QED
            BY <1>1, <2>0, <3>1 DEF Fresh
    <2>4. attempt'[a].grant.renewal = mine
        BY <1>1, <2>1
    <2> QED
        BY <2>2, <2>3, <2>4 DEF AttemptIsFresh
<1> QED
    BY <1>6, <1>8, <1>9, <1>11, <1>12, <1>13 DEF GrantsInv

\* No answer, and the provider may have rotated: the token is spent, and its
\* replacement lost.
LEMMA RenewalLost ==
    ASSUME GrantsInv, NEW c \in Callers, NEW rotated \in BOOLEAN, RenewFails(c, rotated)
    PROVE  GrantsInv'
<1> DEFINE old == caller[c].presented
<1>1. /\ caller' = [caller EXCEPT ![c] = Idle]
      /\ spent' = IF rotated THEN spent \cup {old} ELSE spent
      /\ unkept' = IF rotated THEN unkept \cup {old} ELSE unkept
      /\ AtLock(c) /\ UNCHANGED <<connector, attempt, given>>
    BY DEF RenewFails, AtLock
<1>2. old \in 1 .. given
    BY <1>1 DEF GrantsInv, HolderIsCurrent, AtLock
<1>3. spent' \subseteq 1 .. given' /\ unkept' \subseteq spent' /\ spent' \in SUBSET (1 .. MaxTokens)
    <2>1. 1 .. given \subseteq 1 .. MaxTokens
        BY GrantsTypes
    <2>2. spent \subseteq 1 .. given /\ unkept \subseteq spent
        BY DEF GrantsInv, GrantsTypeOK
    <2> HIDE DEF old
    <2> QED
        BY <1>1, <1>2, <2>1, <2>2
<1>4. spent' \ unkept' \subseteq spent \ unkept /\ spent' \subseteq spent \cup {old}
    BY <1>1
<1>5. GrantsTypeOK'
    BY <1>1, <1>3, GrantsTypes DEF GrantsInv, GrantsTypeOK
<1>6. RowIsCurrent'
    BY <1>1, <1>4 DEF GrantsInv, RowIsCurrent
<1>7. \A b \in Callers : ~AtLock(b)'
    BY <1>1, GrantsTypes DEF GrantsInv, GrantsTypeOK, OneAtLock, AtLock
<1>8. OneAtLock' /\ \A b \in Callers : HolderIsCurrent(b)'
    BY <1>7 DEF OneAtLock, HolderIsCurrent
<1>9. ASSUME NEW a \in Attempts PROVE AttemptIsFresh(a)'
    BY <1>1, <1>4, <1>7 DEF GrantsInv, AttemptIsFresh, Fresh
<1> QED
    BY <1>3, <1>5, <1>6, <1>8, <1>9 DEF GrantsInv

\* The answer reaches the row, and what it replaced is then not to be seen again.
LEMMA RenewalStored ==
    ASSUME GrantsInv, NEW c \in Callers, StoreRenewed(c)
    PROVE  GrantsInv'
<1> DEFINE old == caller[c].presented
           token == caller[c].held.renewal
<1>1. /\ caller' = [caller EXCEPT ![c] = Idle] /\ AtLock(c) /\ caller[c].stage = "answered"
      /\ UNCHANGED <<attempt, given, spent>>
    BY DEF StoreRenewed, AtLock
<1>2. token \in 1 .. given /\ token \notin spent
    BY <1>1 DEF GrantsInv, HolderIsCurrent
<1>3. /\ connector' \in Connectors /\ unkept' \subseteq unkept
      /\ \/ connector'.grant.renewal = token
         \/ connector'.grant.renewal = connector.grant.renewal /\ unkept' = unkept
    BY GrantsTypes DEF StoreRenewed, Connectors
<1>4. GrantsTypeOK'
    BY <1>1, <1>3, GrantsTypes DEF GrantsInv, GrantsTypeOK
<1>5. RowIsCurrent'
    BY <1>1, <1>2, <1>3, GrantsTypes DEF GrantsInv, RowIsCurrent
<1>6. \A b \in Callers : ~AtLock(b)'
    BY <1>1, GrantsTypes DEF GrantsInv, GrantsTypeOK, OneAtLock, AtLock
<1>7. OneAtLock' /\ \A b \in Callers : HolderIsCurrent(b)'
    BY <1>6 DEF OneAtLock, HolderIsCurrent
<1>8. ASSUME NEW a \in Attempts PROVE AttemptIsFresh(a)'
    <2>1. attempt[a].grant.renewal # 0 => attempt[a].grant.renewal # token
        BY <1>1 DEF GrantsInv, AttemptIsFresh, Fresh
    <2> QED
        BY <1>1, <1>3, <1>6, <2>1 DEF GrantsInv, AttemptIsFresh, Fresh
<1> QED
    BY <1>1, <1>4, <1>5, <1>7, <1>8 DEF GrantsInv

LEMMA GrantsSteps ==
    ASSUME GrantsInv, [GrantsNext]_grantVars
    PROVE  GrantsInv'
<1> DEFINE Calls == [stage : CallerStages, held : Grants, presented : Tokens]
           Tries == [stage : AttemptStages, grant : Grants]
           AdministratorActs ==
             \/ \E active \in BOOLEAN : UpdateConnector(active)
             \/ Disconnect \/ DeleteConnector
             \/ \E a \in Attempts : BeginConnect(a) \/ AttemptExpires(a) \/ RedeemState(a) \/ ExchangeFails(a)
           CallerActs ==
             \/ \E c \in Callers : TakeToken(c) \/ Done(c) \/ TurnsStale(c) \/ StoreFails(c)
<1>1. CASE UNCHANGED grantVars
    BY <1>1, RowAndAttempts DEF GrantsInv, GrantsTypeOK, grantVars
<1>2. CASE AdministratorActs
    <2>1. connector' \in Connectors /\ connector'.grant \in {connector.grant, NoGrant}
        <3>1. CASE UNCHANGED connector
            BY <3>1, GrantsTypes
        <3>2. CASE \E active \in BOOLEAN : connector' = [connector EXCEPT !.active = active]
            BY <3>2, GrantsTypes DEF Connectors
        <3>3. CASE connector' = [connector EXCEPT !.active = FALSE, !.grant = NoGrant]
            BY <3>3, GrantsTypes DEF Connectors
        <3>4. CASE connector' = [exists |-> FALSE, active |-> FALSE, grant |-> NoGrant]
            BY <3>4, GrantsTypes DEF Connectors
        <3> QED
            BY <1>2, <3>1, <3>2, <3>3, <3>4 DEF UpdateConnector, Disconnect, DeleteConnector,
                   BeginConnect, AttemptExpires, RedeemState, ExchangeFails
    <2>2. /\ attempt' \in [Attempts -> Tries]
          /\ \A a \in Attempts : attempt'[a].grant \in {attempt[a].grant, NoGrant}
        <3>1. CASE UNCHANGED attempt
            BY <3>1 DEF GrantsInv, GrantsTypeOK
        <3>2. CASE DeleteConnector
            BY <3>2, GrantsTypes DEF DeleteConnector, AttemptStages
        <3>3. CASE \E a \in Attempts, stage \in AttemptStages :
                     attempt' = [attempt EXCEPT ![a].stage = stage]
            BY <3>3, GrantsTypes DEF GrantsInv, GrantsTypeOK
        <3>4. CASE \E a \in Attempts : attempt' = [attempt EXCEPT ![a] = [stage |-> "over", grant |-> NoGrant]]
            BY <3>4, GrantsTypes DEF GrantsInv, GrantsTypeOK, AttemptStages
        <3> QED
            BY <1>2, <3>1, <3>2, <3>3, <3>4 DEF UpdateConnector, Disconnect, BeginConnect,
                   AttemptExpires, RedeemState, ExchangeFails, AttemptStages
    <2>3. UNCHANGED <<caller, given, spent, unkept>>
        BY <1>2 DEF UpdateConnector, Disconnect, DeleteConnector, BeginConnect,
                    AttemptExpires, RedeemState, ExchangeFails
    <2> QED
        BY <2>1, <2>2, <2>3, RowAndAttempts
<1>3. CASE CallerActs
    <2>1. PICK c \in Callers : TakeToken(c) \/ Done(c) \/ TurnsStale(c) \/ StoreFails(c)
        BY <1>3
    <2>2. PICK call \in Calls : caller' = [caller EXCEPT ![c] = call]
                                 /\ call.stage \in {"idle", "using", "stale"}
        <3>1. CASE TakeToken(c)
            <4> DEFINE call == [Idle EXCEPT !.stage = "using", !.held = connector.grant]
            <4>1. call \in Calls /\ call.stage = "using"
                BY GrantsTypes DEF Idle, CallerStages
            <4> QED
                BY <3>1, <4>1 DEF TakeToken
        <3>2. CASE TurnsStale(c)
            <4> DEFINE call == [caller[c] EXCEPT !.stage = "stale"]
            <4>1. call \in Calls /\ call.stage = "stale"
                BY GrantsTypes DEF CallerStages
            <4> QED
                BY <3>2, <4>1 DEF TurnsStale
        <3>3. CASE Done(c) \/ StoreFails(c)
            BY <3>3, GrantsTypes DEF Done, StoreFails
        <3> QED
            BY <2>1, <3>1, <3>2, <3>3
    <2>3. /\ caller' \in [Callers -> Calls]
          /\ \A b \in Callers : caller'[b] = caller[b] \/ caller'[b].stage \in {"idle", "using", "stale"}
        BY <2>2 DEF GrantsInv, GrantsTypeOK
    <2>4. UNCHANGED <<connector, attempt, given, spent, unkept>>
        BY <2>1 DEF TakeToken, Done, TurnsStale, StoreFails
    <2> QED
        BY <2>3, <2>4, CallerElsewhere
<1>4. CASE Restart
    <2>1. /\ attempt' \in [Attempts -> Tries]
          /\ \A a \in Attempts : attempt'[a].grant \in {attempt[a].grant, NoGrant}
        BY <1>4, GrantsTypes DEF Restart, AttemptStages
    <2>2. /\ caller' \in [Callers -> Calls] /\ \A c \in Callers : ~AtLock(c)'
        BY <1>4, GrantsTypes DEF Restart, AtLock
    <2>3. GrantsTypeOK' /\ RowIsCurrent'
        BY <1>4, <2>1, <2>2 DEF Restart, GrantsInv, GrantsTypeOK, RowIsCurrent
    <2>4. OneAtLock' /\ \A c \in Callers : HolderIsCurrent(c)'
        BY <2>2 DEF OneAtLock, HolderIsCurrent
    <2>5. \A a \in Attempts : attempt'[a].grant.renewal \in {attempt[a].grant.renewal, 0}
        BY <2>1, GrantsTypes
    <2>6. ASSUME NEW a \in Attempts PROVE AttemptIsFresh(a)'
        BY <1>4, <2>2, <2>5 DEF Restart, GrantsInv, AttemptIsFresh, Fresh
    <2> QED
        BY <1>4, <2>3, <2>4, <2>6 DEF Restart, GrantsInv
<1> HIDE DEF AdministratorActs, CallerActs
<1>5. CASE \E a \in Attempts, renewable \in BOOLEAN : ExchangeCode(a, renewable)
    BY <1>5, CodeExchanged
<1>6. CASE \E a \in Attempts : SaveGrant(a)
    BY <1>6, GrantSaved
<1>7. CASE \E c \in Callers : Renew(c) \/ StoreRenewed(c)
    BY <1>7, RenewalBegins, RenewalStored
<1>8. CASE \E c \in Callers, rotates \in BOOLEAN : ProviderRenews(c, rotates) \/ RenewFails(c, rotates)
    BY <1>8, RenewalAnswered, RenewalLost
<1> QED
    BY <1>1, <1>2, <1>3, <1>4, <1>5, <1>6, <1>7, <1>8 DEF GrantsNext, AdministratorActs, CallerActs

\* A renewal token whose replacement was stored is not presented again, for any
\* number of exports, reconnections and restarts.
THEOREM TokensSpentOnce == GrantsSpec => []SpentOnce
<1>1. GrantsInv => SpentOnce
    BY DEF GrantsInv, HolderIsCurrent, AtLock, SpentOnce
<1> QED
    BY <1>1, GrantsStart, GrantsSteps, PTL DEF GrantsSpec

-----------------------------------------------------------------------------
(* Deliveries *)

\* A delivery that is not over has written nothing, and has arrived only if the
\* answer was lost.
Silent(d) ==
    /\ delivery[d].stage # "over" => /\ log[d].ok = 0 /\ log[d].failed = 0
                                     /\ d \notin unheard => taken[d] = 0
    /\ delivery[d].stage = "paused" => delivery[d].try < MaxTries
    /\ d[1] \notin dispatched => delivery[d].stage = "none"

Rightly(d) ==
    /\ log[d].ok + log[d].failed <= 1
    /\ log[d].ok > 0 => taken[d] > 0
    /\ d \notin unheard => taken[d] <= 1
    /\ d \notin unheard /\ log[d].failed > 0 => taken[d] = 0

DeliveriesInv == DeliveriesTypeOK /\ \A d \in Deliveries : Silent(d) /\ Rightly(d)

LEMMA DeliveriesStart == DeliveriesInit => DeliveriesInv
BY DeliveriesAssumption
   DEF DeliveriesInit, DeliveriesInv, DeliveriesTypeOK, NoConnector, ConnectorRows, NotStarted,
       Stages, AtWork, Silent, Rightly

LEMMA DeliveryTypes ==
    ASSUME DeliveriesInv, NEW d \in Deliveries
    PROVE  /\ delivery[d] \in [stage : Stages, try : 0 .. MaxTries] /\ delivery[d].try \in 0 .. MaxTries
           /\ taken[d] \in Nat /\ log[d] \in [ok : Nat, failed : Nat]
           /\ log[d].ok \in Nat /\ log[d].failed \in Nat
           /\ d[1] \in Events /\ d[2] \in Subscribers /\ MaxTries \in Nat /\ MaxTries >= 1
           /\ subscriber[d[2]] \in ConnectorRows
BY DeliveriesAssumption DEF DeliveriesInv, DeliveriesTypeOK, Deliveries

LEMMA Noted ==
    ASSUME DeliveriesInv, NEW s \in Subscribers, NEW failing \in BOOLEAN, Note(s, failing)
    PROVE  subscriber' \in [Subscribers -> ConnectorRows]
BY DEF DeliveriesInv, DeliveriesTypeOK, Note, ConnectorRows

\* Only the connectors change, and rows of the log go.
LEMMA AroundDeliveries ==
    ASSUME DeliveriesInv, subscriber' \in [Subscribers -> ConnectorRows],
           log' \in [Deliveries -> [ok : Nat, failed : Nat]],
           \A d \in Deliveries : log'[d] = log[d] \/ log'[d] = [ok |-> 0, failed |-> 0],
           UNCHANGED <<dispatched, delivery, taken, unheard>>
    PROVE  DeliveriesInv'
<1>1. DeliveriesTypeOK'
    BY DEF DeliveriesInv, DeliveriesTypeOK
<1>2. ASSUME NEW d \in Deliveries PROVE Silent(d)' /\ Rightly(d)'
    BY DeliveryTypes DEF DeliveriesInv, Silent, Rightly
<1> QED
    BY <1>1, <1>2 DEF DeliveriesInv

\* One delivery moves on and has not ended.
LEMMA DeliveryMoves ==
    ASSUME DeliveriesInv, NEW d \in Deliveries, delivery[d].stage \notin {"none", "over"},
           NEW new \in [stage : Stages, try : 0 .. MaxTries], new.stage # "over",
           new.stage = "paused" => new.try < MaxTries,
           delivery' = [delivery EXCEPT ![d] = new],
           \/ UNCHANGED <<taken, unheard>>
           \/ /\ taken' = [taken EXCEPT ![d] = @ + 1]
              /\ unheard' = unheard \cup {d},
           UNCHANGED <<subscriber, dispatched, log>>
    PROVE  DeliveriesInv'
<1>1. taken' \in [Deliveries -> Nat] /\ unheard' \subseteq Deliveries
      /\ (d \notin unheard' => taken' = taken /\ unheard' = unheard)
      /\ \A e \in Deliveries \ {d} : taken'[e] = taken[e] /\ (e \in unheard' <=> e \in unheard)
    BY DEF DeliveriesInv, DeliveriesTypeOK
<1>2. DeliveriesTypeOK'
    BY <1>1 DEF DeliveriesInv, DeliveriesTypeOK
<1>3. \A e \in Deliveries : delivery'[e] = IF e = d THEN new ELSE delivery[e]
    BY DEF DeliveriesInv, DeliveriesTypeOK
<1>4. log[d].ok = 0 /\ log[d].failed = 0 /\ d[1] \in dispatched
      /\ (d \notin unheard => taken[d] = 0)
    BY DEF DeliveriesInv, Silent
<1>5. ASSUME NEW e \in Deliveries \ {d} PROVE Silent(e)' /\ Rightly(e)'
    BY <1>1, <1>3 DEF DeliveriesInv, Silent, Rightly
<1>6. Silent(d)'
    BY <1>1, <1>3, <1>4 DEF Silent
<1>7. Rightly(d)'
    BY <1>1, <1>4 DEF Rightly
<1> QED
    BY <1>2, <1>5, <1>6, <1>7 DEF DeliveriesInv

\* One delivery ends, with a row that says what became of it, or without.
LEMMA DeliveryEnds ==
    ASSUME DeliveriesInv, NEW d \in Deliveries, delivery[d].stage \notin {"none", "over"},
           NEW outcome \in {"ok", "failed"},
           delivery' = [delivery EXCEPT ![d].stage = "over"],
           subscriber' \in [Subscribers -> ConnectorRows],
           RecordDelivery(d, outcome) \/ UNCHANGED log,
           \/ outcome = "failed" /\ UNCHANGED <<taken, unheard>>
           \/ /\ taken' = [taken EXCEPT ![d] = @ + 1]
              /\ unheard' = IF outcome = "ok" THEN unheard ELSE unheard \cup {d},
           UNCHANGED dispatched
    PROVE  DeliveriesInv'
<1>1. /\ log[d].ok = 0 /\ log[d].failed = 0 /\ d[1] \in dispatched
      /\ (d \notin unheard => taken[d] = 0)
    BY DEF DeliveriesInv, Silent
<1>2. /\ log' \in [Deliveries -> [ok : Nat, failed : Nat]]
      /\ \A e \in Deliveries \ {d} : log'[e] = log[e]
      /\ \/ log'[d].ok = 0 /\ log'[d].failed = 0
         \/ log'[d].ok = 1 /\ log'[d].failed = 0 /\ outcome = "ok"
         \/ log'[d].ok = 0 /\ log'[d].failed = 1 /\ outcome = "failed"
    <2>1. CASE UNCHANGED log
        BY <1>1, <2>1 DEF DeliveriesInv, DeliveriesTypeOK
    <2>2. CASE outcome = "ok" /\ log' = [log EXCEPT ![d].ok = @ + 1]
        BY <1>1, <2>2, DeliveryTypes DEF DeliveriesInv, DeliveriesTypeOK
    <2>3. CASE outcome = "failed" /\ log' = [log EXCEPT ![d].failed = @ + 1]
        BY <1>1, <2>3, DeliveryTypes DEF DeliveriesInv, DeliveriesTypeOK
    <2> QED
        BY <2>1, <2>2, <2>3 DEF RecordDelivery
<1>3. /\ taken' \in [Deliveries -> Nat] /\ unheard' \subseteq Deliveries
      /\ \A e \in Deliveries \ {d} : taken'[e] = taken[e] /\ (e \in unheard' <=> e \in unheard)
      /\ (outcome = "ok" => taken'[d] = taken[d] + 1)
      /\ (d \notin unheard' => d \notin unheard /\ (outcome = "failed" => taken'[d] = taken[d])
                              /\ (outcome = "ok" => taken'[d] = taken[d] + 1))
    BY DEF DeliveriesInv, DeliveriesTypeOK
<1>4. /\ delivery' \in [Deliveries -> [stage : Stages, try : 0 .. MaxTries]]
      /\ \A e \in Deliveries \ {d} : delivery'[e] = delivery[e]
      /\ delivery'[d].stage = "over"
    BY DEF DeliveriesInv, DeliveriesTypeOK, Stages
<1>5. DeliveriesTypeOK'
    BY <1>2, <1>3, <1>4 DEF DeliveriesInv, DeliveriesTypeOK
<1>6. ASSUME NEW e \in Deliveries \ {d} PROVE Silent(e)' /\ Rightly(e)'
    BY <1>2, <1>3, <1>4 DEF DeliveriesInv, Silent, Rightly
<1>7. Silent(d)'
    BY <1>1, <1>4 DEF Silent
<1>8. taken[d] \in Nat /\ taken'[d] \in Nat
    BY <1>3, DeliveryTypes
<1>9. Rightly(d)'
    BY <1>1, <1>2, <1>3, <1>8 DEF Rightly
<1> QED
    BY <1>5, <1>6, <1>7, <1>9 DEF DeliveriesInv

\* An event sets out to subscribers it has not been sent to.
LEMMA EventDispatched ==
    ASSUME DeliveriesInv, NEW e \in Events, DispatchEvent(e)
    PROVE  DeliveriesInv'
<1>1. PICK to \in SUBSET Subscribers, noted \in SUBSET Subscribers :
        /\ delivery' = [d \in Deliveries |-> IF d[1] = e /\ d[2] \in to
                                              THEN [stage |-> "waiting", try |-> 0] ELSE delivery[d]]
        /\ subscriber' = [s \in Subscribers |-> IF s \in noted
                             THEN [subscriber[s] EXCEPT !.failing = TRUE] ELSE subscriber[s]]
    BY ZenonT(60) DEF DispatchEvent, Targets
<1>2. e \notin dispatched /\ dispatched' = dispatched \cup {e} /\ UNCHANGED <<taken, unheard, log>>
    BY DEF DispatchEvent
<1>3. subscriber' \in [Subscribers -> ConnectorRows]
    BY <1>1 DEF DeliveriesInv, DeliveriesTypeOK, ConnectorRows
<1>4. delivery' \in [Deliveries -> [stage : Stages, try : 0 .. MaxTries]]
    BY <1>1, DeliveriesAssumption DEF DeliveriesInv, DeliveriesTypeOK, Stages
<1>5. DeliveriesTypeOK'
    BY <1>2, <1>3, <1>4 DEF DeliveriesInv, DeliveriesTypeOK
<1>6. ASSUME NEW d \in Deliveries PROVE Silent(d)' /\ Rightly(d)'
    <2>1. delivery'[d] = delivery[d] \/ (delivery'[d].stage = "waiting" /\ d[1] = e)
        BY <1>1
    <2>2. d[1] = e => delivery[d].stage = "none"
        BY <1>2 DEF DeliveriesInv, Silent
    <2> QED
        BY <1>2, <2>1, <2>2 DEF DeliveriesInv, Silent, Rightly
<1> QED
    BY <1>5, <1>6 DEF DeliveriesInv

\* Everything in memory is over at once.
LEMMA DeliveriesStop ==
    ASSUME DeliveriesInv, ProcessStops
    PROVE  DeliveriesInv'
<1>1. delivery' \in [Deliveries -> [stage : Stages, try : 0 .. MaxTries]]
      /\ \A d \in Deliveries : delivery'[d] = delivery[d]
            \/ (delivery'[d].stage = "over" /\ delivery[d].stage \notin {"none", "over"})
    BY DEF ProcessStops, DeliveriesInv, DeliveriesTypeOK, Stages, AtWork
<1>2. UNCHANGED <<subscriber, dispatched, taken, unheard, log>>
    BY DEF ProcessStops
<1>3. DeliveriesTypeOK'
    BY <1>1, <1>2 DEF DeliveriesInv, DeliveriesTypeOK
<1>4. ASSUME NEW d \in Deliveries PROVE Silent(d)' /\ Rightly(d)'
    BY <1>1, <1>2 DEF DeliveriesInv, Silent, Rightly
<1> QED
    BY <1>3, <1>4 DEF DeliveriesInv

LEMMA DeliveriesSteps ==
    ASSUME DeliveriesInv, [DeliveriesNext]_deliveryVars
    PROVE  DeliveriesInv'
<1> DEFINE Tried == [stage : Stages, try : 0 .. MaxTries]
<1>1. CASE UNCHANGED deliveryVars
    BY <1>1, AroundDeliveries DEF DeliveriesInv, DeliveriesTypeOK, deliveryVars
<1>2. ASSUME NEW s \in Subscribers, NEW active \in BOOLEAN,
             CreateConnector(s) \/ RemoveConnector(s) \/ SwitchConnector(s, active)
      PROVE  DeliveriesInv'
    <2>1. subscriber' \in [Subscribers -> ConnectorRows]
        <3>1. CASE SwitchConnector(s, active)
            BY <3>1 DEF SwitchConnector, ConnectorRows, DeliveriesInv, DeliveriesTypeOK
        <3>2. CASE \E row \in ConnectorRows : subscriber' = [subscriber EXCEPT ![s] = row]
            BY <3>2 DEF DeliveriesInv, DeliveriesTypeOK
        <3>3. NoConnector \in ConnectorRows
              /\ [exists |-> TRUE, active |-> TRUE, failing |-> FALSE] \in ConnectorRows
            BY DEF NoConnector, ConnectorRows
        <3> QED
            BY <1>2, <3>1, <3>2, <3>3 DEF CreateConnector, RemoveConnector
    <2>2. /\ log' \in [Deliveries -> [ok : Nat, failed : Nat]]
          /\ \A d \in Deliveries : log'[d] = log[d] \/ log'[d] = [ok |-> 0, failed |-> 0]
        BY <1>2 DEF CreateConnector, RemoveConnector, SwitchConnector, DeliveriesInv, DeliveriesTypeOK
    <2> QED
        BY <1>2, <2>1, <2>2, AroundDeliveries DEF CreateConnector, RemoveConnector, SwitchConnector
<1>3. ASSUME NEW d \in Deliveries, PruneLog(d) PROVE DeliveriesInv'
    BY <1>3, AroundDeliveries DEF PruneLog, DeliveriesInv, DeliveriesTypeOK
<1>4. ASSUME NEW d \in Deliveries, TakeSlot(d) \/ Resend(d) PROVE DeliveriesInv'
    <2>1. delivery[d].stage \in {"waiting", "paused"}
        BY <1>4 DEF TakeSlot, Resend
    <2>2. PICK try \in 0 .. MaxTries : delivery' = [delivery EXCEPT ![d] = [stage |-> "sending", try |-> try]]
        <3>1. CASE TakeSlot(d)
            <4>1. 1 \in 0 .. MaxTries
                BY DeliveryTypes
            <4> QED
                BY <3>1, <4>1 DEF TakeSlot
        <3>2. CASE Resend(d)
            <4>1. delivery[d].try + 1 \in 0 .. MaxTries
                BY <3>2, DeliveryTypes DEF Resend, DeliveriesInv, Silent
            <4> QED
                BY <3>2, <4>1 DEF Resend
        <3> QED
            BY <1>4, <3>1, <3>2
    <2>3. [stage |-> "sending", try |-> try] \in Tried
        BY DEF Stages, AtWork
    <2> QED
        BY <1>4, <2>1, <2>2, <2>3, DeliveryMoves DEF TakeSlot, Resend
<1>5. ASSUME NEW d \in Deliveries, GiveUpWaiting(d) \/ Accepted(d) \/ Refused(d) PROVE DeliveriesInv'
    <2>1. delivery[d].stage \in {"waiting", "sending"} /\ d[2] \in Subscribers
        BY <1>5, DeliveryTypes DEF GiveUpWaiting, Accepted, Refused
    <2>2. CASE EndsWell(d) /\ Accepted(d)
        BY <2>1, <2>2, Noted, DeliveryEnds DEF Accepted, EndsWell
    <2>3. CASE EndsBadly(d) /\ (GiveUpWaiting(d) \/ Refused(d))
        BY <2>1, <2>3, Noted, DeliveryEnds DEF GiveUpWaiting, Refused, EndsBadly
    <2> QED
        BY <1>5, <2>2, <2>3 DEF GiveUpWaiting, Accepted, Refused
<1>6. ASSUME NEW d \in Deliveries, NEW lost \in BOOLEAN, NotNow(d, lost) PROVE DeliveriesInv'
    <2>1. delivery[d].stage = "sending" /\ d[2] \in Subscribers /\ dispatched' = dispatched
          /\ TryAgain(d)
        BY <1>6, DeliveryTypes DEF NotNow
    <2>2. \/ UNCHANGED <<taken, unheard>>
          \/ /\ taken' = [taken EXCEPT ![d] = @ + 1]
             /\ unheard' = unheard \cup {d}
        BY <1>6 DEF NotNow, DeliveriesInv, DeliveriesTypeOK
    <2>3. CASE delivery[d].try < MaxTries
        <3> DEFINE new == [delivery[d] EXCEPT !.stage = "paused"]
        <3>1. new \in Tried /\ new.stage = "paused" /\ new.try < MaxTries
            BY <2>3, DeliveryTypes DEF Stages, AtWork
        <3>2. delivery' = [delivery EXCEPT ![d] = new] /\ UNCHANGED <<subscriber, log>>
            BY <2>1, <2>3 DEF TryAgain
        <3> HIDE DEF new
        <3> QED
            BY <2>1, <2>2, <3>1, <3>2, DeliveryMoves
    <2>4. CASE ~(delivery[d].try < MaxTries)
        <3>1. EndsBadly(d)
            BY <2>1, <2>4 DEF TryAgain
        <3> QED
            BY <2>1, <2>2, <3>1, Noted, DeliveryEnds DEF EndsBadly
    <2> QED
        BY <2>3, <2>4
<1>7. CASE \E e \in Events : DispatchEvent(e)
    BY <1>7, EventDispatched
<1>8. CASE ProcessStops
    BY <1>8, DeliveriesStop
<1> QED
    BY <1>1, <1>2, <1>3, <1>4, <1>5, <1>6, <1>7, <1>8 DEF DeliveriesNext

\* The log tells what became of an event, for any numbers of subscribers, slots
\* and tries.
THEOREM LogTellsTruth == DeliveriesSpec => []RowPerEvent
<1>1. DeliveriesInv => RowPerEvent
    BY DEF DeliveriesInv, Rightly, RowPerEvent
<1> QED
    BY <1>1, DeliveriesStart, DeliveriesSteps, PTL DEF DeliveriesSpec
==============================================================================
