---------------------------- MODULE UrtuuDelivery ----------------------------
(***************************************************************************)
(* What a link promises the code that queues envelopes on it, and all it   *)
(* promises: an envelope is sent, may come to be stored by the other side, *)
(* and is counted as settled only afterwards; nothing is taken back.       *)
(* UrtuuChannel is shown to implement this.                                *)
(***************************************************************************)
CONSTANT Envelopes

VARIABLES
    sent,     \* queued with a delivery row for the link
    stored,   \* held, or once held, by the receiver
    settled   \* known by the sender to be stored

dvars == <<sent, stored, settled>>

DInit == sent = {} /\ stored = {} /\ settled = {}

Send(m) ==
    /\ m \notin sent
    /\ sent' = sent \cup {m}
    /\ UNCHANGED <<stored, settled>>

Store(m) ==
    /\ m \in sent \ stored
    /\ stored' = stored \cup {m}
    /\ UNCHANGED <<sent, settled>>

\* A batch of acknowledgements settles several envelopes at once.
Settle(S) ==
    /\ S \subseteq stored
    /\ settled' = settled \cup S
    /\ UNCHANGED <<sent, stored>>

DNext ==
    \/ \E m \in Envelopes : Send(m) \/ Store(m)
    \/ \E S \in SUBSET Envelopes : Settle(S)

DSpec == DInit /\ [][DNext]_dvars

\* The order of the three stages, for the proofs that refine this module.
Ordered == settled \subseteq stored /\ stored \subseteq sent
=============================================================================
