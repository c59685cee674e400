-------------------------- MODULE MCContractParties --------------------------
(* Small contracts for ContractParties. *)
EXTENDS ContractParties, TLC

\* Two parties that sign in any order.
AnyOrder == [p \in Parties |-> {}]

\* One person each.
OneEach == [p \in Parties |-> {"director"}]

\* The two parties differ in nothing.
Alike == Permutations(Parties)

(***************************************************************************)
(* One party under everything that may overlap, and two parties under less: *)
(* one start or poll at a time, and a ceremony that is never replaced.     *)
(***************************************************************************)
VARIABLE alone

AloneInit == Init /\ alone \in BOOLEAN

AloneNext ==
    /\ Next
    /\ UNCHANGED alone
    /\ IF alone THEN \E p \in Parties : \A q \in Parties \ {p} : party'[q] = "absent"
       ELSE /\ Cardinality(starts') + Cardinality(polls') <= 1
            /\ aged' = {}

AloneSpec == AloneInit /\ [][AloneNext]_<<vars, alone>>
=============================================================================
