--------------------------- MODULE MCUrtuuChannel ---------------------------
(* Small links for UrtuuChannel. *)
EXTENDS UrtuuChannel, TLC

OnTime == {0}

\* An envelope that waited out an outage longer than MaxAge, beside one in time.
OnTimeOrStale == {0, MaxAge + 1}

RoundSymmetry == Permutations(Conversations)
=============================================================================
