---------------------------- MODULE MCUrtuuBoard ----------------------------
(* Small graphs of installations for UrtuuBoard. *)
EXTENDS UrtuuBoard

\* A ministry above two agencies.
Fan == {<<"ministry", "north">>, <<"ministry", "south">>}

\* Two installations, each above the other for different kinds of work.
Mutual == {<<"ministry", "north">>, <<"north", "ministry">>}

\* Bound: the south accepts and completes its work, with no step between and without
\* handing it back.  Only its operators are bound: what Continue and Read do is not.
SouthIsPlain ==
    \A i \in DOMAIN rows' : rows'[i].status \in {"IN_PROGRESS", "RETURNED"} =>
        rows'[i].at # "south" /\ "south" \notin rows'[i].to

TravelSpec ==
    /\ Init /\ [][Next /\ SouthIsPlain]_vars
    /\ WF_vars(Continue) /\ WF_vars(Read)

\* Bound: two envelopes are on the way at once.
TwoOnTheWay == Cardinality(mail') <= 2

LossySpec == Init /\ [][Next /\ TwoOnTheWay]_vars
=============================================================================
