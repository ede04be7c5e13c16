---------------------------- MODULE MCBuyerFlow -----------------------------
(* A small instance of BuyerFlow for TLC. *)
EXTENDS BuyerFlow, TLC

CONSTANTS ann, soap, brush, timer, other

Alike == Permutations(Articles)

\* Two callbacks at once are tried on one article; when two articles are spoken
\* of, or the requisites are half typed, the timer's callback is alone.
Spoken(t) == task[t].asked \cup {task[t].todo[i] : i \in DOMAIN task[t].todo}

OneAtATime ==
    \/ \A t \in Others : task[t].at = "idle"
    \/ /\ \A c \in Clients : dialog_data[c] = {}
       /\ Cardinality({article[b] : b \in Rows} \cup (Articles \cap UNION {Spoken(t) : t \in Tasks})) <= 1
=============================================================================
