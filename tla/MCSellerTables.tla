--------------------------- MODULE MCSellerTables ---------------------------
(* A small instance of SellerTables for TLC. *)
EXTENDS SellerTables, TLC

CONSTANTS sara, bill, t1, t2, h1, h2, soap, brush, order

Line(nm_id, in_stock) == [nm_id |-> nm_id, in_stock |-> in_stock]

SomeListings ==
    {<<>>, <<Line(soap, TRUE)>>, <<Line(soap, FALSE), Line(brush, TRUE)>>,
     <<Line(soap, TRUE), Line(soap, FALSE)>>}

\* The sync is tried on cabinets that were set up without incident and are not
\* linked yet, with a second table verified before or during an iteration, or never;
\* how else they came about makes no difference to it.
Quiet ==
    /\ last = 1 /\ coded = {1} /\ lost = {} /\ users = {owner[1]} /\ connection[1] = Nobody
    /\ \A h \in Handlers : handler[h].at = "free"
    /\ young = {t \in Tables : status[t] # "absent"}
    /\ \A t \in Tables : rights[t] = IF status[t] = "absent" THEN "none" ELSE "writer"
    /\ outside = Cardinality(young)
    /\ observer.at = "asleep" \/ edits <= 1

OneAfterTheOther == (sync.at = "asleep" /\ edits = 0) \/ Quiet

Alike == Permutations(People) \cup Permutations(Tables) \cup Permutations(Handlers)
=============================================================================
