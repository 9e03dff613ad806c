----------------------------- MODULE MCCatalogue -----------------------------
(* Contents of an event that moves by one hour, and of one that is another   *)
(* programme; the provider offers it, omits it, or garbles all it says.      *)
EXTENDS Catalogue

A == [start |-> 1, dur |-> 1]
B == [start |-> 2, dur |-> 2]
F == [start |-> 5, dur |-> 1]
MCContents == {A, B, F}
MCOffers ==
    {[svc |-> TRUE, prog |-> "valid", content |-> c] : c \in MCContents}
        \cup {[svc |-> TRUE, prog |-> "none", content |-> A],
              [svc |-> FALSE, prog |-> "invalid", content |-> A]}
=============================================================================
