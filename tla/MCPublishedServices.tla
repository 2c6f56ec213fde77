------------------------- MODULE MCPublishedServices -------------------------
(* Model-checking instances of PublishedServices.                          *)
EXTENDS PublishedServices, TLC

OneClient  == <<"gw">>

Symmetry   == Permutations(Svc) \cup Permutations(Pub) \cup Permutations(Fqdn)
              \cup Permutations(Rec) \cup Permutations(Row) \cup Permutations(Req)

UpdateOps    == {"existing", "update", "delete"}
==============================================================================
