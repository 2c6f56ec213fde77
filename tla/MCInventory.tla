------------------------------ MODULE MCInventory ------------------------------
(* The model-checking instance of Inventory.                               *)
EXTENDS Inventory, TLC

\* Rows of a table are alike; so are requests.
Symmetry == Permutations(Req) \cup Permutations(Site) \cup Permutations(Node)
            \cup Permutations(Service) \cup Permutations(Pub)
================================================================================
