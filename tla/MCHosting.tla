----------------------------- MODULE MCHosting ------------------------------
(* Small instances of Hosting: which projects there are and what may happen. *)
EXTENDS Hosting, TLC

CallSymmetry == Permutations(Calls) \cup Permutations(Acts)

CONSTANTS first, second, shop, mill

Case(names, types, a, f, k, v) ==
    [name |-> first :> names[1] @@ second :> names[2], type |-> first :> types[1] @@ second :> types[2],
     left |-> "asks" :> a @@ "faults" :> f @@ "crashes" :> k @@ "previews" :> v]

\* Instances of each kind, while the host fails and both processes die; two projects of one
\* name; previews, while the API dies, and while their project is deleted.
Scenarios ==
    {Case(<<mill, shop>>, <<"ai", "odoo_sh">>, 3, 1, 2, 0),
     Case(<<shop, shop>>, <<"ai", "ai">>, 4, 1, 0, 0),
     Case(<<shop, mill>>, <<"odoo_sh", "ai">>, 0, 1, 1, 3),
     Case(<<shop, mill>>, <<"odoo_sh", "ai">>, 1, 1, 0, 2)}
=============================================================================
