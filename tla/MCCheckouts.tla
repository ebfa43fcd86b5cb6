---------------------------- MODULE MCCheckouts ----------------------------
(* Instances of Checkouts for TLC. *)
EXTENDS Checkouts, TLC

CONSTANTS s1, s2, k1, k2, z1, v1

(* Another client buys plans, leads and zip codes, or the add-ons; the app  *)
(* buys both plans, the same add-on twice, or two add-ons.                  *)
MCScenes == [app : {FALSE}, sold : {{s1, s2, k1, z1}, {z1, v1}}]
              \cup [app : {TRUE}, sold : {{s1, s2}, {k1, k2}, {z1, v1}}]

(* Requests of one kind are interchangeable. *)
Symmetry == Permutations(Hooks) \cup Permutations(Bidders)
=============================================================================
