--------------------------- MODULE MCJobLifecycle ---------------------------
(* Instances of JobLifecycle for TLC. *)
EXTENDS JobLifecycle, TLC

(* Requests that do not die half-way: Spec, for MayFail = FALSE *)
UndyingSpec == Init /\ [][\E r \in Requests : Bidding(r) \/ Working(r) \/ Disputing(r)]_vars

(* Requests, providers and dispute rows are interchangeable; used only in *)
(* runs that check invariants.                                            *)
Symmetry == Permutations(Requests) \cup Permutations(Providers) \cup Permutations(Disputes)
=============================================================================
