----------------------------- MODULE MCBilling -----------------------------
(* Instances of Billing for TLC. *)
EXTENDS Billing, TLC

(* Purchases of one kind and requests are interchangeable; used only in runs *)
(* that check invariants and action properties.                              *)
Symmetry == Permutations(Basics) \cup Permutations(Pros) \cup Permutations(LeadPacks)
              \cup Permutations(Zips) \cup Permutations(Hooks) \cup Permutations(Bidders)
=============================================================================
