---------------------------- MODULE MCEngagement ----------------------------
EXTENDS Engagement, TLC

(* The second starts when the first is half over. *)
TwoSlots == {<<0, 2>>, <<1, 3>>}

(* The kinds share nothing but the job: each for itself, reviews for all jobs *)
OneKind == {{<<k, j>>} : k \in {"appointment", "contact"}, j \in Jobs}
             \cup {{<<"review", j>> : j \in Jobs}}

Symmetry == Permutations(Requests) \cup Permutations(Appts) \cup Permutations(Jobs)
=============================================================================
