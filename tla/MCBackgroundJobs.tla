-------------------------- MODULE MCBackgroundJobs --------------------------
(* Instances of BackgroundJobs for TLC. *)
EXTENDS BackgroundJobs, TLC

(* maxAttempts of every row *)
TwoAttempts == [d \in Jobs |-> 2]

(* Rows of one kind and workers are interchangeable; used only in runs that *)
(* check invariants and action properties.                                  *)
Symmetry == Permutations(Notifies) \cup Permutations(Digests)
              \cup Permutations(Recurrents) \cup Permutations(Workers)

(* The recurring jobs share no row with the others: each behaviour has one  *)
(* kind or the other; and a job is hidden only where it is the only one and *)
(* nothing crashes.  What this cuts off are Enqueue, HideJob, Crash and     *)
(* BootCreate, which no fairness condition asks for.                        *)
OneKind == /\ \/ \A d \in Recurrents : job[d].status = "NONE"
              \/ \A d \in Jobs \ Recurrents : job[d].status = "NONE"
           /\ hides > 0 => crashes = 0 /\ \E n \in Notifies : job[n].status = "NONE"
=============================================================================
