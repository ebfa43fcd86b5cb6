----------------------------- MODULE MCJobsPair -----------------------------
(* Instances of BackgroundJobs with two workers. *)
EXTENDS MCBackgroundJobs

(* Two workers on one match job, whose digest is not tried again, or on two *)
(* match jobs that neither fail nor lose their lease, whose digest is.      *)
VARIABLE scene
PairSpec == Init /\ scene \in {"one", "two"} /\ [][Next /\ UNCHANGED scene]_<<vars, scene>>

RunOnce(S) == \A d \in S : job[d].attempts = 0 /\ job[d].status # "DEAD"
OneOrSmooth ==
    CASE scene = "one" -> RunOnce(Digests) /\ \E n \in Notifies : job[n].status = "NONE"
      [] scene = "two" -> RunOnce(Notifies) /\ \A n \in Notifies : job[n].lock # "stale"
=============================================================================
