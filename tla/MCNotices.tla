----------------------------- MODULE MCNotices -----------------------------
(* An instance of Notices for TLC. *)
EXTENDS Notices, TLC

MCDevices == {[t \in Tokens |-> p] : p \in Providers}
MCBodies == {<<"off", "keep", {}>>, <<"keep", "digest", {}>>, <<"on", "interval", {0}>>}

(* Two jobs and two providers, or three jobs and one provider *)
MCScenes ==
    LET Of(area, m, n) == {[area |-> area, ads |-> A, providers |-> P] :
                              A \in kSubset(m, Ads), P \in kSubset(n, Providers)}
    IN  Of("match", 2, 2) \cup Of("match", 3, 1) \cup Of("push", 1, 2) \cup Of("bell", 0, 0)

Symmetry == UNION {Permutations(S) : S \in {Providers, Ads, Workers}}
=============================================================================
