----------------------------- MODULE MCJobScreens -----------------------------
(* Instances of JobScreens for TLC. *)
EXTENDS JobScreens

CONSTANTS C, p1, p2

(* States of a job on which p1, or p1 and p2, have bid *)
At1(status, awarded, pendingFor, b, c) ==
    [job |-> [status |-> status, awarded |-> awarded, pendingFor |-> pendingFor,
              completedAt |-> FALSE],
     bid |-> [p \in Providers |-> IF p = p1 THEN b ELSE "NONE"],
     counter |-> [p \in Providers |-> IF p = p1 THEN c ELSE "NONE"],
     agreed |-> IF pendingFor = None THEN {} ELSE {p1, C} \ {pendingFor}]

Open1 == At1("OPEN", None, None, "PENDING", "NONE")
Open2 == [Open1 EXCEPT !.bid[p2] = "PENDING"]
Countered1 == At1("OPEN", None, None, "PENDING", "PENDING")
Awarded1 == At1("AWARDED", p1, None, "ACCEPTED", "NONE")
Working1 == At1("IN_PROGRESS", p1, None, "ACCEPTED", "NONE")
Waiting1(u) == At1("COMPLETED_PENDING_CONFIRMATION", p1, u, "ACCEPTED", "NONE")

On(views, me, jobs) ==
    {[view |-> v, me |-> me, job |-> s.job, bid |-> s.bid, counter |-> s.counter,
      agreed |-> s.agreed] : v \in views, s \in jobs}

MCScenes ==
    On({"all"}, C, {At1("OPEN", None, None, "NONE", "NONE")})
    \cup On({"myJob"}, C, {Working1, Waiting1(C)})
    \cup On({"bids", "bidsOfList"}, C, {Open2, Countered1})
    \cup On({"jobDetail"}, p1, {Countered1, Awarded1, Working1, Waiting1(p1)})
    \cup On({"bidDetail", "jobBids"}, p1, {Open1, Countered1})
=============================================================================
