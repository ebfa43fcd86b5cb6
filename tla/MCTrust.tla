------------------------------ MODULE MCTrust ------------------------------
(* What is asked in one behaviour: each mix is a state space of its own. *)
EXTENDS Trust, TLC

OnAll == {<<"on", j>> : j \in Jobs}
One == {CHOOSE o \in OnAll : TRUE}
tick == <<"tick", None>>
serial == <<"serial", None>>
fault == <<"fault", None>>
MCMixes == {
    {<<"contact", "provider">>, tick, fault} \cup One,
    {<<"contact", "provider">>, <<"scam", "provider">>} \cup One,
    {<<"same", "provider">>, <<"plain", "provider">>, <<"read", "consumer">>, tick} \cup One,
    {<<"plain", "provider">>, <<"read", "consumer">>, tick, serial} \cup OnAll,
    {<<"plain", "provider">>, <<"file", "provider">>, <<"upload", "consumer">>,
     <<"upload", "provider">>, fault} \cup One,
    {<<"report", "provider">>, tick, fault},
    {<<"plain", "provider">>, <<"block", "consumer">>} \cup One,
    {<<"plain", "admin">>, <<"admin", "admin">>, fault} \cup One,
    {<<"job", "consumer">>, tick, fault},
    {<<"ai", "consumer">>, fault}}


MCSteps == [message |-> {<<2, 2>>, <<3, 3>>},
            report |-> {<<2, 2>>, <<3, 3>>},
            job |-> {<<1, 2>>, <<2, 3>>}]

Symmetry == UNION {Permutations(S) : S \in {Requests, Keys, Admins, Posts}}
=============================================================================
