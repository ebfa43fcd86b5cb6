------------------------------ MODULE MCClient ------------------------------
(* The app's screens and its session, the walk through the pages of a       *)
(* search, and the pages of Workspace; one of them in a behaviour.          *)
EXTENDS Client, Discovery, Workspace, TLC

CONSTANTS e1, e2

TwoThreads == 1..2
ThreeIds == 1..3
TwoRows == 1..2
TwoMarks == 1..2

(* Requests are lost but on the pages where most can happen. *)
EveryVisit ==
    [page : {"searches"}, entries : {{e1, e2}}, faults : {0}]
      \cup [page : {"list"}, entries : {{e1}}, faults : {0}]
      \cup [page : {"docs"}, entries : {{}}, faults : {0}]
      \cup [page : {"profile"}, entries : {{e1}}, faults : {1}]
      \cup [page : {"slots"}, entries : {{e1, e2}}, faults : {1}]
      \cup [page : Forms, entries : {{e1, e2}}, faults : {1}]
      \cup [page : {"saved", "blocked", "stars", "hearts"}, entries : {{}}, faults : {1}]

Searching == screen = "search"
Working == screen = "work"

NoWalk ==
    /\ walk = [sort |-> "none", cursor |-> NoCursor, got |-> <<>>, ended |-> FALSE]
    /\ card = [i \in Ids |-> NoCursor]
    /\ suspended = {} /\ touched = {}
    /\ ranking = [kept |-> FALSE, list |-> <<>>]

NoWork ==
    /\ visit = CHOOSE v \in Visits : TRUE
    /\ kept = Nothing /\ next = 1 /\ review = [status |-> "NONE", names |-> {}]
    /\ view = Nothing /\ seen = "NONE"
    /\ gets = [g \in Gets |-> NoGet] /\ asked = <<>> /\ busy = FALSE /\ broken = FALSE
    /\ form = NoForm /\ act = [o \in Acts |-> NoAct]
    /\ off = FALSE /\ typed = {} /\ lost = {} /\ mixed = FALSE /\ faults = 0

AppInit ==
    /\ Init
    /\ IF Searching THEN DiscoveryInit ELSE NoWalk
    /\ IF Working THEN WorkInit ELSE NoWork

AppNext ==
    \/ ~Searching /\ ~Working /\ Next /\ UNCHANGED <<discoveryVars, workVars>>
    \/ Searching /\ DiscoveryNext /\ UNCHANGED <<vars, workVars>>
    \/ Working /\ WorkNext /\ UNCHANGED <<vars, discoveryVars>>

AppSpec == AppInit /\ [][AppNext]_<<vars, discoveryVars, workVars>>

(* A behaviour is about one screen: its sets are permuted, whatever happens to *)
(* those of the others.  Each set has two elements.                            *)
Swapped(G) == [x \in UNION G |-> CHOOSE y \in UNION G : {x, y} \in G /\ x # y]
Symmetry == {Swapped(G) : G \in {{Calls, People, Gets}, {Texts, Ops, Acts}, {Queries}}}
=============================================================================
