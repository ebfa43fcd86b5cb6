------------------------------ MODULE Discovery ------------------------------
(***************************************************************************)
(* Looking for a provider: the ranked search with its filters, its cache   *)
(* in Redis and its cursors (routes/providersSearch.ts), and the feed by   *)
(* id (src/server.ts).  A consumer walks through the pages of one query    *)
(* while providers change, are suspended and the cache comes and goes.     *)
(*                                                                         *)
(* The query passes everybody who is not suspended; there are fewer        *)
(* providers than the window the search ranks (250 and more).              *)
(***************************************************************************)
EXTENDS Integers, FiniteSets, SequencesExt, Lists

CONSTANTS Ids,         \* of providers: numbers
          Sorts,       \* sorts walked through
          Marks,       \* values of what is sorted by
          Unknown,     \* larger than them: Infinity
          PageSize, MaxTouched \* MaxTouched: bound, changes of a provider

ASSUME DiscoveryAssumption ==
    /\ Ids \subseteq Nat /\ IsFiniteSet(Ids) /\ Marks \subseteq Nat \ {0}
    /\ Unknown \in Nat /\ \A m \in Marks : m < Unknown
    /\ Sorts \subseteq {"relevance", "rating", "distance", "responseTime", "feed"}
    /\ PageSize \in Nat \ {0} /\ MaxTouched \in Nat

VARIABLES
    card,      \* card[i]: what the provider is ranked by
    suspended,
    touched,   \* history: providers that changed
    ranking,   \* the ranked list cached in Redis, with its presence
    walk       \* the sort, the cursor, the pages so far, at the end or not

discoveryVars == <<card, suspended, touched, ranking, walk>>

(* first: score, rating or the distance or time; second: number of reviews *)
Cards == [first : Marks \cup {Unknown}, second : Marks]
NoCursor == [first |-> 0, second |-> 0, id |-> 0]

(* Only the time of response may be unknown to those listed. *)
Fits(c, sort) == c.first = Unknown => sort = "responseTime"

DiscoveryInit ==
    /\ walk \in [sort : Sorts, cursor : {NoCursor}, got : {<<>>}, ended : {FALSE}]
    /\ card \in [Ids -> {c \in Cards : Fits(c, walk.sort)}]
    /\ suspended = {} /\ touched = {}
    /\ ranking = [kept |-> FALSE, list |-> <<>>]

Changes(i) == /\ Cardinality(touched) < MaxTouched /\ ~walk.ended
              /\ touched' = touched \cup {i}
              /\ UNCHANGED <<ranking, walk>>

CardChanges(i, c) == /\ Changes(i) /\ Fits(c, walk.sort)
                     /\ card' = [card EXCEPT ![i] = c]
                     /\ UNCHANGED suspended

Suspend(i) == /\ Changes(i)
              /\ suspended' = suspended \cup {i}
              /\ UNCHANGED card

CacheExpires == /\ ranking.kept
                /\ ranking' = [kept |-> FALSE, list |-> <<>>]
                /\ UNCHANGED <<card, suspended, touched, walk>>

----------------------------------------------------------------------------
(* The ranked list *)

Item(i) == [first |-> card[i].first, second |-> card[i].second, id |-> i]
Listed == {Item(i) : i \in Ids \ suspended}
Largest == walk.sort \in {"relevance", "rating"}

(* Where the larger is the better, the second value breaks the tie, then    *)
(* the id; otherwise the id does at once.                                   *)
Before(x, y) ==
    IF x.first # y.first THEN IF Largest THEN x.first > y.first ELSE x.first < y.first
    ELSE IF Largest /\ x.second # y.second THEN x.second > y.second
    ELSE x.id > y.id

Ranked == Sorted(Listed, Before)

(* JSON has no Infinity: what comes back is null, which counts as 0. *)
Json(list) == [k \in DOMAIN list |-> IF list[k].first = Unknown THEN [list[k] EXCEPT !.first = 0]
                                     ELSE list[k]]

(* isAfterCursor; the cursor of an unknown time stands for Infinity.        *)
After_Loose(x, c) == x.first <= c.first                                    \* mutant
After(x, c) ==
    CASE walk.sort = "relevance" -> x.first < c.first \/ (x.first = c.first /\ x.id < c.id)
      [] walk.sort = "rating" -> \/ x.first < c.first
                                 \/ x.first = c.first /\ x.second < c.second
                                 \/ x.first = c.first /\ x.second = c.second /\ x.id < c.id
      [] OTHER -> x.first > c.first \/ (x.first = c.first /\ x.id < c.id)

Cursor(x) == IF x.first = 0 THEN [x EXCEPT !.first = Unknown] ELSE x

Turns(page) ==
    walk' = [walk EXCEPT !.got = @ \o [k \in DOMAIN page |-> page[k].id],
                         !.ended = Len(page) < PageSize,
                         !.cursor = IF page = <<>> THEN @ ELSE Cursor(Last(page))]

Cut(list) == SubSeq(list, 1, IF Len(list) < PageSize THEN Len(list) ELSE PageSize)
Onward(list) == IF walk.cursor = NoCursor THEN list
                ELSE Filter(list, LAMBDA x : After(x, walk.cursor))

(* An empty list is as good as none. *)
SearchCached ==
    /\ walk.sort # "feed" /\ ~walk.ended
    /\ ranking.kept /\ ranking.list # <<>>
    /\ Turns(Cut(Onward(ranking.list)))
    /\ UNCHANGED <<card, suspended, touched, ranking>>

(* Redis may be out of reach, both times or one. *)
SearchRanked ==
    /\ walk.sort # "feed" /\ ~walk.ended
    /\ Turns(Cut(Onward(Ranked)))
    /\ \/ ranking' = [kept |-> TRUE, list |-> Json(Ranked)]
       \/ UNCHANGED ranking
    /\ UNCHANGED <<card, suspended, touched>>

(* The row of the cursor and those below it, of which the first is left out *)
FeedPage ==
    LET rows == Sorted({x \in Listed : walk.cursor = NoCursor \/ x.id <= walk.cursor.id},
                       LAMBDA x, y : x.id > y.id)
    IN  /\ walk.sort = "feed" /\ ~walk.ended
        /\ Turns(Cut(IF walk.cursor = NoCursor THEN rows ELSE SubSeq(rows, 2, Len(rows))))
        /\ UNCHANGED <<card, suspended, touched, ranking>>

DiscoveryNext ==
    \/ \E i \in Ids : Suspend(i) \/ \E c \in Cards : CardChanges(i, c)
    \/ CacheExpires \/ SearchCached \/ SearchRanked \/ FeedPage

DiscoverySpec == DiscoveryInit /\ [][DiscoveryNext]_discoveryVars

----------------------------------------------------------------------------
(* Properties *)

Steady == CASE walk.sort = "feed" -> suspended = {}
            [] walk.sort \in {"rating", "distance"} -> TRUE
            [] OTHER -> FALSE

(* Who walks by rating, by distance or by id through all pages, from the    *)
(* cache or not, sees each provider that does not change meanwhile exactly  *)
(* once, whatever becomes of the others; by id, as long as nobody is        *)
(* suspended.  By relevance or by time of response it does not hold.        *)
WalkWhole ==
    Steady =>
        \A i \in Ids \ touched :
            LET times == Cardinality({k \in DOMAIN walk.got : walk.got[k] = i})
            IN  times <= 1 /\ (walk.ended => times = 1)

(* The same of every sort: "cursor pagination returns stable continuation". *)
StableContinuation ==
    walk.ended /\ touched = {} => \A i \in Ids : \E k \in DOMAIN walk.got : walk.got[k] = i
=============================================================================
