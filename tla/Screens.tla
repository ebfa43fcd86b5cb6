------------------------------ MODULE Screens ------------------------------
(***************************************************************************)
(* The paged lists of the mobile app (home-hero-mobile/app/(tabs)): a      *)
(* thread of messages, the inbox and the jobs to browse.  A request is     *)
(* answered by the server at one time and its answer applied at another,   *)
(* in any order or never, while rows are added, the search changes and     *)
(* messages are sent.                                                      *)
(*                                                                         *)
(* A row is its position on the server: ids grow.  An inbox row is a       *)
(* message of which the newest stands for its thread.  No row is hidden    *)
(* or removed while the screen is open.  Lists are newest first.           *)
(***************************************************************************)
EXTENDS Integers, FiniteSets, SequencesExt, Lists

CONSTANTS Calls,       \* requests in flight at once
          Texts,       \* messages the user sends
          Queries,     \* what is searched for
          Threads,     \* jobs with a thread
          Page,        \* rows in a page
          MaxRows, MaxFailures, \* bounds
          Screens,     \* screens looked at, one in a behaviour
          None

ASSUME ScreensAssumption ==
    /\ Page \in Nat \ {0} /\ {MaxRows, MaxFailures} \subseteq Nat
    /\ Screens \subseteq {"thread", "inbox", "jobs", "session", "search", "work"}
    /\ Queries # {} /\ None \notin Calls

VARIABLES
    screen,
    rows,      \* the server's table, oldest first
    query,     \* the search, with its debounce timer running or not
    debounce,
    focus,     \* the effect that loads the first page is due
    items, cursor,    \* what is shown, and nextCursor (0 for null)
    loading,   \* modes whose flag is on
    error,
    latest,    \* the request that requestIdRef stands for
    call,      \* call[c]: request c
    text,      \* text[t]: bubble and POST of a message sent
    failures,
    stale      \* history: the newest request failed

screenVars == <<screen, rows, query, debounce, focus, items, cursor, loading, error, latest, call,
                text, failures, stale>>
list == <<items, cursor, loading, error, latest, call, stale>>

NoCall == [pc |-> "idle", mode |-> "initial", query |-> None, cursor |-> 0, page |-> <<>>, next |-> 0]
NoText == [bubble |-> "none", post |-> "none", fresh |-> FALSE, row |-> 0, given |-> FALSE,
           blocked |-> FALSE]

ScreensInit ==
    /\ screen \in Screens
    /\ rows = <<>>
    /\ query \in Queries
    /\ debounce = (screen = "jobs") /\ focus = TRUE
    /\ items = <<>> /\ cursor = 0 /\ loading = {} /\ error = FALSE
    /\ latest = None
    /\ call = [c \in Calls |-> NoCall]
    /\ text = [t \in Texts |-> NoText]
    /\ failures = 0 /\ stale = FALSE

Breaks == failures < MaxFailures /\ failures' = failures + 1
On(s) == screen = s

----------------------------------------------------------------------------
(* The server *)

NewKeys == IF On("inbox") THEN Threads ELSE {Len(rows) + 1}

Arrives ==
    /\ screen # "session" /\ Len(rows) < MaxRows
    /\ \E k \in NewKeys, fits \in SUBSET Queries \ {{}} :
          /\ On("jobs") \/ fits = Queries
          /\ rows' = Append(rows, [key |-> k, fits |-> fits])
    /\ UNCHANGED <<screen, query, debounce, focus, list, text, failures>>

Below(q, c) == {i \in DOMAIN rows : q \in rows[i].fits /\ (c # 0 => i < c)}

(* distinct jobId: of the messages below the cursor, the newest of each job *)
Latest(q, c) == {i \in Below(q, c) : \A k \in Below(q, c) : rows[k].key = rows[i].key => k <= i}

NewestFirst(S) == Sorted(S, >)
PageBelow(q, c) == LET all == NewestFirst(IF On("inbox") THEN Latest(q, c) ELSE Below(q, c))
                   IN  SubSeq(all, 1, IF Len(all) < Page THEN Len(all) ELSE Page)

(* The inbox goes on until a page is empty, the others until one is not full. *)
NextCursor(page) == IF page # <<>> /\ (Len(page) = Page \/ On("inbox")) THEN Last(page) ELSE 0

Answer(c) ==
    LET page == PageBelow(call[c].query, call[c].cursor)
    IN  /\ call[c].pc = "sent"
        /\ call' = [call EXCEPT ![c].pc = "answered", ![c].page = page, ![c].next = NextCursor(page)]
        /\ UNCHANGED <<screen, rows, query, debounce, focus, items, cursor, loading, error, latest,
                       text, failures, stale>>

----------------------------------------------------------------------------
(* Requests *)

(* fetchPage, of which each request carries the search and the cursor of its start *)
Fetch(c, mode) ==
    /\ call[c].pc = "idle"
    /\ call' = [call EXCEPT ![c] = [NoCall EXCEPT !.pc = "sent", !.mode = mode, !.query = query,
                                                  !.cursor = IF mode = "more" THEN cursor ELSE 0]]
    /\ latest' = c
    /\ loading' = loading \cup {mode}
    /\ error' = IF On("inbox") /\ mode # "initial" THEN error ELSE FALSE
    /\ UNCHANGED <<screen, rows, query, items, cursor, failures, stale>>

FetchesFirst(c) == focus /\ Fetch(c, "initial") /\ focus' = FALSE /\ UNCHANGED <<debounce, text>>

(* Polling in a thread, pulling down everywhere *)
Refresh(c) == ~focus /\ screen # "session" /\ Fetch(c, "refresh")
              /\ UNCHANGED <<focus, debounce, text>>

CanLoadMore == /\ cursor # 0
               /\ IF On("inbox") THEN "more" \notin loading ELSE loading = {}
               /\ On("jobs") => ~error

LoadMore(c) == CanLoadMore /\ Fetch(c, "more") /\ UNCHANGED <<focus, debounce, text>>

(* Coming back to the inbox *)
Focus == /\ On("inbox") /\ focus' = TRUE
         /\ UNCHANGED <<screen, rows, query, debounce, list, text, failures>>

Search(q) == /\ On("jobs") /\ q # query
             /\ query' = q /\ debounce' = TRUE
             /\ UNCHANGED <<screen, rows, focus, list, text, failures>>

SearchFires(c) == debounce /\ Fetch(c, "initial") /\ debounce' = FALSE /\ UNCHANGED <<focus, text>>

Current_Always(c) == TRUE                                                  \* mutant
Current(c) == latest = c

Heeded(c) == On("inbox") \/ Current(c)
LoadingAfter(c) == IF On("thread") THEN {} ELSE loading \ {call[c].mode}

Shown == {rows[items[i]].key : i \in DOMAIN items}
Merged(c) == IF call[c].mode = "more"
               THEN items \o Filter(call[c].page, LAMBDA i : rows[i].key \notin Shown)
               ELSE call[c].page

Optimistic_Failed(t) == IF text[t].bubble = "sending" THEN "none" ELSE text[t].bubble \* mutant
Optimistic(t) == text[t].bubble

(* A thread loads its first page anew whenever its cursor has changed: the  *)
(* effect depends on fetchPage, which depends on the cursor.                *)
Apply(c) ==
    /\ call[c].pc = "answered"
    /\ call' = [call EXCEPT ![c] = NoCall]
    /\ IF Heeded(c)
         THEN /\ items' = Merged(c) /\ cursor' = call[c].next
              /\ focus' = (focus \/ (On("thread") /\ cursor' # cursor))
              /\ loading' = LoadingAfter(c) /\ stale' = FALSE
              /\ error' = IF On("inbox") /\ call[c].mode = "refresh" THEN FALSE ELSE error
              /\ text' = IF call[c].mode = "more" THEN text
                         ELSE [t \in Texts |-> [text[t] EXCEPT !.bubble = Optimistic(t)]]
         ELSE UNCHANGED <<items, cursor, focus, loading, stale, error, text>>
    /\ UNCHANGED <<screen, rows, query, debounce, latest, failures>>

(* An error answer, no answer within 15 seconds, no connection *)
Fails(c) ==
    /\ call[c].pc \in {"sent", "answered"}
    /\ Breaks
    /\ call' = [call EXCEPT ![c] = NoCall]
    /\ IF Heeded(c) THEN loading' = LoadingAfter(c) /\ error' = TRUE /\ stale' = TRUE
                    ELSE UNCHANGED <<loading, error, stale>>
    /\ UNCHANGED <<screen, rows, query, debounce, focus, items, cursor, latest, text>>

----------------------------------------------------------------------------
(* Sending a message *)

others == <<screen, query, debounce, focus, items, cursor, loading, latest, call, stale>>

OnSend(t) ==
    /\ On("thread") /\ ~text[t].given
    /\ \A s \in Texts : ~(text[s].fresh /\ text[s].post # "none")
    /\ text' = [text EXCEPT ![t] = [NoText EXCEPT !.bubble = "sending", !.post = "sent",
                                                  !.fresh = TRUE, !.given = TRUE]]
    /\ error' = FALSE
    /\ UNCHANGED <<others, rows, failures>>

Retry(t) ==
    /\ text[t].bubble = "failed"
    /\ text' = [text EXCEPT ![t].bubble = "sending", ![t].post = "sent", ![t].fresh = FALSE]
    /\ UNCHANGED <<others, rows, error, failures>>

PostStored(t) ==
    /\ text[t].post = "sent" /\ Len(rows) < MaxRows
    /\ rows' = Append(rows, [key |-> Len(rows) + 1, fits |-> Queries])
    /\ text' = [text EXCEPT ![t].post = "stored", ![t].row = Len(rows) + 1]
    /\ UNCHANGED <<others, error, failures>>

PostBlocked(t) ==
    /\ text[t].post = "sent"
    /\ text' = [text EXCEPT ![t].post = "none", ![t].blocked = TRUE,
                            ![t].bubble = IF text[t].fresh THEN "none" ELSE "failed"]
    /\ UNCHANGED <<others, rows, error, failures>>

(* The answer is lost, also when the message was stored: its row is not known here. *)
PostFails(t) ==
    /\ text[t].post \in {"sent", "stored"}
    /\ Breaks
    /\ text' = [text EXCEPT ![t].post = "none", ![t].row = 0,
                            ![t].bubble = IF @ = "none" THEN "none" ELSE "failed"]
    /\ error' = TRUE
    /\ UNCHANGED <<others, rows>>

(* The bubble goes, and a refresh is to bring the message in its place. *)
PostAcked(t, c) ==
    /\ text[t].post = "stored"
    /\ text' = [text EXCEPT ![t].post = "none", ![t].bubble = "none"]
    /\ Fetch(c, "refresh")
    /\ UNCHANGED <<focus, debounce>>

ScreensNext ==
    \/ Arrives \/ Focus
    \/ \E q \in Queries : Search(q)
    \/ \E c \in Calls : \/ Answer(c) \/ FetchesFirst(c) \/ Refresh(c) \/ LoadMore(c) \/ SearchFires(c)
                        \/ Apply(c) \/ Fails(c)
    \/ \E t \in Texts : \/ OnSend(t) \/ Retry(t) \/ PostStored(t) \/ PostBlocked(t) \/ PostFails(t)
                        \/ \E c \in Calls : PostAcked(t, c)

----------------------------------------------------------------------------
(* Properties *)

Quiet == (\A c \in Calls : call[c].pc = "idle") /\ ~focus /\ ~debounce

(* Once a screen has nothing under way and its newest request did not fail, *)
(* the thread and the jobs shown are all those of the current search from   *)
(* the newest one shown down to the cursor, each once and in order, however *)
(* many requests were superseded by others; and no list, the inbox included,*)
(* ever shows a row or a thread twice.                                      *)
ListWhole ==
    /\ \A i, k \in DOMAIN items : rows[items[i]].key = rows[items[k]].key => i = k
    /\ Quiet /\ ~stale /\ ~On("inbox") /\ items # <<>>
         => items = NewestFirst({i \in Below(query, 0) : cursor <= i /\ i <= Head(items)})

(* Each text given to Send is a bubble, is on the server or was blocked;    *)
(* and when the bubble was taken away because the server has the message,   *)
(* the list reaches up to it once nothing is under way.                     *)
SentIsShown ==
    \A t \in Texts :
        /\ text[t].given => text[t].bubble # "none" \/ text[t].row # 0 \/ text[t].blocked
        /\ Quiet /\ ~stale /\ text[t].row # 0 /\ text[t].post = "none"
             => items # <<>> /\ text[t].row <= Head(items)
=============================================================================
