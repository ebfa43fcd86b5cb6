------------------------------- MODULE Notices -------------------------------
(***************************************************************************)
(* What the users are told: the providers a new job is announced to        *)
(* (services/jobMatchNotifier.ts), the push messages sent to their devices *)
(* through Expo (services/expoPush.ts), their preferences                  *)
(* (routes/notificationPreferences.ts), and the list of notifications in   *)
(* the app (src/server.ts, hooks/useNotifications.ts).                     *)
(*                                                                         *)
(* BackgroundJobs has the rows that make a worker announce a job and send  *)
(* a digest; here a job is announced by any worker, again after a failure, *)
(* and by two at once when the lock of a row has expired.  A behaviour is  *)
(* about one of three areas: "match", where nobody has a device; "push",   *)
(* where one job is announced; "bell", the list of one user.               *)
(***************************************************************************)
EXTENDS Naturals, Sequences, FiniteSets, SequencesExt

CONSTANTS Providers, Ads, Workers, \* Ads: jobs to announce
          Scenes,      \* bound: [area, ads, providers] a behaviour is about
          Tokens,      \* of devices
          Devices,     \* whose they are at first, when anybody has one
          Bells,       \* notifications of one user
          Calls,       \* requests of his app at once
          Window, WindowMax, \* MATCH_NOTIFY_PROVIDER_WINDOW_MINUTES and _MAX
          RateLimit,   \* push messages to a user per minute
          BatchSize,   \* messages in a request to Expo
          MaxRetries,
          Bodies,      \* of PUT /me/notification-preferences: <<on, mode, quiet hours>>
          MaxNow, MaxFailures, MaxChanges, \* bounds
          Nil

ASSUME NoticesAssumption ==
    /\ Scenes \subseteq [area: {"match", "push", "bell"}, ads: SUBSET Ads, providers: SUBSET Providers]
    /\ {Window, RateLimit, MaxRetries, MaxNow, MaxFailures, MaxChanges} \subseteq Nat
    /\ WindowMax \in Nat \ {0}                                \* 0 turns the caps off
    /\ Devices \subseteq [Tokens -> Providers]
    /\ IsFiniteSet(Ads) /\ IsFiniteSet(Tokens) /\ IsFiniteSet(Workers) /\ Workers # {}
    /\ Nil \notin Providers
    /\ BatchSize \in Nat \ {0}
    /\ Bodies \subseteq {"keep", "on", "off"} \X {"keep", "instant", "digest", "interval"}
                         \X SUBSET (0..MaxNow)

VARIABLES
    scene, now, failures, changes,
    hidden, blocked,   \* jobs an admin hid; providers blocked by or blocking the consumer
    prefs,             \* prefs[p]: row of NotificationPreference
    match, notes,      \* match[a][p]: JobMatchNotification; notes[a][p]: times of its notifications
    digests,           \* providers for whom a digest is scheduled
    run, done,         \* run[w]: the announcement worker w is at; jobs announced
    owner,             \* owner[t]: row of PushToken
    rate,              \* rate[p]: counter in Redis, with an expiry or not
    push,              \* the send under way
    bell, told,        \* notifications of the user; those announced as read
    shown, error,      \* his list
    get, post          \* requests of his app

env == <<scene, now, failures, changes, hidden, blocked, prefs>>
matching == <<match, notes, digests, run, done>>
pushing == <<owner, rate, push>>
belling == <<bell, told, shown, error, get, post>>
noticesVars == <<env, matching, pushing, belling>>

NoMatch == [at |-> 0, how |-> "none"]
NoRun == [pc |-> "idle", ad |-> Nil, at |-> 0, cands |-> {}, instant |-> {}, digest |-> {},
          quiet |-> {}, to |-> [t \in Tokens |-> Nil]]
NoPush == [pc |-> "idle", todo |-> <<>>, rest |-> <<>>, send |-> <<>>, attempt |-> 0,
           who |-> Nil, invalid |-> {}, ids |-> {}, retry |-> {}, perm |-> {},
           fate |-> [t \in Tokens |-> "none"], gaveUp |-> FALSE, again |-> FALSE]
NoPost == [pc |-> "idle", id |-> Nil, read |-> {}, heard |-> FALSE]

Default == [on |-> TRUE, digest |-> FALSE, quiet |-> {}]

In(area) == scene.area = area

NoticesInit ==
    /\ scene \in Scenes /\ now = 0 /\ failures = 0 /\ changes = 0
    /\ hidden = {} /\ blocked = {}
    /\ prefs = [p \in Providers |-> Default]
    /\ match = [a \in Ads |-> [p \in Providers |-> NoMatch]]
    /\ notes = [a \in Ads |-> [p \in Providers |-> <<>>]]
    /\ digests = {} /\ done = {}
    /\ run = [w \in Workers |-> NoRun]
    /\ IF In("push") THEN owner \in Devices ELSE owner = [t \in Tokens |-> Nil]
    /\ rate = [p \in Providers |-> [n |-> 0, expires |-> TRUE]]
    /\ push = NoPush
    /\ bell = [b \in Bells |-> "none"] /\ told = {}
    /\ shown = [b \in Bells |-> "none"] /\ error = FALSE
    /\ get = [c \in Calls |-> NoPost] /\ post = [c \in Calls |-> NoPost]

Failing == failures < MaxFailures /\ failures' = failures + 1
                /\ UNCHANGED <<scene, now, changes, hidden, blocked, prefs>>
Changing == changes < MaxChanges /\ changes' = changes + 1 /\ UNCHANGED <<scene, failures>>

Tick == /\ In("match") /\ now < MaxNow /\ now' = now + 1
        /\ UNCHANGED <<scene, failures, changes, hidden, blocked, prefs, matching, pushing, belling>>

----------------------------------------------------------------------------
(* What is changed meanwhile *)

HideAd(a) == /\ In("match") /\ Changing /\ hidden' = hidden \cup {a}
             /\ UNCHANGED <<now, blocked, prefs, matching, pushing, belling>>

Block(p) == /\ In("match") /\ Changing /\ blocked' = blocked \cup {p}
            /\ UNCHANGED <<now, hidden, prefs, matching, pushing, belling>>

(* PUT /me/notification-preferences: of the fields left out, all but the    *)
(* mode keep their value; the interval alone sets the mode to INSTANT.      *)
ModeAfter(old, mode) == CASE mode = "keep" -> old
                          [] mode \in {"instant", "interval"} -> FALSE
                          [] mode = "digest" -> TRUE

PutPrefs(p, body) ==
    /\ In("match") /\ Changing
    /\ prefs' = [prefs EXCEPT ![p] = [on |-> IF body[1] = "keep" THEN @.on ELSE body[1] = "on",
                                      digest |-> ModeAfter(@.digest, body[2]), quiet |-> body[3]]]
    /\ UNCHANGED <<now, hidden, blocked, matching, pushing, belling>>

(* POST /me/push-token: the device of another user becomes his. *)
PutToken(t, p) ==
    /\ In("push") /\ Changing
    /\ owner' = [owner EXCEPT ![t] = p]
    /\ UNCHANGED <<now, hidden, blocked, prefs, matching, rate, push, belling>>

----------------------------------------------------------------------------
(* processJobMatchNotifyWithDeps *)

On(w, pc) == run[w].pc = pc
Go(w, r) == run' = [run EXCEPT ![w] = r]
Finish(w) == Go(w, NoRun) /\ done' = done \cup {run[w].ad}

Announce(w, a) ==
    /\ ~In("bell") /\ On(w, "idle") /\ a \notin done
    /\ In("push") => \A v \in Workers : On(v, "idle")
    /\ IF a \in hidden THEN done' = done \cup {a} /\ UNCHANGED run
         ELSE Go(w, [NoRun EXCEPT !.pc = "candidates", !.ad = a, !.at = now]) /\ UNCHANGED done
    /\ UNCHANGED <<env, match, notes, digests, pushing, belling>>

(* The saved searches, or the categories, that match, and the best of them *)
Candidates(w, S) ==
    /\ On(w, "candidates")
    /\ S \cap blocked = {}
    /\ IF S = {} THEN Finish(w)
         ELSE Go(w, [run[w] EXCEPT !.pc = "dedup", !.cands = S, !.to = owner]) /\ UNCHANGED done
    /\ UNCHANGED <<env, match, notes, digests, pushing, belling>>

Dedup(w) == {p \in run[w].cands : match[run[w].ad][p] = NoMatch}

DedupRead(w) ==
    /\ On(w, "dedup")
    /\ IF Dedup(w) = {} THEN Finish(w)
         ELSE Go(w, [run[w] EXCEPT !.pc = "prefs", !.cands = Dedup(w)]) /\ UNCHANGED done
    /\ UNCHANGED <<env, match, notes, digests, pushing, belling>>

PrefsRead(w) ==
    LET on == {p \in run[w].cands : prefs[p].on}
        instant == {p \in on : ~prefs[p].digest}
    IN  /\ On(w, "prefs")
        /\ IF on = {} THEN Finish(w)
             ELSE /\ Go(w, [run[w] EXCEPT !.pc = IF instant # {} THEN "caps" ELSE "digestcaps",
                                          !.instant = instant, !.digest = on \ instant,
                                          !.quiet = {p \in on : run[w].at \in prefs[p].quiet}])
                  /\ UNCHANGED done
        /\ UNCHANGED <<env, match, notes, digests, pushing, belling>>

Within(t, from) == t + Window >= from
Noted(p, from) == Cardinality({n \in UNION {{a} \X DOMAIN notes[a][p] : a \in Ads} :
                                  Within(notes[n[1]][p][n[2]], from)})
Matched(p, hows, from) == Cardinality({a \in Ads : match[a][p].how \in hows
                                                    /\ Within(match[a][p].at, from)})

UnderCap_Late(w, p) == Noted(p, run[w].at) <= WindowMax                    \* mutant
UnderCap(w, p) == Noted(p, run[w].at) < WindowMax

(* Quiet hours drop an instant match for good. *)
Decide(w, instant, digest) ==
    LET loud == instant \ run[w].quiet
    IN  IF loud \cup digest = {} THEN Finish(w)
          ELSE Go(w, [run[w] EXCEPT !.pc = "commit", !.instant = loud, !.digest = digest])
               /\ UNCHANGED done

InstantCaps(w) ==
    LET instant == {p \in run[w].instant : UnderCap(w, p)}
    IN  /\ On(w, "caps")
        /\ IF run[w].digest = {} THEN Decide(w, instant, {})
             ELSE Go(w, [run[w] EXCEPT !.pc = "digestcaps", !.instant = instant]) /\ UNCHANGED done
        /\ UNCHANGED <<env, match, notes, digests, pushing, belling>>

DigestCaps(w) ==
    /\ On(w, "digestcaps")
    /\ Decide(w, run[w].instant, {p \in run[w].digest :
                 Matched(p, {"instant", "digest"}, run[w].at) < WindowMax})
    /\ UNCHANGED <<env, match, notes, digests, pushing, belling>>

(* jobId and providerId are unique. *)
Committable_Always(w) == TRUE                                              \* mutant
Committable(w) == \A p \in run[w].instant \cup run[w].digest : match[run[w].ad][p] = NoMatch

Commit(w) ==
    LET r == run[w]
    IN  /\ On(w, "commit") /\ Committable(w)
        /\ match' = [match EXCEPT ![r.ad] = [p \in Providers |->
                         IF p \in r.instant THEN [at |-> now, how |-> "instant"]
                         ELSE IF p \in r.digest THEN [at |-> now, how |-> "digest"] ELSE @[p]]]
        /\ notes' = [notes EXCEPT ![r.ad] = [p \in Providers |->
                         IF p \in r.instant THEN Append(@[p], now) ELSE @[p]]]
        /\ Go(w, [r EXCEPT !.pc = "push"])
        /\ UNCHANGED <<env, digests, done, pushing, belling>>

Conflicts(w) ==
    /\ On(w, "commit") /\ ~Committable(w)
    /\ Go(w, NoRun)
    /\ UNCHANGED <<env, match, notes, digests, done, pushing, belling>>

(* Their rows are those of BackgroundJobs. *)
Schedule(w) ==
    /\ On(w, "schedule")
    /\ digests' = digests \cup run[w].digest
    /\ Finish(w)
    /\ UNCHANGED <<env, match, notes, pushing, belling>>

(* A query fails or the process dies; the job is tried again. *)
RunFails(w) ==
    /\ ~On(w, "idle") /\ Failing
    /\ Go(w, NoRun)
    /\ push' = IF On(w, "sending") THEN NoPush ELSE push
    /\ UNCHANGED <<match, notes, digests, done, owner, rate, belling>>

----------------------------------------------------------------------------
(* sendExpoPush *)

Pushing(w, pc) == On(w, "sending") /\ push.pc = pc
PushUnchanged == UNCHANGED <<match, notes, digests, done, belling>>

StartPush(w) ==
    LET to == {t \in Tokens : run[w].to[t] \in run[w].instant}
    IN  /\ On(w, "push")
        /\ IF to = {} THEN Go(w, [run[w] EXCEPT !.pc = "schedule"]) /\ UNCHANGED push
             ELSE /\ Go(w, [run[w] EXCEPT !.pc = "sending"])
                  /\ push' = [NoPush EXCEPT !.pc = "throttle", !.todo = SetToSeq(to)]
        /\ UNCHANGED <<env, owner, rate>> /\ PushUnchanged

(* checkAndConsumeUserRateBestEffort: INCR, then PEXPIRE by the first; with *)
(* Redis out of reach everything is allowed.                                *)
Allow(t, ok) == push' = [push EXCEPT !.todo = Tail(@),
                                     !.rest = IF ok THEN Append(@, t) ELSE @,
                                     !.fate[t] = IF ok THEN @ ELSE "throttled"]

Throttle(w) ==
    LET t == Head(push.todo)  p == run[w].to[t]  n == rate[p].n
    IN  /\ Pushing(w, "throttle") /\ push.todo # <<>>
        /\ \/ /\ n = 0
              /\ rate' = [rate EXCEPT ![p] = [n |-> 1, expires |-> FALSE]]
              /\ push' = [push EXCEPT !.pc = "expire", !.who = p]
              /\ UNCHANGED env
           \/ /\ n > 0
              /\ rate' = [rate EXCEPT ![p].n = IF @ > RateLimit THEN @ ELSE @ + 1]
              /\ Allow(t, n < RateLimit)
              /\ UNCHANGED env
           \/ Failing /\ UNCHANGED rate /\ Allow(t, TRUE)
        /\ UNCHANGED <<run, owner>> /\ PushUnchanged

SetExpiry(w) ==
    /\ Pushing(w, "expire")
    /\ rate' = [rate EXCEPT ![push.who].expires = TRUE]
    /\ push' = [push EXCEPT !.pc = "throttle", !.todo = Tail(@), !.rest = Append(@, Head(push.todo))]
    /\ UNCHANGED <<env, run, owner>> /\ PushUnchanged

RateExpires(p) ==
    /\ In("push") /\ rate[p].n > 0 /\ rate[p].expires
    /\ rate' = [rate EXCEPT ![p] = [n |-> 0, expires |-> TRUE]]
    /\ UNCHANGED <<env, matching, owner, push, belling>>

EndPush(w) == Go(w, [run[w] EXCEPT !.pc = "schedule"])
Least(m, n) == IF m < n THEN m ELSE n

(* The next batch, or the end *)
NextBatch(w) ==
    /\ \/ Pushing(w, "throttle") /\ push.todo = <<>>
       \/ Pushing(w, "next")
    /\ IF push.rest = <<>>
         THEN EndPush(w) /\ push' = [push EXCEPT !.pc = "ended"]
         ELSE LET n == Least(BatchSize, Len(push.rest))
              IN  /\ push' = [push EXCEPT !.pc = "post", !.attempt = 1,
                                          !.send = SubSeq(push.rest, 1, n),
                                          !.rest = SubSeq(@, n + 1, Len(@))]
                  /\ UNCHANGED run
    /\ UNCHANGED <<env, owner, rate>> /\ PushUnchanged

Sending == ToSet(push.send)
MayRetry == push.attempt <= MaxRetries
Fated(S, f) == [t \in Tokens |-> IF t \in S THEN f ELSE push.fate[t]]

(* No answer, a 5xx or 429, or no tickets at all; after the retries, and    *)
(* after any other status, this batch is buried and the rest given up.      *)
GiveUp(w) == /\ push' = [push EXCEPT !.pc = "ended", !.fate = Fated(Sending, "buried"),
                                     !.gaveUp = push.rest # <<>>]
             /\ EndPush(w)

SendFails(w) ==
    /\ Pushing(w, "post")
    /\ IF MayRetry THEN push' = [push EXCEPT !.attempt = @ + 1] /\ UNCHANGED run ELSE GiveUp(w)
    /\ UNCHANGED <<env, owner, rate>> /\ PushUnchanged

SendRefused(w) ==
    /\ Pushing(w, "post")
    /\ GiveUp(w)
    /\ UNCHANGED <<env, owner, rate>> /\ PushUnchanged

(* An answer for each message sent: a ticket, a token that is not           *)
(* registered, an error that may pass or one that won't; the last ones may  *)
(* have none, and are forgotten.                                            *)
Answers == {"ok", "invalid", "transient", "permanent", "none"}
Given(f, a) == {t \in DOMAIN f : f[t] = a}

Retried_All(f) == DOMAIN f                                                 \* mutant
Retried(f) == IF MayRetry THEN Given(f, "transient") ELSE {}
Buried(f) == Given(f, "permanent") \cup (Given(f, "transient") \ Retried(f))

Tickets(w, f) ==
    /\ Pushing(w, "post")
    /\ \A i, k \in DOMAIN push.send : i < k /\ f[push.send[i]] = "none" => f[push.send[k]] = "none"
    /\ f[push.send[1]] # "none"
    /\ push' = [push EXCEPT !.pc = "prune", !.invalid = Given(f, "invalid"), !.ids = Given(f, "ok"),
                            !.retry = Retried(f), !.perm = Buried(f),
                            !.fate = [t \in Tokens |-> IF t \in Given(f, "invalid") THEN "pruned"
                                                       ELSE IF t \in Given(f, "none") THEN "unanswered"
                                                       ELSE @[t]],
                            !.again = @ \/ \E t \in Sending : push.fate[t] # "none"]
    /\ UNCHANGED <<env, run, owner, rate>> /\ PushUnchanged

(* deletePushTokensBestEffort, whoever's the tokens are by now *)
Prune(w) ==
    /\ Pushing(w, "prune")
    /\ \/ owner' = [t \in Tokens |-> IF t \in push.invalid THEN Nil ELSE owner[t]] /\ UNCHANGED env
       \/ push.invalid # {} /\ Failing /\ UNCHANGED owner
    /\ push' = [push EXCEPT !.pc = IF push.ids = {} THEN "bury" ELSE "receipts", !.invalid = {}]
    /\ UNCHANGED <<run, rate>> /\ PushUnchanged

Permanent(g) == Buried(g)

(* A receipt that is missing counts as good. *)
Receipts(w, g) ==
    /\ Pushing(w, "receipts")
    /\ push' = [push EXCEPT !.pc = "prune", !.ids = {}, !.invalid = Given(g, "invalid"),
                            !.retry = @ \cup Retried(g), !.perm = @ \cup Permanent(g),
                            !.fate = [t \in Tokens |->
                                         IF t \in Given(g, "invalid") THEN "pruned"
                                         ELSE IF t \in Given(g, "ok") \cup Given(g, "none")
                                                THEN "delivered" ELSE @[t]]]
    /\ UNCHANGED <<env, run, owner, rate>> /\ PushUnchanged

ReceiptsFail(w) ==
    /\ Pushing(w, "receipts")
    /\ push' = [push EXCEPT !.pc = "bury", !.fate = Fated(push.ids, "delivered"), !.ids = {}]
    /\ UNCHANGED <<env, run, owner, rate>> /\ PushUnchanged

Bury(w) ==
    /\ Pushing(w, "bury")
    /\ push' = IF push.retry # {}
                 THEN [push EXCEPT !.pc = "post", !.attempt = @ + 1, !.send = SetToSeq(push.retry),
                                   !.retry = {}, !.perm = {}, !.fate = Fated(push.perm, "buried")]
                 ELSE [push EXCEPT !.pc = "next", !.perm = {}, !.fate = Fated(push.perm, "buried")]
    /\ UNCHANGED <<env, run, owner, rate>> /\ PushUnchanged

----------------------------------------------------------------------------
(* The list of notifications: on the server ... *)

BellUnchanged == UNCHANGED <<matching, pushing>>
Rings(b) == /\ In("bell") /\ bell[b] = "none"
            /\ bell' = [bell EXCEPT ![b] = "unread"]
            /\ UNCHANGED <<env, told, shown, error, get, post>> /\ BellUnchanged

ListRead(c) ==
    /\ get[c].pc = "sent"
    /\ get' = [get EXCEPT ![c] = [@ EXCEPT !.pc = "answered", !.read = {b \in Bells : bell[b] = "read"},
                                           !.id = {b \in Bells : bell[b] # "none"}]]
    /\ UNCHANGED <<env, bell, told, shown, error, post>> /\ BellUnchanged

(* POST /notifications/:id/read *)
ReadFind(c) ==
    /\ post[c].pc = "sent" /\ post[c].id # Nil
    /\ post' = [post EXCEPT ![c].pc = IF bell[post[c].id] = "read" THEN "ok" ELSE "found"]
    /\ UNCHANGED <<env, bell, told, shown, error, get>> /\ BellUnchanged

ReadWrite(c) ==
    /\ post[c].pc = "found"
    /\ bell' = [bell EXCEPT ![post[c].id] = "read"]
    /\ post' = [post EXCEPT ![c] = [@ EXCEPT !.pc = "written", !.read = {post[c].id}]]
    /\ UNCHANGED <<env, told, shown, error, get>> /\ BellUnchanged

(* POST /notifications/read-all *)
ReadAll(c) ==
    LET unread == {b \in Bells : bell[b] = "unread"}
    IN  /\ post[c].pc = "sent" /\ post[c].id = Nil
        /\ bell' = [b \in Bells |-> IF b \in unread THEN "read" ELSE bell[b]]
        /\ post' = [post EXCEPT ![c] = [@ EXCEPT !.pc = IF unread = {} THEN "ok" ELSE "written",
                                                 !.read = unread]]
        /\ UNCHANGED <<env, told, shown, error, get>> /\ BellUnchanged

Told(c) == post[c].read

(* enqueueWebhookEvent *)
TellRead(c) ==
    /\ post[c].pc = "written"
    /\ \/ told' = told \cup Told(c) /\ post' = [post EXCEPT ![c].pc = "ok"] /\ UNCHANGED env
       \/ Failing /\ post' = [post EXCEPT ![c].pc = "error"] /\ UNCHANGED told
    /\ UNCHANGED <<bell, shown, error, get>> /\ BellUnchanged

----------------------------------------------------------------------------
(* ... and in the app (useNotifications): the answers are applied in the    *)
(* order in which they arrive.                                              *)

Idling(calls, c) == calls[c].pc = "idle"
Gets(c) == /\ Idling(get, c) /\ get' = [get EXCEPT ![c] = [NoPost EXCEPT !.pc = "sent"]]
           /\ error' = FALSE

FetchList(c) ==
    /\ In("bell") /\ Gets(c)
    /\ UNCHANGED <<env, bell, told, shown, post>> /\ BellUnchanged

ListShown(c) ==
    /\ get[c].pc = "answered"
    /\ shown' = [b \in Bells |-> IF b \in get[c].read THEN "read"
                                 ELSE IF b \in get[c].id THEN "unread" ELSE "none"]
    /\ get' = [get EXCEPT ![c] = NoPost]
    /\ UNCHANGED <<env, bell, told, error, post>> /\ BellUnchanged

ListFails(c) ==
    /\ get[c].pc \in {"sent", "answered"} /\ Failing
    /\ error' = TRUE
    /\ get' = [get EXCEPT ![c] = NoPost]
    /\ UNCHANGED <<bell, told, shown, post>> /\ BellUnchanged

(* Optimistic: the notifications in question are shown as read at once. *)
Marks(c, id, which) ==
    /\ Idling(post, c)
    /\ shown' = [b \in Bells |-> IF b \in which THEN "read" ELSE shown[b]]
    /\ post' = [post EXCEPT ![c] = [NoPost EXCEPT !.pc = "sent", !.id = id, !.heard = TRUE]]
    /\ UNCHANGED <<env, bell, told, error, get>> /\ BellUnchanged

ShownUnread == {b \in Bells : shown[b] = "unread"}

MarkRead(c, b) == b \in ShownUnread /\ Marks(c, b, {b})
MarkAllRead(c) == ShownUnread # {} /\ Marks(c, Nil, ShownUnread)

Acked(c) ==
    /\ post[c].pc \in {"ok", "error"} /\ (post[c].pc = "ok" \/ ~post[c].heard)
    /\ post' = [post EXCEPT ![c] = NoPost]
    /\ UNCHANGED <<env, bell, told, shown, error, get>> /\ BellUnchanged

Reverts_Not(c) == UNCHANGED <<get, error>>                                 \* mutant
Reverts(c) == Gets(c)

(* An error, or no answer in time: the list is fetched again. *)
MarkFails(c) ==
    /\ post[c].pc # "idle" /\ post[c].heard
    /\ IF post[c].pc = "error" THEN UNCHANGED env ELSE Failing
    /\ post' = [post EXCEPT ![c].heard = FALSE]
    /\ \E g \in Calls : Reverts(g)
    /\ UNCHANGED <<bell, told, shown>> /\ BellUnchanged

(* A request that never reached the server *)
Lost(c) ==
    /\ post[c].pc = "sent" /\ ~post[c].heard
    /\ post' = [post EXCEPT ![c] = NoPost]
    /\ UNCHANGED <<env, bell, told, shown, error, get>> /\ BellUnchanged

----------------------------------------------------------------------------

NoticesNext ==
    \/ Tick
    \/ \E a \in scene.ads : HideAd(a)
    \/ \E p \in scene.providers : \/ Block(p) \/ RateExpires(p)
                            \/ \E b \in Bodies : PutPrefs(p, b)
                            \/ \E t \in Tokens : PutToken(t, p)
    \/ \E w \in Workers :
          \/ \E a \in scene.ads : Announce(w, a)
          \/ \E S \in SUBSET scene.providers : Candidates(w, S)
          \/ DedupRead(w) \/ PrefsRead(w) \/ InstantCaps(w) \/ DigestCaps(w)
          \/ Commit(w) \/ Conflicts(w) \/ StartPush(w) \/ Schedule(w) \/ RunFails(w)
          \/ Throttle(w) \/ SetExpiry(w) \/ NextBatch(w) \/ SendFails(w) \/ SendRefused(w)
          \/ \E f \in [Sending -> Answers] : Tickets(w, f)
          \/ Prune(w) \/ ReceiptsFail(w) \/ Bury(w)
          \/ \E g \in [push.ids -> Answers] : Receipts(w, g)
    \/ \E b \in Bells : Rings(b)
    \/ \E c \in Calls : \/ ListRead(c) \/ ReadFind(c) \/ ReadWrite(c) \/ ReadAll(c) \/ TellRead(c)
                        \/ FetchList(c) \/ ListShown(c) \/ ListFails(c)
                        \/ MarkAllRead(c) \/ \E b \in Bells : MarkRead(c, b)
                        \/ Acked(c) \/ MarkFails(c) \/ Lost(c)

NoticesSpec == NoticesInit /\ [][NoticesNext]_noticesVars

----------------------------------------------------------------------------
(* Properties *)

(* However often a job is announced, by whichever workers at once, each     *)
(* provider is notified of it at most once, and exactly when the row that   *)
(* keeps the next announcement from doing it again says so.                 *)
NotifiedOnce ==
    \A a \in Ads, p \in Providers :
        Len(notes[a][p]) = IF match[a][p].how = "instant" THEN 1 ELSE 0

(* The notifications of a provider within a window, and the matches kept    *)
(* for his digest, exceed the cap by no more than the announcements that    *)
(* were under way together, although each counts first and inserts later.   *)
WindowKept ==
    \A p \in Providers :
        /\ Noted(p, now) <= WindowMax + Cardinality(Workers) - 1
        /\ Matched(p, {"digest"}, now) <= WindowMax + Cardinality(Workers) - 1

(* Whatever Expo answers in whatever attempt, a message whose fate is known *)
(* is not sent again, and at the end of a send each message of a batch that *)
(* was begun was delivered, buried, throttled, found to have no device or   *)
(* left without an answer; none is skipped unless the send was given up.    *)
PushAccounted ==
    /\ ~push.again
    /\ push.pc = "ended" =>
         \A w \in Workers : \A t \in Tokens :
            run[w].pc = "schedule" /\ run[w].to[t] \in run[w].instant =>
               push.fate[t] # "none" \/ (push.gaveUp /\ t \in ToSet(push.rest))

(* A notification shown as read is read on the server, or a request that    *)
(* will tell is under way, or the error of the last one is shown; and who   *)
(* listens to the webhooks has been told of each that is read, unless       *)
(* telling failed.                                                          *)
BellAgrees ==
    /\ \A b \in Bells : shown[b] = "read" => \/ bell[b] = "read" \/ error
                                             \/ \E c \in Calls : get[c].pc # "idle" \/ post[c].heard
    /\ \A b \in Bells : bell[b] = "read" => \/ b \in told \/ failures > 0
                                            \/ \E c \in Calls : b \in post[c].read
=============================================================================
