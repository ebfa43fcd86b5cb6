----------------------------- MODULE Messaging -----------------------------
(***************************************************************************)
(* Messages on jobs (src/server.ts): sending with moderation               *)
(* (services/jobMessageSendModeration.ts), the restrictions that repeated  *)
(* violations bring (safety/policy.ts), stored files, blocks, read states  *)
(* and the unread counts of the inbox.                                     *)
(*                                                                         *)
(* One consumer owns all jobs, "provider" has bid on each of them, and an  *)
(* admin may do everything.  A text is "plain", "same" (one text of 20     *)
(* characters or more, sent again), "contact" (contact data, or the name   *)
(* of a chat app) or "scam" (another banned keyword, as of a payment).     *)
(* Risk scores only add up and are left out.  The steps of administration  *)
(* are in Trust, which composes.                                           *)
(***************************************************************************)
EXTENDS Integers, FiniteSets, SequencesExt

CONSTANTS Requests,    \* requests in flight at once
          Jobs,
          Keys,        \* names of stored objects
          Steps,       \* Steps[kind]: pairs <<violations, length of the restriction>>
          Window,      \* how long a message or a report counts, and a text is "the same"
          JobWindow,   \* how long a spam signal of jobs counts
          HideAt, RestrictAt, Day, \* same texts that hide, that restrict; and for how long
          MaxMessages, MaxEvents, MaxNow, MaxFailures, \* bounds
          Mixes,       \* bound: sets of <<kind, user>>, what is requested in one behaviour, with
                       \* <<"on", j>> for the jobs concerned, <<"tick", None>> if time passes,
                       \* <<"fault", None>> if steps fail, <<"serial", None>> if no two overlap
          None

Users == {"consumer", "provider", "admin"}
Offences == {"message", "report", "job"}
OffPlatform == {"contact", "scam"}
Texts == {"plain", "same"} \cup OffPlatform
Kinds == Texts \cup {"file", "report", "upload", "read", "block", "job", "ai", "admin"}

ASSUME MessagingAssumption ==
    /\ {Window, JobWindow, HideAt, RestrictAt, Day} \subseteq Nat \ {0}
    \* 30 minutes and more, against a Window of 10 (but a JobWindow of 60)
    /\ \A k \in Offences : Steps[k] \subseteq (Nat \ {0}) \X {n \in Nat : n >= Window}
    /\ Day >= Window
    /\ {MaxMessages, MaxEvents, MaxNow, MaxFailures} \subseteq Nat
    /\ Mixes \subseteq SUBSET ((Kinds \X Users) \cup ({"tick", "fault", "serial"} \X {None})
                          \cup ({"on"} \X Jobs))
    /\ None \notin Jobs \cup Keys

VARIABLES
    job,       \* job[j]: is it OPEN, to whom is it awarded, is it hidden
    exchange,  \* exchange[j]: the newest request to exchange contact data
    suspended, blocks,
    now,       \* the clock
    until,     \* until[u]: restrictedUntil
    events,    \* events[u][kind]: times of u's security events
    msg,       \* committed rows of Message, oldest first
    read,      \* read[u][j]: lastReadAt, 0 without a row
    store,     \* objects in the file storage
    attached,  \* files of rows of JobAttachment and ProviderVerificationAttachment
    req,       \* req[r]: where request r is and what it carries
    failures, mix,
    pardoned,  \* history: users whose last restriction an admin lifted or a late write cut
               \* short, or whom a failure spared
    there,     \* history: messages that were there when u looked for the latest to mark read
    emptyAt,   \* history: the latest time at which an empty thread was marked read
    lost       \* history: objects whose request died before it cleaned up

place == <<job, exchange, blocks>>
offences == <<until, events, pardoned>>
thread == <<msg, read, there, emptyAt>>
files == <<store, attached, lost>>
general == <<suspended, now, mix>>
messagingVars == <<place, offences, thread, files, general, req, failures>>

Idle == [pc |-> "idle", op |-> "", user |-> "admin", job |-> None, text |-> "plain", file |-> None,
         open |-> TRUE, n |-> 0, at |-> 0, shadow |-> FALSE, unscored |-> FALSE, seen |-> {}]

MessagingInit ==
    /\ mix \in Mixes
    /\ job = [j \in Jobs |-> [open |-> TRUE, to |-> None, hidden |-> FALSE]]
    /\ exchange = [j \in Jobs |-> "none"]
    /\ suspended = {} /\ blocks = {} /\ now = 1
    /\ until = [u \in Users |-> 0]
    /\ events = [u \in Users |-> [k \in Offences |-> <<>>]]
    /\ msg = <<>>
    /\ read = [u \in Users |-> [j \in Jobs |-> 0]]
    /\ store = {} /\ attached = {}
    /\ req = [r \in Requests |-> Idle]
    /\ failures = 0
    /\ pardoned = {}
    /\ there = [u \in Users |-> {}] /\ emptyAt = [j \in Jobs |-> 0] /\ lost = {}

Asked(kind) == \E u \in Users \cup {None} : <<kind, u>> \in mix
May(kind, u) == <<kind, u>> \in mix
On(j) == <<"on", j>> \in mix
Breaks == Asked("fault") /\ failures < MaxFailures /\ failures' = failures + 1
At(r, pc) == req[r].pc = pc
Free(r) == At(r, "idle") /\ (Asked("serial") => \A q \in Requests : At(q, "idle"))
Become(r, s) == req' = [req EXCEPT ![r] = s]
Goto(r, pc) == Become(r, [req[r] EXCEPT !.pc = pc])
End(r) == Become(r, Idle)
GoOnIf(r, cond, pc) == IF cond THEN Goto(r, pc) ELSE End(r)

Admin(u) == u = "admin"
Authorised(u) == u \notin suspended \/ Admin(u)
Restricted(u) == until[u] > now

(* What every handler of a thread asks of the job; the provider has a bid. *)
ThreadOpen(u, j) == /\ Admin(u) \/ (~job[j].hidden /\ "consumer" \notin suspended)
                    /\ u = "provider" => job[j].to \in {None, "provider"}

----------------------------------------------------------------------------
(* Surroundings: the clock, the job, its contact exchange, blocks *)

Tick == /\ Asked("tick") /\ now < MaxNow
        /\ now' = now + 1
        /\ UNCHANGED <<place, offences, thread, files, suspended, mix, req, failures>>

Sharing == \E t \in OffPlatform : Asked(t)

(* Award to the provider or to another one, or cancellation *)
JobCloses(j) ==
    /\ Sharing /\ On(j)
    /\ job[j].open
    /\ \E to \in {None, "provider", "rival"} :
          job' = [job EXCEPT ![j] = [open |-> FALSE, to |-> to, hidden |-> @.hidden]]
    /\ UNCHANGED <<exchange, blocks, offences, thread, files, general, req, failures>>

ExchangeMoves(j) ==
    /\ Sharing
    /\ job[j].to # None
    /\ exchange' = [exchange EXCEPT ![j] = CASE @ = "none" -> "PENDING"
                                             [] @ = "PENDING" -> "APPROVED"
                                             [] OTHER -> @]
    /\ exchange' # exchange
    /\ UNCHANGED <<job, blocks, offences, thread, files, general, req, failures>>

Block(u, v) ==
    /\ May("block", u) /\ u # v /\ ~Admin(v) /\ Authorised(u)
    /\ blocks' = blocks \cup {<<u, v>>}
    /\ UNCHANGED <<job, exchange, offences, thread, files, general, req, failures>>

Unblock(u, v) ==
    /\ May("block", u) /\ Authorised(u)
    /\ blocks' = blocks \ {<<u, v>>}
    /\ UNCHANGED <<job, exchange, offences, thread, files, general, req, failures>>

BlockedBetween(u, v) == <<u, v>> \in blocks \/ <<v, u>> \in blocks

----------------------------------------------------------------------------
(* POST /jobs/:jobId/messages *)

Sending == {r \in Requests : req[r].op = "send"}
Offending == {r \in Requests : (req[r].op = "report" \/ req[r].text \in OffPlatform)
                                 /\ req[r].pc \notin {"count", "restrict"}}

(* The caller is loaded once, by authMiddleware. *)
MaySend(u) == Authorised(u) /\ (~Restricted(u) \/ Admin(u))

(* makeUploadBasename *)
Fresh(file) == file \notin store \cup lost /\ \A q \in Requests : req[q].file # file

SendStart(r, u, j, text, file) ==
    /\ Free(r) /\ May(text, u) /\ On(j) /\ MaySend(u)
    /\ file # None => May("file", u) /\ Fresh(file)
    /\ Len(msg) + Cardinality(Sending) < MaxMessages
    /\ text \in OffPlatform => Len(events[u]["message"]) + Cardinality(Offending) < MaxEvents
    /\ Become(r, [Idle EXCEPT !.pc = "job", !.op = "send", !.user = u, !.job = j, !.text = text,
                              !.file = file])
    /\ UNCHANGED <<place, offences, thread, files, general, failures>>

SendJob(r) ==
    LET u == req[r].user
        j == req[r].job
    IN  /\ At(r, "job")
        /\ IF ThreadOpen(u, j)
             THEN Become(r, [req[r] EXCEPT !.pc = IF u = "consumer" THEN "score" ELSE "block",
                                           !.open = job[j].open])
             ELSE End(r)
        /\ UNCHANGED <<place, offences, thread, files, general, failures>>

SendBlocked(r) ==
    /\ At(r, "block")
    /\ GoOnIf(r, ~BlockedBetween(req[r].user, "consumer"), "score")
    /\ UNCHANGED <<place, offences, thread, files, general, failures>>

(* Messages of the same text by the same sender, lately *)
SameCount(r) ==
    Cardinality({i \in DOMAIN msg : /\ msg[i].by = req[r].user /\ msg[i].job = req[r].job
                                    /\ msg[i].text = req[r].text /\ req[r].text # "plain"
                                    /\ msg[i].at > now - Window})

(* moderateJobMessageSend, up to its first write *)
Score(r) ==
    LET n == SameCount(r)
    IN  /\ At(r, "score") /\ req[r].op = "send"
        /\ Become(r, IF Admin(req[r].user) THEN [req[r] EXCEPT !.pc = "upload"]
                     ELSE IF req[r].text \in OffPlatform THEN [req[r] EXCEPT !.pc = "gate", !.n = n]
                     ELSE IF n >= RestrictAt THEN [req[r] EXCEPT !.pc = "punish"]
                     ELSE [req[r] EXCEPT !.pc = "upload", !.shadow = n >= HideAt])
        /\ UNCHANGED <<place, offences, thread, files, general, failures>>

(* shouldBypassOffPlatformContactBlock, after the read of the exchange: of  *)
(* "contact" and "scam" alike                                              *)
MayShare_Bidder(r, approved) == req[r].user = "provider" \/ ~req[r].open \* mutant
MayShare(r, approved) == ~req[r].open \/ approved

Gate(r, approved) ==
    /\ At(r, "gate")
    /\ Goto(r, IF ~MayShare(r, approved) THEN "log"
               ELSE IF req[r].n >= RestrictAt THEN "punish" ELSE "upload")
    /\ UNCHANGED <<place, offences, thread, files, general>>

GateRead(r) == Gate(r, exchange[req[r].job] = "APPROVED") /\ UNCHANGED failures

(* An exchange that cannot be read is not approved. *)
GateFails(r) == Gate(r, FALSE) /\ Breaks

(* restrictedUntil is written as it is, whatever stood there. *)
Sentence(u, end) == until' = [until EXCEPT ![u] = end]

Punish(r) ==
    /\ At(r, "punish")
    /\ Sentence(req[r].user, now + Day)
    /\ End(r)
    /\ UNCHANGED <<place, events, pardoned, thread, files, suspended, now, mix, failures>>

(* A failure of scoring is ignored: the message is sent. *)
ScoreFails(r) ==
    /\ req[r].op = "send" /\ req[r].pc \in {"score", "punish", "log"}
    /\ Breaks
    /\ Become(r, [req[r] EXCEPT !.pc = "upload", !.unscored = TRUE])
    /\ UNCHANGED <<place, offences, thread, files, general>>

----------------------------------------------------------------------------
(* Violations: a security event, a count, a restriction *)

Kind(r) == IF req[r].op = "send" THEN "message" ELSE req[r].op

(* POST /reports: the report is created. *)
Report(r, u) ==
    /\ Free(r) /\ May("report", u) /\ Authorised(u)
    /\ Len(events[u]["report"]) + Cardinality(Offending) < MaxEvents
    /\ Become(r, [Idle EXCEPT !.pc = "log", !.op = "report", !.user = u])
    /\ UNCHANGED <<place, offences, thread, files, general, failures>>

LogOffence(r) ==
    /\ At(r, "log")
    /\ events' = [events EXCEPT ![req[r].user][Kind(r)] = Append(@, now)]
    /\ Goto(r, "count")
    /\ UNCHANGED <<place, until, pardoned, thread, files, general, failures>>

(* logSecurityEvent swallows its errors. *)
LogLost(r) ==
    /\ At(r, "log")
    /\ Breaks
    /\ Goto(r, "count")
    /\ UNCHANGED <<place, offences, thread, files, general>>

WindowOf(k) == IF k = "job" THEN JobWindow ELSE Window
Recent(u, k) == Cardinality({i \in DOMAIN events[u][k] : events[u][k][i] > now - WindowOf(k)})

(* computeEscalatingRestrictionMinutes: the last step that is reached *)
Reached_Above(k, n) == {s \in Steps[k] : n > s[1]}                    \* mutant
Reached(k, n) == {s \in Steps[k] : n >= s[1]}
Length(k, n) == (CHOOSE s \in Reached(k, n) : \A t \in Reached(k, n) : t[1] <= s[1])[2]

CountOffences(r) ==
    LET u == req[r].user
        n == Recent(u, Kind(r))
    IN  /\ At(r, "count")
        /\ IF Reached(Kind(r), n) # {} /\ ~Admin(u)
             THEN Become(r, [req[r] EXCEPT !.pc = "restrict", !.n = now + Length(Kind(r), n)])
             ELSE End(r)
        /\ UNCHANGED <<place, offences, thread, files, general, failures>>

(* The end computed at the count, even if a longer restriction was written  *)
(* meanwhile; it is long enough if it outlasts the messages and reports     *)
(* counted by now.                                                          *)
Impose(u, end) ==
    /\ Sentence(u, end)
    /\ pardoned' = IF end >= now + Window THEN pardoned \ {u}
                   ELSE IF end < until[u] THEN pardoned \cup {u} ELSE pardoned

RestrictUser(r) ==
    /\ At(r, "restrict")
    /\ Impose(req[r].user, req[r].n)
    /\ End(r)
    /\ UNCHANGED <<place, events, thread, files, suspended, now, mix, failures>>

----------------------------------------------------------------------------
(* Storing the file and the message *)

Upload(r, u, file) ==
    /\ Free(r) /\ May("upload", u) /\ Authorised(u) /\ Fresh(file)
    /\ Become(r, [Idle EXCEPT !.pc = "upload", !.op = "upload", !.user = u, !.file = file])
    /\ UNCHANGED <<place, offences, thread, files, general, failures>>

JobUpload(r, file) == Upload(r, "consumer", file)
VerificationUpload(r, file) == Upload(r, "provider", file)

PutObject(r) ==
    /\ At(r, "upload")
    /\ store' = IF req[r].file = None THEN store ELSE store \cup {req[r].file}
    /\ Goto(r, "begin")
    /\ UNCHANGED <<place, offences, thread, attached, lost, general, failures>>

(* createdAt is the time of the insert, ... *)
BeginInsert(r) ==
    /\ At(r, "begin")
    /\ Become(r, [req[r] EXCEPT !.pc = "commit", !.at = now])
    /\ UNCHANGED <<place, offences, thread, files, general, failures>>

(* ... which others see later.  "late": a later message or mark was there. *)
CommitInsert(r) ==
    LET q == req[r]
    IN  /\ At(r, "commit") /\ q.op = "send"
        /\ msg' = Append(msg, [by |-> q.user, job |-> q.job, text |-> q.text, at |-> q.at,
                               hidden |-> q.shadow, file |-> q.file, unscored |-> q.unscored,
                               late |-> \/ \E i \in DOMAIN msg : msg[i].job = q.job /\ msg[i].at >= q.at
                                        \/ emptyAt[q.job] >= q.at])
        /\ End(r)
        /\ UNCHANGED <<place, offences, read, there, emptyAt, files, general, failures>>

CommitAttachment(r) ==
    /\ At(r, "commit") /\ req[r].op = "upload"
    /\ attached' = attached \cup {req[r].file}
    /\ End(r)
    /\ UNCHANGED <<place, offences, thread, store, lost, general, failures>>

(* The transaction fails, or another upload's insert: its object is deleted. *)
AfterFailure_Keeps(r) == End(r)                                       \* mutant
AfterFailure(r) == GoOnIf(r, req[r].file # None, "rollback")

InsertFails(r) ==
    /\ req[r].pc \in {"begin", "commit"}
    /\ Breaks
    /\ AfterFailure(r)
    /\ UNCHANGED <<place, offences, thread, files, general>>

Rollback(r) ==
    /\ At(r, "rollback")
    /\ store' = store \ {req[r].file}
    /\ End(r)
    /\ UNCHANGED <<place, offences, thread, attached, lost, general, failures>>

----------------------------------------------------------------------------
(* Reading *)

Visible(u, i) == ~msg[i].hidden \/ msg[i].by = u \/ Admin(u)
Shown(u, j) == {i \in DOMAIN msg : msg[i].job = j /\ Visible(u, i)}

MarkReadStart(r, u, j) ==
    /\ Free(r) /\ May("read", u) /\ On(j) /\ Authorised(u) /\ ThreadOpen(u, j)
    /\ Become(r, [Idle EXCEPT !.pc = "latest", !.op = "read", !.user = u, !.job = j])
    /\ UNCHANGED <<place, offences, thread, files, general, failures>>

(* The latest visible createdAt, or the clock *)
ReadAt_Now(u, j) == now                                               \* mutant
ReadAt(u, j) == IF Shown(u, j) = {} THEN now ELSE Max({msg[i].at : i \in Shown(u, j)})

LatestRead(r) ==
    LET u == req[r].user
        j == req[r].job
    IN  /\ At(r, "latest")
        /\ Become(r, [req[r] EXCEPT !.pc = "mark", !.at = ReadAt(u, j), !.seen = Shown(u, j)])
        /\ emptyAt' = IF Shown(u, j) = {} THEN [emptyAt EXCEPT ![j] = now] ELSE emptyAt
        /\ UNCHANGED <<place, offences, msg, read, there, files, general, failures>>

(* Written as it is, even if an earlier answer comes last *)
MarkRead(r) ==
    /\ At(r, "mark")
    /\ read' = [read EXCEPT ![req[r].user][req[r].job] = req[r].at]
    /\ there' = [there EXCEPT ![req[r].user] = @ \cup req[r].seen]
    /\ End(r)
    /\ UNCHANGED <<place, offences, msg, emptyAt, files, general, failures>>

(* GET .../unread-count *)
After(u, j, t) == {i \in Shown(u, j) : msg[i].by # u /\ msg[i].at > t}
Unread(u, j) == After(u, j, read[u][j])

(* GET /me/inbox/unread-total: only messages after the earliest read state *)
(* are looked at.                                                          *)
MyThreads(u) == {j \in Jobs : Shown(u, j) # {}}
ReadStates(u) == {read[u][j] : j \in {k \in MyThreads(u) : read[u][k] # 0}}
Since(u) == IF ReadStates(u) = {} THEN 0 ELSE Min(ReadStates(u))
CountedSince(u, threads, t) == UNION {Unread(u, j) \cap After(u, j, t) : j \in threads}
CountedUnread(u) == CountedSince(u, MyThreads(u), Since(u))
AllUnread(u) == UNION {Unread(u, j) : j \in Jobs}

(* GET /me/inbox/threads: the same for a page, whose earliest read state is *)
(* found from left to right, an unread thread being passed over.            *)
Pages(u) == {p \in [1..Cardinality(MyThreads(u)) -> MyThreads(u)] : IsInjective(p)}
PageSince(u, page) ==
    LET since[k \in 0..Len(page)] ==
          IF k = 0 THEN 0
          ELSE IF since[k - 1] = 0 \/ read[u][page[k]] < since[k - 1] THEN read[u][page[k]]
          ELSE since[k - 1]
    IN  since[Len(page)]
PageUnread(u, page) == CountedSince(u, MyThreads(u), PageSince(u, page))

----------------------------------------------------------------------------
(* The process ends under r, or another await of r rejects. *)
Fail(r) ==
    /\ ~At(r, "idle") /\ req[r].op # "job"
    /\ Breaks
    /\ lost' = IF req[r].pc \in {"begin", "commit", "rollback"} /\ req[r].file # None
                 THEN lost \cup {req[r].file} ELSE lost
    /\ pardoned' = IF req[r].pc \in {"count", "restrict"} THEN pardoned \cup {req[r].user} ELSE pardoned
    /\ End(r)
    /\ UNCHANGED <<place, until, events, thread, store, attached, general>>

MessagingNext ==
    \/ Tick
    \/ \E j \in Jobs : JobCloses(j) \/ ExchangeMoves(j)
    \/ \E u, v \in Users : Block(u, v) \/ Unblock(u, v)
    \/ \E r \in Requests :
          \/ \E u \in Users : \/ Report(r, u)
                              \/ \E j \in Jobs : \/ MarkReadStart(r, u, j)
                                                 \/ \E t \in Texts, f \in Keys \cup {None} :
                                                       SendStart(r, u, j, t, f)
          \/ SendJob(r) \/ SendBlocked(r) \/ Score(r) \/ GateRead(r) \/ GateFails(r) \/ Punish(r) \/ ScoreFails(r)
          \/ LogOffence(r) \/ LogLost(r) \/ CountOffences(r) \/ RestrictUser(r)
          \/ \E f \in Keys : JobUpload(r, f) \/ VerificationUpload(r, f)
          \/ PutObject(r) \/ BeginInsert(r) \/ CommitInsert(r) \/ CommitAttachment(r) \/ InsertFails(r) \/ Rollback(r)
          \/ LatestRead(r) \/ MarkRead(r)
          \/ Fail(r)
=============================================================================
