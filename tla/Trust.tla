------------------------------- MODULE Trust -------------------------------
(***************************************************************************)
(* What guards the users of the marketplace, composed with Messaging: the  *)
(* moderation by admins (src/server.ts: suspend, hide, unhide, restore),   *)
(* the review of risky job posts, and the monthly budget for AI calls      *)
(* (ai/aiGateway.ts).                                                      *)
(***************************************************************************)
EXTENDS Messaging

CONSTANTS Admins,   \* requests of admins in flight
          Posts,    \* rows of Job that are being posted
          PostWindow, \* how long a job counts as lately posted
          SpamAt,   \* jobs lately posted that make one more a spam signal
          Limit,    \* aiMonthlyTokenLimit
          Tokens,   \* estimates of AI calls
          MaxTargets, MaxMonth \* bounds

ASSUME TrustAssumption ==
    /\ {PostWindow, SpamAt, Limit, MaxTargets, MaxMonth} \subseteq Nat
    /\ MaxMonth > 0
    /\ Tokens \subseteq Nat

VARIABLES
    adm,     \* adm[a]: request of an admin
    closed,  \* is the report RESOLVED or DISMISSED
    trail,   \* trail[t]: what the last security event says of t
    spoilt,  \* history: targets whose last two actions overlapped, or whose last one died
    post,    \* post[p]: row of Job
    spared,  \* history: posts whose request died, or that an admin unhid
    ai,      \* the user's aiTokensUsedThisMonth and aiUsageMonthKey
    month,
    call,    \* call[r]: AI call in flight
    spent,   \* history: tokens charged under each month's key
    aiRaced  \* history: months in which calls overlapped, or that turned before a call read

trustVars == <<adm, closed, trail, spoilt, post, spared, ai, month, call, spent, aiRaced>>
moderation == <<adm, closed, trail, spoilt>>
posting == <<post, spared>>
budget == <<ai, month, call, spent, aiRaced>>
vars == <<messagingVars, trustVars>>

Targets == ({"user"} \X {"consumer", "provider"}) \cup ({"job"} \X Jobs)
             \cup ({"message"} \X (1..MaxMessages)) \cup {<<"report", 1>>}
NoAdmin == [pc |-> "idle", target |-> <<"user", "provider">>, on |-> FALSE]
NoCall == [pc |-> "idle", key |-> 0, tokens |-> 0, used |-> 0]
NoPost == [there |-> FALSE, risk |-> "low", hidden |-> FALSE, announced |-> FALSE, at |-> 0]
Months == 1..MaxMonth

Init == /\ MessagingInit
        /\ adm = [a \in Admins |-> NoAdmin]
        /\ closed = FALSE
        /\ trail = [t \in Targets |-> "none"]
        /\ spoilt = {}
        /\ post = [p \in Posts |-> NoPost]
        /\ spared = {}
        /\ ai = [used |-> 0, key |-> 0]
        /\ month = 1
        /\ call = [r \in Requests |-> NoCall]
        /\ spent = [m \in Months |-> 0]
        /\ aiRaced = {}

----------------------------------------------------------------------------
(* Moderation by admins *)

Exists(t) == /\ t[1] = "message" => t[2] \in DOMAIN msg
             /\ t[1] = "job" => On(t[2])

Touched == {t \in Targets : trail[t] # "none"} \cup spoilt
              \cup {adm[a].target : a \in {b \in Admins : adm[b].pc # "idle"}}

AdminStart(a, t, on) ==
    /\ adm[a].pc = "idle" /\ May("admin", "admin")
    /\ Exists(t) /\ Cardinality(Touched \cup {t}) <= MaxTargets
    /\ adm' = [adm EXCEPT ![a] = [pc |-> "write", target |-> t, on |-> on]]
    /\ UNCHANGED <<messagingVars, closed, trail, spoilt, posting, budget>>

(* Only unsuspend looks at what it is about to change. *)
Suspend(a, u) == AdminStart(a, <<"user", u>>, TRUE)
Unsuspend(a, u) == u \in suspended /\ AdminStart(a, <<"user", u>>, FALSE)
HideJob(a, j) == AdminStart(a, <<"job", j>>, TRUE)
UnhideJob(a, j) == AdminStart(a, <<"job", j>>, FALSE)
SafetyUnhideJob(a, j) == UnhideJob(a, j)
HideMessage(a, i) == AdminStart(a, <<"message", i>>, TRUE)
UnhideMessage(a, i) == AdminStart(a, <<"message", i>>, FALSE)
SafetyUnhideMessage(a, i) == UnhideMessage(a, i)
HandleReport(a, on) == AdminStart(a, <<"report", 1>>, on)

Logging(t) == {a \in Admins : adm[a].pc = "log" /\ adm[a].target = t}

(* To others, a message that was hidden comes late. *)
Flagged(m, on) == [m EXCEPT !.hidden = on, !.late = m.late \/ ~on]

SetFlag(t, on) ==
    /\ suspended' = IF t[1] # "user" THEN suspended
                    ELSE IF on THEN suspended \cup {t[2]} ELSE suspended \ {t[2]}
    /\ job' = IF t[1] = "job" THEN [job EXCEPT ![t[2]].hidden = on] ELSE job
    /\ msg' = IF t[1] = "message"
                THEN [msg EXCEPT ![t[2]] = Flagged(@, on)] ELSE msg
    /\ closed' = IF t[1] = "report" THEN on ELSE closed

(* One write by id *)
AdminWrite(a) ==
    LET t == adm[a].target
    IN  /\ adm[a].pc = "write"
        /\ SetFlag(t, adm[a].on)
        /\ spoilt' = IF Logging(t) = {} THEN spoilt \ {t} ELSE spoilt \cup {t}
        /\ adm' = [adm EXCEPT ![a].pc = "log"]
        /\ UNCHANGED <<exchange, blocks, offences, read, there, emptyAt, files, now, mix, req,
                       failures, trail, posting, budget>>

Recorded(a) == IF adm[a].on THEN "on" ELSE "off"

AdminLog(a) ==
    /\ adm[a].pc = "log"
    /\ trail' = [trail EXCEPT ![adm[a].target] = Recorded(a)]
    /\ adm' = [adm EXCEPT ![a] = NoAdmin]
    /\ UNCHANGED <<messagingVars, closed, spoilt, posting, budget>>

(* logAdminAction rejects before the event, or the event is swallowed. *)
AdminFails(a) ==
    /\ adm[a].pc # "idle"
    /\ Breaks
    /\ spoilt' = IF adm[a].pc = "log" THEN spoilt \cup {adm[a].target} ELSE spoilt
    /\ adm' = [adm EXCEPT ![a] = NoAdmin]
    /\ UNCHANGED <<place, offences, thread, files, general, req, closed, trail, posting, budget>>

(* POST /admin/safety/users/:userId/restore *)
Restore(u) ==
    /\ May("admin", "admin") \/ Asked("report")
    /\ until[u] > 0
    /\ until' = [until EXCEPT ![u] = 0]
    /\ pardoned' = pardoned \cup {u}
    /\ UNCHANGED <<place, events, thread, files, general, req, failures, moderation, posting, budget>>

----------------------------------------------------------------------------
(* POST /jobs *)

Risks == {"low", "review", "restrict"}
RecentPosts == Cardinality({p \in Posts : post[p].there /\ post[p].at > now - PostWindow})

Posting == {r \in Requests : req[r].op = "job"}

(* The restriction and the jobs lately posted are looked at before the job exists. *)
PostStart(r, p, risk) ==
    /\ At(r, "idle") /\ May("job", "consumer") /\ MaySend("consumer")
    /\ ~post[p].there /\ \A q \in Requests : req[q].job # p
    /\ Len(events["consumer"]["job"]) + Cardinality(Posting) < MaxEvents
    /\ Become(r, [Idle EXCEPT !.pc = "assess", !.op = "job", !.user = "consumer", !.job = p,
                              !.text = risk])
    /\ UNCHANGED <<place, offences, thread, files, general, failures, trustVars>>

PostAssess(r) ==
    /\ At(r, "assess")
    /\ Become(r, [req[r] EXCEPT !.pc = "create", !.n = RecentPosts])
    /\ UNCHANGED <<place, offences, thread, files, general, failures, trustVars>>

Spam(r) == req[r].n >= SpamAt
Review_Restrict(r) == req[r].text = "restrict"                        \* mutant
Review(r) == req[r].text # "low"

AfterLog(r) == IF Review(r) THEN "hide" ELSE "score"

PostCreate(r) ==
    /\ At(r, "create")
    /\ post' = [post EXCEPT ![req[r].job] =
                   [NoPost EXCEPT !.there = TRUE, !.risk = req[r].text, !.at = now]]
    /\ Goto(r, IF Spam(r) THEN "signal" ELSE AfterLog(r))
    /\ UNCHANGED <<place, offences, thread, files, general, failures, moderation, spared, budget>>

PostSignal(r) ==
    /\ At(r, "signal")
    /\ \/ events' = [events EXCEPT !["consumer"]["job"] = Append(@, now)] /\ UNCHANGED failures
       \/ Breaks /\ UNCHANGED events
    /\ Goto(r, AfterLog(r))
    /\ UNCHANGED <<place, until, pardoned, thread, files, general, trustVars>>

PostHide(r) ==
    /\ At(r, "hide")
    /\ post' = [post EXCEPT ![req[r].job].hidden = TRUE]
    /\ Goto(r, "score")
    /\ UNCHANGED <<place, offences, thread, files, general, failures, moderation, spared, budget>>

(* A restriction by the score, or else by the number of spam signals *)
PostScore(r) ==
    /\ At(r, "score") /\ req[r].op = "job"
    /\ IF req[r].text = "restrict"
         THEN Sentence("consumer", now + Day)
         ELSE UNCHANGED until
    /\ Goto(r, IF req[r].text # "restrict" /\ Spam(r) THEN "decide" ELSE "announce")
    /\ UNCHANGED <<place, events, pardoned, thread, files, suspended, now, mix, failures, trustVars>>

PostDecide(r) ==
    LET n == Recent("consumer", "job")
    IN  /\ At(r, "decide")
        /\ \/ /\ Become(r, IF Reached("job", n) = {} THEN [req[r] EXCEPT !.pc = "announce"]
                           ELSE [req[r] EXCEPT !.pc = "impose", !.n = now + Length("job", n)])
              /\ UNCHANGED failures
           \/ Breaks /\ Goto(r, "announce") \* the count fails
        /\ UNCHANGED <<place, offences, thread, files, general, trustVars>>

PostRestrict(r) ==
    /\ At(r, "impose")
    /\ Impose("consumer", req[r].n)
    /\ Goto(r, "announce")
    /\ UNCHANGED <<place, events, thread, files, suspended, now, mix, failures, trustVars>>

(* JOB_MATCH_NOTIFY, unless the job waits for review *)
PostAnnounce(r) ==
    /\ At(r, "announce")
    /\ post' = [post EXCEPT ![req[r].job].announced = ~Review(r)]
    /\ End(r)
    /\ UNCHANGED <<place, offences, thread, files, general, failures, moderation, spared, budget>>

PostFails(r) ==
    /\ req[r].op = "job"
    /\ Breaks
    /\ spared' = spared \cup {req[r].job}
    /\ End(r)
    /\ UNCHANGED <<place, offences, thread, files, general, moderation, post, budget>>

PostUnhide(p) ==
    /\ May("job", "consumer")
    /\ post[p].hidden
    /\ post' = [post EXCEPT ![p].hidden = FALSE]
    /\ spared' = spared \cup {p}
    /\ UNCHANGED <<messagingVars, moderation, budget>>

----------------------------------------------------------------------------
(* The AI budget of a user *)

InCall(r) == call[r].pc \in {"reset", "charge"}
Set(r, c) == call' = [call EXCEPT ![r] = c]

(* The month's key first *)
AiStart(r, n) ==
    /\ call[r].pc = "idle" /\ Asked("ai")
    /\ Set(r, [pc |-> "read", key |-> month, tokens |-> n, used |-> 0])
    /\ UNCHANGED <<messagingVars, moderation, posting, ai, month, spent, aiRaced>>

UsedUnder_Any(k) == ai.used                                           \* mutant
UsedUnder(k) == IF ai.key = k THEN ai.used ELSE 0

Fits(c) == c.used + c.tokens <= Limit

(* The interactive transaction reads and writes outside itself. *)
AiRead(r) ==
    LET c == [call[r] EXCEPT !.used = UsedUnder(call[r].key)]
        others == {q \in Requests \ {r} : InCall(q)}
    IN  /\ call[r].pc = "read"
        /\ Set(r, IF ai.key # c.key THEN [c EXCEPT !.pc = "reset"]
                  ELSE IF Fits(c) THEN [c EXCEPT !.pc = "charge"] ELSE NoCall)
        /\ aiRaced' = IF others = {} /\ c.key = month THEN aiRaced
                      ELSE aiRaced \cup {c.key, month} \cup {call[q].key : q \in others}
        /\ UNCHANGED <<messagingVars, moderation, posting, ai, month, spent>>

AiReset(r) ==
    /\ call[r].pc = "reset"
    /\ ai' = [used |-> 0, key |-> call[r].key]
    /\ Set(r, IF Fits(call[r]) THEN [call[r] EXCEPT !.pc = "charge"] ELSE NoCall)
    /\ UNCHANGED <<messagingVars, moderation, posting, month, spent, aiRaced>>

(* Charged before the provider is asked, whatever it answers *)
AiCharge(r) ==
    LET c == call[r]
    IN  /\ c.pc = "charge"
        /\ spent[c.key] + c.tokens <= 2 * Limit
        /\ ai' = [used |-> c.used + c.tokens, key |-> c.key]
        /\ spent' = [spent EXCEPT ![c.key] = @ + c.tokens]
        /\ Set(r, NoCall)
        /\ UNCHANGED <<messagingVars, moderation, posting, month, aiRaced>>

AiFails(r) ==
    /\ call[r].pc # "idle"
    /\ Breaks
    /\ Set(r, NoCall)
    /\ UNCHANGED <<place, offences, thread, files, general, req, moderation, posting, ai, month,
                   spent, aiRaced>>

MonthTurns ==
    /\ Asked("ai")
    /\ month < MaxMonth
    /\ month' = month + 1
    /\ UNCHANGED <<messagingVars, moderation, posting, ai, call, spent, aiRaced>>

(* resetAiUsageForNewMonth *)
AiMonthlyReset ==
    /\ Asked("ai")
    /\ ai.key # month
    /\ ai' = [used |-> 0, key |-> month]
    /\ UNCHANGED <<messagingVars, moderation, posting, month, call, spent, aiRaced>>

----------------------------------------------------------------------------
TrustNext ==
    \/ \E a \in Admins : \/ \E u \in {"consumer", "provider"} : Suspend(a, u) \/ Unsuspend(a, u)
                         \/ \E j \in Jobs : HideJob(a, j) \/ UnhideJob(a, j) \/ SafetyUnhideJob(a, j)
                         \/ \E i \in 1..MaxMessages : \/ HideMessage(a, i) \/ UnhideMessage(a, i)
                                                      \/ SafetyUnhideMessage(a, i)
                         \/ \E on \in BOOLEAN : HandleReport(a, on)
                         \/ AdminWrite(a) \/ AdminLog(a) \/ AdminFails(a)
    \/ \E u \in Users : Restore(u)
    \/ \E p \in Posts : PostUnhide(p)
    \/ \E r \in Requests :
          \/ \E p \in Posts, k \in Risks : PostStart(r, p, k)
          \/ PostAssess(r) \/ PostCreate(r) \/ PostSignal(r) \/ PostHide(r) \/ PostScore(r) \/ PostDecide(r)
          \/ PostRestrict(r) \/ PostAnnounce(r) \/ PostFails(r)
          \/ \E n \in Tokens : AiStart(r, n)
          \/ AiRead(r) \/ AiReset(r) \/ AiCharge(r) \/ AiFails(r)
    \/ MonthTurns \/ AiMonthlyReset

Next == (MessagingNext /\ UNCHANGED trustVars) \/ TrustNext

Spec == Init /\ [][Next]_vars

----------------------------------------------------------------------------
(* Properties *)

(* The rows, the requests in flight and the histories keep their types. *)
TypeOK ==
    /\ \A j \in Jobs : /\ {job[j].open, job[j].hidden} \subseteq BOOLEAN
                       /\ job[j].to \in {None, "provider", "rival"}
                       /\ job[j].open => job[j].to = None
    /\ exchange \in [Jobs -> {"none", "PENDING", "APPROVED"}]
    /\ suspended \subseteq Users /\ blocks \subseteq Users \X Users
    /\ now \in 1..MaxNow /\ until \in [Users -> Nat]
    /\ \A u \in Users, k \in Offences : /\ Len(events[u][k]) <= MaxEvents
                                        /\ events[u][k] \in Seq(1..MaxNow)
    /\ Len(msg) <= MaxMessages
    /\ \A i \in DOMAIN msg : /\ msg[i].by \in Users /\ msg[i].job \in Jobs /\ msg[i].text \in Texts
                             /\ msg[i].at \in 1..now /\ msg[i].file \in Keys \cup {None}
    /\ read \in [Users -> [Jobs -> 0..MaxNow]] /\ emptyAt \in [Jobs -> 0..MaxNow]
    /\ store \cup lost \cup attached \subseteq Keys
    /\ failures \in 0..MaxFailures /\ pardoned \subseteq Users
    /\ \A r \in Requests : /\ req[r].user \in Users /\ req[r].job \in Jobs \cup Posts \cup {None}
                           /\ req[r].op = "job" => req[r].job \in Posts
                           /\ At(r, "idle") => req[r] = Idle
                           /\ req[r].file \in Keys \cup {None}
                           /\ req[r].file # None => req[r].op \in {"send", "upload"}
    /\ \A a \in Admins : adm[a].target \in Targets /\ adm[a].pc \in {"idle", "write", "log"}
    /\ closed \in BOOLEAN
    /\ trail \in [Targets -> {"none", "on", "off"}] /\ spoilt \subseteq Targets
    /\ \A p \in Posts : post[p].risk \in Risks /\ post[p].at \in 0..now
    /\ spared \subseteq Posts
    /\ ai.used \in Nat /\ ai.key \in 0..MaxMonth /\ spent \in [Months -> Nat]
    /\ aiRaced \subseteq Months

(* A text with contact data or a banned keyword is stored only once the job *)
(* is no longer OPEN or an exchange of contact data was approved, except an *)
(* admin's, or one whose scoring failed.  The status and the approval are   *)
(* read at different times, well before the message is inserted.            *)
ContactGated ==
    \A i \in DOMAIN msg :
        msg[i].text \in OffPlatform /\ ~Admin(msg[i].by) /\ ~msg[i].unscored
            => ~job[msg[i].job].open \/ exchange[msg[i].job] = "APPROVED"

(* "If the message includes scam/payment keywords (e.g. zelle, crypto),     *)
(* this MUST return bypass=false" (services/contactExchangeGate.ts): such a *)
(* text is stored only for an admin, or when its scoring failed.            *)
KeywordsBlocked ==
    \A i \in DOMAIN msg : msg[i].text = "scam" => Admin(msg[i].by) \/ msg[i].unscored

(* Once the violations of the last minutes reach the first step of the      *)
(* escalation and all requests have answered, their author is restricted:   *)
(* two violations at once may not both miss the count.  Not so after an     *)
(* admin's pardon, a failure between event and restriction, or a late write *)
(* of a shorter restriction; nor for an admin.                              *)
Escalates ==
    \A u \in Users \ (pardoned \cup {"admin"}), k \in {"message", "report"} :
        (\E s \in Steps[k] : Recent(u, k) >= s[1]) /\ (\A r \in Requests : req[r].user # u)
            => Restricted(u)

(* A message is counted as read only if it was there when its reader looked *)
(* (messages committed out of the order of their times excepted), and the   *)
(* total and the pages of the inbox count each unread message, in whatever  *)
(* order they go through the threads, once each of these was opened.        *)
ReadExact ==
    \A u \in Users :
        /\ \A i \in DOMAIN msg :
              /\ msg[i].by # u /\ Visible(u, i) /\ ~msg[i].late
              /\ msg[i].at <= read[u][msg[i].job]
              => i \in there[u]
        /\ (\A j \in MyThreads(u) : read[u][j] # 0)
              => /\ CountedUnread(u) = AllUnread(u)
                 /\ \A page \in Pages(u) : PageUnread(u, page) = AllUnread(u)

(* The file of a message or of an attachment is stored, and what is stored  *)
(* belongs to one of them or to a request that still has to insert it or to *)
(* roll back, unless that request died.                                     *)
FilesKept ==
    /\ attached \subseteq store
    /\ \A i \in DOMAIN msg : msg[i].file # None => msg[i].file \in store
    /\ \A f \in store \ lost :
          \/ f \in attached \/ \E i \in DOMAIN msg : msg[i].file = f
          \/ \E r \in Requests : req[r].file = f /\ req[r].pc \in {"begin", "commit", "rollback"}

Flag(t) == CASE t[1] = "user" -> t[2] \in suspended
             [] t[1] = "job" -> job[t[2]].hidden
             [] t[1] = "message" -> msg[t[2]].hidden
             [] t[1] = "report" -> closed

(* What the last event of the audit trail says of a user, a job or a        *)
(* message is how it stands, once the request has answered; and a job post  *)
(* that needs review is hidden once its request has answered, unless an     *)
(* admin unhid it, and is never announced to providers.                     *)
ModerationAccounted ==
    /\ \A t \in Targets \ spoilt :
          trail[t] # "none" /\ Logging(t) = {} => (Flag(t) <=> trail[t] = "on")
    /\ \A p \in Posts :
          post[p].there /\ post[p].risk # "low"
              => /\ ~post[p].announced
                 /\ \/ post[p].hidden \/ p \in spared
                    \/ \E r \in Posting : req[r].job = p

(* A user's AI calls stay within the monthly limit and are all accounted    *)
(* for, also when a call is charged after its month has ended; except in a  *)
(* month in which two calls overlapped, whose absolute writes lose one, or  *)
(* that turned between a call's key and its read, which resets the new one. *)
BudgetKept ==
    \A k \in Months \ aiRaced :
        /\ spent[k] <= Limit
        /\ ai.key = k => ai.used = spent[k]
=============================================================================
