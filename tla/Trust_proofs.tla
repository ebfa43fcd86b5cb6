---------------------------- MODULE Trust_proofs ----------------------------
(***************************************************************************)
(* Theorems about Trust and the Messaging it composes: the monthly budget  *)
(* for AI calls, the gate before contact data, the files of messages and   *)
(* attachments, what the audit trail says of a moderated target, how       *)
(* violations escalate, and the counts of what is unread.                  *)
(***************************************************************************)
EXTENDS Trust, FiniteSetTheorems, SequenceTheorems, TLAPS

----------------------------------------------------------------------------
(* The AI budget *)

Call == [pc : {"idle", "read", "reset", "charge"}, key : Nat, tokens : Nat, used : Nat]

BudgetTypes ==
    /\ ai \in [used : Nat, key : 0..MaxMonth] /\ ai.key <= month
    /\ month \in Months
    /\ call \in [Requests -> Call]
    /\ \A r \in Requests : call[r].pc # "idle" => call[r].key \in 1..month
    /\ spent \in [Months -> Nat]
    /\ aiRaced \subseteq 1..month

(* A call between its read and its charge, in a month without a race, is   *)
(* the only one there, and knows what was spent in that month.             *)
Knows(r) == /\ \A q \in Requests \ {r} : ~InCall(q)
            /\ call[r].used = spent[call[r].key]
            /\ call[r].pc = "reset" => call[r].used = 0
            /\ call[r].pc = "charge" => Fits(call[r])

(* Of the month itself nothing is spent while the counter or a call still  *)
(* belongs to an earlier one, so that the next reset loses nothing.        *)
Unspent == \/ month \in aiRaced
           \/ ai.key = month /\ \A r \in Requests : InCall(r) => call[r].key = month
           \/ spent[month] = 0

BudgetInv == /\ \A r \in Requests : InCall(r) /\ call[r].key \notin aiRaced => Knows(r)
             /\ Unspent
             /\ \A m \in Months : m > month => spent[m] = 0
             /\ BudgetKept

LEMMA NoCallType == NoCall \in Call /\ NoCall.pc = "idle"
BY DEF NoCall, Call

LEMMA InitBudget == Init => BudgetTypes /\ BudgetInv
BY NoCallType, TrustAssumption
   DEF Init, BudgetTypes, BudgetInv, BudgetKept, Unspent, Months, InCall, Call, NoCall

LEMMA BudgetQuiet == BudgetTypes /\ BudgetInv /\ UNCHANGED budget => BudgetTypes' /\ BudgetInv'
BY DEF budget, BudgetTypes, BudgetInv, BudgetKept, Unspent, Knows, InCall, Fits

(* A call that ends, or that starts, concerns no other. *)
LEMMA CallOutside ==
  ASSUME BudgetTypes, BudgetInv, NEW r \in Requests, NEW c \in Call, Set(r, c),
         c.pc \in {"idle", "read"}, c.pc # "idle" => c.key = month,
         UNCHANGED <<ai, month, spent, aiRaced>>
  PROVE  BudgetTypes' /\ BudgetInv'
<1>1. call'[r] = c /\ \A q \in Requests \ {r} : call'[q] = call[q]
  BY DEF Set, BudgetTypes
<1>2. \A q \in Requests : InCall(q)' => InCall(q) /\ q # r /\ call'[q] = call[q]
  BY <1>1 DEF InCall
<1>3. BudgetTypes'
  BY <1>1 DEF BudgetTypes, Set, Months
<1>4. \A q \in Requests : InCall(q)' /\ call'[q].key \notin aiRaced' => Knows(q)'
  BY <1>1, <1>2 DEF BudgetInv, Knows, Fits
<1>5. Unspent'
  BY <1>2 DEF BudgetInv, Unspent
<1> QED
  BY <1>3, <1>4, <1>5 DEF BudgetInv, BudgetKept

LEMMA CallReads ==
  ASSUME BudgetTypes, BudgetInv, NEW r \in Requests, AiRead(r)
  PROVE  BudgetTypes' /\ BudgetInv'
<1> DEFINE others == {q \in Requests \ {r} : InCall(q)}
<1>1. PICK u \in Nat : u = UsedUnder(call[r].key)
  BY DEF BudgetTypes, UsedUnder
<1>2. PICK c \in Call : /\ c = [call[r] EXCEPT !.used = u]
                        /\ c.pc = "read" /\ c.key = call[r].key /\ c.used = u /\ c.key \in 1..month
  <2>1. PICK b \in Call : b = call[r] /\ b.pc = "read" /\ b.key \in 1..month
    BY DEF BudgetTypes, AiRead
  <2> DEFINE c == [b EXCEPT !.used = u]
  <2>2. c \in Call /\ c.pc = b.pc /\ c.key = b.key /\ c.used = u
    BY <1>1 DEF Call
  <2> HIDE DEF c
  <2>3. c = [call[r] EXCEPT !.used = u]
    BY <2>1 DEF c
  <2> QED
    BY <2>1, <2>2, <2>3
<1>3. PICK d \in Call : /\ Set(r, d)
                        /\ d = IF ai.key # c.key THEN [c EXCEPT !.pc = "reset"]
                               ELSE IF Fits(c) THEN [c EXCEPT !.pc = "charge"] ELSE NoCall
  BY <1>1, <1>2, NoCallType DEF AiRead, Call
<1>4. /\ UNCHANGED <<ai, month, spent>>
      /\ aiRaced' = IF others = {} /\ c.key = month THEN aiRaced
                    ELSE aiRaced \cup {c.key, month} \cup {call[q].key : q \in others}
  BY <1>1, <1>2 DEF AiRead
<1>5. /\ d.pc \in {"reset", "charge"} => d.key = c.key /\ d.used = u
      /\ d.pc = "reset" => ai.key # c.key
      /\ d.pc = "charge" => ai.key = c.key /\ Fits(d)
      /\ d.pc \in {"idle", "reset", "charge"}
  BY <1>2, <1>3, NoCallType DEF Call, Fits
<1>6. call'[r] = d /\ \A q \in Requests \ {r} : call'[q] = call[q]
  BY <1>3 DEF Set, BudgetTypes
<1>7. aiRaced \subseteq aiRaced' /\ aiRaced' \subseteq 1..month
  <2>1. \A q \in others : call[q].key \in 1..month
    BY DEF BudgetTypes, InCall
  <2> QED
    BY <1>2, <1>4, <2>1 DEF BudgetTypes, Months
<1>8. BudgetTypes'
  BY <1>2, <1>3, <1>4, <1>5, <1>6, <1>7 DEF BudgetTypes, Set
<1>9. ASSUME NEW q \in Requests, InCall(q)', call'[q].key \notin aiRaced' PROVE Knows(q)'
  <2>1. CASE q = r
    <3>1. others = {} /\ c.key = month /\ month \notin aiRaced
      BY <1>4, <1>5, <1>6, <1>9, <2>1 DEF InCall
    <3>2. \A p \in Requests \ {r} : ~InCall(p)'
      BY <1>6, <3>1 DEF InCall
    <3>3. u = spent[month]
      BY <1>1, <1>2, <3>1 DEF UsedUnder, BudgetInv, Unspent, BudgetKept, BudgetTypes
    <3>4. d.pc = "reset" => u = 0
      BY <1>1, <1>2, <1>5 DEF UsedUnder
    <3> QED
      BY <1>4, <1>5, <1>6, <1>9, <2>1, <3>1, <3>2, <3>3, <3>4 DEF Knows, InCall, Fits
  <2>2. CASE q # r
    <3>1. q \in others
      BY <1>6, <1>9, <2>2 DEF InCall
    <3>2. call[q].key \in aiRaced'
      BY <1>4, <3>1
    <3> QED
      BY <1>6, <1>9, <2>2, <3>2
  <2> QED
    BY <2>1, <2>2
<1>10. Unspent'
  BY <1>4, <1>5, <1>6, <1>7 DEF BudgetInv, Unspent, InCall
<1> QED
  BY <1>4, <1>7, <1>8, <1>9, <1>10 DEF BudgetInv, BudgetKept

LEMMA CallResets ==
  ASSUME BudgetTypes, BudgetInv, NEW r \in Requests, AiReset(r)
  PROVE  BudgetTypes' /\ BudgetInv'
<1>1. PICK c \in Call : c = call[r] /\ c.pc = "reset" /\ c.key \in 1..month
  BY DEF BudgetTypes, AiReset
<1>2. PICK d \in Call : Set(r, d) /\ d = IF Fits(c) THEN [c EXCEPT !.pc = "charge"] ELSE NoCall
  BY <1>1, NoCallType DEF AiReset, Call
<1>3. ai' = [used |-> 0, key |-> c.key] /\ UNCHANGED <<month, spent, aiRaced>>
  BY <1>1 DEF AiReset
<1>4. d.pc \in {"idle", "charge"} /\ (d.pc = "charge" => d.key = c.key /\ d.used = c.used /\ Fits(d))
  BY <1>2, NoCallType DEF Call, Fits
<1>5. call'[r] = d /\ \A q \in Requests \ {r} : call'[q] = call[q]
  BY <1>2 DEF Set, BudgetTypes
<1>6. \A q \in Requests : InCall(q)' => InCall(q) /\ call'[q].key = call[q].key
  BY <1>1, <1>4, <1>5 DEF InCall
<1>7. BudgetTypes'
  <2>1. call' \in [Requests -> Call] /\ \A q \in Requests : call'[q].pc # "idle" => call'[q].key \in 1..month
    BY <1>1, <1>2, <1>4, <1>5 DEF BudgetTypes, Set
  <2>2. month \in Nat /\ c.key \in 0..MaxMonth /\ c.key <= month
    BY <1>1, TrustAssumption DEF BudgetTypes, Months
  <2> QED
    BY <1>3, <2>1, <2>2 DEF BudgetTypes
<1>8. c.key \notin aiRaced => spent[c.key] = 0
  BY <1>1 DEF BudgetInv, Knows, InCall
<1>9. ASSUME NEW q \in Requests, InCall(q)', call'[q].key \notin aiRaced' PROVE Knows(q)'
  <2>1. Knows(q) /\ call'[q].used = call[q].used
    BY <1>1, <1>3, <1>4, <1>5, <1>6, <1>9 DEF BudgetInv, InCall
  <2> QED
    BY <1>3, <1>4, <1>5, <1>6, <1>9, <2>1 DEF Knows, InCall
<1>10. Unspent'
  BY <1>1, <1>3, <1>6 DEF BudgetInv, Unspent, InCall
<1>11. BudgetKept'
  BY <1>1, <1>3, <1>8 DEF BudgetInv, BudgetKept, BudgetTypes
<1> QED
  BY <1>3, <1>7, <1>9, <1>10, <1>11 DEF BudgetInv

LEMMA CallCharges ==
  ASSUME BudgetTypes, BudgetInv, NEW r \in Requests, AiCharge(r)
  PROVE  BudgetTypes' /\ BudgetInv'
<1>1. PICK c \in Call : c = call[r] /\ c.pc = "charge" /\ c.key \in 1..month
  BY DEF BudgetTypes, AiCharge
<1>2. /\ ai' = [used |-> c.used + c.tokens, key |-> c.key]
      /\ spent' = [spent EXCEPT ![c.key] = @ + c.tokens]
      /\ Set(r, NoCall) /\ UNCHANGED <<month, aiRaced>>
  BY <1>1 DEF AiCharge
<1>3. call'[r] = NoCall /\ \A q \in Requests \ {r} : call'[q] = call[q]
  BY <1>2 DEF Set, BudgetTypes
<1>4. \A q \in Requests : InCall(q)' => q # r /\ InCall(q) /\ call'[q] = call[q]
  BY <1>3, NoCallType DEF InCall
<1>5. c.key \in Months /\ month \in Nat /\ c.used + c.tokens \in Nat
  BY <1>1, TrustAssumption DEF BudgetTypes, Months, Call
<1>6. BudgetTypes'
  BY <1>1, <1>2, <1>3, <1>5, NoCallType DEF BudgetTypes, Set, Call, Months
<1>7. c.key \notin aiRaced => /\ Knows(r)
                              /\ \A q \in Requests : ~InCall(q)'
  BY <1>1, <1>4 DEF BudgetInv, Knows, InCall
<1>8. \A q \in Requests : InCall(q)' /\ call'[q].key \notin aiRaced' => Knows(q)'
  BY <1>1, <1>2, <1>4 DEF BudgetInv, Knows, InCall
<1>9. Unspent'
  <2>1. CASE month \in aiRaced
    BY <1>2, <2>1 DEF Unspent
  <2>2. CASE month \notin aiRaced /\ c.key = month
    BY <1>2, <1>7, <2>2 DEF Unspent
  <2>3. CASE month \notin aiRaced /\ c.key # month
    <3>1. spent[month] = 0
      BY <1>1, <2>3 DEF BudgetInv, Unspent, InCall
    <3> QED
      BY <1>2, <1>5, <2>3, <3>1 DEF Unspent, BudgetTypes
  <2> QED
    BY <2>1, <2>2, <2>3
<1>10. \A m \in Months : m > month' => spent'[m] = 0
  BY <1>1, <1>2, <1>5 DEF BudgetInv, BudgetTypes, Months
<1>11. BudgetKept'
  <2>1. c.key \notin aiRaced => spent'[c.key] = c.used + c.tokens /\ c.used + c.tokens <= Limit
    BY <1>1, <1>2, <1>5, <1>7 DEF Knows, Fits, BudgetTypes
  <2> QED
    BY <1>2, <1>5, <2>1 DEF BudgetInv, BudgetKept, BudgetTypes
<1> QED
  BY <1>6, <1>8, <1>9, <1>10, <1>11 DEF BudgetInv

LEMMA MonthSteps ==
  ASSUME BudgetTypes, BudgetInv, MonthTurns \/ AiMonthlyReset
  PROVE  BudgetTypes' /\ BudgetInv'
<1> USE TrustAssumption
<1>1. CASE MonthTurns
  <2>1. month' = month + 1 /\ month' \in Months /\ UNCHANGED <<ai, call, spent, aiRaced>>
    BY <1>1 DEF MonthTurns, BudgetTypes, Months
  <2>2. BudgetTypes'
    BY <2>1 DEF BudgetTypes, Months
  <2>3. spent[month + 1] = 0
    BY <2>1 DEF BudgetInv, BudgetTypes, Months
  <2>4. \A m \in Months : m > month + 1 => m > month
    BY <2>1 DEF BudgetTypes, Months
  <2> QED
    BY <2>1, <2>2, <2>3, <2>4 DEF BudgetInv, BudgetKept, Unspent, Knows, InCall, Fits
<1>2. CASE AiMonthlyReset
  <2>1. ai.key # month /\ ai' = [used |-> 0, key |-> month] /\ UNCHANGED <<month, call, spent, aiRaced>>
    BY <1>2 DEF AiMonthlyReset
  <2>2. BudgetTypes'
    BY <2>1 DEF BudgetTypes, Months
  <2>3. month \in aiRaced \/ spent[month] = 0
    BY <2>1 DEF BudgetInv, Unspent
  <2>4. BudgetKept' /\ Unspent'
    BY <2>1, <2>3 DEF BudgetInv, BudgetKept, Unspent
  <2> QED
    BY <2>1, <2>2, <2>4 DEF BudgetInv, Knows, InCall, Fits
<1> QED
  BY <1>1, <1>2

LEMMA NextBudget == BudgetTypes /\ BudgetInv /\ [Next]_vars => BudgetTypes' /\ BudgetInv'
<1> SUFFICES ASSUME BudgetTypes, BudgetInv, [Next]_vars PROVE BudgetTypes' /\ BudgetInv'
  OBVIOUS
<1>q. ASSUME UNCHANGED budget PROVE BudgetTypes' /\ BudgetInv'
  BY <1>q, BudgetQuiet
<1>1. CASE UNCHANGED vars \/ (MessagingNext /\ UNCHANGED trustVars)
  BY <1>1, <1>q DEF vars, trustVars, budget
<1>2. ASSUME NEW a \in Admins, NEW t, NEW on, AdminStart(a, t, on) PROVE UNCHANGED budget
  BY <1>2 DEF AdminStart
<1>3. ASSUME NEW a \in Admins,
             \/ \E u \in {"consumer", "provider"} : Suspend(a, u) \/ Unsuspend(a, u)
             \/ \E j \in Jobs : HideJob(a, j) \/ UnhideJob(a, j) \/ SafetyUnhideJob(a, j)
             \/ \E i \in 1..MaxMessages : HideMessage(a, i) \/ UnhideMessage(a, i) \/ SafetyUnhideMessage(a, i)
             \/ \E on \in BOOLEAN : HandleReport(a, on)
             \/ AdminWrite(a) \/ AdminLog(a) \/ AdminFails(a)
      PROVE  UNCHANGED budget
  BY <1>2, <1>3 DEF Suspend, Unsuspend, HideJob, UnhideJob, SafetyUnhideJob, HideMessage, UnhideMessage,
                    SafetyUnhideMessage, HandleReport, AdminWrite, AdminLog, AdminFails
<1>4. ASSUME \/ \E u \in Users : Restore(u)
             \/ \E p \in Posts : PostUnhide(p)
             \/ \E r \in Requests :
                  \/ \E p \in Posts, k \in Risks : PostStart(r, p, k)
                  \/ PostAssess(r) \/ PostCreate(r) \/ PostSignal(r) \/ PostHide(r) \/ PostScore(r)
                  \/ PostDecide(r) \/ PostRestrict(r) \/ PostAnnounce(r) \/ PostFails(r)
      PROVE  UNCHANGED budget
  BY <1>4 DEF Restore, PostUnhide, PostStart, PostAssess, PostCreate, PostSignal, PostHide, PostScore,
              PostDecide, PostRestrict, PostAnnounce, PostFails, trustVars, budget
<1>5. ASSUME NEW r \in Requests, NEW n \in Tokens, AiStart(r, n) PROVE BudgetTypes' /\ BudgetInv'
  <2> DEFINE c == [pc |-> "read", key |-> month, tokens |-> n, used |-> 0]
  <2>1. c \in Call /\ c.pc = "read" /\ c.key = month
    BY TrustAssumption DEF BudgetTypes, Call, Months
  <2> QED
    BY <1>5, <2>1, CallOutside DEF AiStart
<1>6. ASSUME NEW r \in Requests, AiFails(r) PROVE BudgetTypes' /\ BudgetInv'
  BY <1>6, NoCallType, CallOutside DEF AiFails
<1> QED
  BY <1>q, <1>1, <1>3, <1>4, <1>5, <1>6, CallReads, CallResets, CallCharges, MonthSteps DEF Next, TrustNext

(* A user's AI calls stay within the monthly limit and are accounted for,  *)
(* but for the months that aiRaced names (ai/aiGateway.ts: key, read,      *)
(* reset and charge are steps of their own).                               *)
THEOREM BudgetIsKept == Spec => []BudgetKept
<1>1. BudgetTypes /\ BudgetInv => BudgetKept
  BY DEF BudgetInv
<1> QED
  BY <1>1, InitBudget, NextBudget, PTL DEF Spec

----------------------------------------------------------------------------
(* Requests on messages: their shapes, the gate and the files *)

Fields == {"pc", "op", "user", "job", "text", "file", "open", "n", "at", "shadow", "unscored", "seen"}
JobRow == [open : BOOLEAN, to : {None, "provider", "rival"}, hidden : BOOLEAN]
Message == [by : Users, job : Jobs, text : Texts, at : Nat, hidden : BOOLEAN,
            file : Keys \cup {None}, unscored : BOOLEAN, late : BOOLEAN]
AdminRequest == [pc : {"idle", "write", "log"}, target : Targets, on : BOOLEAN]

(* Where a request of each kind can be *)
Places(op) == CASE op = "" -> {"idle"}
                [] op = "send" -> {"job", "block", "score", "gate", "punish", "log", "count", "restrict",
                                   "upload", "begin", "commit", "rollback"}
                [] op = "report" -> {"log", "count", "restrict"}
                [] op = "upload" -> {"upload", "begin", "commit", "rollback"}
                [] op = "read" -> {"latest", "mark"}
                [] op = "job" -> {"assess", "create", "signal", "hide", "score", "decide", "impose", "announce"}
Ops == {"", "send", "report", "upload", "read", "job"}

Stored == {"begin", "commit", "rollback"}

Typed(s) == /\ DOMAIN s = Fields
            /\ s.op \in Ops /\ s.pc \in Places(s.op)
            /\ s.op = "send" => /\ s.user \in Users /\ s.job \in Jobs /\ s.text \in Texts
                                /\ s.shadow \in BOOLEAN /\ s.unscored \in BOOLEAN
            /\ s.file \in Keys \cup {None}
            /\ s.file # None => s.op \in {"send", "upload"}
            /\ s.op = "upload" => s.file # None
            /\ s.pc = "commit" => s.at \in Nat

Shapes == /\ now \in Nat
          /\ job \in [Jobs -> JobRow]
          /\ exchange \in [Jobs -> {"none", "PENDING", "APPROVED"}]
          /\ msg \in Seq(Message)
          /\ store \subseteq Keys
          /\ adm \in [Admins -> AdminRequest]
          /\ DOMAIN req = Requests
          /\ \A r \in Requests : Typed(req[r])

(* Contact data goes through once the job is closed or the exchange is     *)
(* approved, and neither is ever taken back.                               *)
Shares(j) == ~job[j].open \/ exchange[j] = "APPROVED"
Passed(s) == /\ s.op = "send" /\ s.text \in OffPlatform /\ ~Admin(s.user) /\ ~s.unscored
             /\ s.pc \in {"upload", "begin", "commit"}
Gated(s) == /\ s.op = "send" /\ ~s.open => ~job[s.job].open
            /\ Passed(s) => Shares(s.job)

(* A request's file is its own, and stored from its upload on.             *)
Owns(r) == req[r].file # None =>
              /\ req[r].file \notin attached \cup lost
              /\ \A i \in DOMAIN msg : msg[i].file # req[r].file
              /\ \A q \in Requests \ {r} : req[q].file # req[r].file
              /\ req[r].file \in store <=> req[r].pc \in Stored

MessageInv == /\ Shapes
              /\ \A r \in Requests : Gated(req[r]) /\ Owns(r)
              /\ ContactGated /\ FilesKept

LEMMA IdleTyped == Typed(Idle) /\ Idle.pc = "idle" /\ Idle.op = "" /\ Idle.file = None
BY DEF Idle, Typed, Places, Ops, Fields

LEMMA RowType == ASSUME Shapes, NEW i \in DOMAIN msg PROVE msg[i] \in Message
<1>1. msg \in Seq(Message) /\ i \in 1..Len(msg)
  BY LenProperties DEF Shapes
<1> QED
  BY <1>1, ElementOfSeq

LEMMA InitMessages == Init => MessageInv
<1> SUFFICES ASSUME Init PROVE MessageInv
  OBVIOUS
<1>1. NoAdmin \in AdminRequest
  BY DEF NoAdmin, AdminRequest, Targets
<1>2. Shapes
  <2>1. job \in [Jobs -> JobRow] /\ exchange \in [Jobs -> {"none", "PENDING", "APPROVED"}]
    BY DEF Init, MessagingInit, JobRow
  <2>2. now \in Nat /\ msg \in Seq(Message) /\ store \subseteq Keys
    BY EmptySeq DEF Init, MessagingInit
  <2>3. adm \in [Admins -> AdminRequest]
    BY <1>1 DEF Init
  <2>4. DOMAIN req = Requests /\ \A r \in Requests : Typed(req[r])
    BY IdleTyped DEF Init, MessagingInit
  <2> QED
    BY <2>1, <2>2, <2>3, <2>4 DEF Shapes
<1>3. \A r \in Requests : Gated(req[r]) /\ Owns(r)
  BY IdleTyped DEF Init, MessagingInit, Gated, Passed, Owns
<1>4. ContactGated /\ FilesKept
  BY DEF Init, MessagingInit, ContactGated, FilesKept
<1> QED
  BY <1>2, <1>3, <1>4 DEF MessageInv

(* What only moves the clock, an admin or what isn't looked at here *)
LEMMA MessagesQuiet ==
  ASSUME MessageInv, UNCHANGED <<job, exchange, msg, req, files>>, now' \in Nat,
         adm' \in [Admins -> AdminRequest]
  PROVE  MessageInv'
BY DEF MessageInv, Shapes, Gated, Passed, Shares, Owns, ContactGated, FilesKept, Typed, files

(* A request goes on from s to t, a start included. *)
Onward(r, t) ==
    /\ Become(r, t) /\ Typed(t) /\ (t.op = "send" /\ ~t.open => ~job[t.job].open) /\ (Passed(t) => Shares(t.job))
    /\ \/ t.file = None /\ (req[r].file = None \/ req[r].pc \notin Stored)
       \/ t.file = req[r].file /\ (t.pc \in Stored <=> req[r].pc \in Stored)
          /\ (t.pc = "idle" <=> req[r].pc = "idle")
       \/ req[r].file = None /\ Fresh(t.file) /\ t.pc \notin Stored
          /\ t.file \notin attached /\ \A i \in DOMAIN msg : msg[i].file # t.file

LEMMA MessagesOnward ==
  ASSUME MessageInv, NEW r \in Requests, NEW t, Onward(r, t), UNCHANGED <<job, exchange, msg, files, now, adm>>
  PROVE  MessageInv'
<1>1. /\ DOMAIN req = Requests /\ DOMAIN req' = Requests
      /\ req'[r] = t /\ \A q \in Requests \ {r} : req'[q] = req[q]
  BY DEF Onward, Become, MessageInv, Shapes
<1>2. UNCHANGED <<store, attached, lost>>
  BY DEF files
<1>3. Shapes'
  BY <1>1, <1>2 DEF MessageInv, Shapes, Onward
<1>4. \A q \in Requests : Gated(req[q])'
  BY <1>1 DEF MessageInv, Gated, Passed, Shares, Onward
<1>5. ASSUME NEW q \in Requests, req'[q].file # None PROVE Owns(q)'
  <2>1. CASE q = r
    <3>1. CASE t.file = req[r].file
      BY <1>1, <1>2, <1>5, <2>1, <3>1 DEF MessageInv, Owns, Onward
    <3>2. CASE req[r].file = None /\ Fresh(t.file) /\ t.pc \notin Stored
               /\ t.file \notin attached /\ \A i \in DOMAIN msg : msg[i].file # t.file
      BY <1>1, <1>2, <2>1, <3>2 DEF Owns, Fresh
    <3> QED
      BY <1>1, <1>5, <2>1, <3>1, <3>2 DEF Onward
  <2>2. CASE q # r
    <3>1. req[q].file # t.file
      BY <1>1, <1>5, <2>2 DEF MessageInv, Owns, Onward, Fresh
    <3> QED
      BY <1>1, <1>2, <1>5, <2>2, <3>1 DEF MessageInv, Owns
  <2> QED
    BY <2>1, <2>2
<1>6. FilesKept'
  <2>1. ASSUME NEW q \in Requests, req[q].file \in store, req[q].file # None, req[q].pc \in Stored
        PROVE  req'[q].file = req[q].file /\ req'[q].pc \in Stored
    BY <1>1, <2>1 DEF Onward, MessageInv, Owns
  <2>2. \A f \in store : f # None
    BY MessagingAssumption DEF MessageInv, Shapes
  <2> QED
    BY <1>1, <1>2, <2>1, <2>2 DEF MessageInv, FilesKept, Stored
<1> QED
  BY <1>3, <1>4, <1>5, <1>6 DEF MessageInv, ContactGated, Owns

(* A request that ends: its file, if any, was not stored yet. *)
LEMMA MessagesEnd ==
  ASSUME MessageInv, NEW r \in Requests, End(r), req[r].pc \notin Stored \/ req[r].file = None,
         UNCHANGED <<job, exchange, msg, files, now, adm>>
  PROVE  MessageInv'
BY IdleTyped, MessagesOnward DEF Onward, End, Passed

(* From s to t of the same request: what it carries stays. *)
Carry(s, t) == /\ DOMAIN t = DOMAIN s
               /\ t.op = s.op /\ t.user = s.user /\ t.job = s.job /\ t.text = s.text /\ t.file = s.file
               /\ (s.op = "send" => t.shadow \in BOOLEAN /\ t.unscored \in BOOLEAN)
               /\ (t.pc = "commit" => t.at \in Nat)

LEMMA MessagesGoOn ==
  ASSUME MessageInv, NEW r \in Requests, NEW t, Become(r, t), Carry(req[r], t), t.pc \in Places(t.op),
         t.pc \in Stored <=> req[r].pc \in Stored, req[r].pc # "idle", t.pc # "idle",
         t.op = "send" /\ ~t.open => ~job[t.job].open, Passed(t) => Shares(t.job),
         UNCHANGED <<job, exchange, msg, files, now, adm>>
  PROVE  MessageInv'
<1>1. Typed(t)
  BY DEF MessageInv, Shapes, Typed, Carry
<1> QED
  BY <1>1, MessagesOnward DEF Onward, Carry

(* Goto only moves it. *)
LEMMA Moved ==
  ASSUME NEW s, DOMAIN s = Fields, NEW pc
  PROVE  LET t == [s EXCEPT !.pc = pc]
         IN  /\ DOMAIN t = Fields /\ t.pc = pc /\ t.op = s.op /\ t.user = s.user /\ t.job = s.job
             /\ t.text = s.text /\ t.file = s.file /\ t.open = s.open /\ t.n = s.n /\ t.at = s.at
             /\ t.shadow = s.shadow /\ t.unscored = s.unscored /\ t.seen = s.seen
BY DEF Fields

LEMMA MessagesGoto ==
  ASSUME MessageInv, NEW r \in Requests, NEW pc, Goto(r, pc), pc \in Places(req[r].op),
         pc \in Stored <=> req[r].pc \in Stored, req[r].pc # "idle", pc \notin {"idle", "begin", "commit"},
         pc = "upload" => Shares(req[r].job) \/ req[r].text \notin OffPlatform \/ Admin(req[r].user),
         UNCHANGED <<job, exchange, msg, files, now, adm>>
  PROVE  MessageInv'
<1>1. PICK s, t : s = req[r] /\ t = [req[r] EXCEPT !.pc = pc]
  OBVIOUS
<1>2. Typed(s) /\ Gated(s) /\ DOMAIN s = Fields
  BY <1>1 DEF MessageInv, Shapes, Typed
<1>3. /\ DOMAIN t = Fields /\ t.pc = pc /\ t.op = s.op /\ t.user = s.user /\ t.job = s.job
      /\ t.text = s.text /\ t.file = s.file /\ t.open = s.open /\ t.n = s.n /\ t.at = s.at
      /\ t.shadow = s.shadow /\ t.unscored = s.unscored /\ t.seen = s.seen
  BY <1>1, <1>2, Moved
<1>4. Carry(s, t)
  BY <1>2, <1>3 DEF Carry, Typed
<1>5. Passed(t) => Shares(t.job)
  BY <1>1, <1>2, <1>3 DEF Gated, Passed, Stored
<1> QED
  BY <1>1, <1>2, <1>3, <1>4, <1>5, MessagesGoOn DEF Goto, Gated

(* What others do to the job and to the exchange *)
LEMMA JobsMove ==
  ASSUME MessageInv, NEW j \in Jobs, JobCloses(j) \/ ExchangeMoves(j), UNCHANGED adm
  PROVE  MessageInv'
<1>1. /\ job' \in [Jobs -> JobRow] /\ exchange' \in [Jobs -> {"none", "PENDING", "APPROVED"}]
      /\ \A k \in Jobs : (~job[k].open => ~job'[k].open) /\ (exchange[k] = "APPROVED" => exchange'[k] = "APPROVED")
  <2>1. CASE JobCloses(j)
    <3>1. PICK to \in {None, "provider", "rival"} :
             job' = [job EXCEPT ![j] = [open |-> FALSE, to |-> to, hidden |-> job[j].hidden]]
      BY <2>1 DEF JobCloses
    <3>2. job[j].hidden \in BOOLEAN /\ job \in [Jobs -> JobRow]
      BY DEF MessageInv, Shapes, JobRow
    <3>3. [open |-> FALSE, to |-> to, hidden |-> job[j].hidden] \in JobRow
      BY <3>2 DEF JobRow
    <3> QED
      BY <2>1, <3>1, <3>2, <3>3 DEF JobCloses, MessageInv, Shapes
  <2>2. CASE ExchangeMoves(j)
    BY <2>2 DEF ExchangeMoves, MessageInv, Shapes, general
  <2> QED
    BY <2>1, <2>2
<1>2. UNCHANGED <<msg, store, attached, lost, req, adm, now>>
  BY DEF JobCloses, ExchangeMoves, thread, files, general
<1>3. Shapes'
  BY <1>1, <1>2 DEF MessageInv, Shapes
<1>4. \A k \in Jobs : Shares(k) => Shares(k)'
  BY <1>1 DEF Shares
<1>5. ASSUME NEW r \in Requests PROVE Gated(req[r])' /\ Owns(r)'
  <2>1. Typed(req[r]) /\ Gated(req[r]) /\ Owns(r)
    BY DEF MessageInv, Shapes
  <2> QED
    BY <1>1, <1>2, <1>4, <2>1 DEF Gated, Passed, Owns, Typed
<1>6. ContactGated'
  <2>1. \A i \in DOMAIN msg : msg[i].job \in Jobs
    BY RowType DEF MessageInv, Message
  <2> QED
    BY <1>2, <1>4, <2>1 DEF MessageInv, ContactGated, Shares
<1> QED
  BY <1>2, <1>3, <1>5, <1>6 DEF MessageInv, FilesKept

(* The object is put: the request's own, and not there before. *)
LEMMA FilePut == ASSUME MessageInv, NEW r \in Requests, PutObject(r), UNCHANGED adm PROVE MessageInv'
<1>1. PICK s, t : s = req[r] /\ t = [req[r] EXCEPT !.pc = "begin"]
  OBVIOUS
<1>2. Typed(s) /\ Gated(s) /\ Owns(r) /\ DOMAIN s = Fields /\ s.pc = "upload" /\ DOMAIN req = Requests
  BY <1>1 DEF MessageInv, Shapes, Typed, PutObject, At
<1>3. /\ DOMAIN t = Fields /\ t.pc = "begin" /\ t.op = s.op /\ t.user = s.user /\ t.job = s.job
      /\ t.text = s.text /\ t.file = s.file /\ t.open = s.open /\ t.n = s.n /\ t.at = s.at
      /\ t.shadow = s.shadow /\ t.unscored = s.unscored /\ t.seen = s.seen
  BY <1>1, <1>2, Moved
<1>4. /\ UNCHANGED <<job, exchange, msg, attached, lost, now>>
      /\ store' = IF s.file = None THEN store ELSE store \cup {s.file}
      /\ req' = [req EXCEPT ![r] = t]
  BY <1>1 DEF PutObject, Goto, Become, place, offences, thread, general
<1>5. req'[r] = t /\ DOMAIN req' = Requests /\ \A q \in Requests \ {r} : req'[q] = req[q]
  BY <1>2, <1>4
<1>6. Typed(t) /\ Gated(t)
  <2>1. t.pc \in Places(t.op)
    BY <1>2, <1>3 DEF Typed, Places, Ops
  <2>2. Typed(t)
    BY <1>2, <1>3, <2>1 DEF Typed
  <2> QED
    BY <1>2, <1>3, <2>2 DEF Gated, Passed
<1>7. Shapes'
  BY <1>2, <1>4, <1>5, <1>6 DEF MessageInv, Shapes, Typed
<1>8. \A q \in Requests : Gated(req[q])'
  BY <1>4, <1>5, <1>6 DEF MessageInv, Gated, Passed, Shares
<1>9. ASSUME NEW q \in Requests PROVE Owns(q)'
  <2>1. CASE q = r
    BY <1>1, <1>2, <1>3, <1>4, <1>5, <2>1 DEF Owns, Stored
  <2>2. CASE q # r
    <3>1. Owns(q) /\ (req[q].file # None => req[q].file # s.file)
      BY <1>1, <2>2 DEF MessageInv, Owns
    <3>2. \A p \in Requests : req'[p].file = req[p].file
      BY <1>1, <1>3, <1>5
    <3> QED
      BY <1>4, <1>5, <2>2, <3>1, <3>2 DEF Owns
  <2> QED
    BY <2>1, <2>2
<1>10. FilesKept'
  <2>1. \A f \in store' : f \in store \/ f = t.file
    BY <1>3, <1>4
  <2>2. \A q \in Requests : req[q].pc \in Stored => q # r
    BY <1>1, <1>2 DEF Stored
  <2> QED
    BY <1>3, <1>4, <1>5, <2>1, <2>2 DEF MessageInv, FilesKept, Stored
<1> QED
  BY <1>4, <1>7, <1>8, <1>9, <1>10 DEF MessageInv, ContactGated

(* The row of the message, with the file that was the request's *)
LEMMA MessageCommitted == ASSUME MessageInv, NEW r \in Requests, CommitInsert(r), UNCHANGED adm PROVE MessageInv'
<1>1. PICK q : q = req[r]
  OBVIOUS
<1>2. Typed(q) /\ Gated(q) /\ Owns(r) /\ q.pc = "commit" /\ q.op = "send" /\ DOMAIN req = Requests
  BY <1>1 DEF MessageInv, Shapes, CommitInsert, At
<1>3. PICK m : /\ msg' = Append(msg, m)
               /\ m = [by |-> q.user, job |-> q.job, text |-> q.text, at |-> q.at,
                       hidden |-> q.shadow, file |-> q.file, unscored |-> q.unscored,
                       late |-> \/ \E i \in DOMAIN msg : msg[i].job = q.job /\ msg[i].at >= q.at
                                \/ emptyAt[q.job] >= q.at]
  BY <1>1 DEF CommitInsert
<1>4. m \in Message /\ m.by = q.user /\ m.job = q.job /\ m.text = q.text /\ m.file = q.file /\ m.unscored = q.unscored
  BY <1>2, <1>3 DEF Message, Typed
<1>5. /\ req' = [req EXCEPT ![r] = Idle]
      /\ UNCHANGED <<job, exchange, store, attached, lost, now>>
  BY <1>2 DEF CommitInsert, End, Become, place, offences, files, general
<1>6. req'[r] = Idle /\ DOMAIN req' = Requests /\ \A p \in Requests \ {r} : req'[p] = req[p]
  BY <1>2, <1>5
<1>7. /\ msg' \in Seq(Message) /\ DOMAIN msg = 1..Len(msg) /\ DOMAIN msg' = 1..(Len(msg) + 1) /\ Len(msg) \in Nat
      /\ \A i \in DOMAIN msg : msg'[i] = msg[i]
      /\ msg'[Len(msg) + 1] = m
  BY <1>3, <1>4, AppendProperties, LenProperties DEF MessageInv, Shapes
<1>8. \A i \in DOMAIN msg' : msg'[i] = m \/ (i \in DOMAIN msg /\ msg'[i] = msg[i])
  BY <1>7
<1>9. Shapes'
  BY <1>5, <1>6, <1>7, IdleTyped DEF MessageInv, Shapes
<1>10. \A p \in Requests : Gated(req[p])'
  BY <1>5, <1>6, IdleTyped DEF MessageInv, Gated, Passed, Shares
<1>11. ASSUME NEW p \in Requests PROVE Owns(p)'
  <2>1. CASE p = r
    BY <1>6, <2>1, IdleTyped DEF Owns
  <2>2. CASE p # r
    <3>1. Owns(p) /\ (req[p].file # None => req[p].file # q.file)
      BY <1>1, <2>2 DEF MessageInv, Owns
    <3> QED
      BY <1>4, <1>5, <1>6, <1>8, <2>2, <3>1, IdleTyped DEF Owns
  <2> QED
    BY <2>1, <2>2
<1>12. ContactGated'
  <2>1. m.text \in OffPlatform /\ ~Admin(m.by) /\ ~m.unscored => Shares(m.job)
    BY <1>2, <1>4 DEF Gated, Passed
  <2> QED
    BY <1>5, <1>8, <2>1 DEF MessageInv, ContactGated, Shares
<1>13. FilesKept'
  <2>1. attached' \subseteq store' /\ \A i \in DOMAIN msg' : msg'[i].file # None => msg'[i].file \in store'
    BY <1>1, <1>2, <1>4, <1>5, <1>8 DEF MessageInv, FilesKept, Owns, Stored
  <2>2. ASSUME NEW f \in store' \ lost'
        PROVE  \/ f \in attached' \/ \E i \in DOMAIN msg' : msg'[i].file = f
               \/ \E p \in Requests : req'[p].file = f /\ req'[p].pc \in {"begin", "commit", "rollback"}
    <3>1. CASE \E i \in DOMAIN msg : msg[i].file = f
      BY <1>7, <3>1
    <3>2. CASE q.file = f
      BY <1>4, <1>7, <3>2
    <3> QED
      BY <1>1, <1>5, <1>6, <3>1, <3>2 DEF MessageInv, FilesKept
  <2> QED
    BY <2>1, <2>2 DEF FilesKept
<1> QED
  BY <1>9, <1>10, <1>11, <1>12, <1>13 DEF MessageInv

LEMMA FileAttached == ASSUME MessageInv, NEW r \in Requests, CommitAttachment(r), UNCHANGED adm PROVE MessageInv'
<1>1. PICK f : f = req[r].file
  OBVIOUS
<1>2. Typed(req[r]) /\ Owns(r) /\ req[r].pc = "commit" /\ f # None /\ DOMAIN req = Requests
  BY <1>1 DEF MessageInv, Shapes, CommitAttachment, At, Typed
<1>3. /\ req' = [req EXCEPT ![r] = Idle] /\ attached' = attached \cup {f}
      /\ UNCHANGED <<job, exchange, msg, store, lost, now>>
  BY <1>1 DEF CommitAttachment, End, Become, place, offences, thread, general
<1>4. req'[r] = Idle /\ DOMAIN req' = Requests /\ \A p \in Requests \ {r} : req'[p] = req[p]
  BY <1>2, <1>3
<1>5. f \in store /\ \A p \in Requests \ {r} : req[p].file # f
  BY <1>1, <1>2 DEF Owns, Stored
<1>6. Shapes' /\ ContactGated'
  BY <1>3, <1>4, IdleTyped DEF MessageInv, Shapes, ContactGated
<1>7. ASSUME NEW p \in Requests PROVE Gated(req[p])' /\ Owns(p)'
  <2>1. CASE p = r
    BY <1>4, <2>1, IdleTyped DEF Gated, Passed, Owns
  <2>2. CASE p # r
    <3>1. Gated(req[p]) /\ Owns(p) /\ (req[p].file # None => req[p].file # f)
      BY <1>1, <2>2 DEF MessageInv, Owns
    <3>2. Owns(p)'
      BY <1>3, <1>4, <2>2, <3>1, IdleTyped DEF Owns
    <3> QED
      BY <1>3, <1>4, <2>2, <3>1, <3>2 DEF Gated, Passed, Shares
  <2> QED
    BY <2>1, <2>2
<1>8. FilesKept'
  BY <1>1, <1>3, <1>4, <1>5 DEF MessageInv, FilesKept
<1> QED
  BY <1>6, <1>7, <1>8 DEF MessageInv

LEMMA FileRolledBack == ASSUME MessageInv, NEW r \in Requests, Rollback(r), UNCHANGED adm PROVE MessageInv'
<1>1. PICK f : f = req[r].file
  OBVIOUS
<1>2. Typed(req[r]) /\ Owns(r) /\ req[r].pc = "rollback" /\ DOMAIN req = Requests
  BY <1>1 DEF MessageInv, Shapes, Rollback, At
<1>3. /\ req' = [req EXCEPT ![r] = Idle] /\ store' = store \ {f}
      /\ UNCHANGED <<job, exchange, msg, attached, lost, now>>
  BY <1>1 DEF Rollback, End, Become, place, offences, thread, general
<1>4. req'[r] = Idle /\ DOMAIN req' = Requests /\ \A p \in Requests \ {r} : req'[p] = req[p]
  BY <1>2, <1>3
<1>5. f # None => /\ f \notin attached /\ \A i \in DOMAIN msg : msg[i].file # f
                  /\ \A p \in Requests \ {r} : req[p].file # f
  BY <1>1, <1>2 DEF Owns
<1>6. Shapes' /\ ContactGated'
  BY <1>3, <1>4, IdleTyped DEF MessageInv, Shapes, ContactGated
<1>7. ASSUME NEW p \in Requests PROVE Gated(req[p])' /\ Owns(p)'
  <2>1. CASE p = r
    BY <1>4, <2>1, IdleTyped DEF Gated, Passed, Owns
  <2>2. CASE p # r
    <3>1. Gated(req[p]) /\ Owns(p) /\ (req[p].file # None => req[p].file # f)
      BY <1>1, <2>2 DEF MessageInv, Owns
    <3>2. Owns(p)'
      BY <1>3, <1>4, <2>2, <3>1, IdleTyped DEF Owns
    <3> QED
      BY <1>3, <1>4, <2>2, <3>1, <3>2 DEF Gated, Passed, Shares
  <2> QED
    BY <2>1, <2>2
<1>8. None \notin store
  BY MessagingAssumption DEF MessageInv, Shapes
<1>9. FilesKept'
  BY <1>1, <1>3, <1>4, <1>5, <1>8 DEF MessageInv, FilesKept
<1> QED
  BY <1>6, <1>7, <1>9 DEF MessageInv

LEMMA RequestDies == ASSUME MessageInv, NEW r \in Requests, Fail(r), UNCHANGED adm PROVE MessageInv'
<1>1. PICK f : f = req[r].file
  OBVIOUS
<1>2. Typed(req[r]) /\ Owns(r) /\ DOMAIN req = Requests
  BY DEF MessageInv, Shapes
<1>3. /\ req' = [req EXCEPT ![r] = Idle]
      /\ lost' = IF req[r].pc \in Stored /\ f # None THEN lost \cup {f} ELSE lost
      /\ UNCHANGED <<job, exchange, msg, attached, store, now>>
  BY <1>1 DEF Fail, End, Become, Stored, place, thread, general
<1>4. req'[r] = Idle /\ DOMAIN req' = Requests /\ \A p \in Requests \ {r} : req'[p] = req[p]
  BY <1>2, <1>3
<1>5. f # None => \A p \in Requests \ {r} : req[p].file # f
  BY <1>1, <1>2 DEF Owns
<1>6. Shapes' /\ ContactGated'
  BY <1>3, <1>4, IdleTyped DEF MessageInv, Shapes, ContactGated
<1>7. ASSUME NEW p \in Requests PROVE Gated(req[p])' /\ Owns(p)'
  <2>1. CASE p = r
    BY <1>4, <2>1, IdleTyped DEF Gated, Passed, Owns
  <2>2. CASE p # r
    <3>1. Gated(req[p]) /\ Owns(p) /\ (req[p].file # None => req[p].file # f)
      BY <1>1, <2>2 DEF MessageInv, Owns
    <3>2. Owns(p)'
      BY <1>3, <1>4, <2>2, <3>1, IdleTyped DEF Owns
    <3> QED
      BY <1>3, <1>4, <2>2, <3>1, <3>2 DEF Gated, Passed, Shares
  <2> QED
    BY <2>1, <2>2
<1>8. None \notin store
  BY MessagingAssumption DEF MessageInv, Shapes
<1>9. FilesKept'
  BY <1>1, <1>3, <1>4, <1>8 DEF MessageInv, FilesKept, Stored
<1> QED
  BY <1>6, <1>7, <1>9 DEF MessageInv

(* The same for the steps that note something, too *)
LEMMA Noted ==
  ASSUME MessageInv, NEW r \in Requests, NEW pc, NEW v
  PROVE  LET s == req[r]
             Same(t) == /\ t.op = s.op /\ t.user = s.user /\ t.job = s.job /\ t.text = s.text
                        /\ t.file = s.file /\ t.pc = pc /\ DOMAIN t = Fields
         IN  /\ LET t == [s EXCEPT !.pc = pc, !.n = v]
                IN  Same(t) /\ t.open = s.open /\ t.at = s.at /\ t.shadow = s.shadow /\ t.unscored = s.unscored
             /\ LET t == [s EXCEPT !.pc = pc, !.open = v]
                IN  Same(t) /\ t.open = v /\ t.at = s.at /\ t.shadow = s.shadow /\ t.unscored = s.unscored
             /\ LET t == [s EXCEPT !.pc = pc, !.at = v]
                IN  Same(t) /\ t.open = s.open /\ t.at = v /\ t.shadow = s.shadow /\ t.unscored = s.unscored
             /\ LET t == [s EXCEPT !.pc = pc, !.shadow = v]
                IN  Same(t) /\ t.open = s.open /\ t.at = s.at /\ t.shadow = v /\ t.unscored = s.unscored
             /\ LET t == [s EXCEPT !.pc = pc, !.unscored = v]
                IN  Same(t) /\ t.open = s.open /\ t.at = s.at /\ t.shadow = s.shadow /\ t.unscored = v
<1>1. PICK s : s = req[r] /\ DOMAIN s = Fields
  BY DEF MessageInv, Shapes, Typed
<1> QED
  BY <1>1 DEF Fields

(* A request is at one of the places of its kind. *)
LEMMA PlaceOfKind ==
  ASSUME MessageInv, NEW r \in Requests
  PROVE  /\ Typed(req[r]) /\ Gated(req[r]) /\ req[r].op \in Ops /\ req[r].pc \in Places(req[r].op)
         /\ req[r].pc = "idle" => req[r].op = "" /\ req[r].file = None
         /\ req[r].pc \in {"job", "block", "gate", "punish"} => req[r].op = "send"
         /\ req[r].pc \in {"log", "count", "restrict"} => req[r].op \in {"send", "report"}
         /\ req[r].pc \in Stored \cup {"upload"} => req[r].op \in {"send", "upload"}
         /\ req[r].pc \in {"latest", "mark"} => req[r].op = "read"
         /\ req[r].pc \in {"assess", "create", "signal", "hide", "decide", "impose", "announce"} => req[r].op = "job"
         /\ req[r].op \in {"", "report", "read", "job"} => req[r].file = None
         /\ req[r].op = "job" => req[r].pc \notin Stored \cup {"idle"}
<1>1. Typed(req[r]) /\ Gated(req[r])
  BY DEF MessageInv, Shapes
<1>2. req[r].op \in Ops /\ req[r].pc \in Places(req[r].op)
  BY <1>1 DEF Typed
<1> QED
  BY <1>1, <1>2 DEF Typed, Places, Ops, Stored

Rest == <<job, exchange, msg, files, now, adm>>

LEMMA StartSteps ==
  ASSUME MessageInv, UNCHANGED adm, NEW r \in Requests,
         \E u \in Users : \/ Report(r, u)
                          \/ \E j \in Jobs : \/ MarkReadStart(r, u, j)
                                             \/ \E x \in Texts, f \in Keys \cup {None} : SendStart(r, u, j, x, f)
                          \/ \E f \in Keys : Upload(r, u, f)
  PROVE  MessageInv'
<1> USE DEF place, offences, thread, files, general, Free, At
<1>0. PICK u \in Users : \/ Report(r, u)
                         \/ \E j \in Jobs : \/ MarkReadStart(r, u, j)
                                            \/ \E x \in Texts, f \in Keys \cup {None} : SendStart(r, u, j, x, f)
                         \/ \E f \in Keys : Upload(r, u, f)
  OBVIOUS
<1>i. req[r].pc = "idle" /\ req[r].file = None
  BY <1>0, PlaceOfKind DEF Report, MarkReadStart, SendStart, Upload
<1>f. ASSUME NEW f, Fresh(f) PROVE f \notin attached /\ \A i \in DOMAIN msg : msg[i].file # f \/ f = None
  BY <1>f DEF Fresh, MessageInv, FilesKept
<1>1. CASE Report(r, u)
  <2> DEFINE s == [Idle EXCEPT !.pc = "log", !.op = "report", !.user = u]
  <2>1. Typed(s) /\ s.file = None /\ s.op = "report"
    BY DEF Idle, Typed, Places, Ops, Fields
  <2>2. Become(r, s) /\ UNCHANGED Rest
    BY <1>1 DEF Report, Rest
  <2> HIDE DEF s
  <2> QED
    BY <1>i, <2>1, <2>2, MessagesOnward DEF Onward, Passed, Rest
<1>2. ASSUME NEW j \in Jobs, MarkReadStart(r, u, j) PROVE MessageInv'
  <2> DEFINE s == [Idle EXCEPT !.pc = "latest", !.op = "read", !.user = u, !.job = j]
  <2>1. Typed(s) /\ s.file = None /\ s.op = "read"
    BY DEF Idle, Typed, Places, Ops, Fields
  <2>2. Become(r, s) /\ UNCHANGED Rest
    BY <1>2 DEF MarkReadStart, Rest
  <2> HIDE DEF s
  <2> QED
    BY <1>i, <2>1, <2>2, MessagesOnward DEF Onward, Passed, Rest
<1>3. ASSUME NEW j \in Jobs, NEW x \in Texts, NEW f \in Keys \cup {None}, SendStart(r, u, j, x, f) PROVE MessageInv'
  <2> DEFINE s == [Idle EXCEPT !.pc = "job", !.op = "send", !.user = u, !.job = j, !.text = x, !.file = f]
  <2>2. Typed(s) /\ s.file = f /\ s.op = "send" /\ s.pc = "job" /\ s.open
    BY DEF Idle, Typed, Places, Ops, Fields
  <2>3. Become(r, s) /\ UNCHANGED Rest /\ (f # None => Fresh(f))
    BY <1>3 DEF SendStart, Rest
  <2> HIDE DEF s
  <2>4. f # None => f \notin attached /\ \A i \in DOMAIN msg : msg[i].file # f
    BY <1>f, <2>3
  <2> QED
    BY <1>i, <2>2, <2>3, <2>4, MessagesOnward DEF Onward, Passed, Stored, Rest
<1>4. ASSUME NEW f \in Keys, Upload(r, u, f) PROVE MessageInv'
  <2> DEFINE s == [Idle EXCEPT !.pc = "upload", !.op = "upload", !.user = u, !.file = f]
  <2>1. f # None
    BY MessagingAssumption
  <2>2. Typed(s) /\ s.file = f /\ s.op = "upload" /\ s.pc = "upload"
    BY <2>1 DEF Idle, Typed, Places, Ops, Fields
  <2>3. Become(r, s) /\ UNCHANGED Rest /\ Fresh(f)
    BY <1>4 DEF Upload, Rest
  <2> HIDE DEF s
  <2>4. f \notin attached /\ \A i \in DOMAIN msg : msg[i].file # f
    BY <1>f, <2>1, <2>3
  <2> QED
    BY <1>i, <2>2, <2>3, <2>4, MessagesOnward DEF Onward, Passed, Stored, Rest
<1> QED
  BY <1>0, <1>1, <1>2, <1>3, <1>4

LEMMA SendSteps ==
  ASSUME MessageInv, UNCHANGED adm, NEW r \in Requests,
         \/ SendJob(r) \/ SendBlocked(r) \/ Score(r) \/ GateRead(r) \/ GateFails(r) \/ Punish(r) \/ ScoreFails(r)
  PROVE  MessageInv'
<1> USE DEF place, offences, thread, files, general, At
<1> DEFINE s == req[r]
<1>p. UNCHANGED Rest
  BY DEF Rest, SendJob, SendBlocked, Score, GateRead, GateFails, Gate, Punish, ScoreFails
<1>t. s.op = "send" /\ Typed(s) /\ Gated(s) /\ s.pc \notin Stored \cup {"idle"} /\ DOMAIN s = Fields
  BY PlaceOfKind DEF SendJob, SendBlocked, Score, GateRead, GateFails, Gate, Punish, ScoreFails, Typed, Stored
<1>u. {"block", "score", "gate", "punish", "log", "upload"} \subseteq Places("send")
  BY DEF Places
<1>g. ASSUME NEW pc \in {"score", "gate", "punish", "log"}, Goto(r, pc) PROVE MessageInv'
  BY <1>g, <1>p, <1>t, <1>u, MessagesGoto DEF Rest, Stored
<1>e. ASSUME End(r) PROVE MessageInv'
  BY <1>e, <1>p, <1>t, MessagesEnd DEF Rest
<1>1. CASE SendJob(r)
  <2>1. CASE ThreadOpen(s.user, s.job)
    <3> DEFINE pc == IF s.user = "consumer" THEN "score" ELSE "block"
               x == [s EXCEPT !.pc = pc, !.open = job[s.job].open]
    <3>1. Become(r, x)
      BY <1>1, <2>1 DEF SendJob
    <3>2. Carry(s, x) /\ x.pc \in {"score", "block"} /\ x.op = "send" /\ x.job = s.job /\ x.open = job[s.job].open
      BY <1>1, <1>t, Noted DEF Carry, Typed, SendJob
    <3> HIDE DEF x
    <3> QED
      BY <1>p, <1>t, <1>u, <3>1, <3>2, MessagesGoOn DEF Stored, Passed, Rest
  <2> QED
    BY <1>1, <1>e, <2>1 DEF SendJob
<1>2. CASE SendBlocked(r)
  BY <1>2, <1>g, <1>e DEF SendBlocked, GoOnIf
<1>3. CASE Score(r)
  <2> DEFINE n == SameCount(r)
             a == [s EXCEPT !.pc = "gate", !.n = n]
             b == [s EXCEPT !.pc = "upload", !.shadow = n >= HideAt]
  <2>1. \/ Admin(s.user) /\ Goto(r, "upload")
        \/ Become(r, a)
        \/ Goto(r, "punish")
        \/ s.text \notin OffPlatform /\ Become(r, b)
    BY <1>3 DEF Score, Goto
  <2>2. CASE Admin(s.user) /\ Goto(r, "upload")
    BY <1>p, <1>t, <1>u, <2>2, MessagesGoto DEF Stored, Rest
  <2>3. CASE Become(r, a)
    <3>1. Carry(s, a) /\ a.pc = "gate" /\ a.op = "send" /\ a.job = s.job /\ a.open = s.open
      BY <1>t, Noted DEF Carry, Typed
    <3> HIDE DEF a
    <3> QED
      BY <1>p, <1>t, <1>u, <2>3, <3>1, MessagesGoOn DEF Stored, Passed, Gated, Rest
  <2>4. CASE s.text \notin OffPlatform /\ Become(r, b)
    <3>0. (n >= HideAt) \in BOOLEAN
      OBVIOUS
    <3>1. Carry(s, b) /\ b.pc = "upload" /\ b.op = "send" /\ b.job = s.job /\ b.open = s.open /\ b.text = s.text
      BY <1>t, <3>0, Noted DEF Carry, Typed
    <3> HIDE DEF b
    <3> QED
      BY <1>p, <1>t, <1>u, <2>4, <3>1, MessagesGoOn DEF Stored, Passed, Gated, Rest
  <2> QED
    BY <1>g, <2>1, <2>2, <2>3, <2>4
<1>4. ASSUME NEW ok, Gate(r, ok), ok => exchange[s.job] = "APPROVED" PROVE MessageInv'
  <2>1. MayShare(r, ok) => Shares(s.job)
    BY <1>4, <1>t DEF MayShare, Gated, Shares
  <2>2. CASE MayShare(r, ok) /\ Goto(r, "upload")
    BY <1>p, <1>t, <1>u, <2>1, <2>2, MessagesGoto DEF Stored, Rest
  <2> QED
    BY <1>4, <1>g, <2>2 DEF Gate
<1>5. CASE Punish(r)
  BY <1>5, <1>e DEF Punish
<1>6. CASE ScoreFails(r)
  <2> DEFINE x == [s EXCEPT !.pc = "upload", !.unscored = TRUE]
  <2>1. Carry(s, x) /\ x.pc = "upload" /\ x.op = "send" /\ x.job = s.job /\ x.open = s.open /\ x.unscored
    BY <1>t, Noted DEF Carry, Typed
  <2>2. Become(r, x)
    BY <1>6 DEF ScoreFails
  <2> HIDE DEF x
  <2> QED
    BY <1>p, <1>t, <1>u, <2>1, <2>2, MessagesGoOn DEF Stored, Passed, Gated, Rest
<1> QED
  BY <1>1, <1>2, <1>3, <1>4, <1>5, <1>6 DEF GateRead, GateFails

LEMMA LaterSteps ==
  ASSUME MessageInv, UNCHANGED adm, NEW r \in Requests,
         \/ LogOffence(r) \/ LogLost(r) \/ CountOffences(r) \/ RestrictUser(r)
         \/ BeginInsert(r) \/ InsertFails(r) \/ LatestRead(r) \/ MarkRead(r)
  PROVE  MessageInv'
<1> USE DEF place, offences, thread, files, general, At
<1> DEFINE s == req[r]
<1>p. UNCHANGED Rest
  BY DEF Rest, LogOffence, LogLost, CountOffences, RestrictUser, BeginInsert, InsertFails, LatestRead, MarkRead
<1>t. Typed(s) /\ Gated(s) /\ s.pc # "idle" /\ DOMAIN s = Fields
  BY PlaceOfKind DEF LogOffence, LogLost, CountOffences, RestrictUser, BeginInsert, InsertFails, LatestRead,
                     MarkRead, Typed
<1>1. CASE LogOffence(r) \/ LogLost(r)
  <2>1. s.op \in {"send", "report"} /\ s.pc = "log" /\ Goto(r, "count")
    BY <1>1, PlaceOfKind DEF LogOffence, LogLost
  <2> QED
    BY <1>p, <1>t, <2>1, MessagesGoto DEF Rest, Stored, Places
<1>2. CASE CountOffences(r)
  <2>0. s.op \in {"send", "report"} /\ s.pc = "count"
    BY <1>2, PlaceOfKind DEF CountOffences
  <2>1. CASE End(r)
    BY <1>p, <2>0, <2>1, MessagesEnd DEF Rest, Stored
  <2>2. CASE ~End(r)
    <3> DEFINE n == now + Length(Kind(r), Recent(s.user, Kind(r)))
               x == [s EXCEPT !.pc = "restrict", !.n = n]
    <3>1. Become(r, x)
      BY <1>2, <2>2 DEF CountOffences
    <3>2. Carry(s, x) /\ x.pc = "restrict" /\ x.op = s.op /\ x.job = s.job /\ x.open = s.open
      BY <1>t, <2>0, Noted DEF Carry, Typed
    <3> HIDE DEF x
    <3> QED
      BY <1>p, <1>t, <2>0, <3>1, <3>2, MessagesGoOn DEF Stored, Passed, Gated, Rest, Places
  <2> QED
    BY <2>1, <2>2
<1>3. CASE RestrictUser(r) \/ MarkRead(r)
  BY <1>3, <1>p, MessagesEnd DEF RestrictUser, MarkRead, Rest, Stored
<1>4. CASE BeginInsert(r)
  <2> DEFINE x == [s EXCEPT !.pc = "commit", !.at = now]
  <2>0. s.op \in {"send", "upload"} /\ s.pc = "begin" /\ Become(r, x) /\ now \in Nat
    BY <1>4, PlaceOfKind DEF BeginInsert, Stored, MessageInv, Shapes
  <2>1. /\ Carry(s, x) /\ x.pc = "commit" /\ x.op = s.op /\ x.job = s.job /\ x.open = s.open
        /\ x.text = s.text /\ x.user = s.user /\ x.unscored = s.unscored
    BY <1>t, <2>0, Noted DEF Carry, Typed
  <2> HIDE DEF x
  <2> QED
    BY <1>p, <1>t, <2>0, <2>1, MessagesGoOn DEF Stored, Passed, Gated, Rest, Places
<1>5. CASE InsertFails(r)
  <2>0. s.op \in {"send", "upload"} /\ s.pc \in Stored
    BY <1>5, PlaceOfKind DEF InsertFails, Stored
  <2>1. CASE s.file # None /\ Goto(r, "rollback")
    BY <1>p, <1>t, <2>0, <2>1, MessagesGoto DEF Rest, Stored, Places
  <2>2. CASE s.file = None /\ End(r)
    BY <1>p, <2>2, MessagesEnd DEF Rest
  <2> QED
    BY <1>5, <2>1, <2>2 DEF InsertFails, AfterFailure, GoOnIf
<1>6. CASE LatestRead(r)
  <2> DEFINE v == ReadAt(s.user, s.job)
             e == Shown(s.user, s.job)
             x == [s EXCEPT !.pc = "mark", !.at = v, !.seen = e]
  <2>0. s.op = "read" /\ s.pc = "latest" /\ Become(r, x)
    BY <1>6, PlaceOfKind DEF LatestRead
  <2>1. /\ DOMAIN x = DOMAIN s /\ x.pc = "mark" /\ x.op = s.op /\ x.job = s.job /\ x.open = s.open
        /\ x.text = s.text /\ x.user = s.user /\ x.file = s.file
    <3> HIDE DEF v, e
    <3>1. PICK y : y = s /\ DOMAIN y = Fields
      BY <1>t
    <3> QED
      BY <3>1 DEF Fields
  <2> HIDE DEF x
  <2> QED
    BY <1>p, <1>t, <2>0, <2>1, MessagesGoOn DEF Carry, Stored, Passed, Gated, Rest, Places
<1> QED
  BY <1>1, <1>2, <1>3, <1>4, <1>5, <1>6

LEMMA PostSteps ==
  ASSUME MessageInv, UNCHANGED adm, NEW r \in Requests,
         \/ \E p \in Posts, k \in Risks : PostStart(r, p, k)
         \/ PostAssess(r) \/ PostCreate(r) \/ PostSignal(r) \/ PostHide(r) \/ PostScore(r) \/ PostDecide(r)
         \/ PostRestrict(r) \/ PostAnnounce(r) \/ PostFails(r)
  PROVE  MessageInv'
<1> USE DEF place, offences, thread, files, general, At
<1> DEFINE s == req[r]
<1>p. UNCHANGED Rest
  BY DEF Rest, PostStart, PostAssess, PostCreate, PostSignal, PostHide, PostScore, PostDecide, PostRestrict, PostAnnounce,
         PostFails, trustVars
<1>t. s.op = "job" \/ \E p \in Posts, k \in Risks : PostStart(r, p, k)
  BY PlaceOfKind DEF PostAssess, PostCreate, PostSignal, PostHide, PostScore, PostDecide, PostRestrict, PostAnnounce, PostFails
<1>u. /\ Typed(s) /\ Gated(s) /\ DOMAIN s = Fields
      /\ s.op = "job" => s.pc \notin Stored \cup {"idle"} /\ s.file = None
  BY PlaceOfKind DEF Typed
<1>g. ASSUME s.op = "job", NEW pc \in {"create", "signal", "hide", "score", "decide", "impose", "announce"}, Goto(r, pc)
      PROVE  MessageInv'
  <2>1. pc \in Places("job") /\ pc \notin Stored \cup {"idle", "upload"}
    BY DEF Places, Stored
  <2> QED
    BY <1>g, <1>p, <1>u, <2>1, MessagesGoto DEF Rest, Stored
<1>e. ASSUME s.op = "job", End(r) PROVE MessageInv'
  BY <1>e, <1>p, <1>u, MessagesEnd DEF Rest
<1>1. ASSUME NEW p \in Posts, NEW k \in Risks, PostStart(r, p, k) PROVE MessageInv'
  <2> DEFINE x == [Idle EXCEPT !.pc = "assess", !.op = "job", !.user = "consumer", !.job = p, !.text = k]
  <2>1. Typed(x) /\ x.file = None /\ x.op = "job" /\ x.pc = "assess"
    BY DEF Idle, Typed, Places, Ops, Fields
  <2>2. Become(r, x) /\ s.file = None
    BY <1>1, PlaceOfKind DEF PostStart
  <2> HIDE DEF x
  <2> QED
    BY <1>p, <2>1, <2>2, MessagesOnward DEF Onward, Passed, Rest
<1>2. CASE PostAssess(r)
  <2> DEFINE n == RecentPosts
             x == [s EXCEPT !.pc = "create", !.n = n]
  <2>0. s.op = "job" /\ Become(r, x)
    BY <1>2, PlaceOfKind DEF PostAssess
  <2>1. Carry(s, x) /\ x.pc = "create" /\ x.op = s.op /\ x.job = s.job /\ x.open = s.open
    BY <1>u, <2>0, Noted DEF Carry, Typed
  <2> HIDE DEF x
  <2> QED
    BY <1>p, <1>u, <2>0, <2>1, MessagesGoOn DEF Stored, Passed, Gated, Rest, Places
<1>3. CASE PostCreate(r) \/ PostSignal(r) \/ PostHide(r) \/ PostScore(r) \/ PostRestrict(r)
  <2>1. s.op = "job" /\ \E pc \in {"signal", "hide", "score", "decide", "impose", "announce"} : Goto(r, pc)
    BY <1>3, PlaceOfKind DEF PostCreate, PostSignal, PostHide, PostScore, PostRestrict, AfterLog
  <2> QED
    BY <1>g, <2>1
<1>5. CASE PostDecide(r)
  <2>0. s.op = "job"
    BY <1>5, PlaceOfKind DEF PostDecide
  <2>1. CASE Goto(r, "announce")
    BY <1>g, <2>0, <2>1
  <2>2. CASE ~Goto(r, "announce")
    <3> DEFINE n == now + Length("job", Recent("consumer", "job"))
               x == [s EXCEPT !.pc = "impose", !.n = n]
    <3>1. Become(r, x)
      BY <1>5, <2>2 DEF PostDecide, Goto
    <3>2. Carry(s, x) /\ x.pc = "impose" /\ x.op = s.op /\ x.job = s.job /\ x.open = s.open
      BY <1>u, <2>0, Noted DEF Carry, Typed
    <3> HIDE DEF x
    <3> QED
      BY <1>p, <1>u, <2>0, <3>1, <3>2, MessagesGoOn DEF Stored, Passed, Gated, Rest, Places
  <2> QED
    BY <2>1, <2>2
<1>4. CASE PostAnnounce(r) \/ PostFails(r)
  BY <1>4, <1>e, PlaceOfKind DEF PostAnnounce, PostFails
<1> QED
  BY <1>1, <1>2, <1>3, <1>4, <1>5

(* An admin's write changes flags only. *)
LEMMA FlagSet == ASSUME MessageInv, NEW a \in Admins, AdminWrite(a) PROVE MessageInv'
<1>1. PICK t \in Targets, on \in BOOLEAN : t = adm[a].target /\ on = adm[a].on /\ SetFlag(t, on)
  BY DEF MessageInv, Shapes, AdminRequest, AdminWrite
<1>2. UNCHANGED <<exchange, store, attached, lost, req, now>> /\ adm' = [adm EXCEPT ![a].pc = "log"]
  BY DEF AdminWrite, files
<1>3. adm' \in [Admins -> AdminRequest]
  BY <1>2 DEF MessageInv, Shapes, AdminRequest
<1>4. job' \in [Jobs -> JobRow] /\ \A j \in Jobs : job'[j].open = job[j].open
  <2>1. job' = IF t[1] = "job" THEN [job EXCEPT ![t[2]].hidden = on] ELSE job
    BY <1>1 DEF SetFlag
  <2>2. job \in [Jobs -> JobRow]
    BY DEF MessageInv, Shapes
  <2>3. CASE t[1] = "job"
    <3> DEFINE j == t[2]
    <3>1. job' = [job EXCEPT ![j].hidden = on]
      BY <2>1, <2>3
    <3> HIDE DEF j
    <3> QED
      BY <2>2, <3>1 DEF JobRow
  <2> QED
    BY <2>1, <2>2, <2>3
<1>5. /\ msg' \in Seq(Message) /\ DOMAIN msg' = DOMAIN msg
      /\ \A i \in DOMAIN msg : /\ msg'[i].by = msg[i].by /\ msg'[i].job = msg[i].job /\ msg'[i].text = msg[i].text
                               /\ msg'[i].file = msg[i].file /\ msg'[i].unscored = msg[i].unscored
  <2>0. msg \in Seq(Message) /\ DOMAIN msg = 1..Len(msg)
    BY LenProperties DEF MessageInv, Shapes
  <2>1. CASE msg' = msg
    BY <2>0, <2>1
  <2>2. CASE msg' # msg
    <3>0. msg' = msg \/ msg' = [msg EXCEPT ![t[2]] = Flagged(msg[t[2]], on)]
      BY <1>1 DEF SetFlag
    <3> DEFINE i == t[2]
    <3>1. msg' = [msg EXCEPT ![i] = Flagged(msg[i], on)]
      BY <2>2, <3>0
    <3>2. i \in DOMAIN msg
      BY <2>0, <2>2, <3>1
    <3>3. PICK m \in Message : m = msg[i]
      BY <3>2, RowType DEF MessageInv
    <3> DEFINE x == Flagged(m, on)
    <3>4. /\ x \in Message /\ x.by = m.by /\ x.job = m.job /\ x.text = m.text /\ x.file = m.file
          /\ x.unscored = m.unscored
      BY DEF Flagged, Message
    <3>5. msg' = [msg EXCEPT ![i] = x]
      BY <3>1, <3>3
    <3> HIDE DEF x
    <3>6. msg' \in Seq(Message) /\ Len(msg') = Len(msg) /\ \A k \in 1..Len(msg) : msg'[k] = IF k = i THEN x ELSE msg[k]
      BY <2>0, <3>2, <3>4, <3>5, ExceptSeq
    <3> QED
      BY <2>0, <3>3, <3>4, <3>6, LenProperties
  <2> QED
    BY <2>1, <2>2
<1>6. Shapes'
  BY <1>2, <1>3, <1>4, <1>5 DEF MessageInv, Shapes
<1>7. \A r \in Requests : Gated(req[r])' /\ Owns(r)'
  <2>1. ASSUME NEW r \in Requests PROVE Gated(req[r])' /\ Owns(r)'
    <3>1. Gated(req[r]) /\ Owns(r) /\ Typed(req[r])
      BY DEF MessageInv, Shapes
    <3> QED
      BY <1>2, <1>4, <1>5, <3>1 DEF Gated, Passed, Shares, Owns, Typed
  <2> QED
    BY <2>1
<1>8. ContactGated' /\ FilesKept'
  <2>1. \A i \in DOMAIN msg : msg[i].job \in Jobs
    BY RowType DEF MessageInv, Message
  <2> QED
    BY <1>2, <1>4, <1>5, <2>1 DEF MessageInv, ContactGated, FilesKept
<1> QED
  BY <1>6, <1>7, <1>8 DEF MessageInv

LEMMA NextMessages == MessageInv /\ [Next]_vars => MessageInv'
<1> SUFFICES ASSUME MessageInv, [Next]_vars PROVE MessageInv'
  OBVIOUS
<1>t. now \in Nat /\ adm \in [Admins -> AdminRequest]
  BY DEF MessageInv, Shapes
<1>q. ASSUME UNCHANGED <<job, exchange, msg, req, files>>, now' \in Nat, adm' \in [Admins -> AdminRequest]
      PROVE  MessageInv'
  BY <1>q, MessagesQuiet
<1>1. CASE UNCHANGED vars
  BY <1>1, <1>q, <1>t DEF vars, messagingVars, trustVars, place, thread, general
<1>2. CASE MessagingNext /\ UNCHANGED trustVars
  <2>a. UNCHANGED adm
    BY <1>2 DEF trustVars
  <2>1. CASE Tick
    BY <1>q, <1>t, <2>a, <2>1 DEF Tick, place, thread
  <2>2. CASE \E j \in Jobs : JobCloses(j) \/ ExchangeMoves(j)
    BY <2>a, <2>2, JobsMove
  <2>3. CASE \E u, v \in Users : Block(u, v) \/ Unblock(u, v)
    BY <1>q, <1>t, <2>a, <2>3 DEF Block, Unblock, thread, general
  <2>4. ASSUME NEW r \in Requests, NEW f \in Keys, JobUpload(r, f) \/ VerificationUpload(r, f) PROVE MessageInv'
    <3>1. \E u \in Users, g \in Keys : Upload(r, u, g)
      BY <2>4 DEF JobUpload, VerificationUpload, Users
    <3> QED
      BY <2>a, <3>1, StartSteps
  <2> QED
    BY <1>2, <2>a, <2>1, <2>2, <2>3, <2>4, StartSteps, SendSteps, LaterSteps, FilePut, MessageCommitted,
       FileAttached, FileRolledBack, RequestDies DEF MessagingNext
<1>3. ASSUME NEW a \in Admins, NEW t \in Targets, NEW on \in BOOLEAN, AdminStart(a, t, on) PROVE MessageInv'
  BY <1>3, <1>t, <1>q DEF AdminStart, AdminRequest, messagingVars, place, thread, general
<1>4. ASSUME NEW a \in Admins,
             \/ \E u \in {"consumer", "provider"} : Suspend(a, u) \/ Unsuspend(a, u)
             \/ \E j \in Jobs : HideJob(a, j) \/ UnhideJob(a, j) \/ SafetyUnhideJob(a, j)
             \/ \E i \in 1..MaxMessages : HideMessage(a, i) \/ UnhideMessage(a, i) \/ SafetyUnhideMessage(a, i)
             \/ \E on \in BOOLEAN : HandleReport(a, on)
      PROVE  MessageInv'
  <2>1. \E t \in Targets, on \in BOOLEAN : AdminStart(a, t, on)
    BY <1>4 DEF Suspend, Unsuspend, HideJob, UnhideJob, SafetyUnhideJob, HideMessage, UnhideMessage,
                SafetyUnhideMessage, HandleReport, Targets
  <2> QED
    BY <1>3, <2>1
<1>5. ASSUME NEW a \in Admins, AdminLog(a) \/ AdminFails(a) PROVE MessageInv'
  <2>1. NoAdmin \in AdminRequest
    BY DEF NoAdmin, AdminRequest, Targets
  <2> QED
    BY <1>5, <1>t, <1>q, <2>1 DEF AdminLog, AdminFails, messagingVars, place, thread, general
<1>6. CASE (\E u \in Users : Restore(u)) \/ (\E p \in Posts : PostUnhide(p))
  BY <1>6, <1>t, <1>q DEF Restore, PostUnhide, messagingVars, place, thread, general, moderation
<1>7. ASSUME NEW r \in Requests,
             \/ \E p \in Posts, k \in Risks : PostStart(r, p, k)
             \/ PostAssess(r) \/ PostCreate(r) \/ PostSignal(r) \/ PostHide(r) \/ PostScore(r) \/ PostDecide(r)
             \/ PostRestrict(r) \/ PostAnnounce(r) \/ PostFails(r)
      PROVE  MessageInv'
  <2>1. UNCHANGED adm
    BY <1>7 DEF PostStart, PostAssess, PostCreate, PostSignal, PostHide, PostScore, PostDecide, PostRestrict, PostAnnounce,
                PostFails, trustVars, moderation
  <2> QED
    BY <1>7, <2>1, PostSteps
<1>8. CASE \/ \E r \in Requests : (\E n \in Tokens : AiStart(r, n)) \/ AiRead(r) \/ AiReset(r) \/ AiCharge(r)
                                  \/ AiFails(r)
           \/ MonthTurns \/ AiMonthlyReset
  BY <1>8, <1>t, <1>q DEF AiStart, AiRead, AiReset, AiCharge, AiFails, MonthTurns, AiMonthlyReset, messagingVars,
                          place, thread, general, moderation
<1> QED
  BY <1>1, <1>2, <1>4, <1>5, <1>6, <1>7, <1>8, FlagSet DEF Next, TrustNext

(* Contact data and banned keywords are stored only in a thread whose job  *)
(* is closed or whose exchange of contact data was approved, an admin's    *)
(* and what a failure of the scoring let through excepted.                 *)
THEOREM ContactIsGated == Spec => []ContactGated
<1>1. MessageInv => ContactGated
  BY DEF MessageInv
<1> QED
  BY <1>1, InitMessages, NextMessages, PTL DEF Spec

(* Every file of a message or an attachment is in the storage, and what is *)
(* there is theirs or that of a request that goes on or rolls back.        *)
THEOREM FilesAreKept == Spec => []FilesKept
<1>1. MessageInv => FilesKept
  BY DEF MessageInv
<1> QED
  BY <1>1, InitMessages, NextMessages, PTL DEF Spec

----------------------------------------------------------------------------
(* Moderation *)

There(t) == t[1] = "message" => t[2] \in DOMAIN msg
Busy(t) == \E a \in Admins : adm[a].pc # "idle" /\ adm[a].target = t

(* The last event of the audit trail says how a target stands; between a   *)
(* request's write and its event, that is what the request carries.        *)
Accounted(t) ==
    /\ trail[t] # "none" \/ Busy(t) => There(t)
    /\ t \notin spoilt => /\ trail[t] # "none" /\ Logging(t) = {} => (Flag(t) <=> trail[t] = "on")
                          /\ \A a \in Logging(t) : /\ \A b \in Logging(t) : b = a
                                                   /\ Flag(t) <=> adm[a].on

ModerationInv == /\ trail \in [Targets -> {"none", "on", "off"}]
                 /\ \A t \in Targets : Accounted(t)

LEMMA InitModeration == Init => ModerationInv
BY DEF Init, ModerationInv, Accounted, Busy, Logging, NoAdmin

LEMMA KindsOfTargets ==
  ASSUME NEW t \in Targets
  PROVE  /\ t = <<t[1], t[2]>> /\ t[1] \in {"user", "job", "message", "report"}
         /\ t[1] = "job" => t[2] \in Jobs
         /\ t[1] = "report" => t[2] = 1
BY DEF Targets

(* Nobody else touches what is flagged. *)
KeepsFlags == /\ UNCHANGED suspended
              /\ \A j \in Jobs : job'[j].hidden = job[j].hidden
              /\ \A i \in DOMAIN msg : i \in DOMAIN msg' /\ msg'[i].hidden = msg[i].hidden

LEMMA FlagKept ==
  ASSUME NEW t \in Targets, There(t), KeepsFlags, UNCHANGED closed
  PROVE  (Flag(t)' <=> Flag(t)) /\ There(t)'
BY KindsOfTargets DEF Flag, There, KeepsFlags

LEMMA ModerationQuiet ==
  ASSUME ModerationInv, KeepsFlags, UNCHANGED moderation
  PROVE  ModerationInv'
<1>1. UNCHANGED <<adm, closed, trail, spoilt>>
  BY DEF moderation
<1>2. ASSUME NEW t \in Targets PROVE Accounted(t)'
  <2>1. Accounted(t) /\ (trail[t] # "none" \/ Busy(t) <=> (trail[t] # "none" \/ Busy(t))')
        /\ Logging(t)' = Logging(t) /\ \A a \in Logging(t) : Busy(t)
    BY <1>1 DEF ModerationInv, Busy, Logging
  <2>2. CASE trail[t] # "none" \/ Busy(t)
    <3>1. (Flag(t)' <=> Flag(t)) /\ There(t)'
      BY <1>1, <2>1, <2>2, FlagKept DEF Accounted
    <3> QED
      BY <1>1, <2>1, <3>1 DEF Accounted
  <2>3. CASE ~(trail[t] # "none" \/ Busy(t))
    BY <1>1, <2>1, <2>3 DEF Accounted
  <2> QED
    BY <2>2, <2>3
<1> QED
  BY <1>1, <1>2 DEF ModerationInv

LEMMA MessagesKeepFlags == ASSUME MessageInv, MessagingNext, UNCHANGED adm PROVE KeepsFlags
<1> USE DEF general, thread, place
<1>1. CASE UNCHANGED <<suspended, job, msg>>
  BY <1>1 DEF KeepsFlags
<1>2. ASSUME NEW j \in Jobs, JobCloses(j) PROVE KeepsFlags
  <2>1. PICK to : job' = [job EXCEPT ![j] = [open |-> FALSE, to |-> to, hidden |-> job[j].hidden]]
    BY <1>2 DEF JobCloses
  <2> QED
    BY <1>2, <2>1 DEF JobCloses, KeepsFlags, MessageInv, Shapes
<1>3. ASSUME NEW r \in Requests, CommitInsert(r) PROVE KeepsFlags
  <2>1. Typed(req[r]) /\ req[r].pc = "commit" /\ req[r].op = "send"
    BY <1>3 DEF MessageInv, Shapes, CommitInsert, At
  <2>2. PICK q : q = req[r]
    OBVIOUS
  <2>3. PICK m : /\ msg' = Append(msg, m)
                 /\ m = [by |-> q.user, job |-> q.job, text |-> q.text, at |-> q.at,
                         hidden |-> q.shadow, file |-> q.file, unscored |-> q.unscored,
                         late |-> \/ \E i \in DOMAIN msg : msg[i].job = q.job /\ msg[i].at >= q.at
                                  \/ emptyAt[q.job] >= q.at]
    BY <1>3, <2>2 DEF CommitInsert
  <2>4. m \in Message
    BY <2>1, <2>2, <2>3 DEF Message, Typed
  <2>5. DOMAIN msg = 1..Len(msg) /\ DOMAIN msg' = 1..(Len(msg) + 1) /\ Len(msg) \in Nat
        /\ \A i \in DOMAIN msg : msg'[i] = msg[i]
    BY <2>3, <2>4, AppendProperties, LenProperties DEF MessageInv, Shapes
  <2> QED
    BY <1>3, <2>5 DEF CommitInsert, KeepsFlags
<1>4. CASE Tick \/ (\E j \in Jobs : ExchangeMoves(j)) \/ (\E u, v \in Users : Block(u, v) \/ Unblock(u, v))
  BY <1>1, <1>4 DEF Tick, ExchangeMoves, Block, Unblock
<1>5. ASSUME NEW r \in Requests,
             \/ \E u \in Users : \/ Report(r, u)
                                 \/ \E j \in Jobs : \/ MarkReadStart(r, u, j)
                                                    \/ \E t \in Texts, f \in Keys \cup {None} : SendStart(r, u, j, t, f)
             \/ SendJob(r) \/ SendBlocked(r) \/ Score(r) \/ GateRead(r) \/ GateFails(r) \/ Punish(r) \/ ScoreFails(r)
             \/ LogOffence(r) \/ LogLost(r) \/ CountOffences(r) \/ RestrictUser(r)
      PROVE  UNCHANGED <<suspended, job, msg>>
  BY <1>5 DEF Report, MarkReadStart, SendStart, SendJob, SendBlocked, Score, GateRead, GateFails, Gate, Punish,
              ScoreFails, LogOffence, LogLost, CountOffences, RestrictUser
<1>6. ASSUME NEW r \in Requests,
             \/ \E f \in Keys : JobUpload(r, f) \/ VerificationUpload(r, f)
             \/ PutObject(r) \/ BeginInsert(r) \/ CommitAttachment(r) \/ InsertFails(r) \/ Rollback(r)
             \/ LatestRead(r) \/ MarkRead(r) \/ Fail(r)
      PROVE  UNCHANGED <<suspended, job, msg>>
  BY <1>6 DEF JobUpload, VerificationUpload, Upload, PutObject, BeginInsert, CommitAttachment, InsertFails,
              Rollback, LatestRead, MarkRead, Fail
<1> QED
  BY <1>1, <1>2, <1>3, <1>4, <1>5, <1>6 DEF MessagingNext

LEMMA AdminStarts ==
  ASSUME MessageInv, ModerationInv, NEW a \in Admins, NEW t \in Targets, NEW on \in BOOLEAN, AdminStart(a, t, on)
  PROVE  ModerationInv'
<1> DEFINE x == [pc |-> "write", target |-> t, on |-> on]
<1>1. adm' = [adm EXCEPT ![a] = x] /\ adm[a].pc = "idle" /\ There(t)
      /\ UNCHANGED <<closed, trail, spoilt, suspended, job, msg>>
  BY DEF AdminStart, messagingVars, place, thread, general, Exists, There
<1>2. adm'[a] = x /\ \A b \in Admins \ {a} : adm'[b] = adm[b]
  BY <1>1 DEF MessageInv, Shapes
<1>3. x.pc = "write" /\ x.target = t
  OBVIOUS
<1> HIDE DEF x
<1>4. ASSUME NEW u \in Targets PROVE Accounted(u)'
  <2>1. Accounted(u) /\ (Flag(u)' <=> Flag(u)) /\ There(u)' = There(u)
    BY <1>1 DEF ModerationInv, Flag, There
  <2>2. Logging(u)' = Logging(u) /\ \A b \in Logging(u) : b # a
    BY <1>1, <1>2, <1>3 DEF Logging
  <2>3. Busy(u)' => Busy(u) \/ u = t
    BY <1>1, <1>2, <1>3 DEF Busy
  <2> QED
    BY <1>1, <1>2, <2>1, <2>2, <2>3 DEF Accounted, Logging
<1> QED
  BY <1>1, <1>4 DEF ModerationInv

LEMMA AdminWrites ==
  ASSUME MessageInv, ModerationInv, NEW a \in Admins, AdminWrite(a)
  PROVE  ModerationInv'
<1>1. PICK t \in Targets, on \in BOOLEAN : t = adm[a].target /\ on = adm[a].on /\ SetFlag(t, on)
  BY DEF MessageInv, Shapes, AdminRequest, AdminWrite
<1>2. /\ adm' = [adm EXCEPT ![a].pc = "log"] /\ adm[a].pc = "write" /\ UNCHANGED trail
      /\ spoilt' = IF Logging(t) = {} THEN spoilt \ {t} ELSE spoilt \cup {t}
  BY <1>1 DEF AdminWrite
<1>3. adm'[a].pc = "log" /\ adm'[a].target = t /\ adm'[a].on = on /\ \A b \in Admins \ {a} : adm'[b] = adm[b]
  BY <1>1, <1>2 DEF MessageInv, Shapes, AdminRequest
<1>4. There(t)
  BY <1>1, <1>2 DEF ModerationInv, Accounted, Busy
<1>m. DOMAIN msg' = DOMAIN msg /\ \A i \in DOMAIN msg : (t # <<"message", i>> => msg'[i] = msg[i])
  <2>1. t = <<t[1], t[2]>> /\ msg' = IF t[1] = "message" THEN [msg EXCEPT ![t[2]] = Flagged(msg[t[2]], on)] ELSE msg
    BY <1>1, KindsOfTargets DEF SetFlag
  <2>2. PICK i, m : i = t[2] /\ m = Flagged(msg[t[2]], on)
    OBVIOUS
  <2> QED
    BY <2>1, <2>2
<1>j. \A j \in Jobs : t # <<"job", j>> => job'[j] = job[j]
  <2>1. t = <<t[1], t[2]>> /\ job' = IF t[1] = "job" THEN [job EXCEPT ![t[2]].hidden = on] ELSE job
    BY <1>1, KindsOfTargets DEF SetFlag
  <2>2. PICK i, m : i = t[2] /\ m = [job[t[2]] EXCEPT !.hidden = on]
    OBVIOUS
  <2>3. t[1] = "job" => job' = [job EXCEPT ![i] = m]
    BY <2>1, <2>2
  <2> QED
    BY <2>1, <2>2, <2>3 DEF MessageInv, Shapes
<1>u. \A u : u # t[2] \/ t[1] # "user" => (u \in suspended' <=> u \in suspended)
  BY <1>1 DEF SetFlag
<1>c. t # <<"report", 1>> => closed' = closed
  BY <1>1, KindsOfTargets DEF SetFlag
<1>5. Flag(t)' <=> on
  <2>1. CASE t[1] = "user"
    BY <1>1, <2>1 DEF SetFlag, Flag
  <2>2. CASE t[1] = "job"
    <3>1. t[2] \in Jobs /\ job' = [job EXCEPT ![t[2]].hidden = on]
      BY <1>1, <2>2, KindsOfTargets DEF SetFlag
    <3>2. job'[t[2]].hidden = on
      BY <3>1 DEF MessageInv, Shapes, JobRow
    <3> QED
      BY <2>2, <3>2 DEF Flag
  <2>3. CASE t[1] = "message"
    <3>1. PICK m \in Message : m = msg[t[2]] /\ t[2] \in DOMAIN msg
      BY <1>4, <2>3, RowType DEF There, MessageInv
    <3>2. msg' = [msg EXCEPT ![t[2]] = Flagged(m, on)]
      BY <1>1, <2>3, <3>1 DEF SetFlag
    <3>3. Flagged(m, on).hidden = on
      BY DEF Flagged, Message
    <3>4. msg'[t[2]].hidden = on
      BY <3>1, <3>2, <3>3
    <3> QED
      BY <2>3, <3>4 DEF Flag
  <2>4. CASE t[1] = "report"
    BY <1>1, <2>4 DEF SetFlag, Flag
  <2> QED
    BY <2>1, <2>2, <2>3, <2>4, KindsOfTargets
<1>6. ASSUME NEW u \in Targets, u # t, There(u) PROVE Flag(u)' <=> Flag(u)
  <2>1. /\ u = <<u[1], u[2]>> /\ t = <<t[1], t[2]>> /\ u[1] \in {"user", "job", "message", "report"}
        /\ (u[1] = "job" => u[2] \in Jobs) /\ (u[1] = "report" => u[2] = 1)
    BY KindsOfTargets
  <2>2. CASE u[1] = "user"
    <3>1. u[2] # t[2] \/ t[1] # "user"
      BY <1>6, <2>1, <2>2
    <3> QED
      BY <1>u, <2>2, <3>1 DEF Flag
  <2>3. CASE u[1] = "job"
    BY <1>6, <1>j, <2>1, <2>3 DEF Flag
  <2>4. CASE u[1] = "message"
    BY <1>6, <1>m, <2>1, <2>4 DEF Flag, There
  <2>5. CASE u[1] = "report"
    <3>1. t # <<"report", 1>>
      BY <1>6, <2>1, <2>5
    <3> QED
      BY <1>c, <2>5, <3>1 DEF Flag
  <2> QED
    BY <2>1, <2>2, <2>3, <2>4, <2>5
<1>7. ASSUME NEW u \in Targets, u # t PROVE Accounted(u)'
  <2>1. Accounted(u) /\ (There(u)' <=> There(u)) /\ (u \in spoilt' <=> u \in spoilt)
    BY <1>2, <1>m, <1>7 DEF ModerationInv, There
  <2>2. Logging(u)' = Logging(u) /\ a \notin Logging(u)
    BY <1>1, <1>2, <1>3, <1>7 DEF Logging
  <2>3. (Busy(u)' => Busy(u)) /\ \A b \in Logging(u) : Busy(u)
    BY <1>1, <1>2, <1>3, <1>7 DEF Busy, Logging
  <2>4. trail[u] # "none" \/ Busy(u) => There(u) /\ (Flag(u)' <=> Flag(u))
    BY <1>6, <1>7, <2>1 DEF Accounted
  <2> QED
    BY <1>2, <1>3, <2>1, <2>2, <2>3, <2>4 DEF Accounted, Logging
<1>8. Accounted(t)'
  <2>1. There(t)' /\ Logging(t)' = Logging(t) \cup {a}
    BY <1>3, <1>4, <1>m DEF There, Logging
  <2>2. t \notin spoilt' => Logging(t)' = {a}
    BY <1>2, <2>1
  <2> QED
    BY <1>2, <1>3, <1>5, <2>1, <2>2 DEF Accounted
<1> QED
  BY <1>2, <1>7, <1>8 DEF ModerationInv

(* The request has answered, or died. *)
LEMMA AdminEnds ==
  ASSUME MessageInv, ModerationInv, NEW a \in Admins, AdminLog(a) \/ AdminFails(a)
  PROVE  ModerationInv'
<1>1. PICK t \in Targets, on \in BOOLEAN : t = adm[a].target /\ on = adm[a].on
  BY DEF MessageInv, Shapes, AdminRequest
<1>2. adm' = [adm EXCEPT ![a] = NoAdmin] /\ UNCHANGED <<suspended, job, msg, closed>>
  BY DEF AdminLog, AdminFails, messagingVars, place, thread, general
<1>3. adm'[a] = NoAdmin /\ NoAdmin.pc = "idle" /\ \A b \in Admins \ {a} : adm'[b] = adm[b]
  BY <1>2 DEF MessageInv, Shapes, NoAdmin
<1>4. \/ /\ adm[a].pc = "log" /\ spoilt' = spoilt
         /\ trail' = [trail EXCEPT ![t] = IF on THEN "on" ELSE "off"]
      \/ /\ trail' = trail
         /\ spoilt' = IF adm[a].pc = "log" THEN spoilt \cup {t} ELSE spoilt
  BY <1>1 DEF AdminLog, AdminFails, Recorded
<1>5. \A u \in Targets : /\ (Flag(u)' <=> Flag(u)) /\ (There(u)' <=> There(u))
                         /\ Logging(u)' = Logging(u) \ {a} /\ (Busy(u)' => Busy(u))
  BY <1>2, <1>3 DEF Flag, There, Logging, Busy
<1>6. trail' \in [Targets -> {"none", "on", "off"}]
  BY <1>4 DEF ModerationInv
<1>7. adm[a].pc # "idle"
  BY DEF AdminLog, AdminFails
<1>8. ASSUME NEW u \in Targets, u # t PROVE Accounted(u)'
  <2>1. Accounted(u) /\ a \notin Logging(u) /\ trail'[u] = trail[u] /\ (u \in spoilt' <=> u \in spoilt)
    BY <1>1, <1>4, <1>8 DEF ModerationInv, Logging
  <2> QED
    BY <1>3, <1>5, <2>1 DEF Accounted, Logging
<1>9. Accounted(t)'
  <2>0. Accounted(t) /\ Busy(t) /\ (a \in Logging(t) <=> adm[a].pc = "log")
    BY <1>1, <1>7 DEF ModerationInv, Busy, Logging
  <2>1. There(t)'
    BY <1>5, <2>0 DEF Accounted
  <2>2. CASE adm[a].pc = "log" /\ spoilt' = spoilt /\ trail' = [trail EXCEPT ![t] = IF on THEN "on" ELSE "off"]
    <3>1. trail'[t] = IF on THEN "on" ELSE "off"
      BY <2>2 DEF ModerationInv
    <3>2. t \notin spoilt' => Logging(t)' = {} /\ (Flag(t)' <=> on)
      BY <1>1, <1>5, <2>0, <2>2 DEF Accounted
    <3> QED
      BY <2>1, <3>1, <3>2 DEF Accounted
  <2>3. CASE trail' = trail /\ adm[a].pc = "log" /\ spoilt' = spoilt \cup {t}
    BY <2>1, <2>3 DEF Accounted
  <2>4. CASE trail' = trail /\ adm[a].pc # "log" /\ spoilt' = spoilt
    <3>1. Logging(t)' = Logging(t)
      BY <1>5, <2>0, <2>4
    <3> QED
      BY <1>3, <1>5, <2>0, <2>1, <2>4, <3>1 DEF Accounted, Logging
  <2> QED
    BY <1>4, <2>2, <2>3, <2>4
<1> QED
  BY <1>6, <1>8, <1>9 DEF ModerationInv

LEMMA NextModeration == MessageInv /\ ModerationInv /\ [Next]_vars => ModerationInv'
<1> SUFFICES ASSUME MessageInv, ModerationInv, [Next]_vars PROVE ModerationInv'
  OBVIOUS
<1>q. ASSUME UNCHANGED <<suspended, job, msg, moderation>> PROVE ModerationInv'
  BY <1>q, ModerationQuiet DEF KeepsFlags
<1>1. CASE UNCHANGED vars
  BY <1>1, <1>q DEF vars, messagingVars, trustVars, place, thread, general, moderation
<1>2. CASE MessagingNext /\ UNCHANGED trustVars
  BY <1>2, MessagesKeepFlags, ModerationQuiet DEF trustVars, moderation
<1>3. ASSUME NEW a \in Admins,
             \/ \E u \in {"consumer", "provider"} : Suspend(a, u) \/ Unsuspend(a, u)
             \/ \E j \in Jobs : HideJob(a, j) \/ UnhideJob(a, j) \/ SafetyUnhideJob(a, j)
             \/ \E i \in 1..MaxMessages : HideMessage(a, i) \/ UnhideMessage(a, i) \/ SafetyUnhideMessage(a, i)
             \/ \E on \in BOOLEAN : HandleReport(a, on)
      PROVE  ModerationInv'
  <2>1. \E t \in Targets, on \in BOOLEAN : AdminStart(a, t, on)
    BY <1>3 DEF Suspend, Unsuspend, HideJob, UnhideJob, SafetyUnhideJob, HideMessage, UnhideMessage,
                SafetyUnhideMessage, HandleReport, Targets
  <2> QED
    BY <2>1, AdminStarts
<1>4. CASE (\E u \in Users : Restore(u)) \/ (\E p \in Posts : PostUnhide(p))
  BY <1>4, <1>q DEF Restore, PostUnhide, messagingVars, place, thread, general, moderation
<1>5. ASSUME NEW r \in Requests,
             \/ \E p \in Posts, k \in Risks : PostStart(r, p, k)
             \/ PostAssess(r) \/ PostCreate(r) \/ PostSignal(r) \/ PostHide(r) \/ PostScore(r) \/ PostDecide(r)
             \/ PostRestrict(r) \/ PostAnnounce(r) \/ PostFails(r)
      PROVE  ModerationInv'
  BY <1>5, <1>q DEF PostStart, PostAssess, PostCreate, PostSignal, PostHide, PostScore, PostDecide, PostRestrict, PostAnnounce,
                    PostFails, trustVars, place, thread, general, moderation
<1>6. CASE \/ \E r \in Requests : (\E n \in Tokens : AiStart(r, n)) \/ AiRead(r) \/ AiReset(r) \/ AiCharge(r)
                                  \/ AiFails(r)
           \/ MonthTurns \/ AiMonthlyReset
  BY <1>6, <1>q DEF AiStart, AiRead, AiReset, AiCharge, AiFails, MonthTurns, AiMonthlyReset, messagingVars,
                    place, thread, general, moderation
<1> QED
  BY <1>1, <1>2, <1>3, <1>4, <1>5, <1>6, AdminWrites, AdminEnds DEF Next, TrustNext

----------------------------------------------------------------------------
(* Risky posts *)

PostRow == [there : BOOLEAN, risk : Risks, hidden : BOOLEAN, announced : BOOLEAN, at : Nat]

Guarded(p) == post[p].there /\ post[p].risk # "low"
                  => /\ ~post[p].announced
                     /\ post[p].hidden \/ p \in spared \/ \E r \in Posting : req[r].job = p

(* A request posts a job of its own, which is there from its creation on,  *)
(* and hidden, if it must be, from the score on.                           *)
PostsOwn(r) ==
    req[r].op = "job" =>
        /\ req[r].job \in Posts /\ req[r].text \in Risks
        /\ \A q \in Posting \ {r} : req[q].job # req[r].job
        /\ IF req[r].pc \in {"assess", "create"}
             THEN ~post[req[r].job].there
             ELSE post[req[r].job].there /\ post[req[r].job].risk = req[r].text
        /\ req[r].pc \in {"score", "decide", "impose", "announce"} /\ Review(r)
              => post[req[r].job].hidden \/ req[r].job \in spared

PostInv == /\ post \in [Posts -> PostRow]
           /\ \A r \in Requests : PostsOwn(r)
           /\ \A p \in Posts : Guarded(p)

LEMMA InitPosts == Init => PostInv
<1> SUFFICES ASSUME Init PROVE PostInv
  OBVIOUS
<1>1. NoPost \in PostRow /\ ~NoPost.there
  BY DEF NoPost, PostRow, Risks
<1> QED
  BY <1>1, IdleTyped DEF Init, MessagingInit, PostInv, PostsOwn, Guarded

(* What other requests do *)
LEMMA PostsQuiet ==
  ASSUME PostInv, UNCHANGED <<post, spared>>,
         \A q \in Requests : req'[q] = req[q] \/ (req[q].op # "job" /\ req'[q].op # "job")
  PROVE  PostInv'
<1>1. Posting' = Posting /\ \A q \in Posting : req'[q] = req[q]
  BY DEF Posting
<1>2. \A r \in Requests : PostsOwn(r)'
  BY <1>1 DEF PostInv, PostsOwn, Posting, Review
<1>3. \A p \in Posts : Guarded(p)'
  BY <1>1 DEF PostInv, Guarded
<1> QED
  BY <1>2, <1>3 DEF PostInv

(* None of the requests of Messaging posts a job. *)
LEMMA MessagesPostNothing ==
  ASSUME MessageInv, MessagingNext
  PROVE  \A q \in Requests : req'[q] = req[q] \/ (req[q].op # "job" /\ req'[q].op # "job")
<1>d. DOMAIN req = Requests /\ \A q \in Requests : Typed(req[q]) /\ DOMAIN req[q] = Fields
  BY DEF MessageInv, Shapes, Typed
<1>1. CASE \/ Tick \/ (\E j \in Jobs : JobCloses(j) \/ ExchangeMoves(j))
           \/ \E u, v \in Users : Block(u, v) \/ Unblock(u, v)
  BY <1>1 DEF Tick, JobCloses, ExchangeMoves, Block, Unblock
<1>2. ASSUME NEW r \in Requests, NEW t, Become(r, t), req[r].op # "job", t.op # "job"
      PROVE  \A q \in Requests : req'[q] = req[q] \/ (req[q].op # "job" /\ req'[q].op # "job")
  BY <1>2, <1>d DEF Become
<1>3. ASSUME NEW r \in Requests, At(r, "idle"), \E t : Become(r, t) /\ t.op # "job"
      PROVE  \A q \in Requests : req'[q] = req[q] \/ (req[q].op # "job" /\ req'[q].op # "job")
  BY <1>2, <1>3, PlaceOfKind DEF At
<1>4. ASSUME NEW r \in Requests,
             \E u \in Users : \/ Report(r, u)
                              \/ \E j \in Jobs : \/ MarkReadStart(r, u, j)
                                                 \/ \E t \in Texts, f \in Keys \cup {None} : SendStart(r, u, j, t, f)
                              \/ \E f \in Keys : Upload(r, u, f)
      PROVE  At(r, "idle") /\ \E t : Become(r, t) /\ t.op # "job"
  <2>1. PICK u \in Users : \/ Report(r, u)
                           \/ \E j \in Jobs : \/ MarkReadStart(r, u, j)
                                              \/ \E t \in Texts, f \in Keys \cup {None} : SendStart(r, u, j, t, f)
                           \/ \E f \in Keys : Upload(r, u, f)
    BY <1>4
  <2>2. CASE Report(r, u)
    <3>1. [Idle EXCEPT !.pc = "log", !.op = "report", !.user = u].op = "report"
      BY DEF Idle
    <3>2. Become(r, [Idle EXCEPT !.pc = "log", !.op = "report", !.user = u])
      BY <2>2 DEF Report
    <3> QED
      BY <2>2, <3>1, <3>2 DEF Report, Free
  <2>3. CASE \E j \in Jobs : MarkReadStart(r, u, j)
    <3>0. PICK j \in Jobs : MarkReadStart(r, u, j)
      BY <2>3
    <3>1. [Idle EXCEPT !.pc = "latest", !.op = "read", !.user = u, !.job = j].op = "read"
      BY DEF Idle
    <3>2. Become(r, [Idle EXCEPT !.pc = "latest", !.op = "read", !.user = u, !.job = j])
      BY <3>0 DEF MarkReadStart
    <3> QED
      BY <3>0, <3>1, <3>2 DEF MarkReadStart, Free
  <2>4. CASE \E j \in Jobs, t \in Texts, f \in Keys \cup {None} : SendStart(r, u, j, t, f)
    <3>0. PICK j \in Jobs, t \in Texts, f \in Keys \cup {None} : SendStart(r, u, j, t, f)
      BY <2>4
    <3>1. [Idle EXCEPT !.pc = "job", !.op = "send", !.user = u, !.job = j, !.text = t, !.file = f].op = "send"
      BY DEF Idle
    <3>2. Become(r, [Idle EXCEPT !.pc = "job", !.op = "send", !.user = u, !.job = j, !.text = t, !.file = f])
      BY <3>0 DEF SendStart
    <3> QED
      BY <3>0, <3>1, <3>2 DEF SendStart, Free
  <2>5. CASE \E f \in Keys : Upload(r, u, f)
    <3>0. PICK f \in Keys : Upload(r, u, f)
      BY <2>5
    <3>1. [Idle EXCEPT !.pc = "upload", !.op = "upload", !.user = u, !.file = f].op = "upload"
      BY DEF Idle
    <3>2. Become(r, [Idle EXCEPT !.pc = "upload", !.op = "upload", !.user = u, !.file = f])
      BY <3>0 DEF Upload
    <3> QED
      BY <3>0, <3>1, <3>2 DEF Upload, Free
  <2> QED
    BY <2>1, <2>2, <2>3, <2>4, <2>5
<1>5. ASSUME NEW r \in Requests, End(r), req[r].op # "job"
      PROVE  \A q \in Requests : req'[q] = req[q] \/ (req[q].op # "job" /\ req'[q].op # "job")
  BY <1>2, <1>5, IdleTyped DEF End
<1>6. ASSUME NEW r \in Requests, NEW pc, Goto(r, pc), req[r].op # "job"
      PROVE  \A q \in Requests : req'[q] = req[q] \/ (req[q].op # "job" /\ req'[q].op # "job")
  <2>1. PICK t : t = [req[r] EXCEPT !.pc = pc]
    OBVIOUS
  <2>2. t.op = req[r].op
    BY <1>d, <2>1, Moved
  <2> QED
    BY <1>2, <1>6, <2>1, <2>2 DEF Goto
<1>7. ASSUME NEW r \in Requests,
             \/ SendBlocked(r) \/ GateRead(r) \/ GateFails(r) \/ Punish(r)
             \/ LogOffence(r) \/ LogLost(r) \/ RestrictUser(r)
             \/ PutObject(r) \/ CommitInsert(r) \/ CommitAttachment(r) \/ InsertFails(r) \/ Rollback(r)
             \/ MarkRead(r) \/ Fail(r)
      PROVE  req[r].op # "job" /\ (End(r) \/ \E pc : Goto(r, pc))
  <2>1. req[r].op # "job"
    BY <1>7, PlaceOfKind DEF SendBlocked, GateRead, GateFails, Gate, Punish, LogOffence, LogLost, RestrictUser,
         PutObject, CommitInsert, CommitAttachment, InsertFails, Rollback, MarkRead, Fail, At, Stored
  <2> QED
    BY <1>7, <2>1 DEF SendBlocked, GateRead, GateFails, Gate, Punish, LogOffence, LogLost, RestrictUser,
         PutObject, CommitInsert, CommitAttachment, InsertFails, Rollback, MarkRead, Fail, GoOnIf, AfterFailure
<1>8. ASSUME NEW r \in Requests,
             SendJob(r) \/ Score(r) \/ ScoreFails(r) \/ CountOffences(r) \/ BeginInsert(r) \/ LatestRead(r)
      PROVE  \A q \in Requests : req'[q] = req[q] \/ (req[q].op # "job" /\ req'[q].op # "job")
  <2>1. req[r].op # "job" /\ DOMAIN req[r] = Fields
    BY <1>8, <1>d, PlaceOfKind DEF SendJob, Score, ScoreFails, CountOffences, BeginInsert, LatestRead, At, Stored
  <2>2. PICK s : s = req[r] /\ DOMAIN s = Fields /\ s.op # "job"
    BY <2>1
  <2>3. \/ End(r) \/ \E pc : Goto(r, pc)
        \/ \E pc, v : \/ Become(r, [s EXCEPT !.pc = pc, !.n = v]) \/ Become(r, [s EXCEPT !.pc = pc, !.open = v])
                      \/ Become(r, [s EXCEPT !.pc = pc, !.at = v])
                      \/ Become(r, [s EXCEPT !.pc = pc, !.shadow = v])
                      \/ Become(r, [s EXCEPT !.pc = pc, !.unscored = v])
        \/ \E v, e : Become(r, [s EXCEPT !.pc = "mark", !.at = v, !.seen = e])
    <3>1. CASE SendJob(r)
      BY <3>1, <2>2 DEF SendJob
    <3>2. CASE Score(r)
      BY <3>2, <2>2 DEF Score, Goto
    <3>3. CASE ScoreFails(r)
      BY <3>3, <2>2 DEF ScoreFails
    <3>4. CASE CountOffences(r)
      BY <3>4, <2>2 DEF CountOffences
    <3>5. CASE BeginInsert(r)
      BY <3>5, <2>2 DEF BeginInsert
    <3>6. CASE LatestRead(r)
      BY <3>6, <2>2 DEF LatestRead
    <3> QED
      BY <1>8, <3>1, <3>2, <3>3, <3>4, <3>5, <3>6
  <2>4. End(r) \/ (\E pc : Goto(r, pc)) \/ \E t : Become(r, t) /\ t.op # "job"
    <3>1. ASSUME NEW pc, NEW v,
                 \/ Become(r, [s EXCEPT !.pc = pc, !.n = v]) \/ Become(r, [s EXCEPT !.pc = pc, !.open = v])
                 \/ Become(r, [s EXCEPT !.pc = pc, !.at = v])
                 \/ Become(r, [s EXCEPT !.pc = pc, !.shadow = v])
                 \/ Become(r, [s EXCEPT !.pc = pc, !.unscored = v])
          PROVE  \E t : Become(r, t) /\ t.op = s.op
      <4>1. /\ [s EXCEPT !.pc = pc, !.n = v].op = s.op /\ [s EXCEPT !.pc = pc, !.open = v].op = s.op
            /\ [s EXCEPT !.pc = pc, !.at = v].op = s.op /\ [s EXCEPT !.pc = pc, !.shadow = v].op = s.op
            /\ [s EXCEPT !.pc = pc, !.unscored = v].op = s.op
        BY <2>2 DEF Fields
      <4> QED
        BY <3>1, <4>1
    <3>2. ASSUME NEW v, NEW e, Become(r, [s EXCEPT !.pc = "mark", !.at = v, !.seen = e])
          PROVE  \E t : Become(r, t) /\ t.op = s.op
      <4>1. [s EXCEPT !.pc = "mark", !.at = v, !.seen = e].op = s.op
        BY <2>2 DEF Fields
      <4> QED
        BY <3>2, <4>1
    <3> QED
      BY <2>2, <2>3, <3>1, <3>2
  <2> QED
    BY <1>2, <1>5, <1>6, <2>2, <2>4
<1>9. ASSUME NEW r \in Requests, NEW f \in Keys, JobUpload(r, f) \/ VerificationUpload(r, f)
      PROVE  \E u \in Users, g \in Keys : Upload(r, u, g)
  BY <1>9 DEF JobUpload, VerificationUpload, Users
<1> QED
  BY <1>1, <1>3, <1>4, <1>5, <1>6, <1>7, <1>8, <1>9 DEF MessagingNext

(* A post's request goes on with the same job and the same assessment. *)
LEMMA PostGoesOn ==
  ASSUME MessageInv, PostInv, NEW r \in Requests, req[r].op = "job", NEW t, Become(r, t),
         t.op = "job", t.job = req[r].job, t.text = req[r].text, UNCHANGED spared,
         post' \in [Posts -> PostRow], \A p \in Posts \ {req[r].job} : post'[p] = post[p],
         LET new == post'[t.job]
         IN  /\ IF t.pc \in {"assess", "create"} THEN ~new.there ELSE new.there /\ new.risk = t.text
             /\ t.pc \in {"score", "decide", "impose", "announce"} /\ t.text # "low" => new.hidden \/ t.job \in spared
             /\ new.there /\ new.risk # "low" => ~new.announced
  PROVE  PostInv'
<1>1. DOMAIN req = Requests /\ req'[r] = t /\ \A q \in Requests \ {r} : req'[q] = req[q]
  BY DEF MessageInv, Shapes, Become
<1>2. Posting' = Posting /\ r \in Posting /\ \A q \in Posting : req'[q].job = req[q].job
  BY <1>1 DEF Posting
<1>3. PostsOwn(r)'
  BY <1>1, <1>2 DEF PostInv, PostsOwn, Review
<1>4. ASSUME NEW q \in Requests, q # r PROVE PostsOwn(q)'
  BY <1>1, <1>2, <1>4 DEF PostInv, PostsOwn, Posting, Review
<1>5. ASSUME NEW p \in Posts PROVE Guarded(p)'
  <2>1. CASE p = t.job
    BY <1>1, <1>2, <2>1 DEF Guarded
  <2>2. CASE p # t.job
    <3>1. post'[p] = post[p] /\ Guarded(p)
      BY <2>2 DEF PostInv
    <3> QED
      BY <1>2, <3>1 DEF Guarded
  <2> QED
    BY <2>1, <2>2
<1> QED
  BY <1>3, <1>4, <1>5 DEF PostInv

LEMMA PostStarts ==
  ASSUME MessageInv, PostInv, NEW r \in Requests, NEW p \in Posts, NEW k \in Risks, PostStart(r, p, k)
  PROVE  PostInv'
<1> DEFINE t == [Idle EXCEPT !.pc = "assess", !.op = "job", !.user = "consumer", !.job = p, !.text = k]
<1>1. t.op = "job" /\ t.pc = "assess" /\ t.job = p /\ t.text = k
  BY DEF Idle
<1>2. Become(r, t) /\ UNCHANGED <<post, spared>> /\ ~post[p].there /\ \A q \in Requests : req[q].job # p
  BY DEF PostStart, trustVars
<1> HIDE DEF t
<1>3. DOMAIN req = Requests /\ req'[r] = t /\ \A q \in Requests \ {r} : req'[q] = req[q]
  BY <1>2 DEF MessageInv, Shapes, Become
<1>4. req[r].op # "job"
  BY PlaceOfKind DEF PostStart, At
<1>5. Posting' = Posting \cup {r} /\ r \notin Posting
  BY <1>1, <1>3, <1>4 DEF Posting
<1>6. PostsOwn(r)'
  BY <1>1, <1>2, <1>3, <1>5 DEF PostsOwn, Posting
<1>7. ASSUME NEW q \in Requests, q # r PROVE PostsOwn(q)'
  BY <1>1, <1>2, <1>3, <1>5, <1>7 DEF PostInv, PostsOwn, Posting, Review
<1>8. ASSUME NEW b \in Posts PROVE Guarded(b)'
  <2>1. \A q \in Posting : q \in Posting' /\ req'[q].job = req[q].job
    BY <1>3, <1>5 DEF Posting
  <2> QED
    BY <1>2, <2>1 DEF PostInv, Guarded
<1> QED
  BY <1>2, <1>6, <1>7, <1>8 DEF PostInv

LEMMA PostEnds ==
  ASSUME MessageInv, PostInv, NEW r \in Requests, req[r].op = "job", End(r),
         spared \subseteq spared', req[r].job \in spared' \/ req[r].pc = "announce",
         post' \in [Posts -> PostRow], \A p \in Posts \ {req[r].job} : post'[p] = post[p],
         LET old == post[req[r].job]
             new == post'[req[r].job]
         IN  /\ new.there = old.there /\ new.risk = old.risk /\ new.hidden = old.hidden
             /\ new.announced => old.announced \/ (~Review(r) /\ req[r].pc = "announce")
  PROVE  PostInv'
<1>1. DOMAIN req = Requests /\ req'[r] = Idle /\ \A q \in Requests \ {r} : req'[q] = req[q]
  BY DEF MessageInv, Shapes, Become, End
<1>2. Posting' = Posting \ {r} /\ r \in Posting
  BY <1>1, IdleTyped DEF Posting
<1>3. PostsOwn(r)'
  BY <1>1, IdleTyped DEF PostsOwn
<1>4. ASSUME NEW q \in Requests, q # r, req[q].op = "job" PROVE PostsOwn(q)'
  <2>1. q \in Posting /\ PostsOwn(q) /\ req[q].job # req[r].job /\ req[q].job \in Posts
    BY <1>2, <1>4 DEF PostInv, PostsOwn, Posting
  <2> QED
    BY <1>1, <1>2, <1>4, <2>1 DEF PostsOwn, Posting, Review
<1>5. ASSUME NEW q \in Requests, q # r, req[q].op # "job" PROVE PostsOwn(q)'
  BY <1>1, <1>5 DEF PostsOwn
<1>6. ASSUME NEW p \in Posts PROVE Guarded(p)'
  <2>1. CASE p = req[r].job
    <3>1. PostsOwn(r) /\ Guarded(p)
      BY DEF PostInv
    <3> QED
      BY <2>1, <3>1 DEF PostsOwn, Guarded, Review
  <2>2. CASE p # req[r].job
    <3>1. Guarded(p) /\ post'[p] = post[p]
      BY <2>2 DEF PostInv
    <3>2. \A q \in Posting : req[q].job = p => q \in Posting' /\ req'[q].job = p
      BY <1>1, <1>2, <2>2 DEF Posting
    <3> QED
      BY <3>1, <3>2 DEF Guarded
  <2> QED
    BY <2>1, <2>2
<1> QED
  BY <1>3, <1>4, <1>5, <1>6 DEF PostInv

LEMMA PostProceeds ==
  ASSUME MessageInv, PostInv, NEW r \in Requests,
         \/ PostAssess(r) \/ PostCreate(r) \/ PostSignal(r) \/ PostHide(r) \/ PostScore(r) \/ PostDecide(r)
         \/ PostRestrict(r)
  PROVE  PostInv'
<1> DEFINE s == req[r]
           p == s.job
<1>0. /\ s.op = "job" /\ DOMAIN s = Fields /\ PostsOwn(r) /\ Guarded(p)
      /\ p \in Posts /\ s.text \in Risks /\ post \in [Posts -> PostRow] /\ post[p] \in PostRow
  BY PlaceOfKind DEF PostAssess, PostCreate, PostSignal, PostHide, PostScore, PostDecide, PostRestrict, At, Typed, PostInv, PostsOwn
<1>1. UNCHANGED spared
  BY DEF PostAssess, PostCreate, PostSignal, PostHide, PostScore, PostDecide, PostRestrict, trustVars
<1>2. CASE PostAssess(r)
  <2> DEFINE n == RecentPosts
             t == [s EXCEPT !.pc = "create", !.n = n]
  <2>1. t.op = "job" /\ t.job = p /\ t.text = s.text /\ t.pc = "create"
    BY <1>0, Noted
  <2>2. Become(r, t) /\ UNCHANGED post /\ s.pc = "assess"
    BY <1>2 DEF PostAssess, trustVars, At
  <2> HIDE DEF t
  <2> QED
    BY <1>0, <1>1, <2>1, <2>2, PostGoesOn DEF PostsOwn
<1>g. ASSUME NEW pc, Goto(r, pc)
      PROVE  \E t : Become(r, t) /\ t.op = "job" /\ t.job = p /\ t.text = s.text /\ t.pc = pc
  <2>1. LET t == [s EXCEPT !.pc = pc] IN t.op = "job" /\ t.job = p /\ t.text = s.text /\ t.pc = pc
    BY <1>0, Moved
  <2> QED
    BY <1>g, <2>1 DEF Goto
<1>3. CASE PostCreate(r)
  <2> DEFINE new == [NoPost EXCEPT !.there = TRUE, !.risk = s.text, !.at = now]
  <2>1. new \in PostRow /\ new.there /\ new.risk = s.text /\ ~new.announced
    BY <1>0 DEF NoPost, PostRow, MessageInv, Shapes
  <2>2. post' = [post EXCEPT ![p] = new]
    BY <1>3 DEF PostCreate
  <2>3. PICK pc : Goto(r, pc) /\ pc \in {"signal", "hide", "score"} /\ (pc = "score" => s.text = "low")
    BY <1>3 DEF PostCreate, AfterLog, Review
  <2>4. PICK t : Become(r, t) /\ t.op = "job" /\ t.job = p /\ t.text = s.text /\ t.pc = pc
    BY <1>g, <2>3
  <2> HIDE DEF new
  <2>5. post' \in [Posts -> PostRow] /\ post'[p] = new /\ \A q \in Posts \ {p} : post'[q] = post[q]
    BY <1>0, <2>1, <2>2
  <2> QED
    BY <1>0, <1>1, <2>1, <2>3, <2>4, <2>5, PostGoesOn
<1>4. CASE PostSignal(r)
  <2>1. PICK pc : Goto(r, pc) /\ pc \in {"hide", "score"} /\ (pc = "score" => s.text = "low")
    BY <1>4 DEF PostSignal, AfterLog, Review
  <2>2. PICK t : Become(r, t) /\ t.op = "job" /\ t.job = p /\ t.text = s.text /\ t.pc = pc
    BY <1>g, <2>1
  <2>3. UNCHANGED post /\ s.pc = "signal"
    BY <1>4 DEF PostSignal, trustVars, At
  <2> QED
    BY <1>0, <1>1, <2>1, <2>2, <2>3, PostGoesOn DEF PostsOwn, Guarded
<1>5. CASE PostHide(r)
  <2>1. PICK t : Become(r, t) /\ t.op = "job" /\ t.job = p /\ t.text = s.text /\ t.pc = "score"
    BY <1>5, <1>g DEF PostHide
  <2>2. post' = [post EXCEPT ![p].hidden = TRUE] /\ s.pc = "hide"
    BY <1>5 DEF PostHide, At
  <2>3. /\ post' \in [Posts -> PostRow] /\ \A q \in Posts \ {p} : post'[q] = post[q]
        /\ post'[p].hidden /\ post'[p].there = post[p].there /\ post'[p].risk = post[p].risk
        /\ post'[p].announced = post[p].announced
    BY <1>0, <2>2 DEF PostRow
  <2>4. post[p].there /\ post[p].risk = s.text /\ (post[p].risk # "low" => ~post[p].announced)
    BY <1>0, <2>2 DEF PostsOwn, Guarded
  <2> QED
    BY <1>0, <1>1, <2>1, <2>3, <2>4, PostGoesOn
<1>6. CASE PostScore(r) \/ PostRestrict(r) \/ (PostDecide(r) /\ Goto(r, "announce"))
  <2>1. PICK pc : /\ Goto(r, pc) /\ pc \in {"decide", "announce"} /\ UNCHANGED post
                  /\ s.pc \in {"score", "decide", "impose"}
    BY <1>6 DEF PostScore, PostDecide, PostRestrict, trustVars, At
  <2>2. PICK t : Become(r, t) /\ t.op = "job" /\ t.job = p /\ t.text = s.text /\ t.pc = pc
    BY <1>g, <2>1
  <2> QED
    BY <1>0, <1>1, <2>1, <2>2, PostGoesOn DEF PostsOwn, Guarded, Review
<1>7. CASE PostDecide(r) /\ ~Goto(r, "announce")
  <2> DEFINE n == now + Length("job", Recent("consumer", "job"))
             t == [s EXCEPT !.pc = "impose", !.n = n]
  <2>1. t.op = "job" /\ t.job = p /\ t.text = s.text /\ t.pc = "impose"
    BY <1>0, Noted
  <2>2. Become(r, t) /\ UNCHANGED post /\ s.pc = "decide"
    BY <1>7 DEF PostDecide, Goto, trustVars, At
  <2> HIDE DEF t
  <2> QED
    BY <1>0, <1>1, <2>1, <2>2, PostGoesOn DEF PostsOwn, Guarded, Review
<1> QED
  BY <1>2, <1>3, <1>4, <1>5, <1>6, <1>7

LEMMA PostFinishes ==
  ASSUME MessageInv, PostInv, NEW r \in Requests, PostAnnounce(r) \/ PostFails(r)
  PROVE  PostInv'
<1> DEFINE s == req[r]
           p == s.job
<1>0. s.op = "job" /\ p \in Posts /\ post \in [Posts -> PostRow] /\ post[p] \in PostRow /\ End(r)
  BY PlaceOfKind DEF PostAnnounce, PostFails, At, PostInv, PostsOwn
<1>1. CASE PostAnnounce(r)
  <2>1. PICK b \in BOOLEAN : b = ~Review(r)
    OBVIOUS
  <2>2. post' = [post EXCEPT ![p].announced = b] /\ UNCHANGED spared /\ s.pc = "announce"
    BY <1>1, <2>1 DEF PostAnnounce, At
  <2>3. /\ post' \in [Posts -> PostRow] /\ \A q \in Posts \ {p} : post'[q] = post[q]
        /\ post'[p].hidden = post[p].hidden /\ post'[p].there = post[p].there /\ post'[p].risk = post[p].risk
        /\ post'[p].announced = b
    BY <1>0, <2>2 DEF PostRow
  <2> QED
    BY <1>0, <2>1, <2>2, <2>3, PostEnds
<1>2. CASE PostFails(r)
  <2>1. spared' = spared \cup {p} /\ UNCHANGED post
    BY <1>2 DEF PostFails
  <2>2. spared \subseteq spared' /\ p \in spared'
    BY <2>1
  <2>3. post' \in [Posts -> PostRow] /\ \A q \in Posts \ {p} : post'[q] = post[q]
    BY <1>0, <2>1
  <2> QED
    BY <1>0, <2>1, <2>2, <2>3, PostEnds
<1> QED
  BY <1>1, <1>2

LEMMA NextPosts == MessageInv /\ PostInv /\ [Next]_vars => PostInv'
<1> SUFFICES ASSUME MessageInv, PostInv, [Next]_vars PROVE PostInv'
  OBVIOUS
<1>q. ASSUME UNCHANGED <<post, spared, req>> PROVE PostInv'
  BY <1>q, PostsQuiet
<1>1. CASE UNCHANGED vars
  BY <1>1, <1>q DEF vars, messagingVars, trustVars
<1>2. CASE MessagingNext /\ UNCHANGED trustVars
  BY <1>2, MessagesPostNothing, PostsQuiet DEF trustVars
<1>3. ASSUME NEW a \in Admins, NEW t, NEW on, AdminStart(a, t, on) PROVE UNCHANGED <<post, spared, req>>
  BY <1>3 DEF AdminStart, messagingVars, posting
<1>4. ASSUME NEW a \in Admins,
             \/ \E u \in {"consumer", "provider"} : Suspend(a, u) \/ Unsuspend(a, u)
             \/ \E j \in Jobs : HideJob(a, j) \/ UnhideJob(a, j) \/ SafetyUnhideJob(a, j)
             \/ \E i \in 1..MaxMessages : HideMessage(a, i) \/ UnhideMessage(a, i) \/ SafetyUnhideMessage(a, i)
             \/ \E on \in BOOLEAN : HandleReport(a, on)
      PROVE  PostInv'
  BY <1>3, <1>4, <1>q DEF Suspend, Unsuspend, HideJob, UnhideJob, SafetyUnhideJob, HideMessage, UnhideMessage,
                          SafetyUnhideMessage, HandleReport
<1>5. CASE (\E a \in Admins : AdminWrite(a) \/ AdminLog(a) \/ AdminFails(a)) \/ (\E u \in Users : Restore(u))
  BY <1>5, <1>q DEF AdminWrite, AdminLog, AdminFails, Restore, messagingVars, posting
<1>6. ASSUME NEW p \in Posts, PostUnhide(p) PROVE PostInv'
  <2>1. post' = [post EXCEPT ![p].hidden = FALSE] /\ spared' = spared \cup {p} /\ UNCHANGED req
    BY <1>6 DEF PostUnhide, messagingVars
  <2>2. /\ post' \in [Posts -> PostRow] /\ \A q \in Posts \ {p} : post'[q] = post[q]
        /\ post'[p].there = post[p].there /\ post'[p].risk = post[p].risk /\ post'[p].announced = post[p].announced
    BY <2>1 DEF PostInv, PostRow
  <2> QED
    BY <2>1, <2>2 DEF PostInv, PostsOwn, Guarded, Posting, Review
<1>7. ASSUME NEW r \in Requests,
             \/ \E p \in Posts, k \in Risks : PostStart(r, p, k)
             \/ PostAssess(r) \/ PostCreate(r) \/ PostSignal(r) \/ PostHide(r) \/ PostScore(r) \/ PostDecide(r)
             \/ PostRestrict(r) \/ PostAnnounce(r) \/ PostFails(r)
      PROVE  PostInv'
  BY <1>7, PostStarts, PostProceeds, PostFinishes
<1>8. CASE \/ \E r \in Requests : (\E n \in Tokens : AiStart(r, n)) \/ AiRead(r) \/ AiReset(r) \/ AiCharge(r)
                                  \/ AiFails(r)
           \/ MonthTurns \/ AiMonthlyReset
  BY <1>8, <1>q DEF AiStart, AiRead, AiReset, AiCharge, AiFails, MonthTurns, AiMonthlyReset, messagingVars, posting
<1> QED
  BY <1>1, <1>2, <1>4, <1>5, <1>6, <1>7, <1>8 DEF Next, TrustNext

(* The last event of the audit trail agrees with what the admins' writes   *)
(* left, and no risky post is announced or stays visible.                  *)
THEOREM ModerationIsAccounted == Spec => []ModerationAccounted
<1>1. ModerationInv /\ PostInv => ModerationAccounted
  BY DEF ModerationInv, Accounted, PostInv, Guarded, ModerationAccounted
<1> QED
  BY <1>1, InitMessages, InitModeration, InitPosts, NextMessages, NextModeration, NextPosts, PTL DEF Spec

----------------------------------------------------------------------------
(* Escalation *)

(* At time t the violations that still count reach a step. *)
Lately(u, k, t) == {i \in DOMAIN events[u][k] : events[u][k][i] > t - WindowOf(k)}
Enough(u, k, t) == \E s \in Steps[k] : Cardinality(Lately(u, k, t)) >= s[1]

(* A restriction until end is as long as the violations so far ask for.    *)
Covers(end, u, k) == \A t \in Nat : t >= now /\ Enough(u, k, t) => end > t

(* What u did is being counted, or answered, or was answered.              *)
Escalated(u, k) ==
    \/ \E r \in Requests : At(r, "count") /\ req[r].user = u /\ Kind(r) = k
    \/ \E r \in Requests : At(r, "restrict") /\ req[r].user = u /\ Covers(req[r].n, u, k)
    \/ Covers(until[u], u, k)

EscalationTypes ==
    /\ now \in Nat
    /\ until \in [Users -> Nat]
    /\ events \in [Users -> [Offences -> Seq(Nat)]]
    /\ \A u \in Users, k \in Offences : \A i \in DOMAIN events[u][k] : events[u][k][i] <= now
    /\ DOMAIN req = Requests
    /\ \A r \in Requests : /\ req[r].pc \in {"restrict", "impose"} => req[r].n \in Nat
                           /\ req[r].pc \in {"log", "count", "restrict"} => req[r].user \in Users

Watched == {"message", "report"}

EscalationInv ==
    /\ EscalationTypes
    /\ \A u \in Users \ (pardoned \cup {"admin"}), k \in Watched : Escalated(u, k)

LEMMA InitEscalation == Init => EscalationInv
<1> SUFFICES ASSUME Init PROVE EscalationInv
  OBVIOUS
<1>1. /\ now = 1 /\ until = [u \in Users |-> 0] /\ events = [u \in Users |-> [k \in Offences |-> <<>>]]
      /\ req = [r \in Requests |-> Idle]
  BY DEF Init, MessagingInit
<1>2. EscalationTypes
  <2>1. events \in [Users -> [Offences -> Seq(Nat)]]
    BY <1>1
  <2>2. \A u \in Users, k \in Offences : events[u][k] = <<>>
    BY <1>1
  <2>3. \A u \in Users, k \in Offences : \A i \in DOMAIN events[u][k] : events[u][k][i] <= now
    BY <2>2
  <2>4. DOMAIN req = Requests /\ \A r \in Requests : req[r].pc = "idle"
    BY <1>1, IdleTyped
  <2>5. now \in Nat /\ until \in [Users -> Nat]
    BY <1>1
  <2> QED
    BY <2>1, <2>3, <2>4, <2>5 DEF EscalationTypes
<1>3. ASSUME NEW u \in Users, NEW k \in Watched PROVE Escalated(u, k)
  <2>1. k \in Offences /\ events[u][k] = <<>>
    BY <1>1 DEF Watched, Offences
  <2>2. \A t \in Nat : Lately(u, k, t) = {}
    BY <2>1 DEF Lately
  <2>3. \A s \in Steps[k] : s[1] \in Nat \ {0}
    BY <2>1, MessagingAssumption
  <2>4. \A t \in Nat : ~Enough(u, k, t)
    BY <2>2, <2>3, FS_EmptySet DEF Enough
  <2> QED
    BY <2>4 DEF Escalated, Covers
<1> QED
  BY <1>2, <1>3 DEF EscalationInv

(* What lasts until all that was seen by now is forgotten is long enough.  *)
LEMMA LongEnough ==
  ASSUME EscalationTypes, NEW u \in Users, NEW k \in Watched, NEW end \in Nat, end >= now + Window
  PROVE  Covers(end, u, k)
<1> SUFFICES ASSUME NEW t \in Nat, t >= now, Enough(u, k, t) PROVE end > t
  BY DEF Covers
<1>1. PICK s \in Steps[k] : Cardinality(Lately(u, k, t)) >= s[1]
  BY DEF Enough
<1>2. s[1] \in Nat \ {0} /\ Window \in Nat /\ WindowOf(k) = Window /\ k \in Offences
  BY MessagingAssumption DEF Watched, Offences, WindowOf
<1>3. Lately(u, k, t) # {}
  BY <1>1, <1>2, FS_EmptySet
<1>4. PICK i \in DOMAIN events[u][k] : events[u][k][i] > t - Window
  BY <1>2, <1>3 DEF Lately
<1>5. events[u][k] \in Seq(Nat)
  BY <1>2 DEF EscalationTypes
<1>6. PICK e : e = events[u][k][i]
  OBVIOUS
<1>7. e \in Nat /\ e <= now
  BY <1>2, <1>4, <1>5, <1>6, ElementOfSeq, LenProperties DEF EscalationTypes
<1> QED
  BY <1>2, <1>4, <1>6, <1>7 DEF EscalationTypes

LEMMA LatelyFinite ==
  ASSUME EscalationTypes, NEW u \in Users, NEW k \in Offences, NEW t \in Nat
  PROVE  IsFiniteSet(Lately(u, k, t)) /\ Cardinality(Lately(u, k, t)) \in Nat
<1>1. events[u][k] \in Seq(Nat)
  BY DEF EscalationTypes
<1>2. Len(events[u][k]) \in Int /\ DOMAIN events[u][k] = 1..Len(events[u][k])
  BY <1>1, LenProperties
<1>3. IsFiniteSet(1..Len(events[u][k]))
  <2>1. \A n \in Int : IsFiniteSet(1..n)
    BY FS_Interval
  <2> QED
    BY <1>2, <2>1
<1> QED
  BY <1>2, <1>3, FS_Subset, FS_CardinalityType DEF Lately

(* As time goes by fewer of them count. *)
LEMMA EnoughFades ==
  ASSUME EscalationTypes, NEW u \in Users, NEW k \in Offences, NEW t \in Nat, t >= now, Enough(u, k, t)
  PROVE  Reached(k, Recent(u, k)) # {}
<1>1. PICK s \in Steps[k] : Cardinality(Lately(u, k, t)) >= s[1]
  BY DEF Enough
<1>2. s[1] \in Nat
  BY MessagingAssumption
<1>3. now \in Nat /\ WindowOf(k) \in Nat /\ events[u][k] \in Seq(Nat)
  BY MessagingAssumption DEF EscalationTypes, WindowOf
<1>4. Lately(u, k, t) \subseteq Lately(u, k, now)
  <2>1. \A i \in DOMAIN events[u][k] : events[u][k][i] \in Nat
    BY <1>3, ElementOfSeq, LenProperties
  <2> QED
    BY <1>3, <2>1 DEF Lately
<1>5. Cardinality(Lately(u, k, t)) <= Cardinality(Lately(u, k, now))
  BY <1>3, <1>4, LatelyFinite, FS_Subset
<1>6. Recent(u, k) = Cardinality(Lately(u, k, now)) /\ Recent(u, k) \in Nat
  BY <1>3, LatelyFinite DEF Recent, Lately
<1>7. Cardinality(Lately(u, k, t)) \in Nat
  BY LatelyFinite
<1>8. s \in Reached(k, Recent(u, k))
  BY <1>1, <1>2, <1>5, <1>6, <1>7 DEF Reached
<1> QED
  BY <1>8

(* A set of numbers that is not empty has a least one, and, if it is       *)
(* bounded, a largest one.                                                 *)
LEMMA LeastOf ==
  ASSUME NEW T \in SUBSET Nat, T # {}
  PROVE  \E m \in T : \A x \in T : m <= x
<1> DEFINE R == OpToRel(<, Nat)
<1>1. IsWellFoundedOn(R, Nat)
  BY NatLessThanWellFounded
<1>2. \A x, y \in Nat : x < y => <<x, y>> \in R
  BY DEF OpToRel
<1> HIDE DEF R
<1>3. PICK m \in T : \A x \in T : ~(<<x, m>> \in R)
  BY <1>1, WFMin
<1>4. ASSUME NEW x \in T PROVE m <= x
  <2>1. x \in Nat /\ m \in Nat /\ ~(<<x, m>> \in R)
    BY <1>3
  <2>2. ~(x < m)
    BY <1>2, <2>1
  <2> QED
    BY <2>1, <2>2
<1> QED
  BY <1>4

LEMMA LargestOf ==
  ASSUME NEW T \in SUBSET Nat, T # {}, NEW b \in Nat, \A x \in T : x <= b
  PROVE  \E m \in T : \A x \in T : x <= m
<1> DEFINE D == {b - x : x \in T}
<1>0. ASSUME NEW x \in T PROVE b - x \in Nat
  <2>1. x \in Nat /\ x <= b
    OBVIOUS
  <2> QED
    BY <2>1
<1>1. D # {}
  <2>1. PICK x \in T : TRUE
    OBVIOUS
  <2>2. b - x \in D
    BY <2>1
  <2> QED
    BY <2>2
<1>a. D \in SUBSET Nat
  BY <1>0
<1>2. PICK d \in D : \A e \in D : d <= e
  BY <1>1, <1>a, LeastOf
<1>3. PICK m \in T : d = b - m
  OBVIOUS
<1>4. ASSUME NEW x \in T PROVE x <= m
  <2>1. b - x \in D
    OBVIOUS
  <2>2. b - m <= b - x
    BY <1>2, <1>3, <2>1
  <2> HIDE DEF D
  <2>3. x \in Nat /\ m \in Nat
    OBVIOUS
  <2> QED
    BY <2>2, <2>3, SMT
<1> QED
  BY <1>4

(* The last step that is reached *)
LEMMA LengthType ==
  ASSUME NEW k \in Offences, NEW n \in Nat, Reached(k, n) # {}
  PROVE  Length(k, n) \in Nat /\ Length(k, n) >= Window
<1>1. \A s \in Reached(k, n) : s[1] \in Nat /\ s[1] <= n /\ s[2] \in Nat /\ s[2] >= Window
  BY MessagingAssumption DEF Reached
<1>2. PICK m \in {s[1] : s \in Reached(k, n)} : \A x \in {s[1] : s \in Reached(k, n)} : x <= m
  <2>1. {s[1] : s \in Reached(k, n)} \in SUBSET Nat /\ {s[1] : s \in Reached(k, n)} # {}
    BY <1>1
  <2>2. \A x \in {s[1] : s \in Reached(k, n)} : x <= n
    BY <1>1
  <2> QED
    BY <2>1, <2>2, LargestOf
<1>3. \E s \in Reached(k, n) : \A t \in Reached(k, n) : t[1] <= s[1]
  BY <1>2
<1>4. PICK s \in Reached(k, n) : s = CHOOSE x \in Reached(k, n) : \A t \in Reached(k, n) : t[1] <= x[1]
  BY <1>3
<1> QED
  BY <1>1, <1>4 DEF Length

(* Steps that log nothing, restrict nobody and leave alone who is counted  *)
LEMMA EscalationQuiet ==
  ASSUME EscalationInv, UNCHANGED until, now' \in Nat, now' >= now, pardoned \subseteq pardoned',
         EscalationTypes', \A u \in Users, k \in Watched : events'[u][k] = events[u][k],
         \A q \in Requests : \/ req[q].pc \notin {"count", "restrict"}
                             \/ req'[q] = req[q]
                             \/ req[q].user \in pardoned'
  PROVE  EscalationInv'
<1> SUFFICES ASSUME NEW u \in Users \ (pardoned' \cup {"admin"}), NEW k \in Watched PROVE Escalated(u, k)'
  BY DEF EscalationInv
<1>1. Escalated(u, k)
  BY DEF EscalationInv
<1>2. ASSUME NEW end, Covers(end, u, k) PROVE Covers(end, u, k)'
  <2>1. now \in Nat /\ \A t \in Nat : Enough(u, k, t)' <=> Enough(u, k, t)
    BY DEF Enough, Lately, EscalationInv, EscalationTypes
  <2> QED
    BY <1>2, <2>1 DEF Covers
<1>3. CASE \E r \in Requests : At(r, "count") /\ req[r].user = u /\ Kind(r) = k
  BY <1>3 DEF Escalated, At, Kind
<1>4. CASE \E r \in Requests : At(r, "restrict") /\ req[r].user = u /\ Covers(req[r].n, u, k)
  <2>1. PICK r \in Requests : At(r, "restrict") /\ req[r].user = u /\ Covers(req[r].n, u, k)
    BY <1>4
  <2>2. req'[r] = req[r]
    BY <2>1 DEF At
  <2>3. Covers(req[r].n, u, k)'
    BY <1>2, <2>1, <2>2 DEF Covers
  <2>4. At(r, "restrict")' /\ req'[r].user = u
    BY <2>1, <2>2 DEF At
  <2> QED
    BY <2>3, <2>4 DEF Escalated
<1>5. CASE Covers(until[u], u, k)
  <2>1. Covers(until[u], u, k)'
    BY <1>2, <1>5 DEF Covers
  <2> QED
    BY <2>1 DEF Escalated
<1> QED
  BY <1>1, <1>3, <1>4, <1>5 DEF Escalated

(* A restriction is written. *)
LEMMA EscalationWrites ==
  ASSUME EscalationInv, NEW w \in Users, NEW end \in Nat, Sentence(w, end),
         UNCHANGED <<events, now>>, EscalationTypes', pardoned \ {w} \subseteq pardoned',
         \A q \in Requests : \/ req[q].pc \notin {"count", "restrict"}
                             \/ req'[q] = req[q]
                             \/ req[q].pc = "restrict" /\ req[q].user = w /\ req[q].n = end,
         w \in pardoned' \/ end >= now + Window \/ (w \notin pardoned /\ end >= until[w])
  PROVE  EscalationInv'
<1> SUFFICES ASSUME NEW u \in Users \ (pardoned' \cup {"admin"}), NEW k \in Watched PROVE Escalated(u, k)'
  BY DEF EscalationInv
<1>0. EscalationTypes /\ k \in Offences /\ now \in Nat /\ until \in [Users -> Nat]
  BY DEF EscalationInv, EscalationTypes, Watched, Offences
<1>1. \A e : Covers(e, u, k) <=> Covers(e, u, k)'
  BY DEF Covers, Enough, Lately
<1>2. until' = [until EXCEPT ![w] = end]
  BY DEF Sentence
<1>3. CASE u = w /\ Covers(end, u, k)
  <2>1. until'[u] = end
    BY <1>0, <1>2, <1>3
  <2>2. Covers(until[u], u, k)'
    BY <1>1, <1>3, <2>1 DEF Covers
  <2> QED
    BY <2>2 DEF Escalated
<1>4. CASE u = w /\ end >= now + Window
  BY <1>0, <1>3, <1>4, LongEnough
<1>5. CASE u # w \/ (w \notin pardoned /\ end >= until[w])
  <2>1. Escalated(u, k)
    BY <1>5 DEF EscalationInv
  <2>2. CASE \E r \in Requests : At(r, "count") /\ req[r].user = u /\ Kind(r) = k
    BY <2>2 DEF Escalated, At, Kind
  <2>3. CASE \E r \in Requests : At(r, "restrict") /\ req[r].user = u /\ Covers(req[r].n, u, k)
    <3>1. PICK r \in Requests : At(r, "restrict") /\ req[r].user = u /\ Covers(req[r].n, u, k)
      BY <2>3
    <3>2. CASE req'[r] = req[r]
      <4>1. Covers(req[r].n, u, k)'
        BY <1>1, <3>1, <3>2 DEF Covers
      <4> QED
        BY <3>1, <3>2, <4>1 DEF Escalated, At
    <3>3. CASE u = w /\ req[r].n = end
      BY <1>3, <3>1, <3>3
    <3> QED
      BY <3>1, <3>2, <3>3 DEF At
  <2>4. CASE Covers(until[u], u, k)
    <3>1. CASE u # w
      <4>1. until'[u] = until[u]
        BY <1>0, <1>2, <3>1
      <4>2. Covers(until[u], u, k)'
        BY <1>1, <2>4, <4>1 DEF Covers
      <4> QED
        BY <4>2 DEF Escalated
    <3>2. CASE u = w
      <4>1. Covers(end, u, k)
        BY <1>0, <1>5, <2>4, <3>2 DEF Covers
      <4> QED
        BY <1>3, <3>2, <4>1
    <3> QED
      BY <3>1, <3>2
  <2> QED
    BY <2>1, <2>2, <2>3, <2>4 DEF Escalated
<1> QED
  BY <1>4, <1>5

(* A violation is logged, and will be counted. *)
LEMMA EscalationLogs ==
  ASSUME EscalationInv, NEW r \in Requests, LogOffence(r), EscalationTypes', Kind(r) \in Watched,
         req'[r].pc = "count", req'[r].user = req[r].user, Kind(r)' = Kind(r),
         \A q \in Requests \ {r} : req'[q] = req[q]
  PROVE  EscalationInv'
<1> SUFFICES ASSUME NEW u \in Users \ (pardoned' \cup {"admin"}), NEW k \in Watched PROVE Escalated(u, k)'
  BY DEF EscalationInv
<1>1. /\ req[r].pc = "log" /\ req[r].user \in Users
      /\ UNCHANGED <<now, until, pardoned>>
      /\ events' = [events EXCEPT ![req[r].user][Kind(r)] = Append(@, now)]
  BY DEF LogOffence, At, general, EscalationInv, EscalationTypes
<1>2. CASE u = req[r].user /\ k = Kind(r)
  BY <1>2 DEF Escalated, At
<1>3. CASE ~(u = req[r].user /\ k = Kind(r))
  <2>1. events'[u][k] = events[u][k]
    BY <1>1, <1>3 DEF EscalationInv, EscalationTypes, Watched, Offences
  <2>2. \A e : Covers(e, u, k) <=> Covers(e, u, k)'
    BY <1>1, <2>1 DEF Covers, Enough, Lately
  <2>3. Escalated(u, k)
    BY <1>1 DEF EscalationInv
  <2>4. CASE \E q \in Requests : At(q, "count") /\ req[q].user = u /\ Kind(q) = k
    <3>1. PICK q \in Requests : At(q, "count") /\ req[q].user = u /\ Kind(q) = k
      BY <2>4
    <3>2. req'[q] = req[q]
      BY <1>1, <3>1 DEF At
    <3> QED
      BY <3>1, <3>2 DEF Escalated, At, Kind
  <2>5. CASE \E q \in Requests : At(q, "restrict") /\ req[q].user = u /\ Covers(req[q].n, u, k)
    <3>1. PICK q \in Requests : At(q, "restrict") /\ req[q].user = u /\ Covers(req[q].n, u, k)
      BY <2>5
    <3>2. req'[q] = req[q]
      BY <1>1, <3>1 DEF At
    <3>3. Covers(req[q].n, u, k)'
      BY <2>2, <3>1, <3>2 DEF Covers
    <3> QED
      BY <3>1, <3>2, <3>3 DEF Escalated, At
  <2>6. CASE Covers(until[u], u, k)
    <3>1. Covers(until[u], u, k)'
      BY <1>1, <2>2, <2>6 DEF Covers
    <3> QED
      BY <3>1 DEF Escalated
  <2> QED
    BY <2>3, <2>4, <2>5, <2>6 DEF Escalated
<1> QED
  BY <1>2, <1>3

(* The violations are counted, the request's own included. *)
LEMMA EscalationCounts ==
  ASSUME EscalationInv, NEW r \in Requests, CountOffences(r), EscalationTypes', Kind(r) \in Watched,
         LET n == Recent(req[r].user, Kind(r))
         IN  IF Reached(Kind(r), n) # {} /\ ~Admin(req[r].user)
               THEN req'[r].pc = "restrict" /\ req'[r].user = req[r].user /\ req'[r].n = now + Length(Kind(r), n)
               ELSE req'[r].pc = "idle",
         \A q \in Requests \ {r} : req'[q] = req[q]
  PROVE  EscalationInv'
<1> SUFFICES ASSUME NEW u \in Users \ (pardoned' \cup {"admin"}), NEW k \in Watched PROVE Escalated(u, k)'
  BY DEF EscalationInv
<1>0. /\ EscalationTypes /\ k \in Offences /\ Kind(r) \in Offences
  BY DEF EscalationInv, Watched, Offences
<1>1. req[r].pc = "count" /\ req[r].user \in Users /\ UNCHANGED <<now, until, events, pardoned>> /\ now \in Nat
  BY DEF CountOffences, At, general, offences, EscalationInv, EscalationTypes
<1>2. \A e : Covers(e, u, k) <=> Covers(e, u, k)'
  BY <1>1 DEF Covers, Enough, Lately
<1>n. PICK n : n = Recent(req[r].user, Kind(r))
  OBVIOUS
<1>m. n \in Nat
  <2>1. n = Cardinality(Lately(req[r].user, Kind(r), now))
    BY <1>n DEF Recent, Lately
  <2> QED
    BY <1>0, <1>1, <2>1, LatelyFinite
<1>3. CASE u = req[r].user /\ Reached(Kind(r), n) # {}
  <2>1. req'[r].pc = "restrict" /\ req'[r].user = u /\ req'[r].n = now + Length(Kind(r), n)
    BY <1>3, <1>n DEF Admin
  <2>2. Length(Kind(r), n) \in Nat /\ Length(Kind(r), n) >= Window /\ Window \in Nat
    BY <1>0, <1>m, <1>3, LengthType, MessagingAssumption
  <2>3. Covers(now + Length(Kind(r), n), u, k)
    BY <1>0, <1>1, <2>2, LongEnough
  <2>4. Covers(req[r].n, u, k)'
    BY <1>2, <2>1, <2>3 DEF Covers
  <2> QED
    BY <2>1, <2>4 DEF Escalated, At
<1>4. CASE u = req[r].user /\ k = Kind(r) /\ Reached(Kind(r), n) = {}
  <2>1. Covers(until[u], u, k)
    <3> SUFFICES ASSUME NEW t \in Nat, t >= now, Enough(u, k, t) PROVE FALSE
      BY DEF Covers
    <3> QED
      BY <1>0, <1>n, <1>4, EnoughFades
  <2>2. Covers(until[u], u, k)'
    BY <1>1, <1>2, <2>1 DEF Covers
  <2> QED
    BY <2>2 DEF Escalated
<1>5. CASE u # req[r].user \/ k # Kind(r)
  <2>3. Escalated(u, k)
    BY <1>1 DEF EscalationInv
  <2>4. CASE \E q \in Requests : At(q, "count") /\ req[q].user = u /\ Kind(q) = k
    <3>1. PICK q \in Requests : At(q, "count") /\ req[q].user = u /\ Kind(q) = k
      BY <2>4
    <3>2. req'[q] = req[q]
      BY <1>5, <3>1
    <3> QED
      BY <3>1, <3>2 DEF Escalated, At, Kind
  <2>5. CASE \E q \in Requests : At(q, "restrict") /\ req[q].user = u /\ Covers(req[q].n, u, k)
    <3>1. PICK q \in Requests : At(q, "restrict") /\ req[q].user = u /\ Covers(req[q].n, u, k)
      BY <2>5
    <3>2. req'[q] = req[q]
      BY <1>1, <3>1 DEF At
    <3>3. Covers(req[q].n, u, k)'
      BY <1>2, <3>1, <3>2 DEF Covers
    <3> QED
      BY <3>1, <3>2, <3>3 DEF Escalated, At
  <2>6. CASE Covers(until[u], u, k)
    <3>1. Covers(until[u], u, k)'
      BY <1>1, <1>2, <2>6 DEF Covers
    <3> QED
      BY <3>1 DEF Escalated
  <2> QED
    BY <2>3, <2>4, <2>5, <2>6 DEF Escalated
<1> QED
  BY <1>3, <1>4, <1>5

LEMMA EscalationBecomes ==
  ASSUME EscalationInv, NEW r \in Requests, NEW t, Become(r, t), UNCHANGED <<until, events, pardoned, now>>,
         req[r].pc \notin {"count", "restrict"},
         t.pc \in {"restrict", "impose"} => t.n \in Nat,
         t.pc \in {"log", "count", "restrict"} => t.user \in Users
  PROVE  EscalationInv'
<1>1. EscalationTypes /\ now \in Nat
  BY DEF EscalationInv, EscalationTypes
<1>2. DOMAIN req' = Requests /\ req'[r] = t /\ \A q \in Requests \ {r} : req'[q] = req[q]
  BY <1>1 DEF EscalationTypes, Become
<1>3. EscalationTypes'
  BY <1>1, <1>2 DEF EscalationTypes
<1> QED
  BY <1>1, <1>2, <1>3, EscalationQuiet

(* The steps of a request that have no part in an escalation *)
Aside(r) == \E t : Become(r, t) /\ t.pc \notin {"count", "restrict", "impose"} /\ (t.pc = "log" => t.user \in Users)

Changes(r, pc, v) ==
    \/ Become(r, [req[r] EXCEPT !.pc = pc, !.n = v])
    \/ Become(r, [req[r] EXCEPT !.pc = pc, !.open = v])
    \/ Become(r, [req[r] EXCEPT !.pc = pc, !.at = v])
    \/ Become(r, [req[r] EXCEPT !.pc = pc, !.shadow = v])
    \/ Become(r, [req[r] EXCEPT !.pc = pc, !.unscored = v])
    \/ \E e : Become(r, [req[r] EXCEPT !.pc = pc, !.at = v, !.seen = e])

LEMMA EndsAside ==
  ASSUME MessageInv, NEW r \in Requests, End(r)
  PROVE  Aside(r)
BY IdleTyped DEF End, Aside

LEMMA GoesAside ==
  ASSUME MessageInv, NEW r \in Requests, NEW pc, Goto(r, pc), pc \notin {"count", "restrict", "impose"},
         pc = "log" => req[r].op = "send"
  PROVE  Aside(r)
<1>0. PICK s : s = req[r] /\ DOMAIN s = Fields /\ (s.op = "send" => s.user \in Users)
  BY DEF MessageInv, Shapes, Typed
<1>1. PICK t : t = [s EXCEPT !.pc = pc]
  OBVIOUS
<1>2. t.pc = pc /\ t.user = s.user
  BY <1>0, <1>1, Moved
<1> QED
  BY <1>0, <1>1, <1>2 DEF Goto, Aside

LEMMA ChangesAside ==
  ASSUME MessageInv, NEW r \in Requests, NEW pc, NEW v, Changes(r, pc, v),
         pc \notin {"log", "count", "restrict", "impose"}
  PROVE  Aside(r)
<1>0. PICK s : s = req[r] /\ DOMAIN s = Fields
  BY DEF MessageInv, Shapes, Typed
<1>1. /\ [s EXCEPT !.pc = pc, !.n = v].pc = pc /\ [s EXCEPT !.pc = pc, !.open = v].pc = pc
      /\ [s EXCEPT !.pc = pc, !.at = v].pc = pc /\ [s EXCEPT !.pc = pc, !.shadow = v].pc = pc
      /\ [s EXCEPT !.pc = pc, !.unscored = v].pc = pc
      /\ \A e : [s EXCEPT !.pc = pc, !.at = v, !.seen = e].pc = pc
  BY <1>0 DEF Fields
<1>2. \E t : Become(r, t) /\ t.pc = pc
  BY <1>0, <1>1 DEF Changes
<1> QED
  BY <1>2 DEF Aside

LEMMA StartsAside ==
  ASSUME MessageInv, NEW r \in Requests,
         \/ \E u \in Users : \/ Report(r, u)
                             \/ \E j \in Jobs : \/ MarkReadStart(r, u, j)
                                                \/ \E t \in Texts, f \in Keys \cup {None} : SendStart(r, u, j, t, f)
                             \/ \E f \in Keys : Upload(r, u, f)
         \/ \E p \in Posts, k \in Risks : PostStart(r, p, k)
  PROVE  Aside(r) /\ req[r].pc = "idle"
<1>1. ASSUME NEW u \in Users, Report(r, u) PROVE Aside(r) /\ req[r].pc = "idle"
  <2>1. LET t == [Idle EXCEPT !.pc = "log", !.op = "report", !.user = u] IN t.pc = "log" /\ t.user = u
    BY DEF Idle
  <2> QED
    BY <1>1, <2>1 DEF Report, Free, At, Aside
<1>2. ASSUME NEW u \in Users, NEW j \in Jobs, MarkReadStart(r, u, j) PROVE Aside(r) /\ req[r].pc = "idle"
  <2>1. [Idle EXCEPT !.pc = "latest", !.op = "read", !.user = u, !.job = j].pc = "latest"
    BY DEF Idle
  <2> QED
    BY <1>2, <2>1 DEF MarkReadStart, Free, At, Aside
<1>3. ASSUME NEW u \in Users, NEW j \in Jobs, NEW x \in Texts, NEW f \in Keys \cup {None}, SendStart(r, u, j, x, f)
      PROVE  Aside(r) /\ req[r].pc = "idle"
  <2>1. [Idle EXCEPT !.pc = "job", !.op = "send", !.user = u, !.job = j, !.text = x, !.file = f].pc = "job"
    BY DEF Idle
  <2> QED
    BY <1>3, <2>1 DEF SendStart, Free, At, Aside
<1>4. ASSUME NEW u \in Users, NEW f \in Keys, Upload(r, u, f) PROVE Aside(r) /\ req[r].pc = "idle"
  <2>1. [Idle EXCEPT !.pc = "upload", !.op = "upload", !.user = u, !.file = f].pc = "upload"
    BY DEF Idle
  <2> QED
    BY <1>4, <2>1 DEF Upload, Free, At, Aside
<1>5. ASSUME NEW p \in Posts, NEW k \in Risks, PostStart(r, p, k) PROVE Aside(r) /\ req[r].pc = "idle"
  <2>1. [Idle EXCEPT !.pc = "assess", !.op = "job", !.user = "consumer", !.job = p, !.text = k].pc = "assess"
    BY DEF Idle
  <2> QED
    BY <1>5, <2>1 DEF PostStart, At, Aside
<1> QED
  BY <1>1, <1>2, <1>3, <1>4, <1>5

LEMMA StepsAside ==
  ASSUME MessageInv, NEW r \in Requests,
         \/ SendJob(r) \/ SendBlocked(r) \/ Score(r) \/ GateRead(r) \/ GateFails(r) \/ Punish(r) \/ ScoreFails(r)
         \/ PutObject(r) \/ BeginInsert(r) \/ CommitInsert(r) \/ CommitAttachment(r) \/ InsertFails(r) \/ Rollback(r)
         \/ LatestRead(r) \/ MarkRead(r)
         \/ PostAssess(r) \/ PostCreate(r) \/ PostSignal(r) \/ PostHide(r) \/ PostScore(r) \/ PostRestrict(r)
         \/ PostAnnounce(r) \/ PostFails(r)
  PROVE  Aside(r) /\ req[r].pc \notin {"count", "restrict"}
<1>a. ASSUME NEW pc \in {"score", "punish", "upload", "begin", "signal", "hide", "decide", "announce", "rollback"}, Goto(r, pc)
      PROVE  Aside(r)
  BY <1>a, GoesAside
<1>b. End(r) => Aside(r)
  BY EndsAside
<1>c. ASSUME NEW pc \in {"job", "block", "score", "gate", "punish", "upload", "begin", "commit", "create", "mark"},
             NEW v, Changes(r, pc, v)
      PROVE  Aside(r)
  BY <1>c, ChangesAside
<1>1. CASE SendJob(r) \/ SendBlocked(r) \/ ScoreFails(r)
  <2>1. req[r].pc \notin {"count", "restrict"}
    BY <1>1 DEF SendJob, SendBlocked, ScoreFails, At
  <2>2. CASE SendJob(r)
    <3>1. PICK pc \in {"score", "block"} : pc = IF req[r].user = "consumer" THEN "score" ELSE "block"
      OBVIOUS
    <3>2. PICK v : v = job[req[r].job].open
      OBVIOUS
    <3>3. Changes(r, pc, v) \/ End(r)
      BY <2>2, <3>1, <3>2 DEF SendJob, Changes
    <3> QED
      BY <1>b, <1>c, <2>1, <3>3
  <2>3. CASE SendBlocked(r)
    BY <1>a, <1>b, <2>1, <2>3 DEF SendBlocked, GoOnIf
  <2>4. CASE ScoreFails(r)
    <3>1. \E v : Changes(r, "upload", v)
      BY <2>4 DEF ScoreFails, Changes
    <3> QED
      BY <1>c, <2>1, <3>1
  <2> QED
    BY <1>1, <2>2, <2>3, <2>4
<1>2. CASE Score(r)
  <2>1. req[r].pc = "score"
    BY <1>2 DEF Score, At
  <2>2. PICK n, v : n = SameCount(r) /\ v = (n >= HideAt)
    OBVIOUS
  <2>3. \/ Goto(r, "upload") \/ Goto(r, "punish")
        \/ Changes(r, "gate", n) \/ Changes(r, "upload", v)
    BY <1>2, <2>2 DEF Score, Goto, Changes
  <2> QED
    BY <1>a, <1>c, <2>1, <2>3
<1>3. CASE GateRead(r) \/ GateFails(r)
  <2>1. req[r].pc = "gate" /\ req[r].op = "send"
    BY <1>3, PlaceOfKind DEF GateRead, GateFails, Gate, At
  <2>2. \E pc \in {"log", "punish", "upload"} : Goto(r, pc)
    BY <1>3 DEF GateRead, GateFails, Gate
  <2> QED
    BY <2>1, <2>2, GoesAside
<1>4. CASE Punish(r) \/ PutObject(r) \/ CommitInsert(r) \/ CommitAttachment(r) \/ InsertFails(r) \/ Rollback(r) \/ MarkRead(r)
  BY <1>4, <1>a, <1>b DEF Punish, PutObject, CommitInsert, CommitAttachment, InsertFails, Rollback, MarkRead, At,
                          AfterFailure, GoOnIf
<1>5. CASE BeginInsert(r)
  <2>1. Changes(r, "commit", now)
    BY <1>5 DEF BeginInsert, Changes
  <2> QED
    BY <1>5, <1>c, <2>1 DEF BeginInsert, At
<1>6. CASE LatestRead(r)
  <2>1. \E v : Changes(r, "mark", v)
    BY <1>6 DEF LatestRead, Changes
  <2> QED
    BY <1>6, <1>c, <2>1 DEF LatestRead, At
<1>7. CASE PostAssess(r)
  <2>1. Changes(r, "create", RecentPosts)
    BY <1>7 DEF PostAssess, Changes
  <2> QED
    BY <1>7, <1>c, <2>1 DEF PostAssess, At
<1>8. CASE PostCreate(r) \/ PostSignal(r) \/ PostHide(r) \/ PostScore(r) \/ PostRestrict(r) \/ PostAnnounce(r)
  <2>1. (\E pc \in {"signal", "hide", "score", "decide", "announce"} : Goto(r, pc)) \/ End(r)
    BY <1>8 DEF PostCreate, PostSignal, PostHide, PostScore, PostRestrict, PostAnnounce, AfterLog
  <2>2. req[r].pc \notin {"count", "restrict"}
    BY <1>8 DEF PostCreate, PostSignal, PostHide, PostScore, PostRestrict, PostAnnounce, At
  <2> QED
    BY <1>a, <1>b, <2>1, <2>2
<1>9. CASE PostFails(r)
  <2>1. req[r].pc \notin {"count", "restrict"}
    BY <1>9, PlaceOfKind DEF PostFails, Places
  <2> QED
    BY <1>9, <1>b, <2>1 DEF PostFails
<1> QED
  BY <1>1, <1>2, <1>3, <1>4, <1>5, <1>6, <1>7, <1>8, <1>9

(* An event is appended to a log. *)
LEMMA EventLogged ==
  ASSUME EscalationTypes, NEW u \in Users, NEW k \in Offences, events' = [events EXCEPT ![u][k] = Append(@, now)]
  PROVE  /\ events' \in [Users -> [Offences -> Seq(Nat)]]
         /\ \A v \in Users, l \in Offences :
               /\ \A i \in DOMAIN events'[v][l] : events'[v][l][i] <= now
               /\ <<v, l>> # <<u, k>> => events'[v][l] = events[v][l]
<1>1. PICK e \in Seq(Nat) : e = events[u][k]
  BY DEF EscalationTypes
<1>2. PICK f : f = Append(e, now)
  OBVIOUS
<1>3. f \in Seq(Nat) /\ Len(f) = Len(e) + 1 /\ f[Len(f)] = now /\ \A i \in 1..Len(e) : f[i] = e[i]
  BY <1>1, <1>2, AppendProperties DEF EscalationTypes
<1>4. \A i \in DOMAIN f : f[i] <= now
  <2>1. \A i \in DOMAIN e : e[i] <= now
    BY <1>1 DEF EscalationTypes
  <2>2. DOMAIN e = 1..Len(e) /\ DOMAIN f = 1..Len(f) /\ Len(e) \in Nat
    BY <1>1, <1>3, LenProperties
  <2>3. ASSUME NEW i \in DOMAIN f PROVE f[i] <= now
    <3>1. now \in Nat
      BY DEF EscalationTypes
    <3>2. CASE i = Len(f)
      BY <1>3, <3>1, <3>2
    <3>3. CASE i # Len(f)
      <4>1. i \in 1..Len(e)
        BY <1>3, <2>2, <3>3
      <4> QED
        BY <1>3, <2>1, <2>2, <4>1
    <3> QED
      BY <3>2, <3>3
  <2> QED
    BY <2>3
<1>5. PICK g \in [Offences -> Seq(Nat)] : /\ g = [events[u] EXCEPT ![k] = f] /\ g[k] = f
                                          /\ \A l \in Offences \ {k} : g[l] = events[u][l]
  <2>1. PICK h \in [Offences -> Seq(Nat)] : h = events[u]
    BY DEF EscalationTypes
  <2>2. [h EXCEPT ![k] = f] \in [Offences -> Seq(Nat)]
    BY <1>3
  <2>3. [h EXCEPT ![k] = f][k] = f /\ \A l \in Offences \ {k} : [h EXCEPT ![k] = f][l] = h[l]
    OBVIOUS
  <2> QED
    BY <2>1, <2>2, <2>3
<1>6. events' = [events EXCEPT ![u] = g]
  BY <1>1, <1>2, <1>5 DEF EscalationTypes
<1>7. events'[u] = g /\ \A v \in Users \ {u} : events'[v] = events[v]
  BY <1>6 DEF EscalationTypes
<1>8. events' \in [Users -> [Offences -> Seq(Nat)]]
  BY <1>5, <1>6 DEF EscalationTypes
<1>9. ASSUME NEW v \in Users, NEW l \in Offences
      PROVE  /\ \A i \in DOMAIN events'[v][l] : events'[v][l][i] <= now
             /\ <<v, l>> # <<u, k>> => events'[v][l] = events[v][l]
  <2>1. CASE v = u /\ l = k
    BY <1>4, <1>5, <1>7, <2>1
  <2>2. CASE ~(v = u /\ l = k)
    <3>1. events'[v][l] = events[v][l]
      BY <1>5, <1>7, <2>2
    <3> QED
      BY <3>1, <2>2 DEF EscalationTypes
  <2> QED
    BY <2>1, <2>2
<1> QED
  BY <1>8, <1>9

(* What a step that goes aside does to the others *)
LEMMA AsideQuiet ==
  ASSUME MessageInv, EscalationInv, NEW r \in Requests, Aside(r), req[r].pc \notin {"count", "restrict"},
         UNCHANGED <<until, events, pardoned, now>>
  PROVE  EscalationInv'
<1>1. PICK t : Become(r, t) /\ t.pc \notin {"count", "restrict", "impose"} /\ (t.pc = "log" => t.user \in Users)
  BY DEF Aside
<1> QED
  BY <1>1, EscalationBecomes

(* ... and when it writes a restriction, or logs what is not watched *)
LEMMA AsideTypes ==
  ASSUME EscalationTypes, NEW r \in Requests, Aside(r), UNCHANGED now, until' \in [Users -> Nat],
         \/ UNCHANGED events
         \/ \E u \in Users, k \in Offences : events' = [events EXCEPT ![u][k] = Append(@, now)]
  PROVE  EscalationTypes' /\ \A q \in Requests \ {r} : req'[q] = req[q]
<1>1. PICK t : Become(r, t) /\ t.pc \notin {"count", "restrict", "impose"} /\ (t.pc = "log" => t.user \in Users)
  BY DEF Aside
<1>2. DOMAIN req' = Requests /\ req'[r] = t /\ \A q \in Requests \ {r} : req'[q] = req[q]
  BY <1>1 DEF Become, EscalationTypes
<1>3. /\ events' \in [Users -> [Offences -> Seq(Nat)]]
      /\ \A u \in Users, k \in Offences : \A i \in DOMAIN events'[u][k] : events'[u][k][i] <= now
  <2>1. CASE UNCHANGED events
    BY <2>1 DEF EscalationTypes
  <2>2. ASSUME NEW u \in Users, NEW k \in Offences, events' = [events EXCEPT ![u][k] = Append(@, now)]
        PROVE  /\ events' \in [Users -> [Offences -> Seq(Nat)]]
               /\ \A v \in Users, l \in Offences : \A i \in DOMAIN events'[v][l] : events'[v][l][i] <= now
    BY <2>2, EventLogged
  <2> QED
    BY <2>1, <2>2
<1> QED
  BY <1>1, <1>2, <1>3 DEF EscalationTypes

LEMMA RecentType ==
  ASSUME EscalationTypes, NEW u \in Users, NEW k \in Offences
  PROVE  Recent(u, k) \in Nat
<1>1. Recent(u, k) = Cardinality(Lately(u, k, now)) /\ now \in Nat
  BY DEF Recent, Lately, EscalationTypes
<1> QED
  BY <1>1, LatelyFinite

(* A step that goes aside writes a restriction. *)
LEMMA AsideWrites ==
  ASSUME EscalationInv, NEW r \in Requests, Aside(r), NEW w \in Users, NEW end \in Nat, Sentence(w, end),
         UNCHANGED <<events, now>>, pardoned \ {w} \subseteq pardoned',
         req[r].pc \notin {"count", "restrict"} \/ (req[r].pc = "restrict" /\ req[r].user = w /\ req[r].n = end),
         w \in pardoned' \/ end >= now + Window \/ (w \notin pardoned /\ end >= until[w])
  PROVE  EscalationInv'
<1>1. EscalationTypes
  BY DEF EscalationInv
<1>2. until' \in [Users -> Nat]
  BY <1>1 DEF EscalationTypes, Sentence
<1>3. EscalationTypes' /\ \A q \in Requests \ {r} : req'[q] = req[q]
  BY <1>1, <1>2, AsideTypes
<1> QED
  BY <1>3, EscalationWrites

LEMMA EscalationRestricts ==
  ASSUME MessageInv, EscalationInv, NEW r \in Requests,
         Punish(r) \/ RestrictUser(r) \/ PostScore(r) \/ PostRestrict(r)
  PROVE  EscalationInv'
<1>1. now \in Nat /\ Day \in Nat /\ Window \in Nat /\ Day >= Window /\ now + Day \in Nat /\ now + Day >= now + Window
  BY MessagingAssumption DEF EscalationInv, EscalationTypes
<1>2. until \in [Users -> Nat]
  BY DEF EscalationInv, EscalationTypes
<1>3. "consumer" \in Users
  BY DEF Users
<1>4. CASE Punish(r)
  <2>1. req[r].user \in Users
    BY <1>4, PlaceOfKind DEF Punish, At, Typed
  <2>2. Aside(r) /\ req[r].pc \notin {"count", "restrict"}
    BY <1>4, StepsAside
  <2>3. Sentence(req[r].user, now + Day) /\ UNCHANGED <<events, now, pardoned>>
    BY <1>4 DEF Punish
  <2> QED
    BY <1>1, <2>1, <2>2, <2>3, AsideWrites
<1>5. CASE PostScore(r)
  <2>1. Aside(r) /\ req[r].pc \notin {"count", "restrict"}
    BY <1>5, StepsAside
  <2>2. UNCHANGED <<events, now, pardoned>>
    BY <1>5 DEF PostScore
  <2>3. CASE Sentence("consumer", now + Day)
    BY <1>1, <1>3, <2>1, <2>2, <2>3, AsideWrites
  <2>4. CASE UNCHANGED until
    BY <2>1, <2>2, <2>4, AsideQuiet
  <2> QED
    BY <1>5, <2>3, <2>4 DEF PostScore
<1>6. ASSUME NEW w \in Users, NEW end \in Nat, Impose(w, end), Aside(r), UNCHANGED <<events, now>>,
             req[r].pc \notin {"count", "restrict"} \/ (req[r].pc = "restrict" /\ req[r].user = w /\ req[r].n = end)
      PROVE  EscalationInv'
  <2>1. Sentence(w, end) /\ pardoned \ {w} \subseteq pardoned'
    BY <1>6 DEF Impose
  <2>2. w \in pardoned' \/ end >= now + Window \/ (w \notin pardoned /\ end >= until[w])
    <3>1. until[w] \in Nat
      BY <1>2
    <3>2. end >= now + Window \/ end < until[w] \/ end >= until[w]
      BY <1>1, <3>1
    <3> QED
      BY <1>6, <3>2 DEF Impose
  <2> QED
    BY <1>6, <2>1, <2>2, AsideWrites
<1>7. CASE RestrictUser(r)
  <2>1. req[r].pc = "restrict" /\ req[r].user \in Users /\ req[r].n \in Nat
    BY <1>7 DEF RestrictUser, At, EscalationInv, EscalationTypes
  <2>2. Aside(r) /\ Impose(req[r].user, req[r].n) /\ UNCHANGED <<events, now>>
    BY <1>7, EndsAside DEF RestrictUser
  <2> QED
    BY <1>6, <2>1, <2>2
<1>8. CASE PostRestrict(r)
  <2>1. req[r].pc = "impose" /\ req[r].n \in Nat
    BY <1>8 DEF PostRestrict, At, EscalationInv, EscalationTypes
  <2>2. Aside(r) /\ Impose("consumer", req[r].n) /\ UNCHANGED <<events, now>>
    BY <1>8, StepsAside DEF PostRestrict
  <2> QED
    BY <1>3, <1>6, <2>1, <2>2
<1> QED
  BY <1>4, <1>5, <1>7, <1>8

LEMMA EscalationWatches ==
  ASSUME MessageInv, EscalationInv, NEW r \in Requests, LogOffence(r) \/ LogLost(r) \/ CountOffences(r)
  PROVE  EscalationInv'
<1>0. EscalationTypes
  BY DEF EscalationInv
<1>1. PICK s : /\ s = req[r] /\ DOMAIN s = Fields /\ s.pc \in {"log", "count"} /\ s.user \in Users
               /\ s.op \in {"send", "report"}
  <2>1. req[r].pc \in {"log", "count"}
    BY DEF LogOffence, LogLost, CountOffences, At
  <2>2. req[r].op \in {"send", "report"} /\ DOMAIN req[r] = Fields
    BY <2>1, PlaceOfKind DEF Typed
  <2> QED
    BY <1>0, <2>1, <2>2 DEF EscalationTypes
<1>2. PICK k \in Watched : k = Kind(r) /\ k \in Offences
  BY <1>1 DEF Kind, Watched, Offences
<1>3. PICK t : t = [s EXCEPT !.pc = "count"] /\ t.pc = "count" /\ t.user = s.user /\ t.op = s.op
  <2>1. PICK t : t = [s EXCEPT !.pc = "count"]
    OBVIOUS
  <2>2. t.pc = "count" /\ t.user = s.user /\ t.op = s.op
    BY <1>1, <2>1, Moved
  <2> QED
    BY <2>1, <2>2
<1>4. CASE LogLost(r)
  <2>1. Become(r, t) /\ UNCHANGED <<until, events, pardoned, now>> /\ req[r].pc = "log"
    BY <1>1, <1>3, <1>4 DEF LogLost, Goto, At, offences, general
  <2> QED
    BY <1>1, <1>3, <2>1, EscalationBecomes
<1>5. CASE LogOffence(r)
  <2>1. Become(r, t) /\ UNCHANGED <<until, pardoned, now>> /\ events' = [events EXCEPT ![s.user][k] = Append(@, now)]
    BY <1>1, <1>2, <1>3, <1>5 DEF LogOffence, Goto, general
  <2>2. DOMAIN req' = Requests /\ req'[r] = t /\ \A q \in Requests \ {r} : req'[q] = req[q]
    BY <1>0, <2>1 DEF Become, EscalationTypes
  <2>3. /\ events' \in [Users -> [Offences -> Seq(Nat)]]
        /\ \A u \in Users, l \in Offences : \A i \in DOMAIN events'[u][l] : events'[u][l][i] <= now
    BY <1>0, <1>1, <1>2, <2>1, EventLogged
  <2>4. EscalationTypes'
    BY <1>0, <1>1, <1>3, <2>1, <2>2, <2>3 DEF EscalationTypes
  <2>5. Kind(r)' = Kind(r)
    BY <1>1, <1>3, <2>2 DEF Kind
  <2> QED
    BY <1>1, <1>2, <1>3, <1>5, <2>2, <2>4, <2>5, EscalationLogs
<1>6. CASE CountOffences(r)
  <2>1. PICK n \in Nat : n = Recent(s.user, k)
    BY <1>0, <1>1, <1>2, RecentType
  <2>2. PICK t2 : IF Reached(k, n) # {} /\ ~Admin(s.user)
                    THEN /\ t2 = [s EXCEPT !.pc = "restrict", !.n = now + Length(k, n)]
                         /\ t2.pc = "restrict" /\ t2.user = s.user /\ t2.n = now + Length(k, n)
                    ELSE t2 = Idle /\ t2.pc = "idle"
    <3>1. LET e == [s EXCEPT !.pc = "restrict", !.n = now + Length(k, n)]
          IN  e.pc = "restrict" /\ e.user = s.user /\ e.n = now + Length(k, n)
      BY <1>1 DEF Fields
    <3> QED
      BY <3>1, IdleTyped
  <2>3. Become(r, t2) /\ now' = now /\ until' = until /\ events' = events
    BY <1>1, <1>2, <1>6, <2>1, <2>2 DEF CountOffences, End, general, offences
  <2>4. DOMAIN req' = Requests /\ req'[r] = t2 /\ \A q \in Requests \ {r} : req'[q] = req[q]
    BY <1>0, <2>3 DEF Become, EscalationTypes
  <2>5. t2.pc \in {"restrict", "idle"} /\ (t2.pc = "restrict" => t2.n \in Nat /\ t2.user \in Users)
    <3>1. CASE Reached(k, n) # {} /\ ~Admin(s.user)
      <4>1. Length(k, n) \in Nat
        BY <1>2, <3>1, LengthType
      <4> QED
        BY <1>0, <1>1, <2>2, <3>1, <4>1 DEF EscalationTypes
    <3>2. CASE ~(Reached(k, n) # {} /\ ~Admin(s.user))
      BY <2>2, <3>2
    <3> QED
      BY <3>1, <3>2
  <2>6. EscalationTypes'
    BY <1>0, <2>3, <2>4, <2>5 DEF EscalationTypes
  <2>7. IF Reached(Kind(r), Recent(req[r].user, Kind(r))) # {} /\ ~Admin(req[r].user)
          THEN req'[r].pc = "restrict" /\ req'[r].user = req[r].user
               /\ req'[r].n = now + Length(Kind(r), Recent(req[r].user, Kind(r)))
          ELSE req'[r].pc = "idle"
    BY <1>1, <1>2, <2>1, <2>2, <2>4
  <2> QED
    BY <1>2, <1>6, <2>4, <2>6, <2>7, EscalationCounts
<1> QED
  BY <1>4, <1>5, <1>6

(* Steps of Messaging *)
LEMMA EscalationMessaging == ASSUME MessageInv, EscalationInv, MessagingNext PROVE EscalationInv'
<1>0. EscalationTypes
  BY DEF EscalationInv
<1>1. CASE Tick \/ (\E j \in Jobs : JobCloses(j) \/ ExchangeMoves(j)) \/ (\E u, v \in Users : Block(u, v) \/ Unblock(u, v))
  <2>1. UNCHANGED <<until, events, pardoned, req>>
    BY <1>1 DEF Tick, JobCloses, ExchangeMoves, Block, Unblock, offences
  <2>2. now' \in Nat /\ now' >= now
    <3>1. CASE Tick
      BY <1>0, <3>1 DEF Tick, EscalationTypes
    <3>2. CASE UNCHANGED now
      BY <1>0, <3>2 DEF EscalationTypes
    <3> QED
      BY <1>1, <3>1, <3>2 DEF JobCloses, ExchangeMoves, Block, Unblock, general
  <2>3. EscalationTypes'
    <3>1. \A u \in Users, k \in Offences : \A i \in DOMAIN events[u][k] : events[u][k][i] <= now'
      <4> SUFFICES ASSUME NEW u \in Users, NEW k \in Offences, NEW i \in DOMAIN events[u][k] PROVE events[u][k][i] <= now'
        OBVIOUS
      <4>1. PICK e \in Seq(Nat) : e = events[u][k]
        BY <1>0 DEF EscalationTypes
      <4>2. PICK x \in Nat : x = events[u][k][i]
        BY <4>1, ElementOfSeq, LenProperties
      <4> QED
        BY <1>0, <2>2, <4>2 DEF EscalationTypes
    <3> QED
      BY <1>0, <2>1, <2>2, <3>1 DEF EscalationTypes
  <2> QED
    BY <2>1, <2>2, <2>3, EscalationQuiet
<1>2. ASSUME NEW r \in Requests,
             \/ \E u \in Users : \/ Report(r, u)
                                 \/ \E j \in Jobs : \/ MarkReadStart(r, u, j)
                                                    \/ \E t \in Texts, f \in Keys \cup {None} : SendStart(r, u, j, t, f)
             \/ \E f \in Keys : JobUpload(r, f) \/ VerificationUpload(r, f)
      PROVE  EscalationInv'
  <2>1. \/ \E u \in Users : \/ Report(r, u)
                            \/ \E j \in Jobs : \/ MarkReadStart(r, u, j)
                                               \/ \E t \in Texts, f \in Keys \cup {None} : SendStart(r, u, j, t, f)
        \/ \E u \in Users, f \in Keys : Upload(r, u, f)
    BY <1>2 DEF JobUpload, VerificationUpload, Users
  <2>2. Aside(r) /\ req[r].pc = "idle"
    BY <2>1, StartsAside
  <2>3. UNCHANGED <<until, events, pardoned, now>>
    BY <2>1 DEF Report, MarkReadStart, SendStart, Upload, offences, general
  <2> QED
    BY <2>2, <2>3, AsideQuiet
<1>3. ASSUME NEW r \in Requests,
             \/ SendJob(r) \/ SendBlocked(r) \/ Score(r) \/ GateRead(r) \/ GateFails(r) \/ ScoreFails(r)
             \/ PutObject(r) \/ BeginInsert(r) \/ CommitInsert(r) \/ CommitAttachment(r) \/ InsertFails(r) \/ Rollback(r)
             \/ LatestRead(r) \/ MarkRead(r)
      PROVE  EscalationInv'
  <2>1. Aside(r) /\ req[r].pc \notin {"count", "restrict"}
    BY <1>3, StepsAside
  <2>2. UNCHANGED <<until, events, pardoned, now>>
    BY <1>3 DEF SendJob, SendBlocked, Score, GateRead, GateFails, Gate, ScoreFails, PutObject, BeginInsert, CommitInsert,
                CommitAttachment, InsertFails, Rollback, LatestRead, MarkRead, offences, general
  <2> QED
    BY <2>1, <2>2, AsideQuiet
<1>4. ASSUME NEW r \in Requests, Fail(r) PROVE EscalationInv'
  <2>1. UNCHANGED <<until, events, now>> /\ pardoned \subseteq pardoned'
        /\ (req[r].pc \in {"count", "restrict"} => req[r].user \in pardoned')
    BY <1>4 DEF Fail, general
  <2>2. Aside(r)
    BY <1>4, EndsAside DEF Fail
  <2>3. EscalationTypes' /\ \A q \in Requests \ {r} : req'[q] = req[q]
    BY <1>0, <2>1, <2>2, AsideTypes DEF EscalationTypes
  <2> QED
    BY <1>0, <2>1, <2>3, EscalationQuiet DEF EscalationTypes
<1> QED
  BY <1>1, <1>2, <1>3, <1>4, EscalationRestricts, EscalationWatches DEF MessagingNext

LEMMA EscalationPosts ==
  ASSUME MessageInv, EscalationInv, NEW r \in Requests,
         \/ \E p \in Posts, k \in Risks : PostStart(r, p, k)
         \/ PostAssess(r) \/ PostCreate(r) \/ PostSignal(r) \/ PostHide(r) \/ PostDecide(r) \/ PostAnnounce(r) \/ PostFails(r)
  PROVE  EscalationInv'
<1>0. EscalationTypes /\ "consumer" \in Users /\ "job" \in Offences
  BY DEF EscalationInv, Users, Offences
<1>1. CASE \E p \in Posts, k \in Risks : PostStart(r, p, k)
  <2>1. Aside(r) /\ req[r].pc = "idle"
    BY <1>1, StartsAside
  <2>2. UNCHANGED <<until, events, pardoned, now>>
    BY <1>1 DEF PostStart, offences, general
  <2> QED
    BY <2>1, <2>2, AsideQuiet
<1>2. CASE PostAssess(r) \/ PostCreate(r) \/ PostHide(r) \/ PostAnnounce(r) \/ PostFails(r)
  <2>1. Aside(r) /\ req[r].pc \notin {"count", "restrict"}
    BY <1>2, StepsAside
  <2>2. UNCHANGED <<until, events, pardoned, now>>
    BY <1>2 DEF PostAssess, PostCreate, PostHide, PostAnnounce, PostFails, offences, general
  <2> QED
    BY <2>1, <2>2, AsideQuiet
<1>3. CASE PostSignal(r)
  <2>1. Aside(r) /\ req[r].pc \notin {"count", "restrict"}
    BY <1>3, StepsAside
  <2>2. UNCHANGED <<until, pardoned, now>>
    BY <1>3 DEF PostSignal, general
  <2>3. CASE UNCHANGED events
    BY <2>1, <2>2, <2>3, AsideQuiet
  <2>4. CASE events' = [events EXCEPT !["consumer"]["job"] = Append(@, now)]
    <3>1. EscalationTypes' /\ \A q \in Requests \ {r} : req'[q] = req[q]
      BY <1>0, <2>1, <2>2, <2>4, AsideTypes DEF EscalationTypes
    <3>2. \A u \in Users, k \in Watched : events'[u][k] = events[u][k]
      BY <1>0, <2>4, EventLogged DEF Watched, Offences
    <3> QED
      BY <1>0, <2>1, <2>2, <3>1, <3>2, EscalationQuiet DEF EscalationTypes
  <2> QED
    BY <1>3, <2>3, <2>4 DEF PostSignal
<1>4. CASE PostDecide(r)
  <2>1. PICK s : s = req[r] /\ DOMAIN s = Fields /\ s.pc = "decide"
    BY <1>4, PlaceOfKind DEF Typed, PostDecide, At
  <2>2. PICK n \in Nat : n = Recent("consumer", "job")
    BY <1>0, RecentType
  <2>3. PICK a, i : /\ a = [s EXCEPT !.pc = "announce"] /\ a.pc = "announce"
                    /\ i = [s EXCEPT !.pc = "impose", !.n = now + Length("job", n)] /\ i.pc = "impose" /\ i.n = now + Length("job", n)
    <3>1. [s EXCEPT !.pc = "announce"].pc = "announce"
      BY <2>1 DEF Fields
    <3>2. LET i == [s EXCEPT !.pc = "impose", !.n = now + Length("job", n)]
          IN  i.pc = "impose" /\ i.n = now + Length("job", n)
      BY <2>1 DEF Fields
    <3> QED
      BY <3>1, <3>2
  <2>4. Become(r, a) \/ (Become(r, i) /\ Reached("job", n) # {})
    BY <1>4, <2>1, <2>2, <2>3 DEF PostDecide, Goto
  <2>5. UNCHANGED <<until, events, pardoned, now>>
    BY <1>4 DEF PostDecide, offences, general
  <2>6. CASE Become(r, a)
    BY <2>1, <2>3, <2>5, <2>6, EscalationBecomes
  <2>7. CASE Become(r, i) /\ Reached("job", n) # {}
    <3>1. Length("job", n) \in Nat /\ now \in Nat
      BY <1>0, <2>7, LengthType DEF EscalationTypes
    <3>2. i.n \in Nat
      BY <2>3, <3>1
    <3> QED
      BY <2>1, <2>3, <2>5, <2>7, <3>2, EscalationBecomes
  <2> QED
    BY <2>4, <2>6, <2>7
<1> QED
  BY <1>1, <1>2, <1>3, <1>4

LEMMA NextEscalation == MessageInv /\ EscalationInv /\ [Next]_vars => EscalationInv'
<1> SUFFICES ASSUME MessageInv, EscalationInv, [Next]_vars PROVE EscalationInv'
  OBVIOUS
<1>0. EscalationTypes
  BY DEF EscalationInv
<1>q. ASSUME UNCHANGED <<until, events, pardoned, now, req>> PROVE EscalationInv'
  <2>1. EscalationTypes'
    BY <1>0, <1>q DEF EscalationTypes
  <2> QED
    BY <1>0, <1>q, <2>1, EscalationQuiet DEF EscalationTypes
<1>1. CASE UNCHANGED vars
  BY <1>1, <1>q DEF vars, messagingVars, offences, general
<1>2. ASSUME NEW a \in Admins, NEW t, NEW on, AdminStart(a, t, on) PROVE EscalationInv'
  BY <1>2, <1>q DEF AdminStart, messagingVars, offences, general
<1>3. ASSUME NEW a \in Admins,
             \/ \E u \in {"consumer", "provider"} : Suspend(a, u) \/ Unsuspend(a, u)
             \/ \E j \in Jobs : HideJob(a, j) \/ UnhideJob(a, j) \/ SafetyUnhideJob(a, j)
             \/ \E i \in 1..MaxMessages : HideMessage(a, i) \/ UnhideMessage(a, i) \/ SafetyUnhideMessage(a, i)
             \/ \E on \in BOOLEAN : HandleReport(a, on)
      PROVE  EscalationInv'
  <2>1. \E t, on : AdminStart(a, t, on)
    BY <1>3 DEF Suspend, Unsuspend, HideJob, UnhideJob, SafetyUnhideJob, HideMessage, UnhideMessage,
                SafetyUnhideMessage, HandleReport
  <2> QED
    BY <1>2, <2>1
<1>4. ASSUME NEW a \in Admins, AdminWrite(a) \/ AdminLog(a) \/ AdminFails(a) PROVE EscalationInv'
  BY <1>4, <1>q DEF AdminWrite, AdminLog, AdminFails, messagingVars, offences, general
<1>5. ASSUME NEW u \in Users, Restore(u) PROVE EscalationInv'
  <2>1. /\ Sentence(u, 0) /\ UNCHANGED <<events, now, req>>
        /\ pardoned \subseteq pardoned' /\ u \in pardoned'
    BY <1>5 DEF Restore, Sentence, general
  <2>2. EscalationTypes'
    BY <1>0, <2>1 DEF EscalationTypes, Sentence
  <2>3. 0 \in Nat /\ \A q \in Requests : req'[q] = req[q]
    BY <2>1
  <2> QED
    BY <2>1, <2>2, <2>3, EscalationWrites
<1>6. CASE (\E p \in Posts : PostUnhide(p))
           \/ (\E r \in Requests : (\E n \in Tokens : AiStart(r, n)) \/ AiRead(r) \/ AiReset(r) \/ AiCharge(r) \/ AiFails(r))
           \/ MonthTurns \/ AiMonthlyReset
  BY <1>6, <1>q DEF PostUnhide, AiStart, AiRead, AiReset, AiCharge, AiFails, MonthTurns, AiMonthlyReset, messagingVars,
                    offences, general
<1> QED
  BY <1>1, <1>3, <1>4, <1>5, <1>6, EscalationMessaging, EscalationPosts, EscalationRestricts DEF Next, TrustNext

(* Whoever commits enough violations within the window is restricted once  *)
(* his requests are answered, however these overlap: each violation is     *)
(* still to be counted, or is part of a count whose restriction outlasts   *)
(* all that counts so far.                                                 *)
THEOREM ViolationsEscalate == Spec => []Escalates
<1>1. MessageInv /\ EscalationInv => Escalates
  <2> SUFFICES ASSUME EscalationInv, NEW u \in Users \ (pardoned \cup {"admin"}), NEW k \in Watched,
                      NEW s \in Steps[k], Recent(u, k) >= s[1], \A r \in Requests : req[r].user # u
               PROVE  Restricted(u)
    BY DEF Escalates, Watched
  <2>1. Covers(until[u], u, k)
    BY DEF EscalationInv, Escalated
  <2>2. now \in Nat /\ until[u] \in Nat
    BY DEF EscalationInv, EscalationTypes
  <2>3. Recent(u, k) = Cardinality(Lately(u, k, now))
    BY DEF Recent, Lately
  <2>4. Enough(u, k, now)
    BY <2>3 DEF Enough
  <2> QED
    BY <2>1, <2>2, <2>4 DEF Covers, Restricted
<1> QED
  BY <1>1, InitMessages, InitEscalation, NextMessages, NextEscalation, PTL DEF Spec

----------------------------------------------------------------------------
(* Reading *)

(* What a mark at time a of thread j counts as read, ...                   *)
Marked(u, j, a) == {i \in DOMAIN msg : /\ msg[i].job = j /\ msg[i].by # u /\ Visible(u, i) /\ ~msg[i].late
                                       /\ msg[i].at <= a}

(* ... which can only be what was there: a later message is late.          *)
Timely(j, a) == \/ a = 0
                \/ a <= emptyAt[j]
                \/ \E i \in DOMAIN msg : msg[i].job = j /\ a <= msg[i].at

ReadTypes ==
    /\ now \in Nat \ {0}
    /\ read \in [Users -> [Jobs -> Nat]] /\ DOMAIN there = Users
    /\ emptyAt \in [Jobs -> Nat] /\ \A j \in Jobs : emptyAt[j] <= now
    /\ \A i \in DOMAIN msg : msg[i].at \in Nat \ {0} /\ msg[i].at <= now
    /\ DOMAIN req = Requests
    /\ \A r \in Requests : /\ req[r].pc \in {"latest", "mark"} => req[r].user \in Users /\ req[r].job \in Jobs
                           /\ req[r].pc \in {"mark", "commit"} => req[r].at \in Nat
                           /\ req[r].pc = "commit" => req[r].at > 0 /\ req[r].at <= now

ReadInv ==
    /\ ReadTypes
    /\ \A u \in Users, j \in Jobs : Marked(u, j, read[u][j]) \subseteq there[u] /\ Timely(j, read[u][j])
    /\ \A r \in Requests : At(r, "mark") => /\ Marked(req[r].user, req[r].job, req[r].at) \subseteq req[r].seen
                                            /\ Timely(req[r].job, req[r].at)

LEMMA InitRead == Init => ReadInv
<1> SUFFICES ASSUME Init PROVE ReadInv
  OBVIOUS
<1>1. /\ now = 1 /\ read = [u \in Users |-> [j \in Jobs |-> 0]] /\ there = [u \in Users |-> {}]
      /\ emptyAt = [j \in Jobs |-> 0] /\ msg = <<>> /\ req = [r \in Requests |-> Idle]
  BY DEF Init, MessagingInit
<1>i. Idle.pc = "idle"
  BY IdleTyped
<1>2. ReadTypes
  BY <1>1, <1>i DEF ReadTypes
<1>3. \A u \in Users, j \in Jobs : Marked(u, j, read[u][j]) \subseteq there[u] /\ Timely(j, read[u][j])
  BY <1>1 DEF Marked, Timely
<1>4. \A r \in Requests : ~At(r, "mark")
  BY <1>1, <1>i DEF At
<1> QED
  BY <1>2, <1>3, <1>4 DEF ReadInv

(* No step adds to what a mark counts, and marks stay timely. *)
Steady == \A u \in Users, j \in Jobs, a \in Nat : Timely(j, a) => Timely(j, a)' /\ Marked(u, j, a)' \subseteq Marked(u, j, a)

LEMMA ReadSteady ==
  ASSUME ReadInv, ReadTypes', Steady, UNCHANGED <<read, there>>,
         \A q \in Requests : \/ req'[q] = req[q]
                             \/ req'[q].pc # "mark"
                             \/ /\ Marked(req[q].user, req[q].job, req[q].at)' \subseteq req'[q].seen
                                /\ Timely(req[q].job, req[q].at)'
  PROVE  ReadInv'
<1>1. ASSUME NEW u \in Users, NEW j \in Jobs
      PROVE  (Marked(u, j, read[u][j]) \subseteq there[u] /\ Timely(j, read[u][j]))'
  <2>1. PICK a \in Nat : a = read[u][j] /\ a = read'[u][j]
    BY DEF ReadInv, ReadTypes
  <2>2. Marked(u, j, a) \subseteq there[u] /\ Timely(j, a)
    BY <2>1 DEF ReadInv
  <2>3. Timely(j, a)' /\ Marked(u, j, a)' \subseteq Marked(u, j, a)
    BY <2>2 DEF Steady
  <2>4. Timely(j, read[u][j])' /\ Marked(u, j, read[u][j])' = Marked(u, j, a)'
    BY <2>1, <2>3 DEF Timely, Marked
  <2> QED
    BY <2>2, <2>3, <2>4
<1>2. ASSUME NEW r \in Requests, At(r, "mark")'
      PROVE  (Marked(req[r].user, req[r].job, req[r].at) \subseteq req[r].seen /\ Timely(req[r].job, req[r].at))'
  <2>1. CASE req'[r] = req[r]
    <3>1. PICK u \in Users, j \in Jobs, a \in Nat : u = req[r].user /\ j = req[r].job /\ a = req[r].at
      BY <1>2, <2>1 DEF At, ReadInv, ReadTypes
    <3>2. Marked(u, j, a) \subseteq req[r].seen /\ Timely(j, a)
      BY <1>2, <2>1, <3>1 DEF ReadInv, At
    <3>3. Timely(j, a)' /\ Marked(u, j, a)' \subseteq Marked(u, j, a)
      BY <3>2 DEF Steady
    <3>4. Timely(req[r].job, req[r].at)' /\ Marked(req[r].user, req[r].job, req[r].at)' = Marked(u, j, a)'
      BY <2>1, <3>1, <3>3 DEF Timely, Marked, Visible
    <3> QED
      BY <2>1, <3>2, <3>3, <3>4
  <2>2. CASE req'[r] # req[r]
    BY <1>2, <2>2 DEF At
  <2> QED
    BY <2>1, <2>2
<1> QED
  BY <1>1, <1>2 DEF ReadInv

(* A request goes where it neither marks nor inserts. *)
Elsewhere(r) == \E t : Become(r, t) /\ t.pc \notin {"latest", "mark", "commit"}

LEMMA ElsewhereTypes ==
  ASSUME ReadTypes, NEW r \in Requests, Elsewhere(r), UNCHANGED <<msg, now, read, there, emptyAt>>
  PROVE  ReadTypes' /\ \A q \in Requests : req'[q] = req[q] \/ req'[q].pc # "mark"
<1>1. PICK t : Become(r, t) /\ t.pc \notin {"latest", "mark", "commit"}
  BY DEF Elsewhere
<1>2. DOMAIN req' = Requests /\ req'[r] = t /\ \A q \in Requests \ {r} : req'[q] = req[q]
  BY <1>1 DEF Become, ReadTypes
<1> QED
  BY <1>1, <1>2 DEF ReadTypes

LEMMA ReadQuiet ==
  ASSUME ReadInv, NEW r \in Requests, Elsewhere(r), UNCHANGED <<msg, now, read, there, emptyAt>>
  PROVE  ReadInv'
<1>1. ReadTypes' /\ \A q \in Requests : req'[q] = req[q] \/ req'[q].pc # "mark"
  BY ElsewhereTypes DEF ReadInv
<1>2. Steady
  BY DEF Steady, Timely, Marked, Visible
<1> QED
  BY <1>1, <1>2, ReadSteady

LEMMA ReadStarts ==
  ASSUME MessageInv, ReadInv, NEW r \in Requests, NEW u \in Users,
         \/ Report(r, u)
         \/ \E j \in Jobs : \/ MarkReadStart(r, u, j)
                            \/ \E t \in Texts, f \in Keys \cup {None} : SendStart(r, u, j, t, f)
         \/ \E f \in Keys : Upload(r, u, f)
  PROVE  ReadInv'
<1>1. CASE Report(r, u)
  <2>1. [Idle EXCEPT !.pc = "log", !.op = "report", !.user = u].pc = "log"
    BY DEF Idle
  <2> QED
    BY <1>1, <2>1, ReadQuiet DEF Report, Elsewhere, thread, general
<1>2. ASSUME NEW j \in Jobs, NEW x \in Texts, NEW f \in Keys \cup {None}, SendStart(r, u, j, x, f) PROVE ReadInv'
  <2>1. [Idle EXCEPT !.pc = "job", !.op = "send", !.user = u, !.job = j, !.text = x, !.file = f].pc = "job"
    BY DEF Idle
  <2> QED
    BY <1>2, <2>1, ReadQuiet DEF SendStart, Elsewhere, thread, general
<1>3. ASSUME NEW f \in Keys, Upload(r, u, f) PROVE ReadInv'
  <2>1. [Idle EXCEPT !.pc = "upload", !.op = "upload", !.user = u, !.file = f].pc = "upload"
    BY DEF Idle
  <2> QED
    BY <1>3, <2>1, ReadQuiet DEF Upload, Elsewhere, thread, general
<1>4. ASSUME NEW j \in Jobs, MarkReadStart(r, u, j) PROVE ReadInv'
  <2>1. PICK t : /\ t = [Idle EXCEPT !.pc = "latest", !.op = "read", !.user = u, !.job = j]
                 /\ t.pc = "latest" /\ t.user = u /\ t.job = j
    <3>1. LET t == [Idle EXCEPT !.pc = "latest", !.op = "read", !.user = u, !.job = j]
          IN  t.pc = "latest" /\ t.user = u /\ t.job = j
      BY DEF Idle
    <3> QED
      BY <3>1
  <2>2. Become(r, t) /\ UNCHANGED <<msg, now, read, there, emptyAt>>
    BY <1>4, <2>1 DEF MarkReadStart, thread, general
  <2>3. DOMAIN req' = Requests /\ req'[r] = t /\ \A q \in Requests \ {r} : req'[q] = req[q]
    BY <2>2 DEF Become, ReadInv, ReadTypes
  <2>4. ReadTypes'
    BY <2>1, <2>2, <2>3 DEF ReadInv, ReadTypes
  <2>5. Steady
    BY <2>2 DEF Steady, Timely, Marked, Visible
  <2>6. \A q \in Requests : req'[q] = req[q] \/ req'[q].pc # "mark"
    BY <2>1, <2>3
  <2> QED
    BY <2>2, <2>4, <2>5, <2>6, ReadSteady
<1> QED
  BY <1>1, <1>2, <1>3, <1>4

LEMMA EndsElsewhere == ASSUME NEW r \in Requests, End(r) PROVE Elsewhere(r)
<1>1. Idle.pc = "idle"
  BY IdleTyped
<1> QED
  BY <1>1 DEF End, Elsewhere

LEMMA GoesElsewhere ==
  ASSUME MessageInv, NEW r \in Requests, NEW pc, Goto(r, pc), pc \notin {"latest", "mark", "commit"}
  PROVE  Elsewhere(r)
<1>0. PICK s : s = req[r] /\ DOMAIN s = Fields
  BY DEF MessageInv, Shapes, Typed
<1>1. PICK t : t = [s EXCEPT !.pc = pc]
  OBVIOUS
<1>2. t.pc = pc
  BY <1>0, <1>1, Moved
<1> QED
  BY <1>0, <1>1, <1>2 DEF Goto, Elsewhere

LEMMA ChangesElsewhere ==
  ASSUME MessageInv, NEW r \in Requests, NEW pc, NEW v, Changes(r, pc, v), pc \notin {"latest", "mark", "commit"}
  PROVE  Elsewhere(r)
<1>0. PICK s : s = req[r] /\ DOMAIN s = Fields
  BY DEF MessageInv, Shapes, Typed
<1>1. /\ [s EXCEPT !.pc = pc, !.n = v].pc = pc /\ [s EXCEPT !.pc = pc, !.open = v].pc = pc
      /\ [s EXCEPT !.pc = pc, !.at = v].pc = pc /\ [s EXCEPT !.pc = pc, !.shadow = v].pc = pc
      /\ [s EXCEPT !.pc = pc, !.unscored = v].pc = pc
      /\ \A e : [s EXCEPT !.pc = pc, !.at = v, !.seen = e].pc = pc
  BY <1>0 DEF Fields
<1>2. \E t : Become(r, t) /\ t.pc = pc
  BY <1>0, <1>1 DEF Changes
<1> QED
  BY <1>2 DEF Elsewhere

LEMMA StepsElsewhere ==
  ASSUME MessageInv, NEW r \in Requests,
         \/ SendJob(r) \/ SendBlocked(r) \/ Score(r) \/ GateRead(r) \/ GateFails(r) \/ Punish(r) \/ ScoreFails(r)
         \/ LogOffence(r) \/ LogLost(r) \/ CountOffences(r) \/ RestrictUser(r)
         \/ PutObject(r) \/ CommitInsert(r) \/ CommitAttachment(r) \/ InsertFails(r) \/ Rollback(r)
         \/ MarkRead(r) \/ Fail(r)
         \/ PostAssess(r) \/ PostCreate(r) \/ PostSignal(r) \/ PostHide(r) \/ PostScore(r) \/ PostDecide(r)
         \/ PostRestrict(r) \/ PostAnnounce(r) \/ PostFails(r)
  PROVE  Elsewhere(r)
<1> DEFINE Far == {"score", "punish", "upload", "begin", "log", "count", "signal", "hide", "decide", "announce", "rollback",
                   "block", "gate", "restrict", "create", "impose"}
<1>a. ASSUME NEW pc \in Far, Goto(r, pc) PROVE Elsewhere(r)
  BY <1>a, GoesElsewhere
<1>b. End(r) => Elsewhere(r)
  BY EndsElsewhere
<1>c. ASSUME NEW pc \in Far, NEW v, Changes(r, pc, v) PROVE Elsewhere(r)
  BY <1>c, ChangesElsewhere
<1>1. CASE SendJob(r)
  <2>1. PICK pc \in {"score", "block"} : pc = IF req[r].user = "consumer" THEN "score" ELSE "block"
    OBVIOUS
  <2>2. PICK v : v = job[req[r].job].open
    OBVIOUS
  <2>3. Changes(r, pc, v) \/ End(r)
    BY <1>1, <2>1, <2>2 DEF SendJob, Changes
  <2> QED
    BY <1>b, <1>c, <2>3
<1>2. CASE ScoreFails(r)
  <2>1. \E v : Changes(r, "upload", v)
    BY <1>2 DEF ScoreFails, Changes
  <2> QED
    BY <1>c, <2>1
<1>3. CASE Score(r)
  <2>1. PICK n, v : n = SameCount(r) /\ v = (n >= HideAt)
    OBVIOUS
  <2>2. \/ Goto(r, "upload") \/ Goto(r, "punish")
        \/ Changes(r, "gate", n) \/ Changes(r, "upload", v)
    BY <1>3, <2>1 DEF Score, Goto, Changes
  <2> QED
    BY <1>a, <1>c, <2>2
<1>4. CASE CountOffences(r)
  <2>1. (\E v : Changes(r, "restrict", v)) \/ End(r)
    BY <1>4 DEF CountOffences, Changes
  <2> QED
    BY <1>b, <1>c, <2>1
<1>5. CASE PostAssess(r)
  <2>1. \E v : Changes(r, "create", v)
    BY <1>5 DEF PostAssess, Changes
  <2> QED
    BY <1>c, <2>1
<1>6. CASE PostDecide(r)
  <2>1. (\E v : Changes(r, "impose", v)) \/ Goto(r, "announce")
    BY <1>6 DEF PostDecide, Changes, Goto
  <2> QED
    BY <1>a, <1>c, <2>1
<1>7. CASE \/ SendBlocked(r) \/ GateRead(r) \/ GateFails(r) \/ Punish(r) \/ LogOffence(r) \/ LogLost(r) \/ RestrictUser(r)
           \/ PutObject(r) \/ CommitInsert(r) \/ CommitAttachment(r) \/ InsertFails(r) \/ Rollback(r) \/ MarkRead(r) \/ Fail(r)
  <2>1. (\E pc \in {"score", "log", "punish", "upload", "count", "begin", "rollback"} : Goto(r, pc)) \/ End(r)
    BY <1>7 DEF SendBlocked, GateRead, GateFails, Gate, Punish, LogOffence, LogLost, RestrictUser, PutObject, CommitInsert,
                CommitAttachment, InsertFails, AfterFailure, Rollback, MarkRead, Fail, GoOnIf
  <2> QED
    BY <1>a, <1>b, <2>1
<1>8. CASE PostCreate(r) \/ PostSignal(r) \/ PostHide(r) \/ PostScore(r) \/ PostRestrict(r) \/ PostAnnounce(r) \/ PostFails(r)
  <2>1. (\E pc \in {"signal", "hide", "score", "decide", "announce"} : Goto(r, pc)) \/ End(r)
    BY <1>8 DEF PostCreate, PostSignal, PostHide, PostScore, PostRestrict, PostAnnounce, PostFails, AfterLog
  <2> QED
    BY <1>a, <1>b, <2>1
<1> QED
  BY <1>1, <1>2, <1>3, <1>4, <1>5, <1>6, <1>7, <1>8

LEMMA ReadBegins == ASSUME MessageInv, ReadInv, NEW r \in Requests, BeginInsert(r) PROVE ReadInv'
<1>1. PICK s : s = req[r] /\ DOMAIN s = Fields
  BY DEF MessageInv, Shapes, Typed
<1>2. PICK t : t = [s EXCEPT !.pc = "commit", !.at = now]
  OBVIOUS
<1>3. t.pc = "commit" /\ t.at = now
  BY <1>1, <1>2 DEF Fields
<1>4. Become(r, t) /\ UNCHANGED <<msg, now, read, there, emptyAt>>
  BY <1>1, <1>2 DEF BeginInsert, thread, general
<1>5. DOMAIN req' = Requests /\ req'[r] = t /\ \A q \in Requests \ {r} : req'[q] = req[q]
  BY <1>4 DEF Become, ReadInv, ReadTypes
<1>6. now \in Nat \ {0}
  BY DEF ReadInv, ReadTypes
<1>7. ReadTypes'
  BY <1>3, <1>4, <1>5, <1>6 DEF ReadInv, ReadTypes
<1>8. Steady
  BY <1>4 DEF Steady, Timely, Marked, Visible
<1>9. \A q \in Requests : req'[q] = req[q] \/ req'[q].pc # "mark"
  BY <1>3, <1>5
<1> QED
  BY <1>4, <1>7, <1>8, <1>9, ReadSteady

(* What is marked is the latest of what is shown, or now.                  *)
LEMMA ReadAtShown ==
  ASSUME MessageInv, ReadTypes, NEW u \in Users, NEW j \in Jobs
  PROVE  /\ ReadAt(u, j) \in Nat
         /\ Shown(u, j) = {} => ReadAt(u, j) = now
         /\ Shown(u, j) # {} => \E i \in Shown(u, j) : ReadAt(u, j) = msg[i].at
<1>1. now \in Nat
  BY DEF ReadTypes
<1>2. CASE Shown(u, j) = {}
  BY <1>1, <1>2 DEF ReadAt
<1>3. CASE Shown(u, j) # {}
  <2> DEFINE T == {msg[i].at : i \in Shown(u, j)}
  <2>1. T \in SUBSET Nat /\ T # {} /\ \A x \in T : x <= now
    BY <1>3 DEF Shown, ReadTypes
  <2>2. \E m \in T : \A x \in T : m >= x
    BY <1>1, <2>1, LargestOf
  <2> HIDE DEF T
  <2>3. Max(T) \in T
    BY <2>2 DEF Max
  <2>4. ReadAt(u, j) = Max(T)
    BY <1>3 DEF ReadAt, T
  <2> QED
    BY <1>3, <2>1, <2>3, <2>4 DEF T
<1> QED
  BY <1>2, <1>3

LEMMA ReadLooks == ASSUME MessageInv, ReadInv, NEW r \in Requests, LatestRead(r) PROVE ReadInv'
<1>0. ReadTypes
  BY DEF ReadInv
<1>1. PICK s : s = req[r] /\ DOMAIN s = Fields /\ s.pc = "latest"
  BY DEF MessageInv, Shapes, Typed, LatestRead, At
<1>2. PICK u \in Users, j \in Jobs : u = s.user /\ j = s.job
  BY <1>0, <1>1 DEF ReadTypes
<1>a. PICK a \in Nat : a = ReadAt(u, j)
  BY <1>0, ReadAtShown
<1>b. PICK S : S = Shown(u, j)
  OBVIOUS
<1>c. (S = {} => a = now) /\ (S # {} => \E i \in S : a = msg[i].at)
  BY <1>0, <1>a, <1>b, ReadAtShown
<1>3. PICK t : t = [s EXCEPT !.pc = "mark", !.at = a, !.seen = S]
  OBVIOUS
<1>4. t.pc = "mark" /\ t.at = a /\ t.seen = S /\ t.user = u /\ t.job = j
  BY <1>1, <1>2, <1>3 DEF Fields
<1>5. /\ Become(r, t) /\ UNCHANGED <<msg, now, read, there>>
      /\ emptyAt' = IF S = {} THEN [emptyAt EXCEPT ![j] = now] ELSE emptyAt
  BY <1>1, <1>2, <1>3, <1>a, <1>b DEF LatestRead, general
<1>6. DOMAIN req' = Requests /\ req'[r] = t /\ \A q \in Requests \ {r} : req'[q] = req[q]
  BY <1>0, <1>5 DEF Become, ReadTypes
<1>7. emptyAt' \in [Jobs -> Nat] /\ \A k \in Jobs : emptyAt[k] <= emptyAt'[k] /\ emptyAt'[k] <= now
  BY <1>0, <1>5 DEF ReadTypes
<1>8. ReadTypes'
  BY <1>0, <1>4, <1>5, <1>6, <1>7 DEF ReadTypes
<1>9. Steady
  <2> SUFFICES ASSUME NEW v \in Users, NEW k \in Jobs, NEW b \in Nat, Timely(k, b)
               PROVE  Timely(k, b)' /\ Marked(v, k, b)' \subseteq Marked(v, k, b)
    BY DEF Steady
  <2>1. Timely(k, b)'
    <3>1. emptyAt[k] \in Nat /\ emptyAt'[k] \in Nat
      BY <1>0, <1>7 DEF ReadTypes
    <3> QED
      BY <1>5, <1>7, <3>1 DEF Timely
  <2> QED
    BY <1>5, <2>1 DEF Marked, Visible
<1>10. Marked(u, j, a)' \subseteq S
  BY <1>b, <1>5 DEF Marked, Shown, Visible
<1>11. Timely(j, a)'
  <2>1. CASE S = {}
    <3>1. emptyAt'[j] = now /\ now \in Nat
      BY <1>0, <1>5, <2>1 DEF ReadTypes
    <3> QED
      BY <1>c, <2>1, <3>1 DEF Timely
  <2>2. CASE S # {}
    <3>1. PICK i \in S : a = msg[i].at
      BY <1>c, <2>2
    <3>2. i \in DOMAIN msg /\ msg[i].job = j
      BY <1>b, <3>1 DEF Shown
    <3> QED
      BY <1>5, <3>1, <3>2 DEF Timely
  <2> QED
    BY <2>1, <2>2
<1>12. /\ Marked(req[r].user, req[r].job, req[r].at)' \subseteq req'[r].seen
       /\ Timely(req[r].job, req[r].at)'
  BY <1>4, <1>6, <1>10, <1>11 DEF Marked, Timely, Visible
<1>13. \A q \in Requests : \/ req'[q] = req[q]
                           \/ req'[q].pc # "mark"
                           \/ /\ Marked(req[q].user, req[q].job, req[q].at)' \subseteq req'[q].seen
                              /\ Timely(req[q].job, req[q].at)'
  BY <1>6, <1>12
<1> QED
  BY <1>5, <1>8, <1>9, <1>13, ReadSteady

LEMMA ReadMarks == ASSUME MessageInv, ReadInv, NEW r \in Requests, MarkRead(r) PROVE ReadInv'
<1>0. ReadTypes
  BY DEF ReadInv
<1>1. PICK s : s = req[r] /\ s.pc = "mark"
  BY DEF MarkRead, At
<1>2. PICK u \in Users, j \in Jobs, a \in Nat : u = s.user /\ j = s.job /\ a = s.at
  BY <1>0, <1>1 DEF ReadTypes
<1>3. /\ read' = [read EXCEPT ![u][j] = a] /\ there' = [there EXCEPT ![u] = there[u] \cup s.seen]
      /\ End(r) /\ UNCHANGED <<msg, now, emptyAt>>
  BY <1>1, <1>2 DEF MarkRead, general
<1>4. /\ read' \in [Users -> [Jobs -> Nat]]
      /\ read'[u][j] = a
      /\ \A v \in Users, k \in Jobs : <<v, k>> # <<u, j>> => read'[v][k] = read[v][k]
  <2>1. PICK h \in [Jobs -> Nat] : h = read[u]
    BY <1>0 DEF ReadTypes
  <2>2. PICK g \in [Jobs -> Nat] : g = [h EXCEPT ![j] = a] /\ g[j] = a /\ \A k \in Jobs \ {j} : g[k] = h[k]
    <3>1. [h EXCEPT ![j] = a] \in [Jobs -> Nat]
      OBVIOUS
    <3>2. [h EXCEPT ![j] = a][j] = a /\ \A k \in Jobs \ {j} : [h EXCEPT ![j] = a][k] = h[k]
      OBVIOUS
    <3> QED
      BY <3>1, <3>2
  <2>3. read' = [read EXCEPT ![u] = g]
    BY <1>3, <2>1, <2>2
  <2> QED
    BY <1>0, <2>1, <2>2, <2>3 DEF ReadTypes
<1>5. DOMAIN there' = Users /\ s.seen \subseteq there'[u] /\ \A v \in Users : there[v] \subseteq there'[v]
  BY <1>0, <1>3 DEF ReadTypes
<1>i. Idle.pc = "idle"
  BY IdleTyped
<1>6. DOMAIN req' = Requests /\ req'[r].pc = "idle" /\ \A q \in Requests \ {r} : req'[q] = req[q]
  BY <1>0, <1>3, <1>i DEF End, Become, ReadTypes
<1>7. ReadTypes'
  BY <1>0, <1>3, <1>4, <1>5, <1>6 DEF ReadTypes
<1>8. ASSUME NEW v \in Users, NEW k \in Jobs PROVE (Marked(v, k, read[v][k]) \subseteq there[v] /\ Timely(k, read[v][k]))'
  <2>1. CASE v = u /\ k = j
    <3>1. Marked(u, j, a) \subseteq s.seen /\ Timely(j, a)
      BY <1>1, <1>2 DEF ReadInv, At
    <3>2. Marked(u, j, a) = Marked(v, k, read[v][k])' /\ Timely(k, read[v][k])'
      BY <1>3, <1>4, <2>1, <3>1 DEF Marked, Timely, Visible
    <3> QED
      BY <1>5, <2>1, <3>1, <3>2
  <2>2. CASE ~(v = u /\ k = j)
    <3>1. Marked(v, k, read[v][k]) \subseteq there[v] /\ Timely(k, read[v][k])
      BY DEF ReadInv
    <3>2. read'[v][k] = read[v][k]
      BY <1>4, <2>2
    <3>3. Marked(v, k, read[v][k]) = Marked(v, k, read[v][k])' /\ Timely(k, read[v][k])'
      BY <1>3, <3>1, <3>2 DEF Marked, Timely, Visible
    <3> QED
      BY <1>5, <3>1, <3>3
  <2> QED
    BY <2>1, <2>2
<1>9. ASSUME NEW q \in Requests, At(q, "mark")'
      PROVE  (Marked(req[q].user, req[q].job, req[q].at) \subseteq req[q].seen /\ Timely(req[q].job, req[q].at))'
  <2>1. req'[q] = req[q] /\ At(q, "mark")
    BY <1>6, <1>9 DEF At
  <2>2. Marked(req[q].user, req[q].job, req[q].at) \subseteq req[q].seen /\ Timely(req[q].job, req[q].at)
    BY <2>1 DEF ReadInv
  <2> QED
    BY <1>3, <2>1, <2>2 DEF Marked, Timely, Visible
<1> QED
  BY <1>7, <1>8, <1>9 DEF ReadInv

(* A message that is not late is newer than all that can be marked.        *)
LEMMA ReadCommits == ASSUME MessageInv, ReadInv, NEW r \in Requests, CommitInsert(r) PROVE ReadInv'
<1>0. ReadTypes
  BY DEF ReadInv
<1>1. PICK q : q = req[r] /\ q.pc = "commit" /\ q.at \in Nat \ {0} /\ q.at <= now /\ q.job \in Jobs
  <2>1. req[r].pc = "commit" /\ req[r].op = "send"
    BY DEF CommitInsert, At
  <2>2. req[r].job \in Jobs
    BY <2>1, PlaceOfKind DEF Typed
  <2>3. req[r].at \in Nat \ {0} /\ req[r].at <= now
    BY <1>0, <2>1 DEF ReadTypes
  <2> QED
    BY <2>1, <2>2, <2>3
<1>2. PICK m : /\ msg' = Append(msg, m)
               /\ m = [by |-> q.user, job |-> q.job, text |-> q.text, at |-> q.at,
                       hidden |-> q.shadow, file |-> q.file, unscored |-> q.unscored,
                       late |-> \/ \E i \in DOMAIN msg : msg[i].job = q.job /\ msg[i].at >= q.at
                                \/ emptyAt[q.job] >= q.at]
  BY <1>1 DEF CommitInsert
<1>3. /\ m.job = q.job /\ m.at = q.at
      /\ ~m.late => emptyAt[q.job] < q.at /\ \A i \in DOMAIN msg : msg[i].job = q.job => msg[i].at < q.at
  <2>1. emptyAt[q.job] \in Nat /\ \A i \in DOMAIN msg : msg[i].at \in Nat
    BY <1>0, <1>1 DEF ReadTypes
  <2> QED
    BY <1>1, <1>2, <2>1
<1>4. /\ DOMAIN msg = 1..Len(msg) /\ DOMAIN msg' = 1..(Len(msg) + 1) /\ Len(msg) \in Nat
      /\ \A i \in DOMAIN msg : msg'[i] = msg[i]
      /\ msg'[Len(msg) + 1] = m
  <2>1. msg \in Seq(Message)
    BY DEF MessageInv, Shapes
  <2>2. msg \in Seq(Message \cup {m})
    BY <2>1, SeqMonotonic
  <2> QED
    BY <1>2, <2>2, AppendProperties, LenProperties
<1>5. UNCHANGED <<now, read, there, emptyAt>>
  BY DEF CommitInsert, general
<1>6. DOMAIN req' = Requests /\ req'[r] = Idle /\ \A p \in Requests \ {r} : req'[p] = req[p]
  BY <1>0 DEF CommitInsert, End, Become, ReadTypes
<1>i. Idle.pc = "idle"
  BY IdleTyped
<1>7. ReadTypes'
  <2>1. \A i \in DOMAIN msg' : msg'[i].at \in Nat \ {0} /\ msg'[i].at <= now
    BY <1>0, <1>1, <1>3, <1>4 DEF ReadTypes
  <2> QED
    BY <1>0, <1>5, <1>6, <1>i, <2>1 DEF ReadTypes
<1>8. Steady
  <2> SUFFICES ASSUME NEW u \in Users, NEW j \in Jobs, NEW a \in Nat, Timely(j, a)
               PROVE  Timely(j, a)' /\ Marked(u, j, a)' \subseteq Marked(u, j, a)
    BY DEF Steady
  <2>1. Timely(j, a)'
    BY <1>4, <1>5 DEF Timely
  <2>2. ASSUME NEW i, i \in Marked(u, j, a)' PROVE i \in Marked(u, j, a)
    <3>1. CASE i \in DOMAIN msg
      BY <1>4, <2>2, <3>1 DEF Marked, Visible
    <3>2. CASE i \notin DOMAIN msg
      <4>1. i \in DOMAIN msg'
        BY <2>2 DEF Marked
      <4>2. msg'[i] = m
        BY <1>4, <3>2, <4>1
      <4>3. m.job = j /\ ~m.late /\ m.at <= a
        BY <2>2, <4>2 DEF Marked
      <4>4. q.job = j /\ q.at <= a /\ q.at > 0 /\ emptyAt[j] < q.at /\ \A k \in DOMAIN msg : msg[k].job = j => msg[k].at < q.at
        BY <1>1, <1>3, <4>3
      <4>5. emptyAt[j] \in Nat /\ q.at \in Nat /\ \A k \in DOMAIN msg : msg[k].at \in Nat
        BY <1>0, <1>1 DEF ReadTypes
      <4> QED
        BY <4>4, <4>5 DEF Timely
    <3> QED
      BY <3>1, <3>2
  <2> QED
    BY <2>1, <2>2
<1>9. \A p \in Requests : req'[p] = req[p] \/ req'[p].pc # "mark"
  BY <1>6, <1>i
<1> QED
  BY <1>5, <1>7, <1>8, <1>9, ReadSteady

(* What an admin shows again comes late. *)
LEMMA ReadFlags == ASSUME MessageInv, ReadInv, NEW a \in Admins, AdminWrite(a) PROVE ReadInv'
<1>0. ReadTypes
  BY DEF ReadInv
<1>1. PICK t \in Targets, on \in BOOLEAN : t = adm[a].target /\ on = adm[a].on /\ SetFlag(t, on)
  BY DEF MessageInv, Shapes, AdminRequest, AdminWrite
<1>2. UNCHANGED <<req, now, read, there, emptyAt>>
  BY DEF AdminWrite
<1>3. /\ DOMAIN msg' = DOMAIN msg
      /\ \A i \in DOMAIN msg : /\ msg'[i].by = msg[i].by /\ msg'[i].job = msg[i].job /\ msg'[i].at = msg[i].at
                               /\ ~msg'[i].late => ~msg[i].late /\ (~msg'[i].hidden => ~msg[i].hidden)
  <2>1. CASE msg' = msg
    BY <2>1
  <2>2. CASE msg' # msg
    <3>0. msg' = msg \/ msg' = [msg EXCEPT ![t[2]] = Flagged(msg[t[2]], on)]
      BY <1>1 DEF SetFlag
    <3> DEFINE i == t[2]
    <3>1. msg' = [msg EXCEPT ![i] = Flagged(msg[i], on)]
      BY <2>2, <3>0
    <3>2. i \in DOMAIN msg
      <4>1. msg \in Seq(Message)
        BY DEF MessageInv, Shapes
      <4>2. msg = [k \in 1..Len(msg) |-> msg[k]] /\ DOMAIN msg = 1..Len(msg)
        BY <4>1, LenProperties
      <4> QED
        BY <2>2, <3>1, <4>1, <4>2
    <3>3. PICK m \in Message : m = msg[i]
      BY <3>2, RowType DEF MessageInv
    <3>4. PICK x : /\ x = Flagged(m, on)
                   /\ x.by = m.by /\ x.job = m.job /\ x.at = m.at
                   /\ ~x.late => ~m.late /\ on
                   /\ ~x.hidden => ~on
      <4>1. /\ Flagged(m, on).by = m.by /\ Flagged(m, on).job = m.job /\ Flagged(m, on).at = m.at
            /\ Flagged(m, on).late = (m.late \/ ~on) /\ Flagged(m, on).hidden = on
        BY DEF Flagged, Message
      <4> QED
        BY <4>1
    <3>5. msg' = [msg EXCEPT ![i] = x]
      BY <3>1, <3>3, <3>4
    <3>6. DOMAIN msg' = DOMAIN msg /\ msg'[i] = x /\ \A k \in DOMAIN msg \ {i} : msg'[k] = msg[k]
      BY <3>2, <3>5
    <3> HIDE DEF i
    <3> QED
      BY <3>3, <3>4, <3>6
  <2> QED
    BY <2>1, <2>2
<1>4. ReadTypes'
  BY <1>0, <1>2, <1>3 DEF ReadTypes
<1>5. Steady
  BY <1>2, <1>3 DEF Steady, Timely, Marked, Visible
<1> QED
  BY <1>2, <1>4, <1>5, ReadSteady

LEMMA NextRead == MessageInv /\ ReadInv /\ [Next]_vars => ReadInv'
<1> SUFFICES ASSUME MessageInv, ReadInv, [Next]_vars PROVE ReadInv'
  OBVIOUS
<1>0. ReadTypes
  BY DEF ReadInv
<1>q. ASSUME UNCHANGED <<msg, read, there, emptyAt, req>>, now' \in Nat \ {0}, now' >= now PROVE ReadInv'
  <2>1. ReadTypes'
    <3>1. \A j \in Jobs : emptyAt[j] \in Nat
      BY <1>0 DEF ReadTypes
    <3> QED
      BY <1>0, <1>q, <3>1 DEF ReadTypes
  <2>2. Steady
    BY <1>q DEF Steady, Timely, Marked, Visible
  <2> QED
    BY <1>q, <2>1, <2>2, ReadSteady
<1>t. now \in Nat \ {0} /\ now >= now
  BY <1>0 DEF ReadTypes
<1>1. CASE UNCHANGED vars
  BY <1>1, <1>q, <1>t DEF vars, messagingVars, thread, general
<1>2. CASE Tick
  <2>1. now' \in Nat \ {0} /\ now' >= now /\ UNCHANGED <<msg, read, there, emptyAt, req>>
    BY <1>t, <1>2 DEF Tick, thread
  <2> QED
    BY <1>q, <2>1
<1>3. CASE (\E j \in Jobs : JobCloses(j) \/ ExchangeMoves(j)) \/ (\E u, v \in Users : Block(u, v) \/ Unblock(u, v))
  BY <1>3, <1>q, <1>t DEF JobCloses, ExchangeMoves, Block, Unblock, thread, general
<1>4. ASSUME NEW r \in Requests, NEW f \in Keys, JobUpload(r, f) \/ VerificationUpload(r, f) PROVE ReadInv'
  <2>1. \E u \in Users : Upload(r, u, f)
    BY <1>4 DEF JobUpload, VerificationUpload, Users
  <2> QED
    BY <2>1, ReadStarts
<1>5. ASSUME NEW r \in Requests,
             \/ SendJob(r) \/ SendBlocked(r) \/ Score(r) \/ GateRead(r) \/ GateFails(r) \/ Punish(r) \/ ScoreFails(r)
             \/ LogOffence(r) \/ LogLost(r) \/ CountOffences(r) \/ RestrictUser(r)
             \/ PutObject(r) \/ CommitAttachment(r) \/ InsertFails(r) \/ Rollback(r) \/ Fail(r)
      PROVE  ReadInv'
  <2>1. Elsewhere(r)
    BY <1>5, StepsElsewhere
  <2>2. UNCHANGED <<msg, now, read, there, emptyAt>>
    BY <1>5 DEF SendJob, SendBlocked, Score, GateRead, GateFails, Gate, Punish, ScoreFails, LogOffence, LogLost,
                CountOffences, RestrictUser, PutObject, CommitAttachment, InsertFails, Rollback, Fail, thread, general
  <2> QED
    BY <2>1, <2>2, ReadQuiet
<1>6. CASE MessagingNext
  BY <1>2, <1>3, <1>4, <1>5, <1>6, ReadStarts, ReadBegins, ReadLooks, ReadMarks, ReadCommits DEF MessagingNext
<1>7. ASSUME NEW r \in Requests, NEW p \in Posts, NEW k \in Risks, PostStart(r, p, k) PROVE ReadInv'
  <2>1. [Idle EXCEPT !.pc = "assess", !.op = "job", !.user = "consumer", !.job = p, !.text = k].pc = "assess"
    BY DEF Idle
  <2> QED
    BY <1>7, <2>1, ReadQuiet DEF PostStart, Elsewhere, thread, general
<1>8. ASSUME NEW r \in Requests,
             \/ PostAssess(r) \/ PostCreate(r) \/ PostSignal(r) \/ PostHide(r) \/ PostScore(r) \/ PostDecide(r)
             \/ PostRestrict(r) \/ PostAnnounce(r) \/ PostFails(r)
      PROVE  ReadInv'
  <2>1. Elsewhere(r)
    BY <1>8, StepsElsewhere
  <2>2. UNCHANGED <<msg, now, read, there, emptyAt>>
    BY <1>8 DEF PostAssess, PostCreate, PostSignal, PostHide, PostScore, PostDecide, PostRestrict, PostAnnounce, PostFails,
                thread, general
  <2> QED
    BY <2>1, <2>2, ReadQuiet
<1>9. ASSUME NEW a \in Admins,
             \/ \E u \in {"consumer", "provider"} : Suspend(a, u) \/ Unsuspend(a, u)
             \/ \E j \in Jobs : HideJob(a, j) \/ UnhideJob(a, j) \/ SafetyUnhideJob(a, j)
             \/ \E i \in 1..MaxMessages : HideMessage(a, i) \/ UnhideMessage(a, i) \/ SafetyUnhideMessage(a, i)
             \/ \E on \in BOOLEAN : HandleReport(a, on)
      PROVE  ReadInv'
  <2>1. \E t, on : AdminStart(a, t, on)
    BY <1>9 DEF Suspend, Unsuspend, HideJob, UnhideJob, SafetyUnhideJob, HideMessage, UnhideMessage,
                SafetyUnhideMessage, HandleReport
  <2> QED
    BY <2>1, <1>q, <1>t DEF AdminStart, messagingVars, thread, general
<1>10. ASSUME NEW a \in Admins, AdminLog(a) \/ AdminFails(a) PROVE ReadInv'
  BY <1>10, <1>q, <1>t DEF AdminLog, AdminFails, messagingVars, thread, general
<1>11. CASE \/ \E u \in Users : Restore(u)
            \/ \E p \in Posts : PostUnhide(p)
            \/ \E r \in Requests : (\E n \in Tokens : AiStart(r, n)) \/ AiRead(r) \/ AiReset(r) \/ AiCharge(r) \/ AiFails(r)
            \/ MonthTurns \/ AiMonthlyReset
  BY <1>11, <1>q, <1>t DEF Restore, PostUnhide, AiStart, AiRead, AiReset, AiCharge, AiFails, MonthTurns, AiMonthlyReset,
                           messagingVars, thread, general
<1> QED
  BY <1>1, <1>6, <1>7, <1>8, <1>9, <1>10, <1>11, ReadFlags DEF Next, TrustNext

(* Nothing is lost by looking only at messages after a time that no        *)
(* thread's read state is before.                                          *)
LEMMA CountsAll ==
  ASSUME ReadTypes, NEW u \in Users, NEW t \in Nat, \A j \in MyThreads(u) : t <= read[u][j],
         \A i \in DOMAIN msg : msg[i].job \in Jobs
  PROVE  CountedSince(u, MyThreads(u), t) = AllUnread(u)
<1>1. ASSUME NEW j \in Jobs PROVE Unread(u, j) \subseteq Shown(u, j)
  BY DEF Unread, After
<1>2. ASSUME NEW j \in Jobs, NEW i \in Unread(u, j) PROVE j \in MyThreads(u) /\ i \in After(u, j, t)
  <2>1. i \in Shown(u, j) /\ j \in MyThreads(u)
    BY <1>1, <1>2 DEF MyThreads
  <2>2. t <= read[u][j] /\ read[u][j] \in Nat
    BY <2>1 DEF ReadTypes
  <2>3. msg[i].at \in Nat /\ msg[i].at > read[u][j] /\ msg[i].by # u
    BY <1>2, <2>1 DEF Unread, After, Shown, ReadTypes
  <2> QED
    BY <2>1, <2>2, <2>3 DEF After
<1>3. MyThreads(u) \subseteq Jobs
  BY DEF MyThreads
<1> QED
  BY <1>2, <1>3 DEF CountedSince, AllUnread

(* The earliest read state of the threads that were opened                 *)
LEMMA SinceEarliest ==
  ASSUME ReadTypes, NEW u \in Users
  PROVE  Since(u) \in Nat /\ \A j \in MyThreads(u) : read[u][j] # 0 => Since(u) <= read[u][j]
<1>1. \A j \in Jobs : read[u][j] \in Nat
  BY DEF ReadTypes
<1>2. PICK T \in SUBSET Nat : T = ReadStates(u) /\ \A j \in MyThreads(u) : read[u][j] # 0 => read[u][j] \in T
  BY <1>1 DEF ReadStates, MyThreads
<1>3. CASE T = {}
  BY <1>1, <1>2, <1>3 DEF Since, MyThreads
<1>4. CASE T # {}
  <2>1. \E m \in T : \A x \in T : m <= x
    BY <1>4, LeastOf
  <2>2. Min(T) \in T /\ \A x \in T : Min(T) <= x
    BY <2>1 DEF Min
  <2> QED
    BY <1>2, <1>4, <2>2 DEF Since
<1> QED
  BY <1>3, <1>4

(* A page of as many threads as there are holds each of them.              *)
LEMMA PageWhole ==
  ASSUME MessageInv, NEW u \in Users, NEW page \in Pages(u)
  PROVE  /\ Len(page) \in Nat /\ DOMAIN page = 1..Len(page)
         /\ \A k \in 1..Len(page) : page[k] \in MyThreads(u)
         /\ \A j \in MyThreads(u) : \E k \in 1..Len(page) : page[k] = j
<1>1. PICK T : T = MyThreads(u)
  OBVIOUS
<1>2. PICK L \in Nat : L = Len(msg) /\ DOMAIN msg = 1..L
  BY LenProperties DEF MessageInv, Shapes
<1>3. IsFiniteSet(1..L)
  BY FS_Interval
<1>4. IsFiniteSet(T)
  <2> DEFINE f == [i \in 1..L |-> msg[i].job]
             R == {msg[i].job : i \in 1..L}
  <2>1. f \in Surjection(1..L, R)
    BY DEF Surjection
  <2> HIDE DEF f
  <2>2. IsFiniteSet(R)
    BY <1>3, <2>1, FS_Surjection
  <2>3. T \subseteq R
    BY <1>1, <1>2 DEF MyThreads, Shown
  <2> QED
    BY <2>2, <2>3, FS_Subset
<1>5. PICK n \in Nat : n = Cardinality(T)
  BY <1>4, FS_CardinalityType
<1>6. page \in [1..n -> T] /\ IsInjective(page)
  BY <1>1, <1>5 DEF Pages
<1>7. IsFiniteSet(1..n) /\ Cardinality(1..n) = n
  <2>1. 1 \in Int /\ n \in Int
    OBVIOUS
  <2> QED
    BY <2>1, FS_Interval
<1>8. page \in Surjection(1..n, T)
  <2>1. page \in Injection(1..n, T)
    BY <1>6 DEF Injection
  <2> QED
    BY <1>4, <1>5, <1>7, <2>1, FS_Injection
<1>9. Len(page) = n /\ DOMAIN page = 1..n
  <2>1. page \in Seq(T)
    BY <1>6, SeqDef
  <2>2. DOMAIN page = 1..Len(page) /\ Len(page) \in Nat /\ DOMAIN page = 1..n
    BY <1>6, <2>1, LenProperties
  <2>3. PICK l \in Nat : l = Len(page) /\ 1..l = 1..n
    BY <2>2
  <2>4. (l # 0 => l \in 1..n) /\ (n # 0 => n \in 1..l)
    BY <2>3
  <2>5. Len(page) = n
    BY <2>3, <2>4
  <2> QED
    BY <2>2, <2>5
<1> QED
  BY <1>1, <1>6, <1>8, <1>9 DEF Surjection

(* The earliest read state of the first k threads of the page, in          *)
(* whichever order they come                                               *)
Step(u, page, s, k) == IF s = 0 \/ read[u][page[k]] < s THEN read[u][page[k]] ELSE s
Runs(u, page, n, f) == /\ f \in [0..n -> Nat] /\ f[0] = 0
                       /\ \A k \in 1..n : f[k] = Step(u, page, f[k - 1], k)

LEMMA RunExists ==
  ASSUME NEW u, NEW page, NEW L \in Nat, \A k \in 1..L : read[u][page[k]] \in Nat
  PROVE  \E f : Runs(u, page, L, f)
<1> DEFINE T == {n \in 0..L : ~\E f : Runs(u, page, n, f)}
<1>1. CASE T = {}
  BY <1>1
<1>2. CASE T # {}
  <2>1. T \in SUBSET Nat
    OBVIOUS
  <2>2. PICK n \in T : \A x \in T : n <= x
    BY <1>2, <2>1, LeastOf
  <2>3. n \in 0..L /\ ~\E f : Runs(u, page, n, f)
    OBVIOUS
  <2>4. CASE n = 0
    <3>1. Runs(u, page, 0, [k \in 0..0 |-> 0])
      BY DEF Runs
    <3> QED
      BY <2>3, <2>4, <3>1
  <2>5. CASE n # 0
    <3>1. n - 1 \in 0..L /\ n - 1 \notin T
      BY <2>1, <2>2, <2>3, <2>5
    <3>2. PICK f : Runs(u, page, n - 1, f)
      BY <3>1
    <3>3. f \in [0..(n - 1) -> Nat] /\ n \in 1..L /\ n - 1 \in 0..(n - 1)
      BY <2>3, <2>5, <3>2 DEF Runs
    <3>4. PICK v \in Nat : v = Step(u, page, f[n - 1], n)
      BY <3>3 DEF Step
    <3>5. PICK g : g = [k \in 0..n |-> IF k = n THEN v ELSE f[k]]
      OBVIOUS
    <3>6. \A k \in 0..n : k # n => k \in 0..(n - 1)
      BY <3>3
    <3>7. g \in [0..n -> Nat]
      BY <3>3, <3>4, <3>5, <3>6
    <3>8. g[n] = v /\ \A k \in 0..(n - 1) : g[k] = f[k]
      BY <3>3, <3>5
    <3>9. ASSUME NEW k \in 1..n PROVE g[k] = Step(u, page, g[k - 1], k)
      <4>1. k - 1 \in 0..(n - 1)
        BY <3>3
      <4>2. CASE k = n
        BY <3>4, <3>8, <4>1, <4>2
      <4>3. CASE k # n
        <5>1. k \in 1..(n - 1) /\ k \in 0..(n - 1)
          BY <3>3, <4>3
        <5> QED
          BY <3>2, <3>8, <4>1, <5>1 DEF Runs
      <4> QED
        BY <4>2, <4>3
    <3>10. g[0] = 0
      <4>1. 0 \in 0..(n - 1)
        BY <3>3
      <4> QED
        BY <3>2, <3>8, <4>1 DEF Runs
    <3>11. Runs(u, page, n, g)
      BY <3>7, <3>9, <3>10 DEF Runs
    <3> QED
      BY <2>3, <3>11
  <2> QED
    BY <2>4, <2>5
<1> QED
  BY <1>1, <1>2

(* After k threads that were all opened it is at most each one's.          *)
LEMMA RunEarliest ==
  ASSUME NEW u, NEW page, NEW L \in Nat, \A k \in 1..L : read[u][page[k]] \in Nat \ {0},
         NEW f, Runs(u, page, L, f), NEW k \in 1..L
  PROVE  f[k] # 0 /\ \A i \in 1..k : f[k] <= read[u][page[i]]
<1> DEFINE T == {n \in 1..L : ~(f[n] # 0 /\ \A i \in 1..n : f[n] <= read[u][page[i]])}
<1>1. CASE T = {}
  BY <1>1
<1>2. CASE T # {}
  <2>1. T \in SUBSET Nat
    OBVIOUS
  <2>2. PICK n \in T : \A x \in T : n <= x
    BY <1>2, <2>1, LeastOf
  <2>3. n \in 1..L /\ ~(f[n] # 0 /\ \A i \in 1..n : f[n] <= read[u][page[i]])
    OBVIOUS
  <2>4. PICK v \in Nat \ {0} : v = read[u][page[n]]
    BY <2>3
  <2>5. f[n] = Step(u, page, f[n - 1], n) /\ f \in [0..L -> Nat] /\ n - 1 \in 0..L /\ f[0] = 0
    BY <2>3 DEF Runs
  <2>6. PICK p \in Nat : p = f[n - 1]
    BY <2>5
  <2>7. f[n] = IF p = 0 \/ v < p THEN v ELSE p
    BY <2>4, <2>5, <2>6 DEF Step
  <2>8. CASE n = 1
    <3>1. p = 0
      BY <2>5, <2>6, <2>8
    <3>2. f[n] = v /\ \A i \in 1..n : i = n
      BY <2>7, <2>8, <3>1
    <3> QED
      BY <2>3, <2>4, <3>2
  <2>9. CASE n # 1
    <3>1. n - 1 \in 1..L /\ n - 1 \notin T
      BY <2>1, <2>2, <2>3, <2>9
    <3>2. p # 0 /\ \A i \in 1..(n - 1) : p <= read[u][page[i]]
      BY <2>6, <3>1
    <3>3. f[n] # 0 /\ f[n] <= v /\ f[n] <= p /\ f[n] \in Nat
      BY <2>4, <2>6, <2>7, <3>2
    <3>4. ASSUME NEW i \in 1..n PROVE f[n] <= read[u][page[i]]
      <4>1. CASE i = n
        BY <2>4, <3>3, <4>1
      <4>2. CASE i # n
        <5>1. i \in 1..(n - 1) /\ i \in 1..L
          BY <2>3, <4>2
        <5>2. read[u][page[i]] \in Nat /\ p <= read[u][page[i]]
          BY <3>2, <5>1
        <5> QED
          BY <3>3, <5>2
      <4> QED
        BY <4>1, <4>2
    <3> QED
      BY <2>3, <3>3, <3>4
  <2> QED
    BY <2>8, <2>9
<1> QED
  BY <1>1, <1>2

LEMMA PageSinceEarliest ==
  ASSUME MessageInv, ReadTypes, NEW u \in Users, NEW page \in Pages(u), \A j \in MyThreads(u) : read[u][j] # 0
  PROVE  PageSince(u, page) \in Nat /\ \A j \in MyThreads(u) : PageSince(u, page) <= read[u][j]
<1>1. PICK L \in Nat : /\ L = Len(page) /\ DOMAIN page = 1..L
                       /\ \A k \in 1..L : page[k] \in MyThreads(u)
                       /\ \A j \in MyThreads(u) : \E k \in 1..L : page[k] = j
  BY PageWhole
<1>2. \A k \in 1..L : read[u][page[k]] \in Nat \ {0}
  BY <1>1 DEF ReadTypes, MyThreads
<1> DEFINE Body(s) == [k \in 0..L |-> IF k = 0 THEN 0
                                      ELSE IF s[k - 1] = 0 \/ read[u][page[k]] < s[k - 1] THEN read[u][page[k]]
                                      ELSE s[k - 1]]
<1>3. \E s : s = Body(s)
  <2>1. PICK f : Runs(u, page, L, f)
    BY <1>2, RunExists
  <2>2. f \in [0..L -> Nat]
    BY <2>1 DEF Runs
  <2>3. ASSUME NEW k \in 0..L PROVE f[k] = Body(f)[k]
    <3>1. CASE k = 0
      BY <2>1, <3>1 DEF Runs
    <3>2. CASE k # 0
      BY <2>1, <3>2 DEF Runs, Step
    <3> QED
      BY <3>1, <3>2
  <2>4. f = [k \in 0..L |-> f[k]]
    BY <2>2
  <2>5. PICK g : g = Body(f)
    OBVIOUS
  <2>6. g = [k \in 0..L |-> g[k]] /\ \A k \in 0..L : g[k] = f[k]
    BY <2>3, <2>5
  <2>7. f = g
    BY <2>4, <2>6
  <2> QED
    BY <2>5, <2>7
<1>4. PICK s : s = Body(s) /\ PageSince(u, page) = s[L]
  BY <1>1, <1>3 DEF PageSince
<1>5. Runs(u, page, L, s)
  <2>1. DOMAIN s = 0..L
    BY <1>4
  <2>2. s[0] = 0
    BY <1>4
  <2>3. \A k \in 1..L : s[k] = Step(u, page, s[k - 1], k)
    BY <1>4 DEF Step
  <2>4. \A k \in 0..L : s[k] \in Nat
    <3> DEFINE T == {k \in 0..L : s[k] \notin Nat}
    <3>1. CASE T = {}
      BY <3>1
    <3>2. CASE T # {}
      <4>1. T \in SUBSET Nat
        OBVIOUS
      <4>2. PICK n \in T : \A x \in T : n <= x
        BY <3>2, <4>1, LeastOf
      <4>3. n \in 1..L /\ s[n] \notin Nat
        BY <2>2
      <4>4. n - 1 \in 0..L /\ n - 1 \notin T
        BY <4>1, <4>2, <4>3
      <4>5. s[n - 1] \in Nat
        BY <4>4
      <4> QED
        BY <1>2, <2>3, <4>3, <4>5 DEF Step
    <3> QED
      BY <3>1, <3>2
  <2>5. s = [k \in 0..L |-> s[k]]
    BY <1>4
  <2> QED
    BY <2>2, <2>3, <2>4, <2>5 DEF Runs
<1>6. CASE L = 0
  BY <1>1, <1>4, <1>5, <1>6 DEF Runs
<1>7. CASE L # 0
  <2>1. L \in 1..L
    BY <1>7
  <2>2. s[L] \in Nat
    BY <1>5, <2>1 DEF Runs
  <2>3. \A i \in 1..L : s[L] <= read[u][page[i]]
    BY <1>2, <1>5, <2>1, RunEarliest
  <2> QED
    BY <1>1, <1>4, <2>2, <2>3
<1> QED
  BY <1>6, <1>7

(* Whatever is counted as read was there when its reader looked, and what  *)
(* is not is counted by the total and by the pages of the inbox.           *)
THEOREM ReadIsExact == Spec => []ReadExact
<1>1. MessageInv /\ ReadInv => ReadExact
  <2> SUFFICES ASSUME MessageInv, ReadInv, NEW u \in Users
               PROVE  /\ \A i \in DOMAIN msg : /\ msg[i].by # u /\ Visible(u, i) /\ ~msg[i].late
                                              /\ msg[i].at <= read[u][msg[i].job]
                                              => i \in there[u]
                      /\ (\A j \in MyThreads(u) : read[u][j] # 0)
                            => /\ CountedUnread(u) = AllUnread(u)
                               /\ \A page \in Pages(u) : PageUnread(u, page) = AllUnread(u)
    BY DEF ReadExact
  <2>0. ReadTypes
    BY DEF ReadInv
  <2>1. \A i \in DOMAIN msg : msg[i].job \in Jobs
    BY RowType DEF MessageInv, Message
  <2>2. ASSUME NEW i \in DOMAIN msg, msg[i].by # u, Visible(u, i), ~msg[i].late, msg[i].at <= read[u][msg[i].job]
        PROVE  i \in there[u]
    <3>1. PICK j \in Jobs : j = msg[i].job
      BY <2>1
    <3>2. i \in Marked(u, j, read[u][j])
      BY <2>2, <3>1 DEF Marked
    <3> QED
      BY <3>2 DEF ReadInv
  <2>3. ASSUME \A j \in MyThreads(u) : read[u][j] # 0
        PROVE  CountedUnread(u) = AllUnread(u) /\ \A page \in Pages(u) : PageUnread(u, page) = AllUnread(u)
    <3>1. CountedUnread(u) = AllUnread(u)
      BY <2>0, <2>1, <2>3, SinceEarliest, CountsAll DEF CountedUnread
    <3>2. ASSUME NEW page \in Pages(u) PROVE PageUnread(u, page) = AllUnread(u)
      BY <2>0, <2>1, <2>3, PageSinceEarliest, CountsAll DEF PageUnread
    <3> QED
      BY <3>1, <3>2
  <2> QED
    BY <2>2, <2>3
<1> QED
  BY <1>1, InitMessages, InitRead, NextMessages, NextRead, PTL DEF Spec

=============================================================================
