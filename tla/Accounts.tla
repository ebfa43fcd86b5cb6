------------------------------ MODULE Accounts ------------------------------
(***************************************************************************)
(* One account: sign-up, e-mail verification, login with its throttling,   *)
(* password reset (src/server.ts, routes/authLogin.ts,                     *)
(* services/loginBruteForceProtector.ts).                                  *)
(*                                                                         *)
(* A request is a sequence of awaits on Postgres, on Redis or on the       *)
(* mailer, one action each.  The Redis commands a login still has to send  *)
(* are its todo: they are separate commands, and other requests come in    *)
(* between.  bcrypt is a comparison of passwords.  A link is the single    *)
(* secret of a mail.  Left out: the profile fields, the security log, the  *)
(* headers, the signed tokens and the rate limits of the routes.           *)
(***************************************************************************)
EXTENDS Naturals, Sequences, FiniteSets

CONSTANTS Requests,      \* requests in flight at once
          Links,         \* secrets randomToken can draw
          Passwords,     \* passwords anybody may try or choose
          MaxFailsIdent, \* maxFailuresPerIdentity
          MaxFailsIp,    \* maxFailuresPerIp
          MaxCrashes,    \* bound: rejected awaits and deaths of the process
          None           \* no link

ASSUME AccountAssumption ==
    /\ IsFiniteSet(Requests) /\ Requests # {}
    /\ MaxFailsIdent \in Nat \ {0}
    /\ MaxFailsIp \in Nat \ {0}
    /\ MaxCrashes \in Nat
    /\ None \notin Links
    /\ Passwords # {}

Dims == {"ident", "ip"}                 \* what failures are counted by
Commands == [op : {"expire", "cool", "del", "release"}, key : Dims]

MaxFails(d) == IF d = "ip" THEN MaxFailsIp ELSE MaxFailsIdent

VARIABLES
    user,      \* the User row
    mailed,    \* those of its links that reached the mailbox
    stale,     \* those of its links whose expiry has passed
    counter,   \* counter[k]: Redis key with a count n (0: no key) and whether it has a TTL
    cool,      \* cool[d]: the cooldown key is there; it always has a TTL
    req,       \* req[r]: where request r is and what it carries
    guesses,   \* history: wrong passwords since the last cooldown or new count
    uses,      \* history: uses[l], password changes made with link l
    lost,      \* history: counters whose PEXPIRE was lost to a crash
    crashes    \* crashes so far

rows == <<user, mailed, stale>>
redis == <<counter, cool>>
history == <<guesses, uses, lost, crashes>>
vars == <<rows, redis, req, history>>

NoUser == [exists |-> FALSE, password |-> CHOOSE p \in Passwords : TRUE, verified |-> FALSE,
           verifyLink |-> None, resetLink |-> None]
Idle == [pc |-> "idle", password |-> CHOOSE p \in Passwords : TRUE, link |-> None,
         todo |-> <<>>, ok |-> FALSE]

Init == /\ user = NoUser
        /\ mailed = {} /\ stale = {}
        /\ counter = [k \in Dims |-> [n |-> 0, ttl |-> FALSE]]
        /\ cool = [d \in Dims |-> FALSE]
        /\ req = [r \in Requests |-> Idle]
        /\ guesses = 0
        /\ uses = [l \in Links |-> 0]
        /\ lost = {}
        /\ crashes = 0

PCs == {"idle", "create", "mail", "verify", "forgot", "reset", "find", "fail", "redis"}

(* INCR.  A count is compared with its threshold only: all above it are alike. *)
Bump(d) == IF counter[d].n <= MaxFails(d) THEN counter[d].n + 1 ELSE counter[d].n

At(r, pc) == req[r].pc = pc
Become(r, s) == req' = [req EXCEPT ![r] = s]
Goto(r, pc) == Become(r, [req[r] EXCEPT !.pc = pc])
End(r) == Become(r, Idle)

(* 32 random bytes: a secret that is in no row and in no request *)
Fresh(l) == /\ l \notin {user.verifyLink, user.resetLink}
            /\ \A r \in Requests : req[r].link # l

(* The row becomes u and links are sent; whether a link that the row no    *)
(* longer holds was mailed or has expired can't matter any more.           *)
Update(u, sent) ==
    LET held == {u.verifyLink, u.resetLink}
    IN  /\ user' = u
        /\ mailed' = (mailed \cup sent) \cap held
        /\ stale' = stale \cap held

----------------------------------------------------------------------------
(* POST /auth/signup, /verify-email, /forgot-password, /reset-password *)

SignupCheck(r, p) ==
    /\ At(r, "idle")
    /\ ~user.exists
    /\ Become(r, [Idle EXCEPT !.pc = "create", !.password = p])
    /\ UNCHANGED <<rows, redis, history>>

(* The unique e-mail refuses a second row.  (The event that follows is     *)
(* enqueued with errors swallowed.)                                        *)
SignupCreate(r, l) ==
    /\ At(r, "create")
    /\ Fresh(l)
    /\ IF user.exists
         THEN End(r) /\ UNCHANGED rows
         ELSE /\ Update([NoUser EXCEPT !.exists = TRUE, !.password = req[r].password,
                                        !.verifyLink = l], {})
              /\ Become(r, [Idle EXCEPT !.pc = "mail", !.link = l])
    /\ UNCHANGED <<redis, history>>

(* sendMail, after the row is written *)
SendMail(r) ==
    /\ At(r, "mail")
    /\ Update(user, {req[r].link})
    /\ End(r)
    /\ UNCHANGED <<redis, history>>

Valid(l, column) == column = l /\ l \notin stale

VerifyFind(r, l) ==
    /\ At(r, "idle")
    /\ l \in mailed
    /\ Valid(l, user.verifyLink)
    /\ Goto(r, "verify")
    /\ UNCHANGED <<rows, redis, history>>

VerifyWrite(r) ==
    /\ At(r, "verify")
    /\ Update([user EXCEPT !.verified = TRUE, !.verifyLink = None], {})
    /\ End(r)
    /\ UNCHANGED <<redis, history>>

ForgotFind(r) ==
    /\ At(r, "idle")
    /\ user.exists
    /\ Goto(r, "forgot")
    /\ UNCHANGED <<rows, redis, history>>

ForgotWrite(r, l) ==
    /\ At(r, "forgot")
    /\ Fresh(l)
    /\ Update([user EXCEPT !.resetLink = l], {})
    /\ Become(r, [Idle EXCEPT !.pc = "mail", !.link = l])
    /\ uses' = [uses EXCEPT ![l] = 0]
    /\ UNCHANGED <<redis, guesses, lost, crashes>>

ResetFind(r, l, p) ==
    /\ At(r, "idle")
    /\ l \in mailed
    /\ Valid(l, user.resetLink)
    /\ Become(r, [Idle EXCEPT !.pc = "reset", !.password = p, !.link = l])
    /\ UNCHANGED <<rows, redis, history>>

ResetUser_KeepsLink(p) == [user EXCEPT !.password = p]                \* mutant
ResetUser(p) == [user EXCEPT !.password = p, !.resetLink = None]

(* Update by id, whatever link the row holds by now.  Uses are counted *)
(* while the row or another request still has the link.                *)
ResetWrite(r) ==
    LET l == req[r].link
        u == ResetUser(req[r].password)
        held == l = u.resetLink \/ \E q \in Requests \ {r} : req[q].link = l
    IN  /\ At(r, "reset")
        /\ Update(u, {})
        /\ uses' = [uses EXCEPT ![l] = IF held THEN @ + 1 ELSE 0]
        /\ End(r)
        /\ UNCHANGED <<redis, guesses, lost, crashes>>

----------------------------------------------------------------------------
(* POST /auth/login *)

Cmd(op, k) == [op |-> op, key |-> k]
When(cond, op, k) == IF cond THEN <<Cmd(op, k)>> ELSE <<>>

LoginCheck(r, p) ==
    /\ At(r, "idle")
    /\ IF \E d \in Dims : cool[d] THEN End(r) ELSE Become(r, [Idle EXCEPT !.pc = "find", !.password = p])
    /\ UNCHANGED <<rows, redis, history>>

(* onSuccess: the four DELs, in their order *)
AfterSuccess == <<Cmd("del", "ident"), Cmd("release", "ident"), Cmd("del", "ip"), Cmd("release", "ip")>>

LoginFind(r) ==
    LET ok == user.exists /\ user.password = req[r].password
    IN  /\ At(r, "find")
        /\ Become(r, IF ok THEN [req[r] EXCEPT !.pc = "redis", !.ok = TRUE, !.todo = AfterSuccess]
                     ELSE [req[r] EXCEPT !.pc = "fail", !.ok = FALSE])
        /\ UNCHANGED <<rows, redis, history>>

IsFirst_Never(n) == FALSE                                             \* mutant
IsFirst(n) == n = 1
TooMany_OffByOne(n, d) == n > MaxFails(d)                             \* mutant
TooMany(n, d) == n >= MaxFails(d)

(* onFailure: both INCRs at once, then what their answers ask for *)
LoginFail(r) ==
    LET n == [d \in Dims |-> Bump(d)]
    IN  /\ At(r, "fail")
        /\ counter' = [d \in Dims |-> [counter[d] EXCEPT !.n = n[d]]]
        /\ guesses' = guesses + 1
        /\ Become(r, [req[r] EXCEPT !.pc = "redis",
                         !.todo = When(IsFirst(n["ip"]), "expire", "ip")
                                  \o When(IsFirst(n["ident"]), "expire", "ident")
                                  \o When(TooMany(n["ip"], "ip"), "cool", "ip")
                                  \o When(TooMany(n["ident"], "ident"), "cool", "ident")])
        /\ UNCHANGED <<rows, cool, uses, lost, crashes>>

(* The next command of r; PEXPIRE of a key that is gone does nothing. *)
RedisCommand(r) ==
    LET op == Head(req[r].todo).op
        k == Head(req[r].todo).key
    IN  /\ req[r].todo # <<>>
        /\ Become(r, [req[r] EXCEPT !.todo = Tail(@)])
        /\ counter' = CASE op = "expire" -> [counter EXCEPT ![k].ttl = counter[k].n > 0]
                        [] op = "del" -> [counter EXCEPT ![k] = [n |-> 0, ttl |-> FALSE]]
                        [] OTHER -> counter
        /\ cool' = IF op \in {"cool", "release"} THEN [cool EXCEPT ![k] = (op = "cool")] ELSE cool
        /\ guesses' = IF k = "ident" /\ op \in {"cool", "del"} THEN 0 ELSE guesses
        /\ lost' = IF op = "del" \/ (op = "expire" /\ counter[k].n > 0)
                     THEN lost \ {k} ELSE lost
        /\ UNCHANGED <<rows, uses, crashes>>

(* All commands answered: a token on success, 401 or 429 otherwise *)
LoginEnd(r) ==
    /\ At(r, "redis") /\ req[r].todo = <<>>
    /\ End(r)
    /\ UNCHANGED <<rows, redis, history>>

----------------------------------------------------------------------------
(* Time and failures *)

LinkExpires(l) ==
    /\ l \in {user.verifyLink, user.resetLink} \ stale
    /\ stale' = stale \cup {l}
    /\ UNCHANGED <<user, mailed, redis, req, history>>

CounterExpires(k) ==
    /\ counter[k].ttl
    /\ counter' = [counter EXCEPT ![k] = [n |-> 0, ttl |-> FALSE]]
    /\ guesses' = IF k = "ident" THEN 0 ELSE guesses
    /\ lost' = lost \ {k}
    /\ UNCHANGED <<rows, cool, req, uses, crashes>>

CooldownExpires(d) ==
    /\ cool[d]
    /\ cool' = [cool EXCEPT ![d] = FALSE]
    /\ UNCHANGED <<rows, counter, req, history>>

(* An await of r rejects, or the process ends: what was written stays. *)
Expiring(r) == {c.key : c \in {req[r].todo[i] : i \in DOMAIN req[r].todo}
                                \cap [op : {"expire"}, key : Dims]}

Fail(r) ==
    /\ ~At(r, "idle")
    /\ crashes < MaxCrashes
    /\ crashes' = crashes + 1
    /\ lost' = lost \cup Expiring(r)
    /\ End(r)
    /\ UNCHANGED <<rows, redis, guesses, uses>>

----------------------------------------------------------------------------
Next ==
    \/ \E r \in Requests :
          \/ \E p \in Passwords : SignupCheck(r, p) \/ LoginCheck(r, p)
          \/ \E l \in Links : \/ SignupCreate(r, l) \/ VerifyFind(r, l) \/ ForgotWrite(r, l)
                              \/ \E p \in Passwords : ResetFind(r, l, p)
          \/ SendMail(r) \/ VerifyWrite(r) \/ ForgotFind(r) \/ ResetWrite(r)
          \/ LoginFind(r)
          \/ LoginFail(r) \/ RedisCommand(r) \/ LoginEnd(r)
          \/ Fail(r)
    \/ \E l \in Links : LinkExpires(l)
    \/ \E k \in Dims : CounterExpires(k)
    \/ \E d \in Dims : CooldownExpires(d)

Spec == Init /\ [][Next]_vars

----------------------------------------------------------------------------
(* Types; a request about to write a link or a password carries it. *)
TypeOK ==
    /\ user \in [exists : BOOLEAN, password : Passwords, verified : BOOLEAN,
                 verifyLink : Links \cup {None}, resetLink : Links \cup {None}]
    /\ mailed \subseteq Links /\ stale \subseteq Links
    /\ counter \in [Dims -> [n : Nat, ttl : BOOLEAN]]
    /\ cool \in [Dims -> BOOLEAN]
    /\ req \in [Requests -> [pc : PCs, password : Passwords, link : Links \cup {None},
                            todo : Seq(Commands), ok : BOOLEAN]]
    /\ \A r \in Requests : req[r].pc \in {"mail", "reset"} => req[r].link \in Links
    /\ guesses \in Nat
    /\ uses \in [Links -> Nat]
    /\ lost \subseteq Dims
    /\ crashes \in 0..MaxCrashes

(* However logins interleave, the wrong passwords counted for an identity  *)
(* between two cooldowns (or resets of the count) exceed the threshold by  *)
(* no more than the other requests that were past the check already, and   *)
(* the requests that died before they could set the cooldown               *)
(* (loginBruteForceProtector: check, INCR and SET are commands of their    *)
(* own).                                                                   *)
GuessesBounded == guesses <= MaxFailsIdent - 1 + Cardinality(Requests) + crashes

(* A reset link changes the password once, but for the requests that found *)
(* it before the first of them cleared it (POST /auth/reset-password reads *)
(* the link and later updates by id): while one of them or the row still   *)
(* holds it, it was used by others only.                                   *)
ResetsBounded == \A l \in Links : uses[l] < Cardinality(Requests)

(* A Redis count that will never expire is one whose PEXPIRE a crash took: *)
(* deletions, expiries and counts of other requests in between lose none.  *)
CountersExpire ==
    \A k \in Dims :
        counter[k].n > 0 /\ ~counter[k].ttl
            => k \in lost \/ \E r \in Requests : k \in Expiring(r)

=============================================================================
