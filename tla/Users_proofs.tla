---------------------------- MODULE Users_proofs ----------------------------
(***************************************************************************)
(* What concerns a user himself: his account, and what he is told.         *)
(*                                                                         *)
(* Types of Accounts, that no Redis count outlives its window but for a    *)
(* crash, and the bounds on wrong passwords and on the uses of a link.     *)
(* The second needs a strengthening: a request has Redis commands left     *)
(* only while it is in that phase, so that every way to end a request but  *)
(* a failure leaves nothing unsent.  The bounds count requests: those that *)
(* have the cooldown still to set, and those that hold the link.           *)
(*                                                                         *)
(* Proofs about Notices, for any providers, jobs, workers and devices.     *)
(* NotifiedOnce rests on the unique key the transaction meets, WindowKept  *)
(* on a count in which a worker that has passed the cap is charged for     *)
(* what it will insert.  PushAccounted follows each message through the    *)
(* heaps of a send, BellAgrees each mark to the request that carries it.   *)
(***************************************************************************)
EXTENDS Accounts, Notices, FiniteSetTheorems, SequenceTheorems, TLAPS

USE DEF PCs, Dims

Request == [pc : PCs, password : Passwords, link : Links \cup {None},
            todo : Seq(Commands), ok : BOOLEAN]

LEMMA IdleType == Idle \in Request /\ NoUser.password \in Passwords
<1>1. (CHOOSE p \in Passwords : TRUE) \in Passwords
  BY AccountAssumption
<1> QED
  BY <1>1 DEF Idle, NoUser, Request

----------------------------------------------------------------------------
(* Sequences of commands *)

Has(s, c) == \E i \in DOMAIN s : s[i] = c

LEMMA Single == ASSUME NEW S, NEW x \in S PROVE <<x>> \in Seq(S) /\ Has(<<x>>, x)
BY DEF Has

(* A concatenation has what its parts have. *)
LEMMA Concat ==
  ASSUME NEW S, NEW s \in Seq(S), NEW t \in Seq(S)
  PROVE  /\ s \o t \in Seq(S)
         /\ \A c : Has(s, c) \/ Has(t, c) => Has(s \o t, c)
<1>1. s \o t \in Seq(S)
  OBVIOUS
<1>2. ASSUME NEW c, Has(s, c) PROVE Has(s \o t, c)
  <2>1. PICK i \in 1..Len(s) : s[i] = c
    BY <1>2 DEF Has
  <2>2. i \in 1..Len(s \o t) /\ (s \o t)[i] = s[i]
    OBVIOUS
  <2> QED
    BY <1>1, <2>1, <2>2 DEF Has
<1>3. ASSUME NEW c, Has(t, c) PROVE Has(s \o t, c)
  <2>1. PICK i \in 1..Len(t) : t[i] = c
    BY <1>3 DEF Has
  <2>2. Len(s) + i \in 1..Len(s \o t) /\ (s \o t)[Len(s) + i] = t[i]
    OBVIOUS
  <2> QED
    BY <1>1, <2>1, <2>2 DEF Has
<1> QED
  BY <1>1, <1>2, <1>3

(* What a sequence has besides its head is in its tail. *)
LEMMA TailHas ==
  ASSUME NEW S, NEW s \in Seq(S), s # <<>>, NEW c, Has(s, c), c # Head(s)
  PROVE  Has(Tail(s), c)
<1>1. PICK i \in 1..Len(s) : s[i] = c
  BY DEF Has
<1>2. i # 1 /\ i - 1 \in 1..Len(Tail(s)) /\ Tail(s)[i - 1] = s[i]
  BY <1>1
<1>3. DOMAIN Tail(s) = 1..Len(Tail(s))
  OBVIOUS
<1> QED
  BY <1>1, <1>2, <1>3 DEF Has

LEMMA WhenType ==
  ASSUME NEW b \in BOOLEAN, NEW op \in {"expire", "cool", "del", "release"}, NEW k \in Dims
  PROVE  /\ When(b, op, k) \in Seq(Commands)
         /\ b => Has(When(b, op, k), Cmd(op, k))
<1>1. Cmd(op, k) \in Commands
  BY DEF Cmd, Commands
<1> QED
  BY <1>1, Single DEF When

(* What the commands onFailure asks for are: those whose condition holds. *)
LEMMA FailTodo ==
  ASSUME NEW a \in BOOLEAN, NEW b \in BOOLEAN, NEW c \in BOOLEAN, NEW d \in BOOLEAN,
         NEW todo, todo = When(a, "expire", "ip") \o When(b, "expire", "ident")
                            \o When(c, "cool", "ip") \o When(d, "cool", "ident")
  PROVE  /\ todo \in Seq(Commands)
         /\ a => Has(todo, Cmd("expire", "ip"))
         /\ b => Has(todo, Cmd("expire", "ident"))
         /\ d => Has(todo, Cmd("cool", "ident"))
<1> DEFINE A == When(a, "expire", "ip")
           B == When(b, "expire", "ident")
           C == When(c, "cool", "ip")
           D == When(d, "cool", "ident")
<1>1. A \in Seq(Commands) /\ B \in Seq(Commands) /\ C \in Seq(Commands) /\ D \in Seq(Commands)
  BY WhenType
<1>2. /\ a => Has(A, Cmd("expire", "ip"))
      /\ b => Has(B, Cmd("expire", "ident"))
      /\ d => Has(D, Cmd("cool", "ident"))
  BY WhenType
<1> HIDE DEF A, B, C, D
<1>3. A \o B \in Seq(Commands) /\ \A e : Has(A, e) \/ Has(B, e) => Has(A \o B, e)
  BY <1>1, Concat
<1>4. A \o B \o C \in Seq(Commands) /\ \A e : Has(A \o B, e) => Has(A \o B \o C, e)
  BY <1>1, <1>3, Concat
<1>5. A \o B \o C \o D \in Seq(Commands) /\ \A e : Has(A \o B \o C, e) \/ Has(D, e) => Has(A \o B \o C \o D, e)
  BY <1>1, <1>4, Concat
<1>6. todo = A \o B \o C \o D
  BY DEF A, B, C, D
<1> QED
  BY <1>2, <1>3, <1>4, <1>5, <1>6

LEMMA SuccessTodo == AfterSuccess \in Seq(Commands)
<1>1. \A op \in {"expire", "cool", "del", "release"}, k \in Dims : Cmd(op, k) \in Commands
  BY DEF Cmd, Commands
<1> QED
  BY <1>1 DEF AfterSuccess

LEMMA ExpireCommands ==
  ASSUME NEW todo \in Seq(Commands), NEW k \in Dims
  PROVE  k \in {c.key : c \in {todo[i] : i \in DOMAIN todo} \cap [op : {"expire"}, key : Dims]}
           <=> Has(todo, Cmd("expire", k))
<1>1. \A i \in DOMAIN todo : todo[i] \in Commands
  OBVIOUS
<1> QED
  BY <1>1 DEF Has, Cmd, Commands

LEMMA ExpiringIsHas ==
  ASSUME NEW r \in Requests, NEW k \in Dims
  PROVE  /\ TypeOK => (k \in Expiring(r) <=> Has(req[r].todo, Cmd("expire", k)))
         /\ TypeOK' => (k \in Expiring(r)' <=> Has(req'[r].todo, Cmd("expire", k)))
<1>1. TypeOK => req[r].todo \in Seq(Commands)
  BY DEF TypeOK
<1>2. TypeOK' => req'[r].todo \in Seq(Commands)
  BY DEF TypeOK
<1> QED
  BY <1>1, <1>2, ExpireCommands DEF Expiring

----------------------------------------------------------------------------
(* Types *)

User == [exists : BOOLEAN, password : Passwords, verified : BOOLEAN,
         verifyLink : Links \cup {None}, resetLink : Links \cup {None}]
RowsOK == user \in User /\ mailed \subseteq Links /\ stale \subseteq Links
RedisOK == counter \in [Dims -> [n : Nat, ttl : BOOLEAN]] /\ cool \in [Dims -> BOOLEAN]
RequestsOK == /\ req \in [Requests -> Request]
              /\ \A r \in Requests : req[r].pc \in {"mail", "reset"} => req[r].link \in Links
HistoryOK == guesses \in Nat /\ uses \in [Links -> Nat] /\ lost \subseteq Dims /\ crashes \in 0..MaxCrashes

LEMMA TypeParts == TypeOK <=> RowsOK /\ RedisOK /\ RequestsOK /\ HistoryOK
BY DEF TypeOK, RowsOK, RedisOK, RequestsOK, HistoryOK, User, Request

LEMMA BecomeType ==
  ASSUME RequestsOK, NEW r \in Requests, NEW s \in Request,
         s.pc \in {"mail", "reset"} => s.link \in Links, Become(r, s)
  PROVE  RequestsOK'
BY DEF RequestsOK, Become

LEMMA EndType ==
  ASSUME RequestsOK, NEW r \in Requests, End(r)
  PROVE  RequestsOK'
<1>1. Idle.pc \notin {"mail", "reset"}
  BY DEF Idle
<1> QED
  BY <1>1, IdleType, BecomeType DEF End

LEMMA UpdateType ==
  ASSUME RowsOK, NEW u \in User, NEW sent, sent \subseteq Links, Update(u, sent)
  PROVE  RowsOK'
BY AccountAssumption DEF RowsOK, Update, User

LEMMA BumpType == TypeOK => \A d \in Dims : Bump(d) \in Nat
BY DEF TypeOK, Bump

LEMMA InitType == Init => TypeOK
<1> SUFFICES ASSUME Init PROVE TypeOK
  OBVIOUS
<1>1. RowsOK
  BY IdleType DEF Init, RowsOK, User, NoUser
<1>2. RedisOK
  BY DEF Init, RedisOK
<1>3. RequestsOK
  BY IdleType DEF Init, RequestsOK, Idle
<1>4. HistoryOK
  BY AccountAssumption DEF Init, HistoryOK
<1> QED
  BY <1>1, <1>2, <1>3, <1>4, TypeParts

LEMMA NextType == TypeOK /\ [Next]_vars => TypeOK'
<1> SUFFICES ASSUME TypeOK, [Next]_vars PROVE TypeOK'
  OBVIOUS
<1>t. RowsOK /\ RedisOK /\ RequestsOK /\ HistoryOK
  BY TypeParts
<1> USE DEF vars, rows, redis, history
<1>parts. ASSUME RowsOK', RedisOK', RequestsOK', HistoryOK' PROVE TypeOK'
  BY <1>parts DEF TypeOK, RowsOK, RedisOK, RequestsOK, HistoryOK, User, Request
<1>u. ASSUME UNCHANGED vars PROVE TypeOK'
  BY <1>u DEF TypeOK
<1>1. ASSUME NEW r \in Requests, NEW p \in Passwords, SignupCheck(r, p) PROVE TypeOK'
  <2>1. [Idle EXCEPT !.pc = "create", !.password = p] \in Request
    BY IdleType DEF Request
  <2>2. RequestsOK'
    BY <1>t, <1>1, <2>1, BecomeType DEF SignupCheck, Idle
  <2> QED
    BY <1>t, <1>1, <2>2, <1>parts DEF SignupCheck, RowsOK, RedisOK, HistoryOK
<1>2. ASSUME NEW r \in Requests, NEW l \in Links, SignupCreate(r, l) PROVE TypeOK'
  <2> DEFINE u == [NoUser EXCEPT !.exists = TRUE, !.password = req[r].password, !.verifyLink = l]
             s == [Idle EXCEPT !.pc = "mail", !.link = l]
  <2>1. u \in User /\ s \in Request /\ s.link \in Links
    BY <1>t, IdleType DEF User, NoUser, RequestsOK, Request, Idle
  <2>2. RequestsOK' /\ RowsOK'
    <3>1. CASE user.exists
      BY <1>t, <1>2, <3>1, EndType DEF SignupCreate, RowsOK
    <3>2. CASE ~user.exists
      <4>1. Update(u, {}) /\ Become(r, s) /\ {} \subseteq Links
        BY <1>2, <3>2 DEF SignupCreate
      <4> HIDE DEF u, s
      <4> QED
        BY <1>t, <2>1, <4>1, BecomeType, UpdateType
    <3> QED
      BY <3>1, <3>2
  <2> QED
    BY <1>t, <1>2, <2>2, <1>parts DEF SignupCreate, RedisOK, HistoryOK
<1>3. ASSUME NEW r \in Requests, SendMail(r) PROVE TypeOK'
  <2>1. user \in User /\ {req[r].link} \subseteq Links
    BY <1>t, <1>3 DEF RowsOK, RequestsOK, SendMail, At
  <2>2. RequestsOK' /\ RowsOK'
    BY <1>t, <1>3, <2>1, EndType, UpdateType DEF SendMail
  <2> QED
    BY <1>t, <1>3, <2>2, <1>parts DEF SendMail, RedisOK, HistoryOK
<1>4. ASSUME NEW r \in Requests, NEW l \in Links, VerifyFind(r, l) PROVE TypeOK'
  <2>1. [req[r] EXCEPT !.pc = "verify"] \in Request
    BY <1>t DEF RequestsOK, Request
  <2>2. RequestsOK'
    BY <1>t, <1>4, <2>1, BecomeType DEF VerifyFind, Goto, RequestsOK, Request
  <2> QED
    BY <1>t, <1>4, <2>2, <1>parts DEF VerifyFind, RowsOK, RedisOK, HistoryOK
<1>5. ASSUME NEW r \in Requests, VerifyWrite(r) PROVE TypeOK'
  <2>1. [user EXCEPT !.verified = TRUE, !.verifyLink = None] \in User
    BY <1>t DEF RowsOK, User
  <2>2. RequestsOK' /\ RowsOK'
    BY <1>t, <1>5, <2>1, EndType, UpdateType DEF VerifyWrite
  <2> QED
    BY <1>t, <1>5, <2>2, <1>parts DEF VerifyWrite, RedisOK, HistoryOK
<1>6. ASSUME NEW r \in Requests, ForgotFind(r) PROVE TypeOK'
  <2>1. [req[r] EXCEPT !.pc = "forgot"] \in Request
    BY <1>t DEF RequestsOK, Request
  <2>2. RequestsOK'
    BY <1>t, <1>6, <2>1, BecomeType DEF ForgotFind, Goto, RequestsOK, Request
  <2> QED
    BY <1>t, <1>6, <2>2, <1>parts DEF ForgotFind, RowsOK, RedisOK, HistoryOK
<1>7. ASSUME NEW r \in Requests, NEW l \in Links, ForgotWrite(r, l) PROVE TypeOK'
  <2> DEFINE s == [Idle EXCEPT !.pc = "mail", !.link = l]
  <2>1. [user EXCEPT !.resetLink = l] \in User /\ s \in Request /\ s.link \in Links
    BY <1>t, IdleType DEF RowsOK, User, Idle, Request
  <2>2. RequestsOK' /\ RowsOK'
    <3>1. Update([user EXCEPT !.resetLink = l], {}) /\ Become(r, s) /\ {} \subseteq Links
      BY <1>7 DEF ForgotWrite
    <3> HIDE DEF s
    <3> QED
      BY <1>t, <2>1, <3>1, BecomeType, UpdateType
  <2> QED
    BY <1>t, <1>7, <2>2, <1>parts DEF ForgotWrite, RedisOK, HistoryOK
<1>8. ASSUME NEW r \in Requests, NEW l \in Links, NEW p \in Passwords, ResetFind(r, l, p)
      PROVE  TypeOK'
  <2> DEFINE s == [Idle EXCEPT !.pc = "reset", !.password = p, !.link = l]
  <2>1. s \in Request /\ s.link \in Links
    BY IdleType DEF Idle, Request
  <2>2. RequestsOK'
    BY <1>t, <1>8, <2>1, BecomeType DEF ResetFind
  <2> QED
    BY <1>t, <1>8, <2>2, <1>parts DEF ResetFind, RowsOK, RedisOK, HistoryOK
<1>9. ASSUME NEW r \in Requests, ResetWrite(r) PROVE TypeOK'
  <2>1. ResetUser(req[r].password) \in User
    BY <1>t DEF RowsOK, RequestsOK, Request, User, ResetUser
  <2>2. RequestsOK' /\ RowsOK'
    BY <1>t, <1>9, <2>1, EndType, UpdateType DEF ResetWrite
  <2>3. HistoryOK'
    <3>1. req[r].link \in Links
      BY <1>t, <1>9 DEF ResetWrite, At, RequestsOK
    <3>2. \A n \in Nat : [uses EXCEPT ![req[r].link] = n] \in [Links -> Nat]
      BY <1>t DEF HistoryOK
    <3>3. uses[req[r].link] + 1 \in Nat
      BY <1>t, <3>1 DEF HistoryOK
    <3>4. PICK c \in BOOLEAN : uses' = [uses EXCEPT ![req[r].link] = IF c THEN @ + 1 ELSE 0]
      BY <1>9 DEF ResetWrite
    <3>5. uses' \in [Links -> Nat]
      BY <3>2, <3>3, <3>4
    <3> QED
      BY <1>t, <1>9, <3>5 DEF ResetWrite, HistoryOK
  <2> QED
    BY <1>t, <1>9, <2>2, <2>3, <1>parts DEF ResetWrite, RedisOK
<1>10. ASSUME NEW r \in Requests, NEW p \in Passwords, LoginCheck(r, p) PROVE TypeOK'
  <2>1. [Idle EXCEPT !.pc = "find", !.password = p] \in Request
    BY IdleType DEF Request
  <2>2. RequestsOK'
    <3>1. CASE \E d \in Dims : cool[d]
      BY <1>t, <1>10, <3>1, EndType DEF LoginCheck
    <3>2. CASE ~\E d \in Dims : cool[d]
      BY <1>t, <1>10, <2>1, <3>2, BecomeType DEF LoginCheck, Idle
    <3> QED
      BY <3>1, <3>2
  <2> QED
    BY <1>t, <1>10, <2>2, <1>parts DEF LoginCheck, RowsOK, RedisOK, HistoryOK
<1>11. ASSUME NEW r \in Requests, LoginFind(r) PROVE TypeOK'
  <2>1. /\ [req[r] EXCEPT !.pc = "redis", !.ok = TRUE, !.todo = AfterSuccess] \in Request
        /\ [req[r] EXCEPT !.pc = "fail", !.ok = FALSE] \in Request
    BY <1>t, SuccessTodo DEF RequestsOK, Request
  <2>2. RequestsOK'
    BY <1>t, <1>11, <2>1, BecomeType DEF LoginFind, RequestsOK, Request
  <2> QED
    BY <1>t, <1>11, <2>2, <1>parts DEF LoginFind, RowsOK, RedisOK, HistoryOK
<1>12. ASSUME NEW r \in Requests, LoginFail(r) PROVE TypeOK'
  <2>1. PICK todo \in Seq(Commands) : Become(r, [req[r] EXCEPT !.pc = "redis", !.todo = todo])
    <3> DEFINE n == [d \in Dims |-> Bump(d)]
    <3>1. /\ IsFirst(n["ip"]) \in BOOLEAN /\ IsFirst(n["ident"]) \in BOOLEAN
          /\ TooMany(n["ip"], "ip") \in BOOLEAN /\ TooMany(n["ident"], "ident") \in BOOLEAN
      BY DEF IsFirst, TooMany
    <3> QED
      BY <1>12, <3>1, FailTodo DEF LoginFail
  <2>2. [req[r] EXCEPT !.pc = "redis", !.todo = todo] \in Request
    BY <1>t, <2>1 DEF RequestsOK, Request
  <2>3. RequestsOK'
    BY <1>t, <2>1, <2>2, BecomeType DEF RequestsOK, Request
  <2>4. RedisOK' /\ HistoryOK'
    BY <1>t, <1>12, BumpType, TypeParts DEF LoginFail, RedisOK, HistoryOK
  <2> QED
    BY <1>t, <1>12, <2>3, <2>4, <1>parts DEF LoginFail, RowsOK
<1>13. ASSUME NEW r \in Requests, RedisCommand(r) PROVE TypeOK'
  <2>1. req[r] \in Request /\ req[r].todo \in Seq(Commands) /\ req[r].todo # <<>>
    BY <1>t, <1>13 DEF RequestsOK, Request, RedisCommand
  <2>2. Head(req[r].todo) \in Commands /\ Tail(req[r].todo) \in Seq(Commands)
    BY <2>1
  <2>3. RequestsOK'
    BY <1>t, <1>13, <2>1, <2>2, BecomeType DEF RequestsOK, Request, RedisCommand
  <2>4. Head(req[r].todo).key \in Dims
    BY <2>2 DEF Commands
  <2>5. RedisOK'
    <3> DEFINE k == Head(req[r].todo).key
    <3>1. /\ \A b \in BOOLEAN : [counter EXCEPT ![k].ttl = b] \in [Dims -> [n : Nat, ttl : BOOLEAN]]
          /\ [counter EXCEPT ![k] = [n |-> 0, ttl |-> FALSE]] \in [Dims -> [n : Nat, ttl : BOOLEAN]]
          /\ \A b \in BOOLEAN : [cool EXCEPT ![k] = b] \in [Dims -> BOOLEAN]
      BY <1>t, <2>4 DEF RedisOK
    <3>2. counter' \in [Dims -> [n : Nat, ttl : BOOLEAN]]
      <4>0. counter[k].n \in Nat
        BY <1>t, <2>4 DEF RedisOK
      <4>1. (counter[k].n > 0) \in BOOLEAN
        BY <4>0
      <4>2. counter' \in {[counter EXCEPT ![k].ttl = TRUE], [counter EXCEPT ![k].ttl = FALSE],
                          [counter EXCEPT ![k] = [n |-> 0, ttl |-> FALSE]], counter}
        BY <1>13, <4>0, <4>1 DEF RedisCommand
      <4> HIDE DEF k
      <4> QED
        BY <1>t, <3>1, <4>2 DEF RedisOK
    <3>3. cool' \in [Dims -> BOOLEAN]
      BY <1>t, <1>13, <3>1 DEF RedisCommand, RedisOK
    <3> QED
      BY <3>2, <3>3 DEF RedisOK
  <2>6. HistoryOK'
    BY <1>t, <1>13, <2>4 DEF RedisCommand, HistoryOK
  <2> QED
    BY <1>t, <1>13, <2>3, <2>5, <2>6, <1>parts DEF RedisCommand, RowsOK
<1>14. ASSUME NEW r \in Requests, LoginEnd(r) PROVE TypeOK'
  BY <1>t, <1>14, EndType, <1>parts DEF LoginEnd, RowsOK, RedisOK, HistoryOK
<1>15. ASSUME NEW r \in Requests, Fail(r) PROVE TypeOK'
  <2>1. HistoryOK'
    <3>1. Expiring(r) \subseteq Dims
      BY DEF Expiring
    <3>2. crashes \in 0..MaxCrashes /\ crashes < MaxCrashes /\ crashes' = crashes + 1
      BY <1>t, <1>15 DEF Fail, HistoryOK
    <3>3. crashes' \in 0..MaxCrashes
      BY <3>2, AccountAssumption
    <3>4. lost' \subseteq Dims
      BY <1>t, <1>15, <3>1 DEF Fail, HistoryOK
    <3> QED
      BY <1>t, <1>15, <3>3, <3>4 DEF Fail, HistoryOK
  <2> QED
    BY <1>t, <1>15, <2>1, EndType, <1>parts DEF Fail, RowsOK, RedisOK
<1>16. ASSUME NEW l \in Links, LinkExpires(l) PROVE TypeOK'
  BY <1>16 DEF LinkExpires, TypeOK
<1>17. ASSUME NEW k \in Dims, CounterExpires(k) PROVE TypeOK'
  BY <1>17 DEF CounterExpires, TypeOK
<1>18. ASSUME NEW d \in Dims, CooldownExpires(d) PROVE TypeOK'
  BY <1>18 DEF CooldownExpires, TypeOK
<1> QED
  BY <1>u, <1>1, <1>2, <1>3, <1>4, <1>5, <1>6, <1>7, <1>8, <1>9, <1>10, <1>11, <1>12, <1>13,
     <1>14, <1>15, <1>16, <1>17, <1>18 DEF Next

(* However signups, logins and resets interleave, expire and fail, the row *)
(* of the account, the Redis keys and what each request carries keep their *)
(* types.                                                                  *)
THEOREM TypeCorrect == Spec => []TypeOK
BY InitType, NextType, PTL DEF Spec

----------------------------------------------------------------------------
(* Redis counts and their expiry *)

(* Only a request in its Redis phase has commands left to send. *)
Unsent == \A r \in Requests : req[r].pc # "redis" => req[r].todo = <<>>

IInv == TypeOK /\ Unsent /\ CountersExpire

LEMMA NothingExpiring == \A r \in Requests : req[r].todo = <<>> => Expiring(r) = {}
BY DEF Expiring

LEMMA IdleUnsent == Idle.pc # "redis" /\ Idle.todo = <<>>
BY DEF Idle

(* A step of r that leaves Redis alone, from a phase without commands to  *)
(* one without, disturbs neither part of the invariant.                   *)
LEMMA Aside ==
  ASSUME IInv, NEW r \in Requests, NEW s, Become(r, s), req[r].todo = <<>>,
         s.todo = <<>>, UNCHANGED <<counter, lost>>
  PROVE  Unsent' /\ CountersExpire'
<1>1. req \in [Requests -> Request]
  BY TypeParts DEF IInv, RequestsOK
<1>2. req'[r] = s /\ \A q \in Requests \ {r} : req'[q] = req[q]
  BY <1>1 DEF Become
<1>3. Unsent'
  BY <1>2 DEF IInv, Unsent
<1>4. \A q \in Requests : Expiring(q) \subseteq Expiring(q)'
  <2>1. \A q \in Requests \ {r} : Expiring(q)' = Expiring(q)
    BY <1>2 DEF Expiring
  <2>2. Expiring(r) = {}
    BY NothingExpiring
  <2> QED
    BY <2>1, <2>2
<1>5. CountersExpire'
  BY <1>4 DEF IInv, CountersExpire
<1> QED
  BY <1>3, <1>5

(* A step of r that may drop or add commands of r, while every count that *)
(* is left without an expiry is accounted for.                            *)
LEMMA Redis ==
  ASSUME IInv, NEW r \in Requests, NEW s, Become(r, s),
         s.pc # "redis" => s.todo = <<>>,
         \A k \in Dims : counter'[k].n > 0 /\ ~counter'[k].ttl =>
            \/ k \in lost' \/ k \in Expiring(r)'
            \/ \E q \in Requests \ {r} : k \in Expiring(q)
  PROVE  Unsent' /\ CountersExpire'
<1>1. req \in [Requests -> Request]
  BY TypeParts DEF IInv, RequestsOK
<1>2. req'[r] = s /\ \A q \in Requests \ {r} : req'[q] = req[q]
  BY <1>1 DEF Become
<1>3. Unsent'
  BY <1>2 DEF IInv, Unsent
<1>4. \A q \in Requests \ {r} : Expiring(q)' = Expiring(q)
  BY <1>2 DEF Expiring
<1>5. CountersExpire'
  BY <1>4 DEF CountersExpire
<1> QED
  BY <1>3, <1>5

LEMMA InitExpire == Init => IInv
BY InitType DEF Init, IInv, Unsent, CountersExpire, Idle

LEMMA NextExpire == IInv /\ [Next]_vars => IInv'
<1> SUFFICES ASSUME IInv, [Next]_vars PROVE IInv'
  OBVIOUS
<1>t. TypeOK' /\ TypeOK /\ req \in [Requests -> Request]
  BY NextType, TypeParts DEF IInv, RequestsOK
<1>goal. ASSUME Unsent', CountersExpire' PROVE IInv'
  BY <1>t, <1>goal DEF IInv
<1>fix. ASSUME UNCHANGED <<req, lost>>, \A k \in Dims : counter'[k] \in {counter[k], [n |-> 0, ttl |-> FALSE]}
        PROVE  Unsent' /\ CountersExpire'
  <2>1. Unsent'
    BY <1>fix DEF IInv, Unsent
  <2>2. \A q \in Requests : Expiring(q)' = Expiring(q)
    BY <1>fix DEF Expiring
  <2> QED
    BY <1>fix, <2>1, <2>2 DEF IInv, CountersExpire
<1> USE DEF vars, rows, redis, history
<1>u. ASSUME UNCHANGED vars PROVE IInv'
  BY <1>u DEF IInv, TypeOK, Unsent, CountersExpire, Expiring
<1>pc. \A r \in Requests : req[r] \in Request /\ (req[r].pc # "redis" => req[r].todo = <<>>)
  BY <1>t DEF IInv, Unsent
<1>end. ASSUME NEW r \in Requests, req[r].todo = <<>>, End(r), UNCHANGED <<counter, lost>>
        PROVE  IInv'
  BY <1>end, <1>goal, Aside, IdleUnsent DEF End
<1>idle. ASSUME NEW r \in Requests, NEW s, Become(r, s), At(r, "idle"), s.todo = <<>>,
                UNCHANGED <<counter, lost>>
         PROVE  IInv'
  <2>1. req[r].todo = <<>>
    BY <1>pc, <1>idle DEF At
  <2> QED
    BY <1>idle, <1>goal, <2>1, Aside
<1>1. ASSUME NEW r \in Requests, NEW p \in Passwords, SignupCheck(r, p) PROVE IInv'
  <2>1. [Idle EXCEPT !.pc = "create", !.password = p].todo = <<>>
    BY DEF Idle
  <2> QED
    BY <1>1, <1>idle, <2>1 DEF SignupCheck
<1>2. ASSUME NEW r \in Requests, NEW l \in Links, SignupCreate(r, l) PROVE IInv'
  <2>1. [Idle EXCEPT !.pc = "mail", !.link = l].todo = <<>> /\ req[r].todo = <<>>
    BY <1>2, <1>pc DEF Idle, SignupCreate, At
  <2>2. CASE user.exists
    BY <1>2, <1>end, <2>1, <2>2 DEF SignupCreate
  <2>3. CASE ~user.exists
    BY <1>2, <1>goal, Aside, <2>1, <2>3 DEF SignupCreate
  <2> QED
    BY <2>2, <2>3
<1>3. ASSUME NEW r \in Requests, SendMail(r) PROVE IInv'
  BY <1>3, <1>pc, <1>end DEF SendMail, At
<1>4. ASSUME NEW r \in Requests, NEW l \in Links, VerifyFind(r, l) PROVE IInv'
  <2>1. [req[r] EXCEPT !.pc = "verify"].todo = <<>>
    BY <1>4, <1>pc DEF VerifyFind, At, Request
  <2> QED
    BY <1>4, <1>idle, <2>1 DEF VerifyFind, Goto
<1>5. ASSUME NEW r \in Requests, VerifyWrite(r) PROVE IInv'
  BY <1>5, <1>pc, <1>end DEF VerifyWrite, At
<1>6. ASSUME NEW r \in Requests, ForgotFind(r) PROVE IInv'
  <2>1. [req[r] EXCEPT !.pc = "forgot"].todo = <<>>
    BY <1>6, <1>pc DEF ForgotFind, At, Request
  <2> QED
    BY <1>6, <1>idle, <2>1 DEF ForgotFind, Goto
<1>7. ASSUME NEW r \in Requests, NEW l \in Links, ForgotWrite(r, l) PROVE IInv'
  <2>1. [Idle EXCEPT !.pc = "mail", !.link = l].todo = <<>> /\ req[r].todo = <<>>
    BY <1>7, <1>pc DEF Idle, ForgotWrite, At
  <2> QED
    BY <1>7, <1>goal, Aside, <2>1 DEF ForgotWrite
<1>8. ASSUME NEW r \in Requests, NEW l \in Links, NEW p \in Passwords, ResetFind(r, l, p)
      PROVE  IInv'
  <2>1. [Idle EXCEPT !.pc = "reset", !.password = p, !.link = l].todo = <<>>
    BY DEF Idle
  <2> QED
    BY <1>8, <1>idle, <2>1 DEF ResetFind
<1>9. ASSUME NEW r \in Requests, ResetWrite(r) PROVE IInv'
  BY <1>9, <1>pc, <1>end DEF ResetWrite, At
<1>10. ASSUME NEW r \in Requests, NEW p \in Passwords, LoginCheck(r, p) PROVE IInv'
  <2>1. [Idle EXCEPT !.pc = "find", !.password = p].todo = <<>> /\ Idle.todo = <<>>
    BY DEF Idle
  <2> QED
    BY <1>10, <1>idle, <2>1 DEF LoginCheck, End
<1>11. ASSUME NEW r \in Requests, LoginFind(r) PROVE IInv'
  <2> DEFINE yes == [req[r] EXCEPT !.pc = "redis", !.ok = TRUE, !.todo = AfterSuccess]
             no == [req[r] EXCEPT !.pc = "fail", !.ok = FALSE]
  <2>1. yes.pc = "redis" /\ no.todo = <<>>
    BY <1>11, <1>pc DEF LoginFind, At, Request
  <2>2. Expiring(r) = {}
    BY <1>11, <1>pc, NothingExpiring DEF LoginFind, At
  <2>3. UNCHANGED <<counter, lost>>
    BY <1>11 DEF LoginFind
  <2>4. PICK s \in {yes, no} : Become(r, s)
    BY <1>11 DEF LoginFind
  <2> HIDE DEF yes, no
  <2>5. Unsent' /\ CountersExpire'
    BY <2>1, <2>2, <2>3, <2>4, Redis DEF IInv, CountersExpire
  <2> QED
    BY <2>5, <1>goal
<1>12. ASSUME NEW r \in Requests, LoginFail(r) PROVE IInv'
  <2> DEFINE n == [d \in Dims |-> Bump(d)]
             todo == When(IsFirst(n["ip"]), "expire", "ip")
                       \o When(IsFirst(n["ident"]), "expire", "ident")
                       \o When(TooMany(n["ip"], "ip"), "cool", "ip")
                       \o When(TooMany(n["ident"], "ident"), "cool", "ident")
             s == [req[r] EXCEPT !.pc = "redis", !.todo = todo]
  <2>1. s.pc = "redis" /\ s.todo = todo /\ Become(r, s)
    BY <1>12, <1>pc DEF LoginFail, Request
  <2>2. /\ IsFirst(n["ip"]) \in BOOLEAN /\ IsFirst(n["ident"]) \in BOOLEAN
        /\ TooMany(n["ip"], "ip") \in BOOLEAN /\ TooMany(n["ident"], "ident") \in BOOLEAN
    BY DEF IsFirst, TooMany
  <2>3. \A k \in Dims : IsFirst(n[k]) => Has(todo, Cmd("expire", k))
    BY <2>2, FailTodo
  <2>4. req'[r] = s
    BY <1>t, <2>1 DEF Become
  <2>5. \A k \in Dims : IsFirst(n[k]) => k \in Expiring(r)'
    <3>1. \A k \in Dims : k \in Expiring(r)' <=> Has(req'[r].todo, Cmd("expire", k))
      BY <1>t, ExpiringIsHas
    <3> QED
      BY <2>1, <2>3, <2>4, <3>1
  <2>6. \A k \in Dims : counter[k].n \in Nat /\ counter'[k].n = n[k] /\ counter'[k].ttl = counter[k].ttl
    BY <1>t, <1>12 DEF TypeOK, LoginFail
  <2>7. \A k \in Dims : counter[k].n = 0 => IsFirst(n[k])
    BY AccountAssumption DEF Bump, MaxFails, IsFirst
  <2>8. Expiring(r) = {} /\ UNCHANGED lost
    BY <1>12, <1>pc, NothingExpiring DEF LoginFail, At
  <2>9. ASSUME NEW k \in Dims, counter'[k].n > 0, ~counter'[k].ttl
        PROVE  k \in lost' \/ k \in Expiring(r)' \/ \E q \in Requests \ {r} : k \in Expiring(q)
    <3>1. CASE counter[k].n = 0
      BY <2>5, <2>7, <3>1
    <3>2. CASE counter[k].n > 0
      BY <2>6, <2>8, <2>9, <3>2 DEF IInv, CountersExpire
    <3> QED
      BY <2>6, <3>1, <3>2
  <2> HIDE DEF s
  <2>10. Unsent' /\ CountersExpire'
    BY <2>1, <2>9, Redis
  <2> QED
    BY <2>10, <1>goal
<1>13. ASSUME NEW r \in Requests, RedisCommand(r) PROVE IInv'
  <2> DEFINE todo == req[r].todo
             s == [req[r] EXCEPT !.todo = Tail(@)]
             op == Head(todo).op
             k0 == Head(todo).key
  <2>1. todo \in Seq(Commands) /\ todo # <<>> /\ Head(todo) \in Commands
    <3>1. todo \in Seq(Commands)
      BY <1>pc DEF Request
    <3>2. todo # <<>>
      BY <1>13 DEF RedisCommand
    <3> HIDE DEF todo
    <3> QED
      BY <3>1, <3>2
  <2>2. s.pc = "redis" /\ s.todo = Tail(todo) /\ Become(r, s)
    BY <1>13, <1>pc, <2>1 DEF RedisCommand, Request, IInv, Unsent
  <2>3. req'[r] = s
    BY <1>t, <2>2 DEF Become
  <2>4. \A k \in Dims : k \in Expiring(r) /\ Head(todo) # Cmd("expire", k) => k \in Expiring(r)'
    <3>1. \A k \in Dims : k \in Expiring(r)' <=> Has(req'[r].todo, Cmd("expire", k))
      BY <1>t, ExpiringIsHas
    <3>2. \A k \in Dims : k \in Expiring(r) => Has(todo, Cmd("expire", k))
      BY <1>t, ExpiringIsHas
    <3>3. \A c : Has(todo, c) /\ c # Head(todo) => Has(Tail(todo), c)
      BY <2>1, TailHas
    <3> QED
      BY <2>2, <2>3, <3>1, <3>2, <3>3
  <2>5. Head(todo) = Cmd(op, k0) /\ op \in {"expire", "cool", "del", "release"} /\ k0 \in Dims
    BY <2>1 DEF Commands, Cmd
  <2>6. ASSUME NEW k \in Dims, counter'[k].n > 0, ~counter'[k].ttl
        PROVE  k \in lost' \/ k \in Expiring(r)' \/ \E q \in Requests \ {r} : k \in Expiring(q)
    <3>1. counter \in [Dims -> [n : Nat, ttl : BOOLEAN]]
      BY <1>t DEF TypeOK
    <3>2. CASE op = "expire" /\ k = k0
      <4>1. counter'[k].n = counter[k].n /\ counter'[k].ttl = (counter[k].n > 0)
        BY <1>13, <3>1, <3>2 DEF RedisCommand
      <4> QED
        BY <2>6, <4>1
    <3>3. CASE op = "del" /\ k = k0
      <4>1. counter'[k].n = 0
        BY <1>13, <3>1, <3>3 DEF RedisCommand
      <4> QED
        BY <2>6, <4>1
    <3>4. CASE k # k0 \/ op \notin {"expire", "del"}
      <4>1. counter'[k] = counter[k]
        BY <1>13, <3>1, <3>4 DEF RedisCommand
      <4>2. k \in lost => k \in lost'
        BY <1>13, <3>4 DEF RedisCommand
      <4>3. Head(todo) # Cmd("expire", k)
        BY <2>5, <3>4 DEF Cmd
      <4> QED
        BY <2>4, <2>6, <4>1, <4>2, <4>3 DEF IInv, CountersExpire
    <3> QED
      BY <3>2, <3>3, <3>4
  <2> HIDE DEF s
  <2>7. Unsent' /\ CountersExpire'
    BY <2>2, <2>6, Redis
  <2> QED
    BY <2>7, <1>goal
<1>14. ASSUME NEW r \in Requests, LoginEnd(r) PROVE IInv'
  BY <1>14, <1>end DEF LoginEnd
<1>15. ASSUME NEW r \in Requests, Fail(r) PROVE IInv'
  <2>1. Unsent' /\ CountersExpire'
    BY <1>15, IdleUnsent, Redis DEF Fail, End, IInv, CountersExpire
  <2> QED
    BY <2>1, <1>goal
<1>16. ASSUME NEW l \in Links, LinkExpires(l) PROVE IInv'
  BY <1>16, <1>fix, <1>goal DEF LinkExpires
<1>17. ASSUME NEW k \in Dims, CounterExpires(k) PROVE IInv'
  <2>1. counter[k].ttl /\ counter' = [counter EXCEPT ![k] = [n |-> 0, ttl |-> FALSE]] /\ lost' = lost \ {k}
    BY <1>17 DEF CounterExpires
  <2>2. \A q \in Requests : Expiring(q)' = Expiring(q)
    BY <1>17 DEF CounterExpires, Expiring
  <2>3. CountersExpire'
    BY <1>t, <2>1, <2>2 DEF IInv, CountersExpire, TypeOK
  <2>4. Unsent'
    BY <1>17 DEF CounterExpires, IInv, Unsent
  <2> QED
    BY <2>3, <2>4, <1>goal
<1>18. ASSUME NEW d \in Dims, CooldownExpires(d) PROVE IInv'
  BY <1>18, <1>fix, <1>goal DEF CooldownExpires
<1> QED
  BY <1>u, <1>1, <1>2, <1>3, <1>4, <1>5, <1>6, <1>7, <1>8, <1>9, <1>10, <1>11, <1>12, <1>13,
     <1>14, <1>15, <1>16, <1>17, <1>18 DEF Next

(* For any number of logins at once, in any order of their Redis commands  *)
(* and with any number of crashes: a count of failures that never expires  *)
(* is one whose PEXPIRE a crash took (loginBruteForceProtector).           *)
THEOREM CountersHaveExpiry == Spec => []CountersExpire
<1>1. IInv => CountersExpire
  BY DEF IInv
<1> QED
  BY InitExpire, NextExpire, <1>1, PTL DEF Spec

----------------------------------------------------------------------------
(* Wrong passwords between two cooldowns *)

(* Requests that have the identity's cooldown still to set *)
Coolers == {r \in Requests : Has(req[r].todo, Cmd("cool", "ident"))}

(* The count of Redis keeps up with the guesses until it is past the       *)
(* threshold, so every guess from the threshold on has put a SET into the  *)
(* todo of its request, unless that request has died.                      *)
Guessed ==
    /\ guesses <= counter["ident"].n \/ counter["ident"].n > MaxFailsIdent
    /\ guesses <= MaxFailsIdent - 1 + Cardinality(Coolers) + crashes

LEMMA CoolersType ==
  /\ Coolers \subseteq Requests /\ IsFiniteSet(Coolers) /\ Cardinality(Coolers) \in Nat
  /\ Cardinality(Coolers) <= Cardinality(Requests) /\ Cardinality(Requests) \in Nat
<1>1. Coolers \subseteq Requests
  BY DEF Coolers
<1> QED
  BY <1>1, AccountAssumption, FS_Subset, FS_CardinalityType

LEMMA CoolersTypeNext ==
  IsFiniteSet(Coolers') /\ Cardinality(Coolers') \in Nat
<1>1. Coolers' \subseteq Requests
  BY DEF Coolers
<1> QED
  BY <1>1, AccountAssumption, FS_Subset, FS_CardinalityType

(* As long as the counts stand, no request may lose its SET. *)
LEMMA GuessedStays ==
  ASSUME TypeOK, Guessed, UNCHANGED <<guesses, crashes>>, counter'["ident"].n = counter["ident"].n,
         Coolers \subseteq Coolers'
  PROVE  Guessed'
<1>1. Cardinality(Coolers) <= Cardinality(Coolers')
  BY CoolersTypeNext, FS_Subset
<1>2. Cardinality(Coolers)' = Cardinality(Coolers')
  OBVIOUS
<1>3. guesses \in Nat /\ crashes \in Nat /\ MaxFailsIdent \in Nat
  BY AccountAssumption DEF TypeOK
<1> QED
  BY <1>1, <1>2, <1>3, CoolersType, CoolersTypeNext DEF Guessed

LEMMA GuessedAfresh ==
  ASSUME TypeOK', guesses' = 0
  PROVE  Guessed'
<1>1. crashes' \in Nat /\ MaxFailsIdent - 1 \in Nat /\ counter'["ident"].n \in Nat
  BY AccountAssumption DEF TypeOK
<1>2. Cardinality(Coolers)' \in Nat
  BY CoolersTypeNext
<1> QED
  BY <1>1, <1>2 DEF Guessed

LEMMA InitGuessed == Init => Guessed
<1> SUFFICES ASSUME Init PROVE Guessed
  OBVIOUS
<1>1. guesses = 0 /\ crashes = 0 /\ counter["ident"].n = 0 /\ MaxFailsIdent - 1 \in Nat
  BY AccountAssumption DEF Init
<1> QED
  BY <1>1, CoolersType DEF Guessed

LEMMA NextGuessed == IInv /\ Guessed /\ [Next]_vars => Guessed'
<1> SUFFICES ASSUME IInv, Guessed, [Next]_vars PROVE Guessed'
  OBVIOUS
<1>t. TypeOK /\ TypeOK' /\ req \in [Requests -> Request]
  BY NextType, TypeParts DEF IInv, RequestsOK
<1>pc. \A r \in Requests : req[r] \in Request /\ (req[r].pc # "redis" => req[r].todo = <<>>)
  BY <1>t DEF IInv, Unsent
<1> USE DEF vars, rows, redis, history
(* A request that has no SET to lose, or none of the requests, moves. *)
<1>aside. ASSUME NEW r \in Requests, NEW s, Become(r, s), req[r].todo = <<>>,
                 UNCHANGED <<guesses, crashes, counter>>
          PROVE  Guessed'
  <2>1. r \notin Coolers
    BY <1>aside DEF Coolers, Has
  <2>2. \A q \in Requests \ {r} : req'[q] = req[q]
    BY <1>t, <1>aside DEF Become
  <2>3. Coolers \subseteq Coolers'
    BY <2>1, <2>2 DEF Coolers
  <2> QED
    BY <1>t, <1>aside, <2>3, GuessedStays
<1>not. ASSUME NEW r \in Requests, ~At(r, "redis") PROVE req[r].todo = <<>>
  BY <1>pc, <1>not DEF At
<1>keep. ASSUME UNCHANGED <<req, guesses, crashes, counter>> PROVE Guessed'
  <2>1. Coolers' = Coolers
    BY <1>keep DEF Coolers
  <2> QED
    BY <1>t, <1>keep, <2>1, GuessedStays
<1>u. ASSUME UNCHANGED vars PROVE Guessed'
  BY <1>u, <1>keep
<1>1. ASSUME NEW r \in Requests, NEW p \in Passwords, SignupCheck(r, p) PROVE Guessed'
  BY <1>1, <1>not, <1>aside DEF SignupCheck, At
<1>2. ASSUME NEW r \in Requests, NEW l \in Links, SignupCreate(r, l) PROVE Guessed'
  BY <1>2, <1>not, <1>aside DEF SignupCreate, At, End
<1>3. ASSUME NEW r \in Requests, SendMail(r) PROVE Guessed'
  BY <1>3, <1>not, <1>aside DEF SendMail, At, End
<1>4. ASSUME NEW r \in Requests, NEW l \in Links, VerifyFind(r, l) PROVE Guessed'
  BY <1>4, <1>not, <1>aside DEF VerifyFind, At, Goto
<1>5. ASSUME NEW r \in Requests, VerifyWrite(r) PROVE Guessed'
  BY <1>5, <1>not, <1>aside DEF VerifyWrite, At, End
<1>6. ASSUME NEW r \in Requests, ForgotFind(r) PROVE Guessed'
  BY <1>6, <1>not, <1>aside DEF ForgotFind, At, Goto
<1>7. ASSUME NEW r \in Requests, NEW l \in Links, ForgotWrite(r, l) PROVE Guessed'
  BY <1>7, <1>not, <1>aside DEF ForgotWrite, At
<1>8. ASSUME NEW r \in Requests, NEW l \in Links, NEW p \in Passwords, ResetFind(r, l, p)
      PROVE  Guessed'
  BY <1>8, <1>not, <1>aside DEF ResetFind, At
<1>9. ASSUME NEW r \in Requests, ResetWrite(r) PROVE Guessed'
  BY <1>9, <1>not, <1>aside DEF ResetWrite, At, End
<1>10. ASSUME NEW r \in Requests, NEW p \in Passwords, LoginCheck(r, p) PROVE Guessed'
  BY <1>10, <1>not, <1>aside DEF LoginCheck, At, End
<1>11. ASSUME NEW r \in Requests, LoginFind(r) PROVE Guessed'
  BY <1>11, <1>not, <1>aside DEF LoginFind, At
<1>12. ASSUME NEW r \in Requests, LoginFail(r) PROVE Guessed'
  <2> DEFINE n == [d \in Dims |-> Bump(d)]
             todo == When(IsFirst(n["ip"]), "expire", "ip")
                       \o When(IsFirst(n["ident"]), "expire", "ident")
                       \o When(TooMany(n["ip"], "ip"), "cool", "ip")
                       \o When(TooMany(n["ident"], "ident"), "cool", "ident")
             N == counter["ident"].n
  <2>1. Become(r, [req[r] EXCEPT !.pc = "redis", !.todo = todo])
    BY <1>12 DEF LoginFail
  <2>2. TooMany(n["ident"], "ident") => Has(todo, Cmd("cool", "ident"))
    <3>1. /\ IsFirst(n["ip"]) \in BOOLEAN /\ IsFirst(n["ident"]) \in BOOLEAN
          /\ TooMany(n["ip"], "ip") \in BOOLEAN /\ TooMany(n["ident"], "ident") \in BOOLEAN
      BY DEF IsFirst, TooMany
    <3> QED
      BY <3>1, FailTodo
  <2>3. req'[r].todo = todo /\ \A q \in Requests \ {r} : req'[q] = req[q]
    BY <1>t, <1>pc, <2>1 DEF Become, Request
  <2>4. r \notin Coolers
    BY <1>12, <1>not DEF LoginFail, At, Coolers, Has
  <2>5. N \in Nat /\ guesses \in Nat /\ crashes \in Nat /\ MaxFailsIdent \in Nat \ {0}
    BY <1>t, AccountAssumption DEF TypeOK
  <2>6. /\ counter'["ident"].n = IF N <= MaxFailsIdent THEN N + 1 ELSE N
        /\ n["ident"] = counter'["ident"].n
    BY <1>t, <1>12 DEF LoginFail, TypeOK, Bump, MaxFails
  <2>7. guesses' = guesses + 1 /\ crashes' = crashes
    BY <1>12 DEF LoginFail
  <2>8. CASE TooMany(n["ident"], "ident")
    <3>1. Coolers' = Coolers \cup {r}
      BY <2>2, <2>3, <2>8 DEF Coolers
    <3>2. Cardinality(Coolers)' = Cardinality(Coolers) + 1
      BY <2>4, <3>1, CoolersType, FS_AddElement
    <3> HIDE DEF N, n
    <3> QED
      BY <2>5, <2>6, <2>7, <3>2, CoolersType DEF Guessed, N
  <2>9. CASE ~TooMany(n["ident"], "ident")
    <3>1. counter'["ident"].n < MaxFailsIdent
      BY <2>5, <2>6, <2>9 DEF TooMany, MaxFails
    <3>2. guesses' <= counter'["ident"].n
      BY <2>5, <2>6, <2>7, <3>1 DEF Guessed
    <3>3. Cardinality(Coolers)' \in Nat
      BY CoolersTypeNext
    <3>4. counter'["ident"].n \in Nat
      BY <1>t DEF TypeOK
    <3> QED
      BY <2>5, <2>7, <3>1, <3>2, <3>3, <3>4 DEF Guessed
  <2> QED
    BY <2>8, <2>9
<1>13. ASSUME NEW r \in Requests, RedisCommand(r) PROVE Guessed'
  <2> DEFINE todo == req[r].todo
             op == Head(todo).op
             k == Head(todo).key
  <2>1. todo \in Seq(Commands) /\ todo # <<>> /\ Head(todo) \in Commands
    <3>1. todo \in Seq(Commands) /\ todo # <<>>
      BY <1>13, <1>pc DEF Request, RedisCommand
    <3> HIDE DEF todo
    <3> QED
      BY <3>1
  <2>2. op \in {"expire", "cool", "del", "release"} /\ k \in Dims /\ Head(todo) = Cmd(op, k)
    BY <2>1 DEF Commands, Cmd
  <2>3. CASE k = "ident" /\ op \in {"cool", "del"}
    <3>1. guesses' = 0
      BY <1>13, <2>3 DEF RedisCommand
    <3> QED
      BY <1>t, <3>1, GuessedAfresh
  <2>4. CASE ~(k = "ident" /\ op \in {"cool", "del"})
    <3>1. UNCHANGED <<guesses, crashes>>
      BY <1>13, <2>4 DEF RedisCommand
    <3>2. counter'["ident"].n = counter["ident"].n
      <4>1. counter \in [Dims -> [n : Nat, ttl : BOOLEAN]]
        BY <1>t DEF TypeOK
      <4>2. CASE op = "expire"
        <5>1. counter' = [counter EXCEPT ![k].ttl = counter[k].n > 0]
          BY <1>13, <4>2 DEF RedisCommand
        <5> HIDE DEF k
        <5> QED
          BY <4>1, <5>1
      <4>3. CASE op = "del"
        <5>1. counter' = [counter EXCEPT ![k] = [n |-> 0, ttl |-> FALSE]] /\ k # "ident"
          BY <1>13, <2>4, <4>3 DEF RedisCommand
        <5> HIDE DEF k
        <5> QED
          BY <4>1, <5>1
      <4>4. CASE op \notin {"expire", "del"}
        BY <1>13, <4>4 DEF RedisCommand
      <4> QED
        BY <4>2, <4>3, <4>4
    <3>3. Head(todo) # Cmd("cool", "ident")
      BY <2>2, <2>4 DEF Cmd
    <3>4. req'[r].todo = Tail(todo) /\ \A q \in Requests \ {r} : req'[q] = req[q]
      BY <1>t, <1>pc, <1>13 DEF RedisCommand, Become, Request
    <3>5. Has(todo, Cmd("cool", "ident")) => Has(Tail(todo), Cmd("cool", "ident"))
      BY <2>1, <3>3, TailHas
    <3>6. Coolers \subseteq Coolers'
      BY <3>4, <3>5 DEF Coolers
    <3> QED
      BY <1>t, <3>1, <3>2, <3>6, GuessedStays
  <2> QED
    BY <2>3, <2>4
<1>14. ASSUME NEW r \in Requests, LoginEnd(r) PROVE Guessed'
  BY <1>14, <1>aside DEF LoginEnd, End
<1>15. ASSUME NEW r \in Requests, Fail(r) PROVE Guessed'
  <2>1. \A q \in Requests \ {r} : req'[q] = req[q]
    BY <1>t, <1>15 DEF Fail, End, Become
  <2>2. Coolers \subseteq Coolers' \cup {r}
    BY <2>1 DEF Coolers
  <2>3. Cardinality(Coolers) <= Cardinality(Coolers') + 1
    <3>1. /\ IsFiniteSet(Coolers' \cup {r})
          /\ Cardinality(Coolers' \cup {r}) <= Cardinality(Coolers') + 1
      BY CoolersTypeNext, FS_AddElement
    <3>2. /\ Cardinality(Coolers) <= Cardinality(Coolers' \cup {r})
          /\ Cardinality(Coolers' \cup {r}) \in Nat
      BY <2>2, <3>1, FS_Subset, FS_CardinalityType
    <3> QED
      BY <3>1, <3>2, CoolersType, CoolersTypeNext
  <2>4. Cardinality(Coolers)' = Cardinality(Coolers')
    OBVIOUS
  <2>5. crashes' = crashes + 1 /\ UNCHANGED <<guesses, counter>>
    BY <1>15 DEF Fail
  <2>6. guesses \in Nat /\ crashes \in Nat /\ MaxFailsIdent \in Nat
    BY <1>t, AccountAssumption DEF TypeOK
  <2> QED
    BY <2>3, <2>4, <2>5, <2>6, CoolersType, CoolersTypeNext DEF Guessed
<1>16. ASSUME NEW l \in Links, LinkExpires(l) PROVE Guessed'
  BY <1>16, <1>keep DEF LinkExpires
<1>17. ASSUME NEW k \in Dims, CounterExpires(k) PROVE Guessed'
  <2>1. CASE k = "ident"
    <3>1. guesses' = 0
      BY <1>17, <2>1 DEF CounterExpires
    <3> QED
      BY <1>t, <3>1, GuessedAfresh
  <2>2. CASE k # "ident"
    <3>1. UNCHANGED <<req, guesses, crashes>> /\ counter'["ident"].n = counter["ident"].n
      BY <1>t, <1>17, <2>2 DEF CounterExpires, TypeOK
    <3>2. Coolers' = Coolers
      BY <3>1 DEF Coolers
    <3> QED
      BY <1>t, <3>1, <3>2, GuessedStays
  <2> QED
    BY <2>1, <2>2
<1>18. ASSUME NEW d \in Dims, CooldownExpires(d) PROVE Guessed'
  BY <1>18, <1>keep DEF CooldownExpires
<1> QED
  BY <1>u, <1>1, <1>2, <1>3, <1>4, <1>5, <1>6, <1>7, <1>8, <1>9, <1>10, <1>11, <1>12, <1>13,
     <1>14, <1>15, <1>16, <1>17, <1>18 DEF Next

(* For any threshold and any number of logins at once: the wrong passwords *)
(* counted for an identity between two cooldowns exceed the threshold by   *)
(* no more than the requests past the check and those that died there      *)
(* (loginBruteForceProtector).                                             *)
THEOREM GuessesAreBounded == Spec => []GuessesBounded
<1>1. IInv /\ Guessed => GuessesBounded
  <2> SUFFICES ASSUME IInv, Guessed PROVE GuessesBounded
    OBVIOUS
  <2>1. guesses \in Nat /\ crashes \in Nat /\ MaxFailsIdent \in Nat
    BY AccountAssumption DEF IInv, TypeOK
  <2> QED
    BY <2>1, CoolersType DEF Guessed, GuessesBounded
<1> QED
  BY InitExpire, NextExpire, InitGuessed, NextGuessed, <1>1, PTL DEF Spec

----------------------------------------------------------------------------
(* Uses of a link *)

Holders(l) == {r \in Requests : req[r].link = l}

(* A link the row still holds was not used.  Once it is cleared nobody     *)
(* else can find it, so its uses and the requests that hold it are no more *)
(* than there are requests.                                                *)
Used(l) ==
    /\ uses[l] < Cardinality(Requests)
    /\ uses[l] + Cardinality(Holders(l)) <= Cardinality(Requests)
    /\ user.resetLink = l => uses[l] = 0

UsesInv == \A l \in Links : Used(l)

LEMMA HoldersType ==
  ASSUME NEW l
  PROVE  /\ IsFiniteSet(Holders(l)) /\ Cardinality(Holders(l)) \in Nat
         /\ Cardinality(Holders(l)) <= Cardinality(Requests)
         /\ Cardinality(Requests) \in Nat \ {0}
<1>1. Holders(l) \subseteq Requests
  BY DEF Holders
<1>2. Cardinality(Requests) \in Nat \ {0}
  BY AccountAssumption, FS_CardinalityType, FS_EmptySet
<1> QED
  BY <1>1, <1>2, AccountAssumption, FS_Subset, FS_CardinalityType

LEMMA HoldersTypeNext ==
  ASSUME NEW l
  PROVE  /\ IsFiniteSet(Holders(l)') /\ Cardinality(Holders(l)') \in Nat
         /\ Cardinality(Holders(l)') <= Cardinality(Requests)
<1>1. Holders(l)' \subseteq Requests
  BY DEF Holders
<1> QED
  BY <1>1, AccountAssumption, FS_Subset, FS_CardinalityType

(* No request comes to hold l, the row does not, and nobody uses it. *)
LEMMA UsedStays ==
  ASSUME TypeOK, NEW l \in Links, Used(l), uses'[l] = uses[l], Holders(l)' \subseteq Holders(l),
         user'.resetLink = l => user.resetLink = l
  PROVE  Used(l)'
<1>1. Cardinality(Holders(l)') <= Cardinality(Holders(l))
  BY HoldersType, FS_Subset
<1>2. uses[l] \in Nat
  BY DEF TypeOK
<1>3. Cardinality(Holders(l))' = Cardinality(Holders(l)')
  OBVIOUS
<1> QED
  BY <1>1, <1>2, <1>3, HoldersType, HoldersTypeNext DEF Used

(* Nobody has used l. *)
LEMMA Unused ==
  ASSUME NEW l \in Links, uses'[l] = 0
  PROVE  Used(l)'
BY HoldersType, HoldersTypeNext DEF Used

LEMMA NextUses == TypeOK /\ UsesInv /\ [Next]_vars => UsesInv'
<1> SUFFICES ASSUME TypeOK, UsesInv, [Next]_vars, NEW l \in Links PROVE Used(l)'
  BY DEF UsesInv
<1>t. Used(l) /\ req \in [Requests -> Request] /\ uses \in [Links -> Nat] /\ None # l /\ Idle.link = None
  BY TypeParts, AccountAssumption DEF UsesInv, RequestsOK, TypeOK, Idle
<1> USE DEF vars, rows, redis, history
<1>keep. ASSUME UNCHANGED <<req, uses, user>> PROVE Used(l)'
  BY <1>t, <1>keep, UsedStays DEF Holders
<1>aside. ASSUME NEW r \in Requests, NEW s, Become(r, s), s.link \in {None, req[r].link},
                 uses' = uses, user'.resetLink \in {None, user.resetLink}
          PROVE  Used(l)'
  <2>1. Holders(l)' \subseteq Holders(l)
    BY <1>t, <1>aside DEF Become, Holders
  <2> QED
    BY <1>t, <1>aside, <2>1, UsedStays
<1>u. ASSUME UNCHANGED vars PROVE Used(l)'
  BY <1>u, <1>keep
<1>1. ASSUME NEW r \in Requests, NEW p \in Passwords, SignupCheck(r, p) PROVE Used(l)'
  <2>1. [Idle EXCEPT !.pc = "create", !.password = p].link = None
    BY DEF Idle
  <2> QED
    BY <1>1, <2>1, <1>aside DEF SignupCheck
<1>2. ASSUME NEW r \in Requests, NEW k \in Links, SignupCreate(r, k) PROVE Used(l)'
  <2>1. CASE user.exists
    BY <1>t, <1>2, <2>1, <1>aside DEF SignupCreate, End
  <2>2. CASE ~user.exists
    <3> DEFINE s == [Idle EXCEPT !.pc = "mail", !.link = k]
    <3>1. s.link = k /\ Become(r, s) /\ uses' = uses /\ Fresh(k) /\ user'.resetLink = None
      BY <1>2, <2>2 DEF SignupCreate, Idle, Update, NoUser
    <3> HIDE DEF s
    <3>2. CASE k # l
      <4>1. Holders(l)' \subseteq Holders(l)
        BY <1>t, <3>1, <3>2 DEF Become, Holders
      <4> QED
        BY <1>t, <3>1, <4>1, UsedStays
    <3>3. CASE k = l
      <4>1. Holders(l)' = {r}
        BY <1>t, <3>1, <3>3 DEF Become, Holders, Fresh
      <4>2. Cardinality(Holders(l))' = 1
        BY <4>1, FS_Singleton
      <4> QED
        BY <1>t, <3>1, <4>2, HoldersType DEF Used
    <3> QED
      BY <3>2, <3>3
  <2> QED
    BY <2>1, <2>2
<1>3. ASSUME NEW r \in Requests, SendMail(r) PROVE Used(l)'
  BY <1>t, <1>3, <1>aside DEF SendMail, End, Update
<1>4. ASSUME NEW r \in Requests, NEW k \in Links, VerifyFind(r, k) PROVE Used(l)'
  <2>1. [req[r] EXCEPT !.pc = "verify"].link = req[r].link
    BY <1>t DEF Request
  <2> QED
    BY <1>4, <2>1, <1>aside DEF VerifyFind, Goto
<1>5. ASSUME NEW r \in Requests, VerifyWrite(r) PROVE Used(l)'
  <2>1. user'.resetLink = user.resetLink
    BY <1>5 DEF VerifyWrite, Update, TypeOK
  <2> QED
    BY <1>t, <1>5, <2>1, <1>aside DEF VerifyWrite, End
<1>6. ASSUME NEW r \in Requests, ForgotFind(r) PROVE Used(l)'
  <2>1. [req[r] EXCEPT !.pc = "forgot"].link = req[r].link
    BY <1>t DEF Request
  <2> QED
    BY <1>6, <2>1, <1>aside DEF ForgotFind, Goto
<1>7. ASSUME NEW r \in Requests, NEW k \in Links, ForgotWrite(r, k) PROVE Used(l)'
  <2> DEFINE s == [Idle EXCEPT !.pc = "mail", !.link = k]
  <2>1. s.link = k /\ Become(r, s) /\ uses' = [uses EXCEPT ![k] = 0] /\ user'.resetLink = k
    BY <1>7 DEF ForgotWrite, Idle, Update, TypeOK
  <2> HIDE DEF s
  <2>2. CASE k # l
    <3>1. Holders(l)' \subseteq Holders(l)
      BY <1>t, <2>1, <2>2 DEF Become, Holders
    <3> QED
      BY <1>t, <2>1, <2>2, <3>1, UsedStays
  <2>3. CASE k = l
    BY <1>t, <2>1, <2>3, Unused
  <2> QED
    BY <2>2, <2>3
<1>8. ASSUME NEW r \in Requests, NEW k \in Links, NEW p \in Passwords, ResetFind(r, k, p)
      PROVE  Used(l)'
  <2> DEFINE s == [Idle EXCEPT !.pc = "reset", !.password = p, !.link = k]
  <2>1. s.link = k /\ Become(r, s) /\ UNCHANGED <<uses, user>> /\ user.resetLink = k
    BY <1>8 DEF ResetFind, Idle, Valid
  <2> HIDE DEF s
  <2>2. CASE k # l
    <3>1. Holders(l)' \subseteq Holders(l)
      BY <1>t, <2>1, <2>2 DEF Become, Holders
    <3> QED
      BY <1>t, <2>1, <3>1, UsedStays
  <2>3. CASE k = l
    BY <1>t, <2>1, <2>3, Unused DEF Used
  <2> QED
    BY <2>2, <2>3
<1>9. ASSUME NEW r \in Requests, ResetWrite(r) PROVE Used(l)'
  <2> DEFINE k == req[r].link
  <2>1. PICK held \in BOOLEAN :
          /\ uses' = [uses EXCEPT ![k] = IF held THEN @ + 1 ELSE 0]
          /\ held => \E q \in Requests \ {r} : req[q].link = k
    <3>1. ResetUser(req[r].password).resetLink = None
      BY DEF ResetUser, TypeOK
    <3>2. k \in Links
      BY <1>9 DEF ResetWrite, At, TypeOK
    <3>3. k # None
      BY <3>2, AccountAssumption
    <3> QED
      BY <1>9, <3>1, <3>3 DEF ResetWrite
  <2>2. user'.resetLink = None /\ Become(r, Idle)
    BY <1>9 DEF ResetWrite, Update, ResetUser, TypeOK, End
  <2>3. Holders(l)' = Holders(l) \ {r}
    BY <1>t, <2>2 DEF Become, Holders
  <2>4. CASE k # l
    BY <1>t, <2>1, <2>2, <2>3, <2>4, UsedStays
  <2>5. CASE k = l /\ ~held
    BY <1>t, <2>1, <2>5, Unused
  <2>6. CASE k = l /\ held
    <3>1. r \in Holders(l) /\ Holders(l)' # {}
      BY <2>1, <2>3, <2>6 DEF Holders
    <3>2. /\ Cardinality(Holders(l))' = Cardinality(Holders(l)) - 1
          /\ Cardinality(Holders(l))' # 0
      BY <2>3, <3>1, HoldersType, HoldersTypeNext, FS_RemoveElement, FS_EmptySet
    <3>3. uses'[l] = uses[l] + 1 /\ uses[l] \in Nat
      BY <1>t, <2>1, <2>6
    <3>4. Cardinality(Holders(l))' \in Nat
      BY HoldersTypeNext
    <3> QED
      BY <1>t, <2>2, <3>2, <3>3, <3>4, HoldersType DEF Used
  <2> QED
    BY <2>4, <2>5, <2>6
<1>10. ASSUME NEW r \in Requests, NEW p \in Passwords, LoginCheck(r, p) PROVE Used(l)'
  <2>1. [Idle EXCEPT !.pc = "find", !.password = p].link = None
    BY DEF Idle
  <2> QED
    BY <1>t, <1>10, <2>1, <1>aside DEF LoginCheck, End
<1>11. ASSUME NEW r \in Requests, LoginFind(r) PROVE Used(l)'
  <2>1. /\ [req[r] EXCEPT !.pc = "redis", !.ok = TRUE, !.todo = AfterSuccess].link = req[r].link
        /\ [req[r] EXCEPT !.pc = "fail", !.ok = FALSE].link = req[r].link
    BY <1>t DEF Request
  <2> QED
    BY <1>11, <2>1, <1>aside DEF LoginFind
<1>12. ASSUME NEW r \in Requests, LoginFail(r) PROVE Used(l)'
  <2>1. \A todo : [req[r] EXCEPT !.pc = "redis", !.todo = todo].link = req[r].link
    BY <1>t DEF Request
  <2>2. \E todo : Become(r, [req[r] EXCEPT !.pc = "redis", !.todo = todo])
    BY <1>12 DEF LoginFail
  <2>3. UNCHANGED <<uses, user>>
    BY <1>12 DEF LoginFail
  <2> QED
    BY <2>1, <2>2, <2>3, <1>aside
<1>13. ASSUME NEW r \in Requests, RedisCommand(r) PROVE Used(l)'
  <2>1. [req[r] EXCEPT !.todo = Tail(@)].link = req[r].link
    BY <1>t DEF Request
  <2>2. Become(r, [req[r] EXCEPT !.todo = Tail(@)]) /\ UNCHANGED <<uses, user>>
    BY <1>13 DEF RedisCommand
  <2> QED
    BY <2>1, <2>2, <1>aside
<1>14. ASSUME NEW r \in Requests, LoginEnd(r) PROVE Used(l)'
  BY <1>t, <1>14, <1>aside DEF LoginEnd, End
<1>15. ASSUME NEW r \in Requests, Fail(r) PROVE Used(l)'
  BY <1>t, <1>15, <1>aside DEF Fail, End
<1>16. ASSUME NEW k \in Links, LinkExpires(k) PROVE Used(l)'
  BY <1>16, <1>keep DEF LinkExpires
<1>17. ASSUME NEW k \in Dims, CounterExpires(k) PROVE Used(l)'
  BY <1>17, <1>keep DEF CounterExpires
<1>18. ASSUME NEW d \in Dims, CooldownExpires(d) PROVE Used(l)'
  BY <1>18, <1>keep DEF CooldownExpires
<1> QED
  BY <1>u, <1>1, <1>2, <1>3, <1>4, <1>5, <1>6, <1>7, <1>8, <1>9, <1>10, <1>11, <1>12, <1>13,
     <1>14, <1>15, <1>16, <1>17, <1>18 DEF Next

LEMMA InitUses == Init => UsesInv
<1> SUFFICES ASSUME Init, NEW l \in Links PROVE Used(l)
  BY DEF UsesInv
<1>1. uses[l] = 0
  BY DEF Init
<1> QED
  BY <1>1, HoldersType DEF Used

(* However requests for a reset interleave, expire and die: a reset link   *)
(* changes the password no more often than there were requests that found  *)
(* it before it was cleared, less one (POST /auth/reset-password).         *)
THEOREM ResetsAreBounded == Spec => []ResetsBounded
<1>1. UsesInv => ResetsBounded
  BY DEF UsesInv, Used, ResetsBounded
<1> QED
  BY InitType, NextType, InitUses, NextUses, <1>1, PTL DEF Spec

----------------------------------------------------------------------------
(* Types of the announcements *)

MatchRow == [at : Nat, how : {"none", "instant", "digest"}]
RunPCs == {"idle", "candidates", "dedup", "prefs", "caps", "digestcaps", "commit", "push",
           "sending", "schedule"}
RunMemory == [pc : RunPCs, ad : Ads \cup {Nil}, at : Nat, cands : SUBSET Providers,
              instant : SUBSET Providers, digest : SUBSET Providers, quiet : SUBSET Providers,
              to : [Tokens -> Providers \cup {Nil}]]

SceneOK == scene \in [area : {"match", "push", "bell"}, ads : SUBSET Ads, providers : SUBSET Providers]
NotesOK == /\ match \in [Ads -> [Providers -> MatchRow]]
          /\ notes \in [Ads -> [Providers -> Seq(Nat)]]
RunsOK == /\ run \in [Workers -> RunMemory]
          /\ \A w \in Workers : run[w].at <= now /\ (run[w].pc # "idle" => run[w].ad \in Ads)
OwnersOK == owner \in [Tokens -> Providers \cup {Nil}]
TypeInv == SceneOK /\ NotesOK /\ RunsOK /\ OwnersOK /\ now \in Nat

LEMMA NoRunType == NoRun \in RunMemory /\ NoRun.pc = "idle" /\ NoRun.at = 0
  BY DEF NoRun, RunMemory, RunPCs

(* A worker goes on to r, the others stay where they are. *)
LEMMA Goes ==
    ASSUME RunsOK, NEW w \in Workers, NEW r \in RunMemory, Go(w, r)
    PROVE  run'[w] = r /\ \A v \in Workers \ {w} : run'[v] = run[v]
  BY DEF RunsOK, Go

LEMMA GoesOn ==
    ASSUME RunsOK, now \in Nat, NEW w \in Workers, NEW r \in RunMemory, Go(w, r), r.at <= now,
           r.pc # "idle" => r.ad \in Ads, now' = now
    PROVE  RunsOK'
<1>1. run' \in [Workers -> RunMemory]
  BY DEF RunsOK, Go
<1>2. \A v \in Workers : run'[v].at <= now' /\ (run'[v].pc # "idle" => run'[v].ad \in Ads)
  BY Goes DEF RunsOK
<1> QED BY <1>1, <1>2 DEF RunsOK

----------------------------------------------------------------------------
(* Counting: the workers that have passed a cap and not inserted yet *)

Passed(p) == {w \in Workers : run[w].pc \in {"digestcaps", "commit"} /\ p \in run[w].instant}
PassedDigest(p) == {w \in Workers : run[w].pc = "commit" /\ p \in run[w].digest}
MaxCount == WindowMax - 1 + Cardinality(Workers)

CapInv ==
    \A p \in Providers :
        /\ Noted(p, now) + Cardinality(Passed(p)) <= MaxCount
        /\ Matched(p, {"digest"}, now) + Cardinality(PassedDigest(p)) <= MaxCount
AnnounceInv == TypeInv /\ NotifiedOnce /\ CapInv

(* The rows behind the two counts *)
NoteRows(p, from) == {n \in UNION {{a} \X DOMAIN notes[a][p] : a \in Ads} :
                         Within(notes[n[1]][p][n[2]], from)}
MatchRows(p, hows, from) == {a \in Ads : match[a][p].how \in hows /\ Within(match[a][p].at, from)}

(* Counts are of finite sets. *)
LEMMA Finite ==
    /\ Cardinality(Workers) \in Nat \ {0} /\ MaxCount \in Nat
    /\ \A S \in SUBSET Workers : /\ IsFiniteSet(S) /\ Cardinality(S) \in Nat
                                 /\ Cardinality(S) <= Cardinality(Workers)
    /\ \A S \in SUBSET Ads : IsFiniteSet(S) /\ Cardinality(S) \in Nat
<1>1. Cardinality(Workers) \in Nat /\ Cardinality(Workers) # 0
  BY NoticesAssumption, FS_CardinalityType, FS_EmptySet
<1>2. MaxCount \in Nat
  BY <1>1, NoticesAssumption DEF MaxCount
<1>3. \A S \in SUBSET Workers : /\ IsFiniteSet(S) /\ Cardinality(S) \in Nat
                                /\ Cardinality(S) <= Cardinality(Workers)
  BY NoticesAssumption, FS_Subset, FS_CardinalityType
<1>4. \A S \in SUBSET Ads : IsFiniteSet(S) /\ Cardinality(S) \in Nat
  BY NoticesAssumption, FS_Subset, FS_CardinalityType
<1> QED BY <1>1, <1>2, <1>3, <1>4

(* A provider has at most one notification per job, so they can be counted. *)
LEMMA FewNotes ==
    ASSUME TypeInv, NotifiedOnce, NEW p \in Providers
    PROVE  /\ \A a \in Ads : DOMAIN notes[a][p] \subseteq {1}
           /\ \A from : IsFiniteSet(NoteRows(p, from)) /\ Cardinality(NoteRows(p, from)) \in Nat
<1>1. ASSUME NEW a \in Ads PROVE DOMAIN notes[a][p] \subseteq {1}
  <2>1. notes[a][p] \in Seq(Nat) /\ Len(notes[a][p]) \in {0, 1}
    BY DEF TypeInv, NotesOK, NotifiedOnce
  <2> QED BY <2>1
<1>2. ASSUME NEW from PROVE NoteRows(p, from) \in SUBSET (Ads \X {1})
  BY <1>1 DEF NoteRows
<1>3. IsFiniteSet(Ads \X {1})
  BY NoticesAssumption, FS_Singleton, FS_Product
<1> QED BY <1>1, <1>2, <1>3, FS_Subset, FS_CardinalityType

(* What is in the window now was in it when a worker began. *)
LEMMA WindowMoves ==
    ASSUME TypeInv, NotifiedOnce, NEW p \in Providers, NEW from \in Nat, from <= now
    PROVE  /\ Noted(p, now) <= Noted(p, from)
           /\ Matched(p, {"digest"}, now) <= Matched(p, {"instant", "digest"}, from)
           /\ Noted(p, from) \in Nat /\ Noted(p, now) \in Nat
           /\ Matched(p, {"digest"}, now) \in Nat
           /\ Matched(p, {"instant", "digest"}, from) \in Nat
<1>0. Window \in Nat /\ now \in Nat
  BY NoticesAssumption DEF TypeInv
<1>1. \A t \in Nat : Within(t, now) => Within(t, from)
  BY <1>0 DEF Within
<1>2. NoteRows(p, now) \in SUBSET NoteRows(p, from)
  <2>1. ASSUME NEW a \in Ads, NEW i \in DOMAIN notes[a][p] PROVE notes[a][p][i] \in Nat
    BY <2>1 DEF TypeInv, NotesOK
  <2> QED BY <1>1, <2>1 DEF NoteRows
<1>3. MatchRows(p, {"digest"}, now) \in SUBSET MatchRows(p, {"instant", "digest"}, from)
  <2>1. \A a \in Ads : match[a][p].at \in Nat
    BY DEF TypeInv, NotesOK, MatchRow
  <2> QED BY <1>1, <2>1 DEF MatchRows
<1>4. /\ \A at : Noted(p, at) = Cardinality(NoteRows(p, at))
      /\ \A hows, at : Matched(p, hows, at) = Cardinality(MatchRows(p, hows, at))
  BY DEF Noted, NoteRows, Matched, MatchRows
<1>5. \A hows, at : MatchRows(p, hows, at) \in SUBSET Ads
  BY DEF MatchRows
<1>6. Cardinality(NoteRows(p, now)) <= Cardinality(NoteRows(p, from))
  BY <1>2, FewNotes, FS_Subset
<1>7. Cardinality(MatchRows(p, {"digest"}, now)) <= Cardinality(MatchRows(p, {"instant", "digest"}, from))
  BY <1>3, <1>5, Finite, FS_Subset
<1> QED BY <1>4, <1>5, <1>6, <1>7, FewNotes, Finite

(* A step that inserts nothing and lets nobody pass a cap. *)
LEMMA NobodyPasses ==
    ASSUME AnnounceInv, TypeInv', UNCHANGED <<match, notes>>, now <= now',
           \A p \in Providers : Passed(p)' \subseteq Passed(p) /\ PassedDigest(p)' \subseteq PassedDigest(p)
    PROVE  AnnounceInv'
<1>1. NotifiedOnce'
  BY DEF AnnounceInv, NotifiedOnce
<1>2. ASSUME NEW p \in Providers
      PROVE  /\ Noted(p, now)' <= Noted(p, now) /\ Noted(p, now)' \in Nat /\ Noted(p, now) \in Nat
             /\ Matched(p, {"digest"}, now)' <= Matched(p, {"digest"}, now)
             /\ Matched(p, {"digest"}, now)' \in Nat /\ Matched(p, {"digest"}, now) \in Nat
  <2>1. NoteRows(p, now)' \in SUBSET NoteRows(p, now)
    <3>0. Window \in Nat /\ now \in Nat /\ now' \in Nat
      BY NoticesAssumption DEF AnnounceInv, TypeInv
    <3>1. ASSUME NEW a \in Ads, NEW i \in DOMAIN notes[a][p] PROVE notes[a][p][i] \in Nat
      BY <3>1 DEF AnnounceInv, TypeInv, NotesOK
    <3> QED BY <3>0, <3>1 DEF NoteRows, Within
  <2>2. MatchRows(p, {"digest"}, now)' \in SUBSET MatchRows(p, {"digest"}, now)
    <3>0. Window \in Nat /\ now \in Nat /\ now' \in Nat
      BY NoticesAssumption DEF AnnounceInv, TypeInv
    <3>1. \A a \in Ads : match[a][p].at \in Nat
      BY DEF AnnounceInv, TypeInv, NotesOK, MatchRow
    <3> QED BY <3>0, <3>1 DEF MatchRows, Within
  <2>3. MatchRows(p, {"digest"}, now) \in SUBSET Ads
    BY DEF MatchRows
  <2>4. /\ IsFiniteSet(NoteRows(p, now)) /\ Cardinality(NoteRows(p, now)) \in Nat
        /\ IsFiniteSet(MatchRows(p, {"digest"}, now)) /\ Cardinality(MatchRows(p, {"digest"}, now)) \in Nat
    BY <2>3, FewNotes, Finite DEF AnnounceInv
  <2>5. /\ Cardinality(NoteRows(p, now)') <= Cardinality(NoteRows(p, now))
        /\ Cardinality(NoteRows(p, now)') \in Nat
    BY <2>1, <2>4, FS_Subset, FS_CardinalityType
  <2>6. /\ Cardinality(MatchRows(p, {"digest"}, now)') <= Cardinality(MatchRows(p, {"digest"}, now))
        /\ Cardinality(MatchRows(p, {"digest"}, now)') \in Nat
    BY <2>2, <2>4, FS_Subset, FS_CardinalityType
  <2> QED BY <2>4, <2>5, <2>6 DEF Noted, NoteRows, Matched, MatchRows
<1>3. ASSUME NEW p \in Providers
      PROVE  /\ Cardinality(Passed(p)') <= Cardinality(Passed(p))
             /\ Cardinality(PassedDigest(p)') <= Cardinality(PassedDigest(p))
             /\ Cardinality(Passed(p)) \in Nat /\ Cardinality(Passed(p)') \in Nat
             /\ Cardinality(PassedDigest(p)) \in Nat /\ Cardinality(PassedDigest(p)') \in Nat
  <2>1. Passed(p) \in SUBSET Workers /\ PassedDigest(p) \in SUBSET Workers
    BY DEF Passed, PassedDigest
  <2> QED BY <2>1, Finite, FS_Subset, FS_CardinalityType
<1>4. CapInv'
  <2> SUFFICES ASSUME NEW p \in Providers
               PROVE  /\ Noted(p, now)' + Cardinality(Passed(p)') <= MaxCount
                      /\ Matched(p, {"digest"}, now)' + Cardinality(PassedDigest(p)') <= MaxCount
    BY DEF CapInv, MaxCount
  <2>1. /\ Noted(p, now) + Cardinality(Passed(p)) <= MaxCount
        /\ Matched(p, {"digest"}, now) + Cardinality(PassedDigest(p)) <= MaxCount
    BY DEF AnnounceInv, CapInv
  <2> QED BY <1>2, <1>3, <2>1, Finite
<1> QED BY <1>1, <1>4 DEF AnnounceInv

(* A step of a worker that inserts nothing and passes no cap *)
LEMMA MovesOn ==
    ASSUME AnnounceInv, NEW w \in Workers, NEW r \in RunMemory, Go(w, r),
           r.at <= now, r.pc # "idle" => r.ad \in Ads,
           UNCHANGED <<scene, now, match, notes>>, OwnersOK',
           r.pc \in {"digestcaps", "commit"} =>
               r.instant = {} \/ (run[w].pc \in {"digestcaps", "commit"} /\ r.instant \subseteq run[w].instant),
           r.pc = "commit" => r.digest = {} \/ (run[w].pc = "commit" /\ r.digest \subseteq run[w].digest)
    PROVE  AnnounceInv'
<1>1. TypeInv'
  <2>1. RunsOK'
    BY GoesOn DEF AnnounceInv, TypeInv
  <2> QED BY <2>1 DEF AnnounceInv, TypeInv, SceneOK, NotesOK
<1>2. run'[w] = r /\ \A v \in Workers \ {w} : run'[v] = run[v]
  BY Goes DEF AnnounceInv, TypeInv
<1>3. \A p \in Providers : Passed(p)' \subseteq Passed(p) /\ PassedDigest(p)' \subseteq PassedDigest(p)
  BY <1>2 DEF Passed, PassedDigest
<1>4. now <= now'
  BY DEF AnnounceInv, TypeInv
<1> QED BY <1>1, <1>3, <1>4, NobodyPasses

(* A step that concerns none of this *)
LEMMA Elsewhere ==
    ASSUME AnnounceInv, UNCHANGED <<scene, match, notes, run>>, OwnersOK', now' \in Nat, now <= now'
    PROVE  AnnounceInv'
<1>1. RunsOK'
  BY DEF AnnounceInv, TypeInv, RunsOK, RunMemory
<1>2. TypeInv'
  BY <1>1 DEF AnnounceInv, TypeInv, SceneOK, NotesOK
<1>3. \A p \in Providers : Passed(p)' \subseteq Passed(p) /\ PassedDigest(p)' \subseteq PassedDigest(p)
  BY DEF Passed, PassedDigest
<1> QED BY <1>2, <1>3, NobodyPasses

(* Any end of a run: the worker is idle again. *)
LEMMA Ends ==
    ASSUME AnnounceInv, NEW w \in Workers, Go(w, NoRun), UNCHANGED <<scene, now, match, notes, owner>>
    PROVE  AnnounceInv'
<1>1. OwnersOK' /\ now \in Nat
  BY DEF AnnounceInv, TypeInv, OwnersOK
<1> DEFINE r == NoRun
<1>2. r \in RunMemory /\ r.pc = "idle" /\ r.at = 0
  BY NoRunType
<1>3. Go(w, r)
  OBVIOUS
<1>4. r.at <= now
  BY <1>1, <1>2
<1> HIDE DEF r
<1> QED BY <1>1, <1>2, <1>3, <1>4, MovesOn

----------------------------------------------------------------------------
(* The steps of an announcement *)

(* One step only names the next: what the worker remembers stays of its type. *)
LEMMA Remembers ==
    ASSUME NEW r \in RunMemory, NEW pc \in RunPCs
    PROVE  /\ [r EXCEPT !.pc = pc] \in RunMemory /\ [r EXCEPT !.pc = pc].pc = pc
           /\ [r EXCEPT !.pc = pc].at = r.at /\ [r EXCEPT !.pc = pc].ad = r.ad
           /\ [r EXCEPT !.pc = pc].instant = r.instant /\ [r EXCEPT !.pc = pc].digest = r.digest
           /\ [r EXCEPT !.pc = pc].to = r.to
  BY DEF RunMemory

LEMMA AnnounceStep ==
    ASSUME AnnounceInv, NEW w \in Workers, NEW a \in scene.ads, Announce(w, a)
    PROVE  AnnounceInv'
<1>0. OwnersOK' /\ UNCHANGED <<scene, now, match, notes, owner>> /\ now \in Nat
  BY DEF AnnounceInv, TypeInv, OwnersOK, Announce, env, pushing
<1>1. CASE a \in hidden
  BY <1>0, <1>1, Elsewhere DEF Announce
<1>2. CASE a \notin hidden
  <2> DEFINE r == [NoRun EXCEPT !.pc = "candidates", !.ad = a, !.at = now]
  <2>1. Go(w, r)
    BY <1>2 DEF Announce
  <2>2. a \in Ads
    BY DEF AnnounceInv, TypeInv, SceneOK
  <2>3. r \in RunMemory /\ r.pc = "candidates" /\ r.at = now /\ r.ad = a
    BY <1>0, <2>2 DEF NoRun, RunMemory, RunPCs
  <2> HIDE DEF r
  <2>4. r.at <= now
    BY <1>0, <2>3
  <2> QED BY <1>0, <2>1, <2>2, <2>3, <2>4, MovesOn
<1> QED BY <1>1, <1>2

(* The worker chooses, and has passed no cap yet. *)
LEMMA ChoosingStep ==
    ASSUME AnnounceInv, NEW w \in Workers,
           \/ \E S \in SUBSET scene.providers : Candidates(w, S)
           \/ DedupRead(w) \/ PrefsRead(w)
    PROVE  AnnounceInv'
<1>0. /\ OwnersOK' /\ UNCHANGED <<scene, now, match, notes, owner>> /\ now \in Nat
      /\ run[w] \in RunMemory /\ run[w].at <= now /\ (run[w].pc # "idle" => run[w].ad \in Ads)
  BY DEF AnnounceInv, TypeInv, OwnersOK, RunsOK, Candidates, DedupRead, PrefsRead, env, pushing
<1>1. ASSUME NEW S \in SUBSET scene.providers, Candidates(w, S) PROVE AnnounceInv'
  <2>1. CASE S = {}
    BY <1>0, <1>1, <2>1, Ends DEF Candidates, Finish
  <2>2. CASE S # {}
    <3> DEFINE r == [run[w] EXCEPT !.pc = "dedup", !.cands = S, !.to = owner]
    <3>1. Go(w, r) /\ run[w].pc = "candidates"
      BY <1>1, <2>2 DEF Candidates, On
    <3>2. S \subseteq Providers /\ owner \in [Tokens -> Providers \cup {Nil}]
      BY DEF AnnounceInv, TypeInv, SceneOK, OwnersOK
    <3>3. r \in RunMemory /\ r.pc = "dedup" /\ r.at = run[w].at /\ r.ad = run[w].ad
      BY <1>0, <3>2 DEF RunMemory, RunPCs
    <3> HIDE DEF r
    <3> QED BY <1>0, <3>1, <3>3, MovesOn
  <2> QED BY <2>1, <2>2
<1>2. ASSUME DedupRead(w) PROVE AnnounceInv'
  <2>1. CASE Dedup(w) = {}
    BY <1>0, <1>2, <2>1, Ends DEF DedupRead, Finish
  <2>2. CASE Dedup(w) # {}
    <3> DEFINE r == [run[w] EXCEPT !.pc = "prefs", !.cands = Dedup(w)]
    <3>1. Go(w, r) /\ run[w].pc = "dedup"
      BY <1>2, <2>2 DEF DedupRead, On
    <3>2. Dedup(w) \subseteq Providers
      BY <1>0 DEF Dedup, RunMemory
    <3>3. r \in RunMemory /\ r.pc = "prefs" /\ r.at = run[w].at /\ r.ad = run[w].ad
      BY <1>0, <3>2 DEF RunMemory, RunPCs
    <3> HIDE DEF r
    <3> QED BY <1>0, <3>1, <3>3, MovesOn
  <2> QED BY <2>1, <2>2
<1>3. ASSUME PrefsRead(w) PROVE AnnounceInv'
  <2> DEFINE on == {p \in run[w].cands : prefs[p].on}
             instant == {p \in on : ~prefs[p].digest}
             quiet == {p \in on : run[w].at \in prefs[p].quiet}
             pc == IF instant # {} THEN "caps" ELSE "digestcaps"
             r == [run[w] EXCEPT !.pc = pc, !.instant = instant, !.digest = on \ instant, !.quiet = quiet]
  <2>1. CASE on = {}
    BY <1>0, <1>3, <2>1, Ends DEF PrefsRead, Finish
  <2>2. CASE on # {}
    <3>1. Go(w, r) /\ run[w].pc = "prefs"
      BY <1>3, <2>2 DEF PrefsRead, On
    <3>2. on \subseteq Providers /\ instant \subseteq Providers /\ quiet \subseteq Providers
      BY <1>0 DEF RunMemory
    <3>3. r \in RunMemory /\ r.pc = pc /\ r.at = run[w].at /\ r.ad = run[w].ad /\ r.instant = instant
      <4> HIDE DEF on, instant, quiet
      <4> QED BY <1>0, <3>2 DEF RunMemory, RunPCs
    <3>4. r.pc # "commit" /\ (r.pc = "digestcaps" => r.instant = {}) /\ r.pc # "idle"
      BY <3>3
    <3> HIDE DEF r, pc, on, instant, quiet
    <3> QED BY <1>0, <3>1, <3>3, <3>4, MovesOn
  <2> QED BY <2>1, <2>2
<1> QED BY <1>1, <1>2, <1>3

(* A worker that passes a cap found, at the moment it began, fewer than the *)
(* cap; all the workers together add no more than one each.                 *)
LEMMA PassesCap ==
    ASSUME AnnounceInv, NEW w \in Workers, NEW r \in RunMemory, Go(w, r),
           r.at = run[w].at, r.ad \in Ads, UNCHANGED <<scene, now, match, notes, owner>>,
           \A p \in r.instant : \/ run[w].pc = "digestcaps" /\ p \in run[w].instant
                                \/ UnderCap(w, p),
           r.pc = "commit" =>
              \A p \in r.digest : Matched(p, {"instant", "digest"}, run[w].at) < WindowMax
    PROVE  AnnounceInv'
<1>0. /\ OwnersOK' /\ now \in Nat /\ run[w].at <= now /\ run[w].at \in Nat
      /\ TypeInv /\ NotifiedOnce
  BY DEF AnnounceInv, TypeInv, OwnersOK, RunsOK, RunMemory
<1>1. TypeInv'
  <2>1. RunsOK'
    BY <1>0, GoesOn DEF TypeInv
  <2> QED BY <1>0, <2>1 DEF AnnounceInv, TypeInv, SceneOK, NotesOK
<1>2. run'[w] = r /\ \A v \in Workers \ {w} : run'[v] = run[v]
  BY Goes DEF AnnounceInv, TypeInv
<1>3. NotifiedOnce'
  BY DEF AnnounceInv, NotifiedOnce
<1>4. ASSUME NEW p \in Providers
      PROVE  /\ Noted(p, now) + Cardinality(Passed(p)') <= MaxCount
             /\ Matched(p, {"digest"}, now) + Cardinality(PassedDigest(p)') <= MaxCount
  <2>1. /\ Noted(p, now) <= Noted(p, run[w].at)
        /\ Matched(p, {"digest"}, now) <= Matched(p, {"instant", "digest"}, run[w].at)
        /\ Noted(p, run[w].at) \in Nat /\ Noted(p, now) \in Nat
        /\ Matched(p, {"digest"}, now) \in Nat
        /\ Matched(p, {"instant", "digest"}, run[w].at) \in Nat
    BY <1>0, WindowMoves
  <2>2. /\ Noted(p, now) + Cardinality(Passed(p)) <= MaxCount
        /\ Matched(p, {"digest"}, now) + Cardinality(PassedDigest(p)) <= MaxCount
    BY DEF AnnounceInv, CapInv
  <2>3. /\ Passed(p) \in SUBSET Workers /\ PassedDigest(p) \in SUBSET Workers
        /\ Passed(p)' \in SUBSET Workers /\ PassedDigest(p)' \in SUBSET Workers
    BY DEF Passed, PassedDigest
  <2>4. /\ Cardinality(Passed(p)') \in Nat /\ Cardinality(Passed(p)') <= Cardinality(Workers)
        /\ Cardinality(PassedDigest(p)') \in Nat
        /\ Cardinality(PassedDigest(p)') <= Cardinality(Workers)
        /\ Cardinality(Workers) \in Nat /\ MaxCount \in Nat /\ WindowMax \in Nat
        /\ Cardinality(Passed(p)) \in Nat /\ Cardinality(PassedDigest(p)) \in Nat
    BY <2>3, Finite, NoticesAssumption
  <2>5. Noted(p, now) + Cardinality(Passed(p)') <= MaxCount
    <3>1. CASE p \in r.instant /\ UnderCap(w, p)
      <4>1. Noted(p, now) < WindowMax
        BY <2>1, <2>4, <3>1 DEF UnderCap
      <4> QED BY <2>1, <2>4, <4>1 DEF MaxCount
    <3>2. CASE ~(p \in r.instant /\ UnderCap(w, p))
      <4>1. p \in r.instant => run[w].pc = "digestcaps" /\ p \in run[w].instant
        BY <3>2
      <4>2. Passed(p)' \in SUBSET Passed(p)
        BY <1>2, <4>1 DEF Passed
      <4>3. Cardinality(Passed(p)') <= Cardinality(Passed(p))
        BY <2>3, <4>2, Finite, FS_Subset
      <4> QED BY <2>1, <2>2, <2>4, <4>3
    <3> QED BY <3>1, <3>2
  <2>6. Matched(p, {"digest"}, now) + Cardinality(PassedDigest(p)') <= MaxCount
    <3>1. CASE r.pc = "commit" /\ p \in r.digest
      <4>1. Matched(p, {"digest"}, now) < WindowMax
        BY <2>1, <2>4, <3>1
      <4> QED BY <2>1, <2>4, <4>1 DEF MaxCount
    <3>2. CASE ~(r.pc = "commit" /\ p \in r.digest)
      <4>2. PassedDigest(p)' \in SUBSET PassedDigest(p)
        BY <1>2, <3>2 DEF PassedDigest
      <4>3. Cardinality(PassedDigest(p)') <= Cardinality(PassedDigest(p))
        BY <2>3, <4>2, Finite, FS_Subset
      <4> QED BY <2>1, <2>2, <2>4, <4>3
    <3> QED BY <3>1, <3>2
  <2> QED BY <2>5, <2>6
<1>5. CapInv'
  BY <1>4 DEF CapInv, MaxCount, Noted, Matched, Within
<1> QED BY <1>1, <1>3, <1>5 DEF AnnounceInv

LEMMA CapsStep ==
    ASSUME AnnounceInv, NEW w \in Workers, InstantCaps(w) \/ DigestCaps(w)
    PROVE  AnnounceInv'
<1>0. /\ UNCHANGED <<scene, now, match, notes, owner>> /\ now \in Nat
      /\ run[w] \in RunMemory /\ run[w].at <= now /\ run[w].ad \in Ads
  BY DEF AnnounceInv, TypeInv, RunsOK, InstantCaps, DigestCaps, env, pushing, On
<1>1. ASSUME NEW I, NEW D \in SUBSET Providers, I \subseteq Providers, Decide(w, I, D),
             \A p \in I : \/ run[w].pc = "digestcaps" /\ p \in run[w].instant
                          \/ UnderCap(w, p),
             \A p \in D : Matched(p, {"instant", "digest"}, run[w].at) < WindowMax
      PROVE  AnnounceInv'
  <2> DEFINE loud == I \ run[w].quiet
             r == [run[w] EXCEPT !.pc = "commit", !.instant = loud, !.digest = D]
  <2>1. CASE loud \cup D = {}
    BY <1>0, <1>1, <2>1, Ends DEF Decide, Finish
  <2>2. CASE loud \cup D # {}
    <3>1. Go(w, r)
      BY <1>1, <2>2 DEF Decide
    <3>2. loud \subseteq Providers /\ loud \subseteq I
      BY <1>1
    <3>3. /\ r \in RunMemory /\ r.pc = "commit" /\ r.at = run[w].at /\ r.ad = run[w].ad
          /\ r.instant = loud /\ r.digest = D
      <4> HIDE DEF loud
      <4> QED BY <1>0, <3>2 DEF RunMemory, RunPCs
    <3> HIDE DEF r, loud
    <3>4. /\ \A p \in r.instant : \/ run[w].pc = "digestcaps" /\ p \in run[w].instant
                                  \/ UnderCap(w, p)
          /\ \A p \in r.digest : Matched(p, {"instant", "digest"}, run[w].at) < WindowMax
      BY <1>1, <3>2, <3>3
    <3> QED BY <1>0, <3>1, <3>3, <3>4, PassesCap
  <2> QED BY <2>1, <2>2
<1>2. ASSUME InstantCaps(w) PROVE AnnounceInv'
  <2> DEFINE I == {p \in run[w].instant : UnderCap(w, p)}
             r == [run[w] EXCEPT !.pc = "digestcaps", !.instant = I]
  <2>1. I \subseteq Providers /\ \A p \in I : UnderCap(w, p)
    BY <1>0 DEF RunMemory
  <2>2. CASE run[w].digest = {}
    <3>1. Decide(w, I, {})
      BY <1>2, <2>2 DEF InstantCaps
    <3> HIDE DEF I
    <3> QED BY <1>1, <2>1, <3>1
  <2>3. CASE run[w].digest # {}
    <3>1. Go(w, r)
      BY <1>2, <2>3 DEF InstantCaps
    <3>2. r \in RunMemory /\ r.pc = "digestcaps" /\ r.at = run[w].at /\ r.ad = run[w].ad /\ r.instant = I
      <4> HIDE DEF I
      <4> QED BY <1>0, <2>1 DEF RunMemory, RunPCs
    <3> HIDE DEF r, I
    <3> QED BY <1>0, <2>1, <3>1, <3>2, PassesCap
  <2> QED BY <2>2, <2>3
<1>3. ASSUME DigestCaps(w) PROVE AnnounceInv'
  <2> DEFINE D == {p \in run[w].digest : Matched(p, {"instant", "digest"}, run[w].at) < WindowMax}
  <2>1. /\ run[w].pc = "digestcaps" /\ run[w].instant \subseteq Providers
        /\ D \subseteq Providers /\ \A p \in D : Matched(p, {"instant", "digest"}, run[w].at) < WindowMax
    BY <1>0, <1>3 DEF DigestCaps, RunMemory, On
  <2>2. Decide(w, run[w].instant, D)
    BY <1>3 DEF DigestCaps
  <2> HIDE DEF D
  <2> QED BY <1>1, <2>1, <2>2
<1> QED BY <1>2, <1>3

(* The transaction: what it inserts is what the worker was charged for. *)
LEMMA CommitStep ==
    ASSUME AnnounceInv, NEW w \in Workers, Commit(w)
    PROVE  AnnounceInv'
<1> DEFINE r == run[w]
           q == [r EXCEPT !.pc = "push"]
<1>0. /\ UNCHANGED <<scene, now, owner>> /\ OwnersOK' /\ now \in Nat /\ Window \in Nat
      /\ r \in RunMemory /\ r.at <= now /\ r.pc = "commit" /\ r.ad \in Ads
      /\ \A p \in r.instant \cup r.digest : match[r.ad][p] = NoMatch
      /\ TypeInv /\ NotifiedOnce
  BY NoticesAssumption DEF AnnounceInv, TypeInv, OwnersOK, RunsOK, Commit, Committable, env, pushing, On
<1>1. q \in RunMemory /\ q.pc = "push" /\ q.at = r.at /\ q.ad = r.ad
  <2> HIDE DEF r
  <2> QED BY <1>0, Remembers DEF RunPCs
<1>2. Go(w, q)
  BY DEF Commit
<1>3. run'[w] = q /\ \A v \in Workers \ {w} : run'[v] = run[v]
  <2> HIDE DEF q
  <2> QED BY <1>1, <1>2, Goes DEF AnnounceInv, TypeInv
<1>4. match \in [Ads -> [Providers -> MatchRow]] /\ notes \in [Ads -> [Providers -> Seq(Nat)]]
  BY DEF AnnounceInv, TypeInv, NotesOK
<1>5. \A a \in Ads, p \in Providers :
         /\ match'[a][p] = IF a # r.ad THEN match[a][p]
                           ELSE IF p \in r.instant THEN [at |-> now, how |-> "instant"]
                           ELSE IF p \in r.digest THEN [at |-> now, how |-> "digest"] ELSE match[a][p]
         /\ notes'[a][p] = IF a = r.ad /\ p \in r.instant THEN Append(notes[a][p], now) ELSE notes[a][p]
  BY <1>0, <1>4 DEF Commit
<1>6. NotesOK'
  <2>1. [at |-> now, how |-> "instant"] \in MatchRow /\ [at |-> now, how |-> "digest"] \in MatchRow
    BY <1>0 DEF MatchRow
  <2>2. \A x \in Seq(Nat) : Append(x, now) \in Seq(Nat)
    BY <1>0
  <2>3. match' \in [Ads -> [Providers -> MatchRow]]
    BY <1>0, <1>4, <2>1 DEF Commit
  <2>4. notes' \in [Ads -> [Providers -> Seq(Nat)]]
    BY <1>0, <1>4, <2>2 DEF Commit
  <2> QED BY <2>3, <2>4 DEF NotesOK
<1>7. RunsOK'
  <2> HIDE DEF q
  <2> QED BY <1>0, <1>1, <1>2, GoesOn DEF TypeInv
<1>8. TypeInv'
  BY <1>0, <1>6, <1>7 DEF AnnounceInv, TypeInv, SceneOK
<1>9. ASSUME NEW p \in Providers, p \in r.instant \cup r.digest PROVE notes[r.ad][p] = <<>>
  <2> HIDE DEF r
  <2>1. match[r.ad][p].how = "none"
    BY <1>0, <1>9 DEF NoMatch
  <2>2. Len(notes[r.ad][p]) = 0
    BY <1>0, <2>1 DEF NotifiedOnce
  <2>3. notes[r.ad][p] \in Seq(Nat)
    BY <1>0, <1>4
  <2> QED BY <2>2, <2>3
<1>10. NotifiedOnce'
  <2> SUFFICES ASSUME NEW a \in Ads, NEW p \in Providers
               PROVE  Len(notes'[a][p]) = IF match'[a][p].how = "instant" THEN 1 ELSE 0
    BY DEF NotifiedOnce
  <2>1. Len(notes[a][p]) = IF match[a][p].how = "instant" THEN 1 ELSE 0
    BY <1>0 DEF NotifiedOnce
  <2>2. a = r.ad /\ p \in r.instant => notes'[a][p] = Append(<<>>, now) /\ match'[a][p].how = "instant"
    <3> HIDE DEF r
    <3>1. a = r.ad /\ p \in r.instant => /\ notes'[a][p] = Append(notes[a][p], now)
                                         /\ match'[a][p] = [at |-> now, how |-> "instant"]
      BY <1>5
    <3>2. a = r.ad /\ p \in r.instant => notes[a][p] = <<>>
      BY <1>9
    <3> QED BY <3>1, <3>2
  <2>3. a = r.ad /\ p \notin r.instant /\ p \in r.digest =>
           notes'[a][p] = <<>> /\ match'[a][p].how = "digest"
    BY <1>5, <1>9
  <2>4. ~(a = r.ad /\ p \in r.instant \cup r.digest) =>
           notes'[a][p] = notes[a][p] /\ match'[a][p] = match[a][p]
    BY <1>5
  <2>5. Len(Append(<<>>, now)) = 1 /\ Len(<<>>) = 0
    OBVIOUS
  <2> QED BY <2>1, <2>2, <2>3, <2>4, <2>5
<1>11. ASSUME NEW p \in Providers
       PROVE  /\ Noted(p, now)' + Cardinality(Passed(p)') <= MaxCount
              /\ Matched(p, {"digest"}, now)' + Cardinality(PassedDigest(p)') <= MaxCount
  <2>1. /\ Noted(p, now) + Cardinality(Passed(p)) <= MaxCount
        /\ Matched(p, {"digest"}, now) + Cardinality(PassedDigest(p)) <= MaxCount
    BY DEF AnnounceInv, CapInv
  <2>2. /\ Passed(p) \in SUBSET Workers /\ PassedDigest(p) \in SUBSET Workers
        /\ Passed(p)' = Passed(p) \ {w} /\ PassedDigest(p)' = PassedDigest(p) \ {w}
        /\ (p \in r.instant => w \in Passed(p)) /\ (p \in r.digest => w \in PassedDigest(p))
    BY <1>0, <1>1, <1>3 DEF Passed, PassedDigest
  <2>3. /\ Cardinality(Passed(p)') = Cardinality(Passed(p)) - (IF w \in Passed(p) THEN 1 ELSE 0)
        /\ Cardinality(PassedDigest(p)') =
              Cardinality(PassedDigest(p)) - (IF w \in PassedDigest(p) THEN 1 ELSE 0)
        /\ Cardinality(Passed(p)) \in Nat /\ Cardinality(PassedDigest(p)) \in Nat
    BY <2>2, Finite, FS_RemoveElement
  <2>4. /\ IsFiniteSet(NoteRows(p, now)) /\ Cardinality(NoteRows(p, now)) \in Nat
        /\ \A a \in Ads : DOMAIN notes[a][p] \subseteq {1}
    BY <1>0, FewNotes
  <2>5. IsFiniteSet(MatchRows(p, {"digest"}, now)) /\ Cardinality(MatchRows(p, {"digest"}, now)) \in Nat
    BY Finite DEF MatchRows
  <2>6. /\ Noted(p, now) = Cardinality(NoteRows(p, now))
        /\ Matched(p, {"digest"}, now) = Cardinality(MatchRows(p, {"digest"}, now))
        /\ Noted(p, now)' = Cardinality(NoteRows(p, now)')
        /\ Matched(p, {"digest"}, now)' = Cardinality(MatchRows(p, {"digest"}, now)')
    BY DEF Noted, NoteRows, Matched, MatchRows
  <2>7. Noted(p, now)' <= Noted(p, now) + (IF p \in r.instant THEN 1 ELSE 0) /\ Noted(p, now)' \in Nat
    <3>1. CASE p \in r.instant
      <4>1. notes[r.ad][p] = <<>>
        BY <1>9, <3>1
      <4> HIDE DEF r
      <4>2. \A a \in Ads : a # r.ad => notes'[a][p] = notes[a][p]
        BY <1>5
      <4>3. DOMAIN notes'[r.ad][p] = {1}
        <5>1. notes'[r.ad][p] = Append(<<>>, now)
          BY <1>0, <1>5, <3>1, <4>1
        <5> QED BY <5>1
      <4>4. NoteRows(p, now)' \in SUBSET (NoteRows(p, now) \cup {<<r.ad, 1>>})
        BY <1>0, <4>2, <4>3 DEF NoteRows
      <4>5. /\ IsFiniteSet(NoteRows(p, now) \cup {<<r.ad, 1>>})
            /\ Cardinality(NoteRows(p, now) \cup {<<r.ad, 1>>}) <= Cardinality(NoteRows(p, now)) + 1
            /\ Cardinality(NoteRows(p, now) \cup {<<r.ad, 1>>}) \in Nat
        <5> DEFINE x == <<r.ad, 1>>  S == NoteRows(p, now)
        <5> HIDE DEF x, S
        <5>1. IsFiniteSet(S) /\ Cardinality(S) \in Nat
          BY <2>4 DEF S
        <5>2. /\ IsFiniteSet(S \cup {x})
              /\ Cardinality(S \cup {x}) = IF x \in S THEN Cardinality(S) ELSE Cardinality(S) + 1
          BY <5>1, FS_AddElement
        <5>3. Cardinality(S \cup {x}) <= Cardinality(S) + 1 /\ Cardinality(S \cup {x}) \in Nat
          BY <5>1, <5>2
        <5> QED BY <5>2, <5>3 DEF x, S
      <4>6. /\ Cardinality(NoteRows(p, now)') <= Cardinality(NoteRows(p, now) \cup {<<r.ad, 1>>})
            /\ Cardinality(NoteRows(p, now)') \in Nat
        BY <4>4, <4>5, FS_Subset, FS_CardinalityType
      <4> QED BY <2>4, <2>6, <3>1, <4>5, <4>6
    <3>2. CASE p \notin r.instant
      <4>1. \A a \in Ads : notes'[a][p] = notes[a][p]
        BY <1>5, <3>2
      <4>2. NoteRows(p, now)' = NoteRows(p, now)
        BY <1>0, <4>1 DEF NoteRows
      <4> QED BY <2>4, <2>6, <3>2, <4>2
    <3> QED BY <3>1, <3>2
  <2>8. /\ Matched(p, {"digest"}, now)' <= Matched(p, {"digest"}, now) + (IF p \in r.digest THEN 1 ELSE 0)
        /\ Matched(p, {"digest"}, now)' \in Nat
    <3>1. \A a \in Ads : a # r.ad => match'[a][p] = match[a][p]
      BY <1>5
    <3>2. p \notin r.digest => match'[r.ad][p].how # "digest" \/ match'[r.ad][p] = match[r.ad][p]
      BY <1>0, <1>5
    <3>3. MatchRows(p, {"digest"}, now)' \in SUBSET (MatchRows(p, {"digest"}, now) \cup {r.ad})
      BY <1>0, <3>1 DEF MatchRows, Within
    <3>4. p \notin r.digest => MatchRows(p, {"digest"}, now)' \in SUBSET MatchRows(p, {"digest"}, now)
      BY <1>0, <3>1, <3>2 DEF MatchRows, Within
    <3>5. /\ IsFiniteSet(MatchRows(p, {"digest"}, now) \cup {r.ad})
          /\ Cardinality(MatchRows(p, {"digest"}, now) \cup {r.ad})
                <= Cardinality(MatchRows(p, {"digest"}, now)) + 1
          /\ Cardinality(MatchRows(p, {"digest"}, now) \cup {r.ad}) \in Nat
      <4> DEFINE x == r.ad  S == MatchRows(p, {"digest"}, now)
      <4> HIDE DEF x, S
      <4>1. IsFiniteSet(S) /\ Cardinality(S) \in Nat
        BY <2>5 DEF S
      <4>2. /\ IsFiniteSet(S \cup {x})
            /\ Cardinality(S \cup {x}) = IF x \in S THEN Cardinality(S) ELSE Cardinality(S) + 1
        BY <4>1, FS_AddElement
      <4>3. Cardinality(S \cup {x}) <= Cardinality(S) + 1 /\ Cardinality(S \cup {x}) \in Nat
        BY <4>1, <4>2
      <4> QED BY <4>2, <4>3 DEF x, S
    <3>6. /\ Cardinality(MatchRows(p, {"digest"}, now)') <=
                Cardinality(MatchRows(p, {"digest"}, now) \cup {r.ad})
          /\ Cardinality(MatchRows(p, {"digest"}, now)') \in Nat
      BY <3>3, <3>5, FS_Subset, FS_CardinalityType
    <3>7. p \notin r.digest => Cardinality(MatchRows(p, {"digest"}, now)') <=
                                  Cardinality(MatchRows(p, {"digest"}, now))
      BY <2>5, <3>4, FS_Subset
    <3> QED BY <2>5, <2>6, <3>5, <3>6, <3>7
  <2>9. Noted(p, now) \in Nat /\ Matched(p, {"digest"}, now) \in Nat /\ MaxCount \in Nat
    BY <2>4, <2>5, <2>6, Finite
  <2> HIDE DEF r
  <2> QED BY <2>1, <2>2, <2>3, <2>7, <2>8, <2>9
<1>12. CapInv'
  BY <1>11 DEF CapInv, MaxCount
<1> QED BY <1>8, <1>10, <1>12 DEF AnnounceInv

(* The rest of a run, and its failures *)
LEMMA EndingStep ==
    ASSUME AnnounceInv, NEW w \in Workers,
           \/ Conflicts(w) \/ Schedule(w) \/ RunFails(w) \/ StartPush(w)
           \/ NextBatch(w) \/ SendFails(w) \/ SendRefused(w)
    PROVE  AnnounceInv'
<1>0. /\ UNCHANGED <<scene, now, match, notes, owner>> /\ OwnersOK' /\ now \in Nat
      /\ run[w] \in RunMemory /\ run[w].at <= now /\ (run[w].pc # "idle" => run[w].ad \in Ads)
  BY DEF AnnounceInv, TypeInv, OwnersOK, RunsOK, Conflicts, Schedule, RunFails, Failing, StartPush,
         NextBatch, SendFails, SendRefused, PushUnchanged, env, pushing
<1>1. CASE Conflicts(w) \/ Schedule(w) \/ RunFails(w)
  <2>1. Go(w, NoRun)
    BY <1>1 DEF Conflicts, Schedule, RunFails, Finish
  <2> QED BY <1>0, <2>1, Ends
<1>2. ASSUME NEW pc \in {"schedule", "sending"}, run[w].pc # "idle", Go(w, [run[w] EXCEPT !.pc = pc])
      PROVE  AnnounceInv'
  <2> DEFINE r == [run[w] EXCEPT !.pc = pc]
  <2>1. pc \in RunPCs
    BY DEF RunPCs
  <2>2. r \in RunMemory /\ r.pc = pc /\ r.at = run[w].at /\ r.ad = run[w].ad
    BY <1>0, <2>1, Remembers
  <2>3. Go(w, r)
    BY <1>2
  <2> HIDE DEF r
  <2> QED BY <1>0, <1>2, <2>2, <2>3, MovesOn
<1>3. CASE StartPush(w)
  <2>1. run[w].pc # "idle"
    BY <1>3 DEF StartPush, On
  <2>2. \E pc \in {"schedule", "sending"} : Go(w, [run[w] EXCEPT !.pc = pc])
    BY <1>3 DEF StartPush
  <2> QED BY <1>2, <2>1, <2>2
<1>4. CASE NextBatch(w) \/ SendFails(w) \/ SendRefused(w)
  <2>1. run[w].pc # "idle"
    BY <1>4 DEF NextBatch, SendFails, SendRefused, Pushing, On
  <2>2. EndPush(w) \/ UNCHANGED run
    BY <1>4 DEF NextBatch, SendFails, SendRefused, GiveUp
  <2>3. EndPush(w) => AnnounceInv'
    BY <1>2, <2>1 DEF EndPush
  <2>4. UNCHANGED run => AnnounceInv'
    BY <1>0, Elsewhere
  <2> QED BY <2>2, <2>3, <2>4
<1> QED BY <1>1, <1>3, <1>4

(* What a message, a preference or the list does not concern *)
LEMMA OtherSteps ==
    ASSUME AnnounceInv,
           \/ Tick
           \/ \E a \in scene.ads : HideAd(a)
           \/ \E p \in scene.providers : \/ Block(p) \/ RateExpires(p)
                                         \/ \E b \in Bodies : PutPrefs(p, b)
                                         \/ \E t \in Tokens : PutToken(t, p)
           \/ \E w \in Workers : \/ Throttle(w) \/ SetExpiry(w) \/ Prune(w) \/ ReceiptsFail(w) \/ Bury(w)
                                 \/ \E f \in [Sending -> Answers] : Tickets(w, f)
                                 \/ \E g \in [push.ids -> Answers] : Receipts(w, g)
           \/ \E b \in Bells : Rings(b)
           \/ \E c \in Calls : \/ ListRead(c) \/ ReadFind(c) \/ ReadWrite(c) \/ ReadAll(c) \/ TellRead(c)
                               \/ FetchList(c) \/ ListShown(c) \/ ListFails(c)
                               \/ MarkAllRead(c) \/ \E b \in Bells : MarkRead(c, b)
                               \/ Acked(c) \/ MarkFails(c) \/ Lost(c)
           \/ UNCHANGED noticesVars
    PROVE  AnnounceInv'
<1>0. OwnersOK /\ now \in Nat /\ scene.providers \subseteq Providers
  BY DEF AnnounceInv, TypeInv, SceneOK
<1>1. CASE Tick
  BY <1>0, <1>1, Elsewhere DEF Tick, matching, pushing, OwnersOK
<1>2. CASE \E a \in scene.ads : HideAd(a)
  BY <1>0, <1>2, Elsewhere DEF HideAd, Changing, matching, pushing, OwnersOK
<1>3. CASE \E p \in scene.providers : \/ Block(p) \/ RateExpires(p)
                                      \/ \E b \in Bodies : PutPrefs(p, b)
                                      \/ \E t \in Tokens : PutToken(t, p)
  <2>1. PICK p \in scene.providers : \/ Block(p) \/ RateExpires(p)
                                     \/ \E b \in Bodies : PutPrefs(p, b)
                                     \/ \E t \in Tokens : PutToken(t, p)
    BY <1>3
  <2>2. UNCHANGED <<scene, now, match, notes, run>>
    BY <2>1 DEF Block, RateExpires, PutPrefs, PutToken, Changing, matching, env
  <2>3. OwnersOK'
    BY <1>0, <2>1 DEF Block, RateExpires, PutPrefs, PutToken, pushing, OwnersOK
  <2> QED BY <1>0, <2>2, <2>3, Elsewhere
<1>4. CASE \E w \in Workers : \/ Throttle(w) \/ SetExpiry(w) \/ Prune(w) \/ ReceiptsFail(w) \/ Bury(w)
                              \/ \E f \in [Sending -> Answers] : Tickets(w, f)
                              \/ \E g \in [push.ids -> Answers] : Receipts(w, g)
  <2>1. UNCHANGED <<scene, now, match, notes, run>>
    BY <1>4 DEF Throttle, SetExpiry, Prune, ReceiptsFail, Bury, Tickets, Receipts, Failing,
                PushUnchanged, env
  <2>2. \/ UNCHANGED owner
        \/ owner' = [t \in Tokens |-> IF t \in push.invalid THEN Nil ELSE owner[t]]
    BY <1>4 DEF Throttle, SetExpiry, Prune, ReceiptsFail, Bury, Tickets, Receipts
  <2>3. OwnersOK'
    BY <1>0, <2>2 DEF OwnersOK
  <2> QED BY <1>0, <2>1, <2>3, Elsewhere
<1>5. CASE \E b \in Bells : Rings(b)
  BY <1>0, <1>5, Elsewhere DEF Rings, BellUnchanged, env, matching, pushing, OwnersOK
<1>6. CASE \E c \in Calls : \/ ListRead(c) \/ ReadFind(c) \/ ReadWrite(c) \/ ReadAll(c) \/ TellRead(c)
                            \/ FetchList(c) \/ ListShown(c) \/ ListFails(c)
                            \/ MarkAllRead(c) \/ \E b \in Bells : MarkRead(c, b)
                            \/ Acked(c) \/ MarkFails(c) \/ Lost(c)
  <2>1. BellUnchanged /\ UNCHANGED <<scene, now>>
    BY <1>6 DEF ListRead, ReadFind, ReadWrite, ReadAll, TellRead, FetchList, ListShown, ListFails,
                MarkAllRead, MarkRead, Marks, Acked, MarkFails, Lost, Failing, env
  <2> QED BY <1>0, <2>1, Elsewhere DEF BellUnchanged, matching, pushing, OwnersOK
<1>7. CASE UNCHANGED noticesVars
  BY <1>0, <1>7, Elsewhere DEF noticesVars, env, matching, pushing, OwnersOK
<1> QED BY <1>1, <1>2, <1>3, <1>4, <1>5, <1>6, <1>7

LEMMA AnnounceInit == NoticesInit => AnnounceInv
<1> SUFFICES ASSUME NoticesInit PROVE AnnounceInv
  OBVIOUS
<1>1. SceneOK /\ now \in Nat
  BY NoticesAssumption DEF NoticesInit, SceneOK
<1>2. NotesOK
  <2>1. NoMatch \in MatchRow
    BY DEF NoMatch, MatchRow
  <2> QED BY <2>1 DEF NoticesInit, NotesOK
<1>3. RunsOK
  <2>1. \A w \in Workers : run[w] = NoRun
    BY DEF NoticesInit
  <2>2. run \in [Workers -> RunMemory]
    BY NoRunType DEF NoticesInit
  <2>3. \A w \in Workers : run[w].at = 0 /\ run[w].pc = "idle"
    BY <2>1, NoRunType
  <2> QED BY <1>1, <2>2, <2>3 DEF NoticesInit, RunsOK
<1>4. OwnersOK
  <2>1. Devices \subseteq [Tokens -> Providers]
    BY NoticesAssumption
  <2>2. [Tokens -> Providers] \subseteq [Tokens -> Providers \cup {Nil}]
    OBVIOUS
  <2>3. CASE In("push")
    BY <2>1, <2>2, <2>3 DEF NoticesInit, OwnersOK
  <2>4. CASE ~In("push")
    BY <2>4 DEF NoticesInit, OwnersOK
  <2> QED BY <2>3, <2>4
<1>5. NotifiedOnce
  BY DEF NoticesInit, NotifiedOnce, NoMatch
<1>6. CapInv
  <2> SUFFICES ASSUME NEW p \in Providers
               PROVE  /\ Noted(p, now) + Cardinality(Passed(p)) <= MaxCount
                      /\ Matched(p, {"digest"}, now) + Cardinality(PassedDigest(p)) <= MaxCount
    BY DEF CapInv
  <2>1. \A w \in Workers : run[w].pc = "idle"
    BY NoRunType DEF NoticesInit
  <2>2. Passed(p) = {} /\ PassedDigest(p) = {}
    BY <2>1 DEF Passed, PassedDigest
  <2>3. NoteRows(p, now) = {} /\ MatchRows(p, {"digest"}, now) = {}
    BY DEF NoticesInit, NoteRows, MatchRows, NoMatch
  <2>4. /\ Noted(p, now) = Cardinality(NoteRows(p, now))
        /\ Matched(p, {"digest"}, now) = Cardinality(MatchRows(p, {"digest"}, now))
    BY DEF Noted, NoteRows, Matched, MatchRows
  <2> QED BY <2>2, <2>3, <2>4, FS_EmptySet, Finite
<1> QED BY <1>1, <1>2, <1>3, <1>4, <1>5, <1>6 DEF AnnounceInv, TypeInv

LEMMA AnnounceNext == AnnounceInv /\ [NoticesNext]_noticesVars => AnnounceInv'
<1> SUFFICES ASSUME AnnounceInv, [NoticesNext]_noticesVars PROVE AnnounceInv'
  OBVIOUS
<1>1. ASSUME NEW w \in Workers, \E a \in scene.ads : Announce(w, a) PROVE AnnounceInv'
  BY <1>1, AnnounceStep
<1>2. ASSUME NEW w \in Workers, \/ \E S \in SUBSET scene.providers : Candidates(w, S)
                                \/ DedupRead(w) \/ PrefsRead(w)
      PROVE  AnnounceInv'
  BY <1>2, ChoosingStep
<1>3. ASSUME NEW w \in Workers, InstantCaps(w) \/ DigestCaps(w) PROVE AnnounceInv'
  BY <1>3, CapsStep
<1>4. ASSUME NEW w \in Workers, Commit(w) PROVE AnnounceInv'
  BY <1>4, CommitStep
<1>5. ASSUME NEW w \in Workers, \/ Conflicts(w) \/ Schedule(w) \/ RunFails(w) \/ StartPush(w)
                                \/ NextBatch(w) \/ SendFails(w) \/ SendRefused(w)
      PROVE  AnnounceInv'
  BY <1>5, EndingStep
<1> QED BY <1>1, <1>2, <1>3, <1>4, <1>5, OtherSteps DEF NoticesNext

(* Whichever workers announce a job, and however often, a provider gets one *)
(* notification of it if he was matched at once, and none otherwise.        *)
THEOREM NotifiesOnce == NoticesSpec => []NotifiedOnce
<1>1. AnnounceInv => NotifiedOnce
  BY DEF AnnounceInv
<1> QED BY <1>1, AnnounceInit, AnnounceNext, PTL DEF NoticesSpec

(* The caps are exceeded by no more than the workers that counted before    *)
(* one of them inserted, whatever the number of jobs and of announcements.  *)
THEOREM CapsAreKept == NoticesSpec => []WindowKept
<1>1. ASSUME AnnounceInv PROVE WindowKept
  <2> SUFFICES ASSUME NEW p \in Providers
               PROVE  /\ Noted(p, now) <= WindowMax + Cardinality(Workers) - 1
                      /\ Matched(p, {"digest"}, now) <= WindowMax + Cardinality(Workers) - 1
    BY DEF WindowKept
  <2>1. /\ Noted(p, now) + Cardinality(Passed(p)) <= MaxCount
        /\ Matched(p, {"digest"}, now) + Cardinality(PassedDigest(p)) <= MaxCount
    BY <1>1 DEF AnnounceInv, CapInv
  <2>2. Cardinality(Passed(p)) \in Nat /\ Cardinality(PassedDigest(p)) \in Nat
    BY Finite DEF Passed, PassedDigest
  <2>3. now \in Nat /\ TypeInv /\ NotifiedOnce /\ now <= now
    BY <1>1 DEF AnnounceInv, TypeInv
  <2>4. Noted(p, now) \in Nat /\ Matched(p, {"digest"}, now) \in Nat
    BY <2>3, WindowMoves
  <2>5. WindowMax \in Nat /\ Cardinality(Workers) \in Nat
    BY NoticesAssumption, Finite
  <2> QED BY <2>1, <2>2, <2>4, <2>5 DEF MaxCount
<1> QED BY <1>1, AnnounceInit, AnnounceNext, PTL DEF NoticesSpec

----------------------------------------------------------------------------
(* The list of notifications *)

Statuses == {"none", "unread", "read"}
GetMemory == [pc : {"idle", "sent", "answered"}, id : {Nil} \cup SUBSET Bells,
              read : SUBSET Bells, heard : BOOLEAN]
PostMemory == [pc : {"idle", "sent", "found", "written", "ok", "error"}, id : Bells \cup {Nil},
               read : SUBSET Bells, heard : BOOLEAN]

BellTypes == /\ bell \in [Bells -> Statuses] /\ shown \in [Bells -> Statuses]
             /\ get \in [Calls -> GetMemory] /\ post \in [Calls -> PostMemory]
             /\ failures \in Nat

(* What an answer on its way says is still so when it arrives. *)
AnswersHold ==
    \A c \in Calls : get[c].pc = "answered" =>
       \A b \in Bells : /\ b \in get[c].read => bell[b] = "read"
                        /\ b \in get[c].id => bell[b] # "none"
ShownExist == \A b \in Bells : shown[b] # "none" => bell[b] # "none"
FoundNamed == \A c \in Calls : post[c].pc = "found" => post[c].id # Nil

(* A mark the server has not got is carried by a request, or being undone. *)
Carries(c, b) == post[c].heard /\ post[c].pc \in {"sent", "found"} /\ post[c].id \in {b, Nil}
MarksCarried ==
    \A b \in Bells : shown[b] = "read" /\ bell[b] # "read" =>
       error \/ \E c \in Calls : get[c].pc # "idle" \/ Carries(c, b)

(* Who has read what has still to be told, or was. *)
ReadsTold ==
    /\ \A c \in Calls : /\ post[c].pc \in {"idle", "sent", "found"} => post[c].read = {}
                        /\ post[c].pc = "ok" => post[c].read \subseteq told
                        /\ post[c].pc = "error" => failures > 0
    /\ \A b \in Bells : bell[b] = "read" => \/ b \in told \/ failures > 0
                                            \/ \E c \in Calls : b \in post[c].read

BellInv == BellTypes /\ AnswersHold /\ ShownExist /\ FoundNamed /\ MarksCarried /\ ReadsTold

LEMMA NoPostType ==
    /\ NoPost \in GetMemory /\ NoPost \in PostMemory
    /\ NoPost.pc = "idle" /\ NoPost.read = {} /\ ~NoPost.heard /\ NoPost.id = Nil
  BY DEF NoPost, GetMemory, PostMemory

(* A request goes on to q, the others are as they were. *)
LEMMA PostGoes ==
    ASSUME BellTypes, NEW c \in Calls, NEW q \in PostMemory, post' = [post EXCEPT ![c] = q]
    PROVE  /\ post' \in [Calls -> PostMemory] /\ post'[c] = q
           /\ \A d \in Calls \ {c} : post'[d] = post[d]
  BY DEF BellTypes

LEMMA GetGoes ==
    ASSUME BellTypes, NEW c \in Calls, NEW q \in GetMemory, get' = [get EXCEPT ![c] = q]
    PROVE  /\ get' \in [Calls -> GetMemory] /\ get'[c] = q
           /\ \A d \in Calls \ {c} : get'[d] = get[d]
  BY DEF BellTypes

LEMMA Sent ==
    /\ [NoPost EXCEPT !.pc = "sent"] \in GetMemory
    /\ [NoPost EXCEPT !.pc = "sent"].pc = "sent"
    /\ \A id \in Bells \cup {Nil} :
          LET q == [NoPost EXCEPT !.pc = "sent", !.id = id, !.heard = TRUE]
          IN  q \in PostMemory /\ q.pc = "sent" /\ q.id = id /\ q.heard /\ q.read = {}
  BY DEF NoPost, GetMemory, PostMemory

(* A step of the announcements or of a push *)
LEMMA BellElsewhere ==
    ASSUME BellInv, UNCHANGED belling, failures' \in Nat, failures' >= failures
    PROVE  BellInv'
<1>1. BellTypes'
  BY DEF BellInv, BellTypes, belling
<1>2. AnswersHold' /\ ShownExist' /\ FoundNamed' /\ MarksCarried'
  BY DEF BellInv, belling, AnswersHold, ShownExist, FoundNamed, MarksCarried, Carries
<1>3. failures > 0 => failures' > 0
  BY DEF BellInv, BellTypes
<1>4. ReadsTold'
  BY <1>3 DEF BellInv, belling, ReadsTold
<1> QED BY <1>1, <1>2, <1>4 DEF BellInv

LEMMA RingsStep == ASSUME BellInv, NEW b \in Bells, Rings(b) PROVE BellInv'
<1>1. UNCHANGED <<told, shown, error, get, post, failures>>
  BY DEF Rings, env
<1>2. /\ bell' \in [Bells -> Statuses] /\ bell'[b] = "unread" /\ bell[b] = "none"
      /\ \A d \in Bells \ {b} : bell'[d] = bell[d]
  BY DEF BellInv, BellTypes, Rings, Statuses
<1>3. /\ \A d \in Bells : bell'[d] = "read" <=> bell[d] = "read"
      /\ \A d \in Bells : bell[d] # "none" => bell'[d] # "none"
  BY <1>2
<1>4. BellTypes'
  BY <1>1, <1>2 DEF BellInv, BellTypes
<1>5. AnswersHold'
  BY <1>1, <1>3 DEF BellInv, AnswersHold
<1>6. ShownExist' /\ FoundNamed' /\ MarksCarried'
  BY <1>1, <1>3 DEF BellInv, ShownExist, FoundNamed, MarksCarried, Carries
<1>7. ReadsTold'
  BY <1>1, <1>3 DEF BellInv, ReadsTold
<1> QED BY <1>4, <1>5, <1>6, <1>7 DEF BellInv

(* The server answers a list, finds a notification, marks, and tells. *)
LEMMA ServerStep ==
    ASSUME BellInv, NEW c \in Calls,
           ListRead(c) \/ ReadFind(c) \/ ReadWrite(c) \/ ReadAll(c) \/ TellRead(c)
    PROVE  BellInv'
<1>0. /\ BellTypes /\ get[c] \in GetMemory /\ post[c] \in PostMemory
      /\ AnswersHold /\ ShownExist /\ FoundNamed /\ MarksCarried /\ ReadsTold
  BY DEF BellInv, BellTypes
<1>1. ASSUME ListRead(c) PROVE BellInv'
  <2> DEFINE read == {b \in Bells : bell[b] = "read"}
             there == {b \in Bells : bell[b] # "none"}
             q == [get[c] EXCEPT !.pc = "answered", !.read = read, !.id = there]
  <2>1. UNCHANGED <<bell, told, shown, error, post, failures>> /\ get' = [get EXCEPT ![c] = q]
    BY <1>1 DEF ListRead, env
  <2>2. q \in GetMemory /\ q.pc = "answered" /\ q.read = read /\ q.id = there
    BY <1>0 DEF GetMemory
  <2>3. /\ \A b \in Bells : b \in read => bell[b] = "read"
        /\ \A b \in Bells : b \in there => bell[b] # "none"
    OBVIOUS
  <2> HIDE DEF q, read, there
  <2>4. get' \in [Calls -> GetMemory] /\ get'[c] = q /\ \A d \in Calls \ {c} : get'[d] = get[d]
    BY <1>0, <2>1, <2>2, GetGoes
  <2>5. AnswersHold'
    BY <1>0, <2>1, <2>2, <2>3, <2>4 DEF AnswersHold
  <2>6. MarksCarried'
    BY <1>0, <2>1, <2>2, <2>4 DEF MarksCarried, Carries
  <2> QED BY <1>0, <2>1, <2>4, <2>5, <2>6 DEF BellInv, BellTypes, ShownExist, FoundNamed, ReadsTold
<1>2. ASSUME ReadFind(c) PROVE BellInv'
  <2> DEFINE pc == IF bell[post[c].id] = "read" THEN "ok" ELSE "found"
             q == [post[c] EXCEPT !.pc = pc]
  <2>1. /\ UNCHANGED <<bell, told, shown, error, get, failures>> /\ post' = [post EXCEPT ![c] = q]
        /\ post[c].pc = "sent" /\ post[c].id # Nil
    BY <1>2 DEF ReadFind, env
  <2>2. /\ q \in PostMemory /\ q.pc = pc /\ q.id = post[c].id /\ q.read = post[c].read
        /\ q.heard = post[c].heard
    BY <1>0 DEF PostMemory
  <2>3. pc \in {"ok", "found"} /\ (pc = "ok" => bell[post[c].id] = "read")
    OBVIOUS
  <2> HIDE DEF q, pc
  <2>4. post' \in [Calls -> PostMemory] /\ post'[c] = q /\ \A d \in Calls \ {c} : post'[d] = post[d]
    BY <1>0, <2>1, <2>2, PostGoes
  <2>5. FoundNamed'
    BY <1>0, <2>1, <2>2, <2>4 DEF FoundNamed
  <2>6. MarksCarried'
    BY <1>0, <2>1, <2>2, <2>3, <2>4 DEF MarksCarried, Carries
  <2>7. ReadsTold'
    BY <1>0, <2>1, <2>2, <2>3, <2>4 DEF ReadsTold
  <2> QED BY <1>0, <2>1, <2>4, <2>5, <2>6, <2>7 DEF BellInv, BellTypes, AnswersHold, ShownExist
<1>3. ASSUME ReadWrite(c) PROVE BellInv'
  <2> DEFINE b == post[c].id
             q == [post[c] EXCEPT !.pc = "written", !.read = {b}]
  <2>1. /\ UNCHANGED <<told, shown, error, get, failures>> /\ post' = [post EXCEPT ![c] = q]
        /\ bell' = [bell EXCEPT ![b] = "read"] /\ post[c].pc = "found"
    BY <1>3 DEF ReadWrite, env
  <2>2. b \in Bells
    BY <1>0, <2>1 DEF FoundNamed, PostMemory
  <2>3. q \in PostMemory /\ q.pc = "written" /\ q.id = b /\ q.read = {b}
    BY <1>0, <2>2 DEF PostMemory
  <2> HIDE DEF q, b
  <2>4. post' \in [Calls -> PostMemory] /\ post'[c] = q /\ \A d \in Calls \ {c} : post'[d] = post[d]
    BY <1>0, <2>1, <2>3, PostGoes
  <2>5. bell' \in [Bells -> Statuses] /\ bell'[b] = "read" /\ \A d \in Bells \ {b} : bell'[d] = bell[d]
    BY <1>0, <2>1, <2>2 DEF BellTypes, Statuses
  <2>6. AnswersHold' /\ ShownExist'
    BY <1>0, <2>1, <2>2, <2>5 DEF AnswersHold, ShownExist
  <2>7. MarksCarried'
    <3> SUFFICES ASSUME NEW d \in Bells, shown[d] = "read", bell'[d] # "read"
                 PROVE  error \/ \E e \in Calls : get[e].pc # "idle" \/ Carries(e, d)'
      BY <2>1 DEF MarksCarried, Carries
    <3>1. d # b /\ bell[d] # "read"
      BY <2>5
    <3>2. error \/ \E e \in Calls : get[e].pc # "idle" \/ Carries(e, d)
      BY <1>0, <3>1 DEF MarksCarried
    <3>3. ~Carries(c, d)
      BY <1>0, <2>1, <2>2, <3>1 DEF Carries, FoundNamed, b
    <3> QED BY <2>4, <3>2, <3>3 DEF Carries
  <2>8. ReadsTold'
    BY <1>0, <2>1, <2>2, <2>3, <2>4, <2>5 DEF ReadsTold
  <2>9. FoundNamed'
    BY <1>0, <2>3, <2>4 DEF FoundNamed
  <2> QED BY <1>0, <2>1, <2>4, <2>5, <2>6, <2>7, <2>8, <2>9 DEF BellInv, BellTypes
<1>4. ASSUME ReadAll(c) PROVE BellInv'
  <2> DEFINE unread == {b \in Bells : bell[b] = "unread"}
             pc == IF unread = {} THEN "ok" ELSE "written"
             q == [post[c] EXCEPT !.pc = pc, !.read = unread]
  <2>1. /\ UNCHANGED <<told, shown, error, get, failures>> /\ post' = [post EXCEPT ![c] = q]
        /\ bell' = [b \in Bells |-> IF b \in unread THEN "read" ELSE bell[b]]
        /\ post[c].pc = "sent" /\ post[c].id = Nil
    BY <1>4 DEF ReadAll, env
  <2>2. /\ bell' \in [Bells -> Statuses]
        /\ \A b \in Bells : bell'[b] = IF bell[b] = "unread" THEN "read" ELSE bell[b]
        /\ \A b \in Bells : bell[b] # "none" => bell'[b] = "read"
    BY <1>0, <2>1 DEF BellTypes, Statuses
  <2>3. unread \subseteq Bells /\ \A b \in Bells : b \in unread <=> bell[b] = "unread"
    OBVIOUS
  <2>4. pc \in {"ok", "written"} /\ (pc = "ok" => unread = {})
    OBVIOUS
  <2> HIDE DEF unread, pc
  <2>5. q \in PostMemory /\ q.pc = pc /\ q.read = unread
    BY <1>0, <2>3, <2>4 DEF PostMemory
  <2> HIDE DEF q
  <2>6. post' \in [Calls -> PostMemory] /\ post'[c] = q /\ \A d \in Calls \ {c} : post'[d] = post[d]
    BY <1>0, <2>1, <2>5, PostGoes
  <2>7. AnswersHold' /\ ShownExist'
    BY <1>0, <2>1, <2>2 DEF AnswersHold, ShownExist
  <2>8. MarksCarried'
    <3>1. \A b \in Bells : shown[b] = "read" => bell'[b] = "read"
      BY <1>0, <2>2 DEF ShownExist
    <3> QED BY <2>1, <3>1 DEF MarksCarried
  <2>9. ReadsTold'
    BY <1>0, <2>1, <2>2, <2>3, <2>4, <2>5, <2>6 DEF ReadsTold
  <2>10. FoundNamed'
    BY <1>0, <2>4, <2>5, <2>6 DEF FoundNamed
  <2> QED BY <1>0, <2>1, <2>2, <2>6, <2>7, <2>8, <2>9, <2>10 DEF BellInv, BellTypes
<1>5. ASSUME TellRead(c) PROVE BellInv'
  <2>1. PICK pc \in {"ok", "error"} :
           /\ post' = [post EXCEPT ![c] = [post[c] EXCEPT !.pc = pc]]
           /\ pc = "ok" => told' = told \cup post[c].read /\ failures' = failures
           /\ pc = "error" => told' = told /\ failures' = failures + 1
    <3>1. ASSUME told' = told \cup Told(c), post' = [post EXCEPT ![c].pc = "ok"], UNCHANGED env
          PROVE  /\ post' = [post EXCEPT ![c] = [post[c] EXCEPT !.pc = "ok"]]
                 /\ told' = told \cup post[c].read /\ failures' = failures
      BY <3>1 DEF Told, env
    <3>2. ASSUME Failing, post' = [post EXCEPT ![c].pc = "error"], UNCHANGED told
          PROVE  /\ post' = [post EXCEPT ![c] = [post[c] EXCEPT !.pc = "error"]]
                 /\ told' = told /\ failures' = failures + 1
      BY <3>2 DEF Failing
    <3> QED BY <1>5, <3>1, <3>2 DEF TellRead
  <2> DEFINE q == [post[c] EXCEPT !.pc = pc]
  <2>2. UNCHANGED <<bell, shown, error, get>> /\ post[c].pc = "written"
    BY <1>5 DEF TellRead
  <2>3. q \in PostMemory /\ q.pc = pc /\ q.read = post[c].read
    BY <1>0 DEF PostMemory
  <2>4. post' = [post EXCEPT ![c] = q]
    BY <2>1
  <2> HIDE DEF q
  <2>5. post' \in [Calls -> PostMemory] /\ post'[c] = q /\ \A d \in Calls \ {c} : post'[d] = post[d]
    BY <1>0, <2>3, <2>4, PostGoes
  <2>6. failures' \in Nat /\ (failures > 0 => failures' > 0) /\ (pc = "error" => failures' > 0)
    BY <1>0, <2>1 DEF BellTypes
  <2>7. MarksCarried'
    BY <1>0, <2>2, <2>5 DEF MarksCarried, Carries
  <2>8. told \subseteq told' /\ (pc = "ok" => q.read \subseteq told')
    BY <2>1, <2>3
  <2>9. ReadsTold'
    BY <1>0, <2>2, <2>3, <2>5, <2>6, <2>8 DEF ReadsTold
  <2>10. FoundNamed'
    BY <1>0, <2>3, <2>5 DEF FoundNamed
  <2> QED BY <1>0, <2>2, <2>5, <2>6, <2>7, <2>9, <2>10 DEF BellInv, BellTypes, AnswersHold, ShownExist
<1> QED BY <1>1, <1>2, <1>3, <1>4, <1>5

(* The app asks for the list, and is answered or not. *)
LEMMA ListStep ==
    ASSUME BellInv, NEW c \in Calls, FetchList(c) \/ ListShown(c) \/ ListFails(c)
    PROVE  BellInv'
<1>0. /\ BellTypes /\ get[c] \in GetMemory
      /\ AnswersHold /\ ShownExist /\ FoundNamed /\ MarksCarried /\ ReadsTold
  BY DEF BellInv, BellTypes
<1>1. ASSUME FetchList(c) PROVE BellInv'
  <2> DEFINE q == [NoPost EXCEPT !.pc = "sent"]
  <2>1. UNCHANGED <<bell, told, shown, post, failures>> /\ get' = [get EXCEPT ![c] = q]
    BY <1>1 DEF FetchList, Gets, env
  <2>2. q \in GetMemory /\ q.pc = "sent"
    BY Sent
  <2> HIDE DEF q
  <2>3. get' \in [Calls -> GetMemory] /\ get'[c] = q /\ \A d \in Calls \ {c} : get'[d] = get[d]
    BY <1>0, <2>1, <2>2, GetGoes
  <2>4. AnswersHold'
    BY <1>0, <2>1, <2>2, <2>3 DEF AnswersHold
  <2>5. MarksCarried'
    BY <2>2, <2>3 DEF MarksCarried
  <2> QED BY <1>0, <2>1, <2>3, <2>4, <2>5 DEF BellInv, BellTypes, ShownExist, FoundNamed, ReadsTold
<1>2. ASSUME ListShown(c) PROVE BellInv'
  <2>1. /\ UNCHANGED <<bell, told, error, post, failures>> /\ get' = [get EXCEPT ![c] = NoPost]
        /\ get[c].pc = "answered"
        /\ shown' = [b \in Bells |-> IF b \in get[c].read THEN "read"
                                     ELSE IF b \in get[c].id THEN "unread" ELSE "none"]
    BY <1>2 DEF ListShown, env
  <2>2. get' \in [Calls -> GetMemory] /\ get'[c] = NoPost /\ \A d \in Calls \ {c} : get'[d] = get[d]
    BY <1>0, <2>1, NoPostType, GetGoes
  <2>3. \A b \in Bells : /\ shown'[b] = "read" => bell[b] = "read"
                         /\ shown'[b] # "none" => bell[b] # "none"
    BY <1>0, <2>1 DEF AnswersHold
  <2>4. shown' \in [Bells -> Statuses]
    BY <2>1 DEF Statuses
  <2>5. AnswersHold'
    BY <1>0, <2>1, <2>2, NoPostType DEF AnswersHold
  <2>6. ShownExist' /\ MarksCarried'
    BY <2>1, <2>3 DEF ShownExist, MarksCarried
  <2> QED BY <1>0, <2>1, <2>2, <2>4, <2>5, <2>6 DEF BellInv, BellTypes, FoundNamed, ReadsTold
<1>3. ASSUME ListFails(c) PROVE BellInv'
  <2>1. /\ UNCHANGED <<bell, told, shown, post>> /\ get' = [get EXCEPT ![c] = NoPost] /\ error'
        /\ failures' = failures + 1
    BY <1>3 DEF ListFails, Failing
  <2>2. get' \in [Calls -> GetMemory] /\ get'[c] = NoPost /\ \A d \in Calls \ {c} : get'[d] = get[d]
    BY <1>0, <2>1, NoPostType, GetGoes
  <2>3. failures' \in Nat /\ (failures > 0 => failures' > 0)
    BY <1>0, <2>1 DEF BellTypes
  <2>4. AnswersHold'
    BY <1>0, <2>1, <2>2, NoPostType DEF AnswersHold
  <2>5. MarksCarried'
    BY <2>1 DEF MarksCarried
  <2>6. ReadsTold'
    BY <1>0, <2>1, <2>3 DEF ReadsTold
  <2> QED BY <1>0, <2>1, <2>2, <2>3, <2>4, <2>5, <2>6 DEF BellInv, BellTypes, ShownExist, FoundNamed
<1> QED BY <1>1, <1>2, <1>3

(* The app marks, and hears of it or not. *)
LEMMA MarkStep ==
    ASSUME BellInv, NEW c \in Calls,
           \/ MarkAllRead(c) \/ \E b \in Bells : MarkRead(c, b)
           \/ Acked(c) \/ MarkFails(c) \/ Lost(c)
    PROVE  BellInv'
<1>0. /\ BellTypes /\ post[c] \in PostMemory
      /\ AnswersHold /\ ShownExist /\ FoundNamed /\ MarksCarried /\ ReadsTold
  BY DEF BellInv, BellTypes
<1>1. ASSUME NEW id \in Bells \cup {Nil}, NEW which \in SUBSET Bells, Marks(c, id, which),
             \A b \in which : shown[b] = "unread" /\ id \in {b, Nil}
      PROVE  BellInv'
  <2> DEFINE q == [NoPost EXCEPT !.pc = "sent", !.id = id, !.heard = TRUE]
  <2>1. /\ UNCHANGED <<bell, told, error, get, failures>> /\ post' = [post EXCEPT ![c] = q]
        /\ post[c].pc = "idle" /\ shown' = [b \in Bells |-> IF b \in which THEN "read" ELSE shown[b]]
    BY <1>1 DEF Marks, Idling, env
  <2>2. q \in PostMemory /\ q.pc = "sent" /\ q.id = id /\ q.heard /\ q.read = {}
    BY Sent
  <2> HIDE DEF q
  <2>3. post' \in [Calls -> PostMemory] /\ post'[c] = q /\ \A d \in Calls \ {c} : post'[d] = post[d]
    BY <1>0, <2>1, <2>2, PostGoes
  <2>4. shown' \in [Bells -> Statuses]
    BY <1>0, <2>1 DEF BellTypes, Statuses
  <2>5. ShownExist'
    BY <1>0, <1>1, <2>1 DEF ShownExist
  <2>6. MarksCarried'
    <3> SUFFICES ASSUME NEW b \in Bells, shown'[b] = "read", bell[b] # "read"
                 PROVE  error \/ \E d \in Calls : get[d].pc # "idle" \/ Carries(d, b)'
      BY <2>1 DEF MarksCarried, Carries
    <3>1. CASE b \in which
      BY <1>1, <2>2, <2>3, <3>1 DEF Carries
    <3>2. CASE b \notin which
      <4>1. error \/ \E d \in Calls : get[d].pc # "idle" \/ Carries(d, b)
        BY <1>0, <2>1, <3>2 DEF MarksCarried
      <4>2. ~Carries(c, b)
        BY <2>1 DEF Carries
      <4> QED BY <2>3, <4>1, <4>2 DEF Carries
    <3> QED BY <3>1, <3>2
  <2>7. FoundNamed'
    BY <1>0, <2>2, <2>3 DEF FoundNamed
  <2>8. ReadsTold'
    BY <1>0, <2>1, <2>2, <2>3 DEF ReadsTold
  <2> QED BY <1>0, <2>1, <2>3, <2>4, <2>5, <2>6, <2>7, <2>8 DEF BellInv, BellTypes, AnswersHold
<1>2. CASE MarkAllRead(c)
  <2>1. ShownUnread \subseteq Bells /\ \A b \in ShownUnread : shown[b] = "unread"
    BY DEF ShownUnread
  <2> QED BY <1>1, <1>2, <2>1 DEF MarkAllRead
<1>3. CASE \E b \in Bells : MarkRead(c, b)
  BY <1>1, <1>3 DEF MarkRead, ShownUnread
<1>4. ASSUME UNCHANGED <<bell, told, shown, error, get, failures>>, post' = [post EXCEPT ![c] = NoPost],
             post[c].pc \in {"ok", "error"} \/ (post[c].pc = "sent" /\ ~post[c].heard)
      PROVE  BellInv'
  <2>1. post' \in [Calls -> PostMemory] /\ post'[c] = NoPost /\ \A d \in Calls \ {c} : post'[d] = post[d]
    BY <1>0, <1>4, NoPostType, PostGoes
  <2>2. \A b \in Bells : ~Carries(c, b)
    BY <1>4 DEF Carries
  <2>3. MarksCarried'
    BY <1>0, <1>4, <2>1, <2>2 DEF MarksCarried, Carries
  <2>4. ReadsTold'
    BY <1>0, <1>4, <2>1, NoPostType DEF ReadsTold
  <2>5. FoundNamed'
    BY <1>0, <2>1, NoPostType DEF FoundNamed
  <2> QED BY <1>0, <1>4, <2>1, <2>3, <2>4, <2>5 DEF BellInv, BellTypes, AnswersHold, ShownExist
<1>5. CASE Acked(c) \/ Lost(c)
  BY <1>4, <1>5 DEF Acked, Lost, env
<1>6. ASSUME MarkFails(c) PROVE BellInv'
  <2> DEFINE q == [post[c] EXCEPT !.heard = FALSE]
             s == [NoPost EXCEPT !.pc = "sent"]
  <2>1. PICK g \in Calls : Gets(g)
    BY <1>6 DEF MarkFails, Reverts
  <2>2. /\ UNCHANGED <<bell, told, shown>> /\ post' = [post EXCEPT ![c] = q]
        /\ get' = [get EXCEPT ![g] = s]
    BY <1>6, <2>1 DEF MarkFails, Gets
  <2>3. failures' = failures \/ failures' = failures + 1
    BY <1>6 DEF MarkFails, Failing, env
  <2>4. q \in PostMemory /\ q.pc = post[c].pc /\ q.read = post[c].read /\ q.id = post[c].id
    BY <1>0 DEF PostMemory
  <2>5. s \in GetMemory /\ s.pc = "sent"
    BY Sent
  <2> HIDE DEF q, s
  <2>6. post' \in [Calls -> PostMemory] /\ post'[c] = q /\ \A d \in Calls \ {c} : post'[d] = post[d]
    BY <1>0, <2>2, <2>4, PostGoes
  <2>7. get' \in [Calls -> GetMemory] /\ get'[g] = s /\ \A d \in Calls \ {g} : get'[d] = get[d]
    BY <1>0, <2>2, <2>5, GetGoes
  <2>8. failures' \in Nat /\ (failures > 0 => failures' > 0)
    BY <1>0, <2>3 DEF BellTypes
  <2>9. AnswersHold'
    BY <1>0, <2>2, <2>5, <2>7 DEF AnswersHold
  <2>10. MarksCarried'
    BY <2>5, <2>7 DEF MarksCarried
  <2>11. FoundNamed'
    BY <1>0, <2>4, <2>6 DEF FoundNamed
  <2>12. ReadsTold'
    BY <1>0, <2>2, <2>4, <2>6, <2>8 DEF ReadsTold
  <2> QED BY <1>0, <2>2, <2>6, <2>7, <2>8, <2>9, <2>10, <2>11, <2>12 DEF BellInv, BellTypes, ShownExist
<1> QED BY <1>2, <1>3, <1>5, <1>6

LEMMA BellInit == NoticesInit => BellInv
<1> SUFFICES ASSUME NoticesInit PROVE BellInv
  OBVIOUS
<1>1. BellTypes
  BY NoPostType DEF NoticesInit, BellTypes, Statuses
<1>2. AnswersHold /\ FoundNamed /\ ReadsTold
  BY NoPostType DEF NoticesInit, AnswersHold, FoundNamed, ReadsTold
<1>3. ShownExist /\ MarksCarried
  BY DEF NoticesInit, ShownExist, MarksCarried
<1> QED BY <1>1, <1>2, <1>3 DEF BellInv

LEMMA BellNext == BellInv /\ [NoticesNext]_noticesVars => BellInv'
<1> SUFFICES ASSUME BellInv, [NoticesNext]_noticesVars PROVE BellInv'
  OBVIOUS
<1>0. failures \in Nat
  BY DEF BellInv, BellTypes
<1>1. CASE UNCHANGED noticesVars
  BY <1>0, <1>1, BellElsewhere DEF noticesVars, env
<1>2. CASE \E b \in Bells : Rings(b)
  BY <1>2, RingsStep
<1>3. CASE \E c \in Calls : ListRead(c) \/ ReadFind(c) \/ ReadWrite(c) \/ ReadAll(c) \/ TellRead(c)
  BY <1>3, ServerStep
<1>4. CASE \E c \in Calls : FetchList(c) \/ ListShown(c) \/ ListFails(c)
  BY <1>4, ListStep
<1>5. CASE \E c \in Calls : \/ MarkAllRead(c) \/ \E b \in Bells : MarkRead(c, b)
                            \/ Acked(c) \/ MarkFails(c) \/ Lost(c)
  BY <1>5, MarkStep
<1>6. ASSUME UNCHANGED belling, failures' = failures \/ failures' = failures + 1
      PROVE  BellInv'
  BY <1>0, <1>6, BellElsewhere
<1>7. CASE \/ Tick \/ \E a \in scene.ads : HideAd(a)
           \/ \E p \in scene.providers : \/ Block(p) \/ RateExpires(p)
                                         \/ \E b \in Bodies : PutPrefs(p, b)
                                         \/ \E t \in Tokens : PutToken(t, p)
  <2>1. UNCHANGED <<belling, failures>>
    BY <1>7 DEF Tick, HideAd, Block, RateExpires, PutPrefs, PutToken, Changing, env
  <2> QED BY <1>6, <2>1
<1>8. ASSUME NEW w \in Workers,
             \/ \E a \in scene.ads : Announce(w, a)
             \/ \E S \in SUBSET scene.providers : Candidates(w, S)
             \/ DedupRead(w) \/ PrefsRead(w) \/ InstantCaps(w) \/ DigestCaps(w)
             \/ Commit(w) \/ Conflicts(w) \/ Schedule(w) \/ RunFails(w)
      PROVE  BellInv'
  <2>1. UNCHANGED belling /\ (failures' = failures \/ failures' = failures + 1)
    BY <1>8 DEF Announce, Candidates, DedupRead, PrefsRead, InstantCaps, DigestCaps, Commit,
                Conflicts, Schedule, RunFails, Failing, env
  <2> QED BY <1>6, <2>1
<1>9. ASSUME NEW w \in Workers,
             \/ StartPush(w) \/ Throttle(w) \/ SetExpiry(w) \/ NextBatch(w) \/ SendFails(w)
             \/ SendRefused(w) \/ \E f \in [Sending -> Answers] : Tickets(w, f)
             \/ Prune(w) \/ ReceiptsFail(w) \/ Bury(w)
             \/ \E g \in [push.ids -> Answers] : Receipts(w, g)
      PROVE  BellInv'
  <2>1. UNCHANGED belling /\ (failures' = failures \/ failures' = failures + 1)
    BY <1>9 DEF StartPush, Throttle, SetExpiry, NextBatch, SendFails, SendRefused, Tickets, Prune,
                ReceiptsFail, Bury, Receipts, PushUnchanged, Failing, env
  <2> QED BY <1>6, <2>1
<1> QED BY <1>1, <1>2, <1>3, <1>4, <1>5, <1>7, <1>8, <1>9 DEF NoticesNext

(* However the requests of the app and their answers overtake each other, a *)
(* notification is not shown as read for good unless the server has it so   *)
(* or an error says otherwise, and no reading goes untold without a failure.*)
THEOREM BellsAgree == NoticesSpec => []BellAgrees
<1>1. BellInv => BellAgrees
  BY DEF BellInv, MarksCarried, ReadsTold, BellAgrees, Carries
<1> QED BY <1>1, BellInit, BellNext, PTL DEF NoticesSpec

----------------------------------------------------------------------------
(* The queues of a send: sequences of devices, each at most once *)

Queue(s) == s \in Seq(Tokens) /\ IsInjective(s)

LEMMA EmptyQueue == Queue(<<>>) /\ ToSet(<<>>) = {}
  BY DEF Queue, IsInjective, ToSet

LEMMA QueueElements ==
    ASSUME NEW s, s \in Seq(Tokens)
    PROVE  ToSet(s) \subseteq Tokens /\ (s # <<>> <=> ToSet(s) # {})
<1>1. s \in [1..Len(s) -> Tokens] /\ Len(s) \in Nat /\ DOMAIN s = 1..Len(s)
  BY LenProperties
<1>2. ToSet(s) \subseteq Tokens
  BY <1>1 DEF ToSet
<1>3. ASSUME s # <<>> PROVE ToSet(s) # {}
  <2>1. Len(s) \in Nat \ {0}
    BY <1>3, EmptySeq
  <2>2. s[1] \in ToSet(s)
    BY <1>1, <2>1 DEF ToSet
  <2> QED BY <2>2
<1>4. s = <<>> => ToSet(s) = {}
  BY EmptyQueue
<1> QED BY <1>2, <1>3, <1>4

LEMMA TailQueue ==
    ASSUME NEW s, Queue(s), s # <<>>
    PROVE  /\ Queue(Tail(s)) /\ Head(s) \in Tokens /\ Head(s) \in ToSet(s)
           /\ ToSet(Tail(s)) = ToSet(s) \ {Head(s)}
<1>1. /\ s \in Seq(Tokens) /\ Len(s) \in Nat \ {0} /\ DOMAIN s = 1..Len(s)
      /\ \A a, b \in 1..Len(s) : s[a] = s[b] => a = b
  BY LenProperties, EmptySeq DEF Queue, IsInjective
<1>2. /\ Head(s) \in Tokens /\ Head(s) = s[1] /\ Tail(s) \in Seq(Tokens)
      /\ Len(Tail(s)) = Len(s) - 1
      /\ \A i \in 1..Len(Tail(s)) : Tail(s)[i] = s[i + 1]
  BY <1>1, HeadTailProperties
<1> DEFINE t == Tail(s)
<1> HIDE DEF t
<1>3. /\ t \in Seq(Tokens) /\ DOMAIN t = 1..(Len(s) - 1)
      /\ \A i \in 1..(Len(s) - 1) : t[i] = s[i + 1]
  BY <1>2, LenProperties DEF t
<1>4. IsInjective(t)
  BY <1>1, <1>3 DEF IsInjective
<1>5. ASSUME NEW x PROVE x \in ToSet(t) <=> x \in ToSet(s) /\ x # s[1]
  <2>1. ASSUME x \in ToSet(t) PROVE x \in ToSet(s) /\ x # s[1]
    <3>1. PICK i \in 1..(Len(s) - 1) : x = t[i]
      BY <1>3, <2>1 DEF ToSet
    <3>2. i + 1 \in 1..Len(s) /\ i + 1 # 1 /\ 1 \in 1..Len(s) /\ x = s[i + 1]
      BY <1>1, <1>3, <3>1
    <3> QED BY <1>1, <3>2 DEF ToSet
  <2>2. ASSUME x \in ToSet(s), x # s[1] PROVE x \in ToSet(t)
    <3>1. PICK i \in 1..Len(s) : x = s[i]
      BY <1>1, <2>2 DEF ToSet
    <3>2. i # 1
      BY <2>2, <3>1
    <3>3. i - 1 \in 1..(Len(s) - 1) /\ x = t[i - 1]
      BY <1>1, <1>3, <3>1, <3>2
    <3> QED BY <1>3, <3>3 DEF ToSet
  <2> QED BY <2>1, <2>2
<1>6. s[1] \in ToSet(s)
  BY <1>1 DEF ToSet
<1> QED BY <1>2, <1>3, <1>4, <1>5, <1>6 DEF Queue, t

LEMMA AppendQueue ==
    ASSUME NEW s, Queue(s), NEW x \in Tokens, x \notin ToSet(s)
    PROVE  Queue(Append(s, x)) /\ ToSet(Append(s, x)) = ToSet(s) \cup {x}
<1>1. /\ s \in Seq(Tokens) /\ Len(s) \in Nat /\ DOMAIN s = 1..Len(s)
      /\ \A a, b \in 1..Len(s) : s[a] = s[b] => a = b
  BY LenProperties DEF Queue, IsInjective
<1> DEFINE t == Append(s, x)
<1>2. /\ t \in Seq(Tokens) /\ Len(t) = Len(s) + 1
      /\ \A i \in 1..Len(s) : t[i] = s[i]
      /\ t[Len(s) + 1] = x
  BY <1>1, AppendProperties
<1> HIDE DEF t
<1>3. DOMAIN t = 1..(Len(s) + 1)
  BY <1>2, LenProperties
<1>4. \A i \in 1..Len(s) : s[i] # x
  BY <1>1 DEF ToSet
<1>5. IsInjective(t)
  <2> SUFFICES ASSUME NEW a \in 1..(Len(s) + 1), NEW b \in 1..(Len(s) + 1), t[a] = t[b]
               PROVE  a = b
    BY <1>3 DEF IsInjective
  <2>1. a \in 1..Len(s) \/ a = Len(s) + 1
    BY <1>1
  <2>2. b \in 1..Len(s) \/ b = Len(s) + 1
    BY <1>1
  <2> QED BY <1>1, <1>2, <1>4, <2>1, <2>2
<1>6. ASSUME NEW y PROVE y \in ToSet(t) <=> y \in ToSet(s) \/ y = x
  <2>1. ASSUME y \in ToSet(t) PROVE y \in ToSet(s) \/ y = x
    <3>1. PICK i \in 1..(Len(s) + 1) : y = t[i]
      BY <1>3, <2>1 DEF ToSet
    <3>2. i \in 1..Len(s) \/ i = Len(s) + 1
      BY <1>1
    <3> QED BY <1>1, <1>2, <3>1, <3>2 DEF ToSet
  <2>2. ASSUME y \in ToSet(s) PROVE y \in ToSet(t)
    <3>1. PICK i \in 1..Len(s) : y = s[i]
      BY <1>1, <2>2 DEF ToSet
    <3>2. i \in 1..(Len(s) + 1) /\ y = t[i]
      BY <1>1, <1>2, <3>1
    <3> QED BY <1>3, <3>2 DEF ToSet
  <2>3. x \in ToSet(t)
    <3>1. Len(s) + 1 \in 1..(Len(s) + 1)
      BY <1>1
    <3> QED BY <1>2, <1>3, <3>1 DEF ToSet
  <2> QED BY <2>1, <2>2, <2>3
<1> QED BY <1>2, <1>5, <1>6 DEF Queue, t

(* A batch, and what is left *)
LEMMA SplitQueue ==
    ASSUME NEW s, Queue(s), NEW n \in 1..Len(s)
    PROVE  LET b == SubSeq(s, 1, n)
               c == SubSeq(s, n + 1, Len(s))
           IN  /\ b \in Seq(Tokens) /\ Queue(c)
               /\ ToSet(b) \cup ToSet(c) = ToSet(s) /\ ToSet(b) \cap ToSet(c) = {}
<1>1. /\ s \in Seq(Tokens) /\ Len(s) \in Nat /\ DOMAIN s = 1..Len(s)
      /\ \A a, b \in 1..Len(s) : s[a] = s[b] => a = b
      /\ \A i \in 1..Len(s) : s[i] \in Tokens
  BY LenProperties, ElementOfSeq DEF Queue, IsInjective
<1> DEFINE b == SubSeq(s, 1, n)
           c == SubSeq(s, n + 1, Len(s))
<1>2. n \in Nat /\ n >= 1 /\ n <= Len(s)
  BY <1>1
<1>3. /\ b \in Seq(Tokens) /\ Len(b) = n
      /\ \A i \in 1..n : b[i] = s[i]
  <2>1. \A i \in 1..n : s[i] \in Tokens
    BY <1>1, <1>2
  <2>2. /\ b \in Seq(Tokens) /\ Len(b) = IF 1 <= n THEN n - 1 + 1 ELSE 0
        /\ \A i \in 1..(n - 1 + 1) : b[i] = s[1 + i - 1]
    <3>1. 1 \in Int /\ n \in Int
      BY <1>2
    <3> QED BY <2>1, <3>1, SubSeqProperties
  <2>3. n - 1 + 1 = n /\ \A i \in 1..n : 1 + i - 1 = i
    BY <1>2
  <2> HIDE DEF b
  <2> QED BY <1>2, <2>2, <2>3
<1>4. /\ c \in Seq(Tokens) /\ Len(c) = Len(s) - n
      /\ \A i \in 1..(Len(s) - n) : c[i] = s[n + i]
  <2>1. \A i \in (n + 1)..Len(s) : s[i] \in Tokens
    BY <1>1, <1>2
  <2>2. /\ c \in Seq(Tokens) /\ Len(c) = IF n + 1 <= Len(s) THEN Len(s) - (n + 1) + 1 ELSE 0
        /\ \A i \in 1..(Len(s) - (n + 1) + 1) : c[i] = s[n + 1 + i - 1]
    <3>1. n + 1 \in Int /\ Len(s) \in Int
      BY <1>1, <1>2
    <3> QED BY <2>1, <3>1, SubSeqProperties
  <2> DEFINE l == Len(s)
  <2>3. l \in Nat /\ n \in Nat /\ n <= l
    BY <1>1, <1>2
  <2> HIDE DEF c, l
  <2>4. l - (n + 1) + 1 = l - n
    BY <2>3
  <2>5. Len(c) = l - n
    BY <2>2, <2>3 DEF l
  <2>6. ASSUME NEW i \in 1..(l - n) PROVE c[i] = s[n + i]
    <3>1. i \in 1..(l - (n + 1) + 1) /\ n + 1 + i - 1 = n + i
      BY <2>3, <2>4
    <3> QED BY <2>2, <3>1 DEF l
  <2> QED BY <2>2, <2>5, <2>6 DEF l
<1> HIDE DEF b, c
<1>5. DOMAIN b = 1..n /\ DOMAIN c = 1..(Len(s) - n)
  BY <1>3, <1>4, LenProperties
<1>6. IsInjective(c)
  <2> SUFFICES ASSUME NEW i \in 1..(Len(s) - n), NEW j \in 1..(Len(s) - n), c[i] = c[j]
               PROVE  i = j
    BY <1>5 DEF IsInjective
  <2>1. n + i \in 1..Len(s) /\ n + j \in 1..Len(s)
    BY <1>1, <1>2
  <2>2. n + i = n + j
    BY <1>1, <1>4, <2>1
  <2> QED BY <1>2, <2>2
<1>7. ToSet(b) \cap ToSet(c) = {}
  <2> SUFFICES ASSUME NEW i \in 1..n, NEW j \in 1..(Len(s) - n), b[i] = c[j] PROVE FALSE
    BY <1>5 DEF ToSet
  <2>1. i \in 1..Len(s) /\ n + j \in 1..Len(s) /\ i # n + j
    BY <1>1, <1>2
  <2> QED BY <1>1, <1>3, <1>4, <2>1
<1>8. ASSUME NEW x PROVE x \in ToSet(s) <=> x \in ToSet(b) \/ x \in ToSet(c)
  <2>1. ASSUME x \in ToSet(b) PROVE x \in ToSet(s)
    <3>1. PICK i \in 1..n : x = b[i]
      BY <1>5, <2>1 DEF ToSet
    <3>2. i \in 1..Len(s) /\ x = s[i]
      BY <1>1, <1>2, <1>3, <3>1
    <3> QED BY <1>1, <3>2 DEF ToSet
  <2>2. ASSUME x \in ToSet(c) PROVE x \in ToSet(s)
    <3>1. PICK i \in 1..(Len(s) - n) : x = c[i]
      BY <1>5, <2>2 DEF ToSet
    <3>2. n + i \in 1..Len(s)
      BY <1>1, <1>2
    <3>3. x = s[n + i]
      BY <1>4, <3>1
    <3> QED BY <1>1, <3>2, <3>3 DEF ToSet
  <2>3. ASSUME x \in ToSet(s) PROVE x \in ToSet(b) \/ x \in ToSet(c)
    <3>1. PICK i \in 1..Len(s) : x = s[i]
      BY <1>1, <2>3 DEF ToSet
    <3>2. CASE i <= n
      <4>1. i \in 1..n /\ x = b[i]
        BY <1>2, <1>3, <3>1, <3>2
      <4> QED BY <1>5, <4>1 DEF ToSet
    <3>3. CASE ~(i <= n)
      <4>1. i - n \in 1..(Len(s) - n) /\ n + (i - n) = i
        BY <1>1, <1>2, <3>1, <3>3
      <4>2. x = c[i - n]
        BY <1>4, <3>1, <4>1
      <4> QED BY <1>5, <4>1, <4>2 DEF ToSet
    <3> QED BY <3>2, <3>3
  <2> QED BY <2>1, <2>2, <2>3
<1> QED BY <1>3, <1>4, <1>6, <1>7, <1>8 DEF Queue, b, c

(* The devices of a set, in some order *)
LEMMA QueueOfSet ==
    ASSUME NEW S \in SUBSET Tokens
    PROVE  Queue(SetToSeq(S)) /\ ToSet(SetToSeq(S)) = S
<1> DEFINE n == Cardinality(S)
           s == SetToSeq(S)
<1>1. IsFiniteSet(S) /\ n \in Nat /\ ExistsBijection(1..n, S)
  BY NoticesAssumption, FS_Subset, FS_CardinalityType
<1>2. PICK g : g \in Bijection(1..n, S)
  BY <1>1 DEF ExistsBijection
<1>3. g \in [1..n -> S] /\ IsInjective(g)
  BY <1>2 DEF Bijection, Injection
<1>4. s \in [1..n -> S] /\ IsInjective(s)
  BY <1>3 DEF SetToSeq
<1> HIDE DEF s
<1>5. s \in Injection(1..n, S)
  BY <1>4 DEF Injection
<1>6. Cardinality(1..n) = n
  <2>1. 1 \in Int /\ n \in Int
    BY <1>1
  <2> HIDE DEF n
  <2>2. Cardinality(1..n) = IF 1 > n THEN 0 ELSE n - 1 + 1
    BY <2>1, FS_Interval
  <2> QED BY <1>1, <2>2
<1>7. s \in Surjection(1..n, S)
  BY <1>1, <1>5, <1>6, FS_Injection
<1>8. \A t \in S : \E i \in 1..n : s[i] = t
  BY <1>7 DEF Surjection
<1>9. DOMAIN s = 1..n /\ \A i \in 1..n : s[i] \in S
  BY <1>4
<1>10. ToSet(s) = S
  BY <1>8, <1>9 DEF ToSet
<1>11. s \in Seq(Tokens)
  <2>1. s \in [1..n -> Tokens]
    BY <1>4
  <2> HIDE DEF n
  <2> QED BY <1>1, <2>1
<1> QED BY <1>4, <1>10, <1>11 DEF Queue, s

----------------------------------------------------------------------------
(* The heaps of a send *)

Fates == {"none", "throttled", "buried", "pruned", "unanswered", "delivered"}
PushMemory == [pc : {"idle", "throttle", "expire", "post", "prune", "receipts", "bury", "next", "ended"},
               todo : Seq(Tokens), rest : Seq(Tokens), send : Seq(Tokens), attempt : Nat,
               who : Providers \cup {Nil}, invalid : SUBSET Tokens, ids : SUBSET Tokens,
               retry : SUBSET Tokens, perm : SUBSET Tokens, fate : [Tokens -> Fates],
               gaveUp : BOOLEAN, again : BOOLEAN]

(* The devices of the batch in hand, and all whose message has no fate yet *)
Handed(m) == (IF m.pc = "post" THEN ToSet(m.send) ELSE {}) \cup m.ids \cup m.retry \cup m.perm
Waiting(m) == ToSet(m.todo) \cup ToSet(m.rest) \cup Handed(m)

(* Each device is in one heap, and the heaps are empty when they should be. *)
QueuesOK(m) ==
    /\ Queue(m.todo) /\ Queue(m.rest) /\ ToSet(m.todo) \cap ToSet(m.rest) = {}
    /\ Handed(m) \cap (ToSet(m.todo) \cup ToSet(m.rest)) = {}
    /\ m.ids \cap m.retry = {} /\ m.ids \cap m.perm = {} /\ m.retry \cap m.perm = {}
    /\ m.pc \notin {"throttle", "expire"} => m.todo = <<>>
    /\ m.pc = "expire" => m.todo # <<>>
    /\ m.pc \notin {"prune", "receipts", "bury"} => m.ids = {} /\ m.retry = {} /\ m.perm = {}
    /\ m.pc = "bury" => m.ids = {}
    /\ m.pc = "ended" => m.rest = <<>> \/ m.gaveUp

(* What waits is not known to have been sent. *)
FatesOK(m) == ~m.again /\ \A t \in Waiting(m) : m.fate[t] = "none"

(* No message is out of sight. *)
Seen(t, m) == m.fate[t] # "none" \/ t \in Waiting(m)
InSight(r, m) == \A t \in Tokens : r.to[t] \in r.instant => Seen(t, m)

OneRuns == In("push") => \A v, w \in Workers : On(v, "idle") \/ On(w, "idle") \/ v = w
NoDevices == ~In("push") => \A t \in Tokens : owner[t] = Nil /\ \A w \in Workers : run[w].to[t] = Nil
PushOwned == \A w \in Workers : On(w, "sending") => In("push") /\ push.pc \notin {"idle", "ended"}
AllInSight ==
    \A w \in Workers : On(w, "sending") \/ (On(w, "schedule") /\ push.pc = "ended") => InSight(run[w], push)
PushInv == /\ push \in PushMemory /\ QueuesOK(push) /\ FatesOK(push)
           /\ OneRuns /\ NoDevices /\ PushOwned /\ AllInSight

LEMMA NoPushOK == NoPush \in PushMemory /\ QueuesOK(NoPush) /\ FatesOK(NoPush) /\ NoPush.pc = "idle"
<1>1. /\ NoPush.pc = "idle" /\ NoPush.todo = <<>> /\ NoPush.rest = <<>> /\ NoPush.ids = {}
      /\ NoPush.retry = {} /\ NoPush.perm = {} /\ ~NoPush.again
  BY DEF NoPush
<1>2. NoPush \in PushMemory
  <2>1. <<>> \in Seq(Tokens) /\ [t \in Tokens |-> "none"] \in [Tokens -> Fates]
    BY DEF Fates
  <2> QED BY <2>1 DEF NoPush, PushMemory
<1>3. Handed(NoPush) = {}
  BY <1>1 DEF Handed
<1> QED BY <1>1, <1>2, <1>3, EmptyQueue DEF QueuesOK, FatesOK, Waiting

(* A worker goes on and sends nothing. *)
LEMMA RunsOn ==
    ASSUME TypeInv, PushInv, NEW w \in Workers, NEW r \in RunMemory, Go(w, r),
           UNCHANGED <<scene, push, owner>>, r.pc # "sending",
           r.pc = "schedule" => \A t \in Tokens : r.to[t] \notin r.instant,
           In("push") /\ r.pc # "idle" => ~On(w, "idle") \/ \A v \in Workers : On(v, "idle"),
           \A t \in Tokens : r.to[t] \in {run[w].to[t], owner[t], Nil}
    PROVE  PushInv'
<1>1. run'[w] = r /\ \A v \in Workers \ {w} : run'[v] = run[v]
  BY Goes DEF TypeInv
<1>2. push' \in PushMemory /\ QueuesOK(push') /\ FatesOK(push')
  BY DEF PushInv
<1>3. OneRuns'
  BY <1>1 DEF PushInv, OneRuns, On, In
<1>4. NoDevices'
  BY <1>1 DEF PushInv, NoDevices, In
<1>5. PushOwned'
  BY <1>1 DEF PushInv, PushOwned, On, In
<1>6. AllInSight'
  BY <1>1 DEF PushInv, AllInSight, On, InSight, Seen
<1> QED BY <1>2, <1>3, <1>4, <1>5, <1>6 DEF PushInv

(* A step of the send under way *)
LEMMA SendsOn ==
    ASSUME TypeInv, PushInv, NEW w \in Workers, On(w, "sending"), NEW m \in PushMemory, push' = m,
           m.pc # "idle", UNCHANGED scene,
           (UNCHANGED run /\ m.pc # "ended") \/ (EndPush(w) /\ m.pc = "ended"),
           QueuesOK(m), FatesOK(m), \A t \in Tokens : Seen(t, push) => Seen(t, m)
    PROVE  PushInv'
<1> DEFINE r == [run[w] EXCEPT !.pc = "schedule"]
<1>0. run[w] \in RunMemory /\ run[w].pc = "sending"
  BY DEF TypeInv, RunsOK, On
<1>1. /\ r \in RunMemory /\ r.pc = "schedule" /\ r.to = run[w].to /\ r.instant = run[w].instant
  BY <1>0, Remembers DEF RunPCs
<1>2. In("push") /\ \A v \in Workers \ {w} : run[v].pc = "idle"
  BY <1>0 DEF PushInv, PushOwned, OneRuns, On
<1>3. (EndPush(w) /\ run'[w] = r) \/ (UNCHANGED run /\ m.pc # "ended")
  BY <1>1, Goes DEF EndPush, TypeInv
<1> HIDE DEF r
<1>4. \A v \in Workers \ {w} : run'[v].pc = "idle"
  <2>1. EndPush(w) => \A v \in Workers \ {w} : run'[v] = run[v]
    BY <1>1, Goes DEF EndPush, TypeInv, r
  <2> QED BY <1>2, <1>3, <2>1
<1>5. OneRuns'
  BY <1>4 DEF OneRuns, On
<1>6. NoDevices'
  BY <1>2 DEF NoDevices, In
<1>7. PushOwned'
  BY <1>1, <1>2, <1>3, <1>4 DEF PushOwned, On, In
<1>8. AllInSight'
  <2>1. InSight(run[w], push)
    BY <1>0 DEF PushInv, AllInSight, On
  <2>2. InSight(run[w], m)
    BY <2>1 DEF InSight
  <2>3. run'[w].to = run[w].to /\ run'[w].instant = run[w].instant
    BY <1>1, <1>3
  <2>4. InSight(run'[w], push')
    BY <2>2, <2>3 DEF InSight
  <2> QED BY <1>4, <2>4 DEF AllInSight, On
<1> QED BY <1>5, <1>6, <1>7, <1>8 DEF PushInv

(* A step that concerns neither the runs nor the send *)
LEMMA PushElsewhere ==
    ASSUME PushInv, UNCHANGED <<scene, run, push>>,
           ~In("push") => \A t \in Tokens : owner'[t] = owner[t] \/ owner'[t] = Nil
    PROVE  PushInv'
<1>1. push' \in PushMemory /\ QueuesOK(push') /\ FatesOK(push')
  BY DEF PushInv
<1>2. OneRuns' /\ PushOwned' /\ AllInSight'
  BY DEF PushInv, OneRuns, PushOwned, AllInSight, On, In, InSight, Seen
<1>3. NoDevices'
  BY DEF PushInv, NoDevices, In
<1> QED BY <1>1, <1>2, <1>3 DEF PushInv

----------------------------------------------------------------------------
(* The runs around a send *)

LEMMA EndsUnsent ==
    ASSUME TypeInv, PushInv, NEW w \in Workers, Go(w, NoRun), UNCHANGED <<scene, push, owner>>
    PROVE  PushInv'
<1> DEFINE r == NoRun
<1>1. r \in RunMemory /\ r.pc = "idle" /\ \A t \in Tokens : r.to[t] = Nil
  BY NoRunType DEF NoRun
<1>2. Go(w, r)
  OBVIOUS
<1> HIDE DEF r
<1> QED BY <1>1, <1>2, RunsOn

LEMMA GoesOnUnsent ==
    ASSUME TypeInv, PushInv, NEW w \in Workers, ~On(w, "idle"), NEW r \in RunMemory, Go(w, r),
           UNCHANGED <<scene, push, owner>>, r.pc \notin {"sending", "schedule"},
           r.to = run[w].to \/ r.to = owner
    PROVE  PushInv'
BY RunsOn

LEMMA UnsentSteps ==
    ASSUME TypeInv, PushInv, NEW w \in Workers,
           \/ \E a \in scene.ads : Announce(w, a)
           \/ \E S \in SUBSET scene.providers : Candidates(w, S)
           \/ DedupRead(w) \/ PrefsRead(w) \/ InstantCaps(w) \/ DigestCaps(w)
           \/ Commit(w) \/ Conflicts(w) \/ Schedule(w)
    PROVE  PushInv'
<1>0. /\ UNCHANGED <<scene, push, owner>> /\ run[w] \in RunMemory
      /\ scene.ads \subseteq Ads /\ scene.providers \subseteq Providers /\ now \in Nat
      /\ owner \in [Tokens -> Providers \cup {Nil}]
  BY DEF TypeInv, SceneOK, RunsOK, OwnersOK, Announce, Candidates, DedupRead, PrefsRead, InstantCaps,
         DigestCaps, Commit, Conflicts, Schedule, env, pushing
<1>1. ASSUME NEW a \in scene.ads, Announce(w, a) PROVE PushInv'
  <2>1. CASE a \in hidden
    BY <1>0, <1>1, <2>1, PushElsewhere DEF Announce
  <2>2. CASE a \notin hidden
    <3> DEFINE r == [NoRun EXCEPT !.pc = "candidates", !.ad = a, !.at = now]
    <3>1. Go(w, r) /\ (In("push") => \A v \in Workers : On(v, "idle"))
      BY <1>1, <2>2 DEF Announce
    <3>2. r \in RunMemory /\ r.pc = "candidates" /\ \A t \in Tokens : r.to[t] = Nil
      BY <1>0 DEF NoRun, RunMemory, RunPCs
    <3> HIDE DEF r
    <3> QED BY <1>0, <3>1, <3>2, RunsOn
  <2> QED BY <2>1, <2>2
<1>2. ASSUME NEW S \in SUBSET scene.providers, Candidates(w, S) PROVE PushInv'
  <2>1. CASE S = {}
    BY <1>0, <1>2, <2>1, EndsUnsent DEF Candidates, Finish
  <2>2. CASE S # {}
    <3> DEFINE r == [run[w] EXCEPT !.pc = "dedup", !.cands = S, !.to = owner]
    <3>1. Go(w, r) /\ ~On(w, "idle")
      BY <1>2, <2>2 DEF Candidates, On
    <3>2. r \in RunMemory /\ r.pc = "dedup" /\ r.to = owner
      BY <1>0 DEF RunMemory, RunPCs
    <3> HIDE DEF r
    <3> QED BY <1>0, <3>1, <3>2, GoesOnUnsent
  <2> QED BY <2>1, <2>2
<1>4. CASE DedupRead(w)
  <2>1. CASE Dedup(w) = {}
    BY <1>0, <1>4, <2>1, EndsUnsent DEF DedupRead, Finish
  <2>2. CASE Dedup(w) # {}
    <3> DEFINE r == [run[w] EXCEPT !.pc = "prefs", !.cands = Dedup(w)]
    <3>1. Go(w, r) /\ ~On(w, "idle")
      BY <1>4, <2>2 DEF DedupRead, On
    <3>2. Dedup(w) \subseteq Providers
      BY <1>0 DEF Dedup, RunMemory
    <3>3. r \in RunMemory /\ r.pc = "prefs" /\ r.to = run[w].to
      BY <1>0, <3>2 DEF RunMemory, RunPCs
    <3> HIDE DEF r
    <3> QED BY <1>0, <3>1, <3>3, GoesOnUnsent
  <2> QED BY <2>1, <2>2
<1>5. CASE PrefsRead(w)
  <2> DEFINE on == {p \in run[w].cands : prefs[p].on}
             instant == {p \in on : ~prefs[p].digest}
             quiet == {p \in on : run[w].at \in prefs[p].quiet}
             pc == IF instant # {} THEN "caps" ELSE "digestcaps"
             r == [run[w] EXCEPT !.pc = pc, !.instant = instant, !.digest = on \ instant, !.quiet = quiet]
  <2>1. CASE on = {}
    BY <1>0, <1>5, <2>1, EndsUnsent DEF PrefsRead, Finish
  <2>2. CASE on # {}
    <3>1. Go(w, r) /\ ~On(w, "idle")
      BY <1>5, <2>2 DEF PrefsRead, On
    <3>2. on \subseteq Providers /\ instant \subseteq Providers /\ quiet \subseteq Providers
      BY <1>0 DEF RunMemory
    <3>3. r \in RunMemory /\ r.pc \in {"caps", "digestcaps"} /\ r.to = run[w].to
      <4> HIDE DEF on, instant, quiet
      <4> QED BY <1>0, <3>2 DEF RunMemory, RunPCs
    <3> HIDE DEF r
    <3> QED BY <1>0, <3>1, <3>3, GoesOnUnsent
  <2> QED BY <2>1, <2>2
<1>6. ASSUME NEW I \in SUBSET Providers, NEW D \in SUBSET Providers, Decide(w, I, D), ~On(w, "idle")
      PROVE  PushInv'
  <2> DEFINE loud == I \ run[w].quiet
             r == [run[w] EXCEPT !.pc = "commit", !.instant = loud, !.digest = D]
  <2>1. CASE loud \cup D = {}
    BY <1>0, <1>6, <2>1, EndsUnsent DEF Decide, Finish
  <2>2. CASE loud \cup D # {}
    <3>1. Go(w, r) /\ loud \subseteq Providers
      BY <1>6, <2>2 DEF Decide
    <3>2. r \in RunMemory /\ r.pc = "commit" /\ r.to = run[w].to
      <4> HIDE DEF loud
      <4> QED BY <1>0, <3>1 DEF RunMemory, RunPCs
    <3> HIDE DEF r
    <3> QED BY <1>0, <1>6, <3>1, <3>2, GoesOnUnsent
  <2> QED BY <2>1, <2>2
<1>7. CASE InstantCaps(w)
  <2> DEFINE I == {p \in run[w].instant : UnderCap(w, p)}
             r == [run[w] EXCEPT !.pc = "digestcaps", !.instant = I]
  <2>1. I \in SUBSET Providers /\ ~On(w, "idle")
    BY <1>0, <1>7 DEF RunMemory, InstantCaps, On
  <2>2. Decide(w, I, {}) \/ Go(w, r)
    BY <1>7 DEF InstantCaps
  <2>3. r \in RunMemory /\ r.pc = "digestcaps" /\ r.to = run[w].to
    <3> HIDE DEF I
    <3> QED BY <1>0, <2>1 DEF RunMemory, RunPCs
  <2> HIDE DEF I, r
  <2>4. {} \in SUBSET Providers
    OBVIOUS
  <2> QED BY <1>0, <1>6, <2>1, <2>2, <2>3, <2>4, GoesOnUnsent
<1>8. CASE DigestCaps(w)
  <2> DEFINE D == {p \in run[w].digest : Matched(p, {"instant", "digest"}, run[w].at) < WindowMax}
  <2>1. D \in SUBSET Providers /\ run[w].instant \in SUBSET Providers /\ ~On(w, "idle")
    BY <1>0, <1>8 DEF RunMemory, DigestCaps, On
  <2>2. Decide(w, run[w].instant, D)
    BY <1>8 DEF DigestCaps
  <2> HIDE DEF D
  <2> QED BY <1>6, <2>1, <2>2
<1>9. CASE Commit(w)
  <2> DEFINE r == [run[w] EXCEPT !.pc = "push"]
  <2>1. Go(w, r) /\ ~On(w, "idle")
    BY <1>9 DEF Commit, On
  <2>2. r \in RunMemory /\ r.pc = "push" /\ r.to = run[w].to
    BY <1>0, Remembers DEF RunPCs
  <2> HIDE DEF r
  <2> QED BY <1>0, <2>1, <2>2, GoesOnUnsent
<1>10. CASE Conflicts(w) \/ Schedule(w)
  <2>1. Go(w, NoRun)
    BY <1>10 DEF Conflicts, Schedule, Finish
  <2> QED BY <1>0, <2>1, EndsUnsent
<1> QED BY <1>1, <1>2, <1>4, <1>5, <1>7, <1>8, <1>9, <1>10

LEMMA RunFailsStep == ASSUME TypeInv, PushInv, NEW w \in Workers, RunFails(w) PROVE PushInv'
<1>1. Go(w, NoRun) /\ UNCHANGED <<scene, owner>>
  BY DEF RunFails, Failing
<1>2. CASE ~On(w, "sending")
  BY <1>1, <1>2, EndsUnsent DEF RunFails
<1>3. CASE On(w, "sending")
  <2>1. push' = NoPush
    BY <1>3 DEF RunFails
  <2>2. In("push") /\ \A v \in Workers \ {w} : run[v].pc = "idle"
    BY <1>3 DEF PushInv, PushOwned, OneRuns, On
  <2>3. run'[w] = NoRun /\ \A v \in Workers \ {w} : run'[v] = run[v]
    BY <1>1, NoRunType, Goes DEF TypeInv
  <2>4. \A v \in Workers : run'[v].pc = "idle"
    BY <2>2, <2>3, NoRunType
  <2>5. OneRuns' /\ PushOwned' /\ AllInSight'
    BY <2>4 DEF OneRuns, PushOwned, AllInSight, On
  <2>6. NoDevices'
    BY <1>1, <2>2 DEF NoDevices, In
  <2>7. push' \in PushMemory /\ QueuesOK(push') /\ FatesOK(push')
    BY <2>1, NoPushOK
  <2> QED BY <2>5, <2>6, <2>7 DEF PushInv
<1> QED BY <1>2, <1>3

----------------------------------------------------------------------------
(* The steps of a send *)

LEMMA StartPushStep == ASSUME TypeInv, PushInv, NEW w \in Workers, StartPush(w) PROVE PushInv'
<1> DEFINE to == {t \in Tokens : run[w].to[t] \in run[w].instant}
<1>0. /\ run[w] \in RunMemory /\ run[w].pc = "push" /\ UNCHANGED <<scene, owner>>
      /\ run[w].instant \subseteq Providers
  BY DEF TypeInv, RunsOK, RunMemory, StartPush, On, env
<1>1. CASE to = {}
  <2> DEFINE r == [run[w] EXCEPT !.pc = "schedule"]
  <2>1. Go(w, r) /\ UNCHANGED push
    BY <1>1 DEF StartPush
  <2>2. r \in RunMemory /\ r.pc = "schedule" /\ r.to = run[w].to /\ r.instant = run[w].instant
    BY <1>0, Remembers DEF RunPCs
  <2> HIDE DEF r
  <2>3. \A t \in Tokens : r.to[t] \notin r.instant
    BY <1>1, <2>2
  <2>4. ~On(w, "idle")
    BY <1>0 DEF On
  <2> QED BY <1>0, <2>1, <2>2, <2>3, <2>4, RunsOn
<1>2. CASE to # {}
  <2> DEFINE r == [run[w] EXCEPT !.pc = "sending"]
             m == [NoPush EXCEPT !.pc = "throttle", !.todo = SetToSeq(to)]
  <2>1. Go(w, r) /\ push' = m
    BY <1>2 DEF StartPush
  <2>2. r \in RunMemory /\ r.pc = "sending" /\ r.to = run[w].to /\ r.instant = run[w].instant
    BY <1>0, Remembers DEF RunPCs
  <2>3. Queue(SetToSeq(to)) /\ ToSet(SetToSeq(to)) = to
    <3>1. to \in SUBSET Tokens
      OBVIOUS
    <3> HIDE DEF to
    <3> QED BY <3>1, QueueOfSet
  <2> HIDE DEF r, to
  <2>4. /\ m \in PushMemory /\ m.pc = "throttle" /\ m.todo = SetToSeq(to) /\ m.rest = <<>>
        /\ m.ids = {} /\ m.retry = {} /\ m.perm = {} /\ ~m.again
        /\ m.fate = [t \in Tokens |-> "none"]
    <3>1. NoPush \in PushMemory /\ SetToSeq(to) \in Seq(Tokens)
      BY <2>3, NoPushOK DEF Queue
    <3>2. /\ NoPush.rest = <<>> /\ NoPush.ids = {} /\ NoPush.retry = {} /\ NoPush.perm = {}
          /\ ~NoPush.again /\ NoPush.fate = [t \in Tokens |-> "none"]
      BY DEF NoPush
    <3> QED BY <3>1, <3>2 DEF PushMemory
  <2> HIDE DEF m
  <2>5. Handed(m) = {} /\ Waiting(m) = to
    BY <2>3, <2>4, EmptyQueue DEF Handed, Waiting
  <2>6. QueuesOK(m)
    BY <2>3, <2>4, <2>5, EmptyQueue DEF QueuesOK
  <2>7. FatesOK(m)
    BY <2>4, <2>5 DEF FatesOK, to
  <2>8. InSight(r, m)
    BY <2>2, <2>5 DEF InSight, Seen, to
  <2>9. In("push")
    <3>1. \E t \in Tokens : run[w].to[t] \in Providers
      BY <1>0, <1>2 DEF to
    <3> QED BY <3>1, NoticesAssumption DEF PushInv, NoDevices
  <2>10. \A v \in Workers \ {w} : run[v].pc = "idle"
    BY <1>0, <2>9 DEF PushInv, OneRuns, On
  <2>11. run'[w] = r /\ \A v \in Workers \ {w} : run'[v] = run[v]
    BY <2>1, <2>2, Goes DEF TypeInv
  <2>12. \A v \in Workers \ {w} : run'[v].pc = "idle"
    BY <2>10, <2>11
  <2>13. OneRuns'
    BY <2>12 DEF OneRuns, On
  <2>14. PushOwned'
    BY <1>0, <2>1, <2>4, <2>9, <2>12 DEF PushOwned, On, In
  <2>15. AllInSight'
    BY <2>1, <2>8, <2>11, <2>12 DEF AllInSight, On
  <2>16. NoDevices'
    BY <1>0, <2>9 DEF NoDevices, In
  <2> QED BY <2>1, <2>4, <2>6, <2>7, <2>13, <2>14, <2>15, <2>16 DEF PushInv
<1> QED BY <1>1, <1>2

(* What is known in the midst of a send *)
LEMMA Sends ==
    ASSUME PushInv
    PROVE  /\ push \in PushMemory
           /\ Queue(push.todo) /\ Queue(push.rest) /\ ToSet(push.todo) \cap ToSet(push.rest) = {}
           /\ Handed(push) \cap (ToSet(push.todo) \cup ToSet(push.rest)) = {}
           /\ ToSet(push.send) \subseteq Tokens /\ ToSet(push.todo) \subseteq Tokens
           /\ ToSet(push.rest) \subseteq Tokens
           /\ ~push.again /\ \A t \in Waiting(push) : push.fate[t] = "none"
<1>1. push \in PushMemory /\ QueuesOK(push) /\ FatesOK(push)
  BY DEF PushInv
<1>2. push.send \in Seq(Tokens) /\ push.todo \in Seq(Tokens) /\ push.rest \in Seq(Tokens)
  BY <1>1 DEF PushMemory
<1> QED BY <1>1, <1>2, QueueElements DEF QueuesOK, FatesOK

(* The next device is let through, or is not. *)
LEMMA TakesOne ==
    ASSUME PushInv, push.pc \in {"throttle", "expire"}, push.todo # <<>>,
           NEW ok \in BOOLEAN, NEW m, m.pc = "throttle", m.todo = Tail(push.todo),
           m.rest = IF ok THEN Append(push.rest, Head(push.todo)) ELSE push.rest,
           m.fate = [t \in Tokens |-> IF t = Head(push.todo) /\ ~ok THEN "throttled" ELSE push.fate[t]],
           m.ids = push.ids, m.retry = push.retry, m.perm = push.perm, m.again = push.again
    PROVE  /\ QueuesOK(m) /\ FatesOK(m) /\ \A t \in Tokens : Seen(t, push) => Seen(t, m)
<1> DEFINE h == Head(push.todo)
<1>1. /\ Queue(push.todo) /\ Queue(push.rest) /\ ToSet(push.todo) \cap ToSet(push.rest) = {}
      /\ push.ids = {} /\ push.retry = {} /\ push.perm = {}
  BY Sends DEF PushInv, QueuesOK
<1>2. /\ Queue(m.todo) /\ h \in Tokens /\ h \in ToSet(push.todo) /\ ToSet(m.todo) = ToSet(push.todo) \ {h}
  BY <1>1, TailQueue
<1>3. Queue(m.rest) /\ ToSet(m.rest) = ToSet(push.rest) \cup (IF ok THEN {h} ELSE {})
  <2>1. h \notin ToSet(push.rest)
    BY <1>1, <1>2
  <2>2. Queue(Append(push.rest, h)) /\ ToSet(Append(push.rest, h)) = ToSet(push.rest) \cup {h}
    BY <1>1, <1>2, <2>1, AppendQueue
  <2> HIDE DEF h
  <2> QED BY <1>1, <2>2 DEF h
<1> HIDE DEF h
<1>4. Handed(m) = {} /\ Handed(push) = {}
  BY <1>1 DEF Handed
<1>5. /\ Waiting(push) = ToSet(push.todo) \cup ToSet(push.rest)
      /\ Waiting(m) = ToSet(m.todo) \cup ToSet(m.rest)
      /\ Waiting(m) \subseteq Waiting(push) /\ (~ok => h \notin Waiting(m))
      /\ Waiting(push) \subseteq Waiting(m) \cup (IF ok THEN {} ELSE {h})
  BY <1>1, <1>2, <1>3, <1>4 DEF Waiting
<1>6. QueuesOK(m)
  BY <1>1, <1>2, <1>3, <1>4 DEF QueuesOK
<1>7. Waiting(push) \subseteq Tokens
  BY <1>5, Sends
<1>8. FatesOK(m)
  BY <1>5, <1>7, Sends DEF FatesOK, h
<1>9. ASSUME NEW t \in Tokens, Seen(t, push) PROVE Seen(t, m)
  <2>1. CASE t \in Waiting(m)
    BY <2>1 DEF Seen
  <2>2. CASE t \notin Waiting(m)
    <3>1. push.fate[t] # "none" \/ (~ok /\ t = h)
      BY <1>5, <1>9, <2>2 DEF Seen
    <3>2. m.fate[t] # "none"
      BY <3>1 DEF h
    <3> QED BY <3>2 DEF Seen
  <2> QED BY <2>1, <2>2
<1> QED BY <1>6, <1>8, <1>9

(* Nothing changes heaps. *)
LEMMA Unheaped ==
    ASSUME PushInv, NEW m, m.todo = push.todo, m.rest = push.rest, m.fate = push.fate, m.ids = push.ids,
           m.retry = push.retry, m.perm = push.perm, m.again = push.again, m.gaveUp = push.gaveUp,
           Handed(m) = Handed(push),
           m.pc \notin {"throttle", "expire"} => m.todo = <<>>,
           m.pc = "expire" => m.todo # <<>>,
           m.pc \notin {"prune", "receipts", "bury"} => m.ids = {} /\ m.retry = {} /\ m.perm = {},
           m.pc = "bury" => m.ids = {},
           m.pc = "ended" => m.rest = <<>>
    PROVE  QueuesOK(m) /\ FatesOK(m) /\ \A t \in Tokens : Seen(t, push) => Seen(t, m)
<1>1. Waiting(m) = Waiting(push)
  BY DEF Waiting
<1>2. QueuesOK(m)
  BY DEF PushInv, QueuesOK
<1> QED BY <1>1, <1>2 DEF PushInv, FatesOK, Seen

LEMMA ThrottleStep ==
    ASSUME TypeInv, PushInv, NEW w \in Workers, Throttle(w) \/ SetExpiry(w)
    PROVE  PushInv'
<1>0. /\ push \in PushMemory /\ On(w, "sending") /\ push.pc \in {"throttle", "expire"}
      /\ push.todo # <<>> /\ UNCHANGED <<scene, run, owner>>
      /\ Queue(push.todo) /\ Queue(push.rest)
      /\ push.ids = {} /\ push.retry = {} /\ push.perm = {}
  BY DEF PushInv, QueuesOK, Throttle, SetExpiry, Pushing, Failing, env
<1> DEFINE h == Head(push.todo)
<1>1. h \in Tokens /\ Tail(push.todo) \in Seq(Tokens) /\ Append(push.rest, h) \in Seq(Tokens)
  BY <1>0, TailQueue, AppendProperties DEF Queue
<1>2. ASSUME NEW ok \in BOOLEAN, NEW m,
             m = [push EXCEPT !.pc = "throttle", !.todo = Tail(@),
                              !.rest = IF ok THEN Append(@, h) ELSE @,
                              !.fate = [t \in Tokens |-> IF t = h /\ ~ok THEN "throttled" ELSE @[t]]],
             push' = m
      PROVE  PushInv'
  <2>1. [t \in Tokens |-> IF t = h /\ ~ok THEN "throttled" ELSE push.fate[t]] \in [Tokens -> Fates]
    BY <1>0 DEF PushMemory, Fates
  <2> DEFINE q == IF ok THEN Append(push.rest, h) ELSE push.rest
             f == [t \in Tokens |-> IF t = h /\ ~ok THEN "throttled" ELSE push.fate[t]]
  <2>2. q \in Seq(Tokens) /\ f \in [Tokens -> Fates]
    BY <1>0, <1>1, <2>1 DEF Queue
  <2>3. m = [push EXCEPT !.pc = "throttle", !.todo = Tail(push.todo), !.rest = q, !.fate = f]
    BY <1>2
  <2>4. /\ m \in PushMemory /\ m.pc = "throttle" /\ m.todo = Tail(push.todo)
        /\ m.rest = q /\ m.fate = f
        /\ m.ids = push.ids /\ m.retry = push.retry /\ m.perm = push.perm /\ m.again = push.again
    <3> HIDE DEF q, f, h
    <3> QED BY <1>0, <1>1, <2>2, <2>3 DEF PushMemory
  <2>5. QueuesOK(m) /\ FatesOK(m) /\ \A t \in Tokens : Seen(t, push) => Seen(t, m)
    BY <1>0, <2>4, TakesOne
  <2> QED BY <1>0, <1>2, <2>4, <2>5, SendsOn
<1>3. ASSUME NEW ok \in BOOLEAN, Allow(h, ok), push.pc = "throttle" PROVE PushInv'
  <2>1. push' = [push EXCEPT !.pc = "throttle", !.todo = Tail(@),
                             !.rest = IF ok THEN Append(@, h) ELSE @,
                             !.fate = [t \in Tokens |-> IF t = h /\ ~ok THEN "throttled" ELSE @[t]]]
    <3>1. [push.fate EXCEPT ![h] = IF ok THEN @ ELSE "throttled"]
             = [t \in Tokens |-> IF t = h /\ ~ok THEN "throttled" ELSE push.fate[t]]
      BY <1>0, <1>1 DEF PushMemory
    <3>2. push' = [push EXCEPT !.todo = Tail(@), !.rest = IF ok THEN Append(@, h) ELSE @,
                               !.fate = [push.fate EXCEPT ![h] = IF ok THEN @ ELSE "throttled"]]
      BY <1>3 DEF Allow
    <3> HIDE DEF h
    <3> QED BY <1>0, <1>3, <3>1, <3>2 DEF PushMemory
  <2> QED BY <1>2, <2>1
<1>4. CASE SetExpiry(w)
  <2>1. push' = [push EXCEPT !.pc = "throttle", !.todo = Tail(@),
                             !.rest = IF TRUE THEN Append(@, h) ELSE @,
                             !.fate = [t \in Tokens |-> IF t = h /\ ~TRUE THEN "throttled" ELSE @[t]]]
    <3>1. [t \in Tokens |-> IF t = h /\ ~TRUE THEN "throttled" ELSE push.fate[t]] = push.fate
      BY <1>0 DEF PushMemory
    <3> HIDE DEF h
    <3>2. push' = [push EXCEPT !.pc = "throttle", !.todo = Tail(@), !.rest = Append(@, h)]
      BY <1>4 DEF SetExpiry, h
    <3> QED BY <1>0, <3>1, <3>2 DEF PushMemory
  <2>2. TRUE \in BOOLEAN
    OBVIOUS
  <2> HIDE DEF h
  <2> QED BY <1>2, <2>1, <2>2
<1>5. CASE Throttle(w)
  <2> DEFINE p == run[w].to[h]
             m == [push EXCEPT !.pc = "expire", !.who = p]
  <2>1. push.pc = "throttle"
    BY <1>5 DEF Throttle, Pushing
  <2>2. push' = m \/ (\E ok \in BOOLEAN : Allow(h, ok))
    <3>1. push' = m \/ Allow(h, rate[p].n < RateLimit) \/ Allow(h, TRUE)
      BY <1>5 DEF Throttle
    <3>2. Allow(h, rate[p].n < RateLimit) => Allow(h, TRUE) \/ Allow(h, FALSE)
      BY DEF Allow
    <3> HIDE DEF m, h
    <3> QED BY <3>1, <3>2
  <2>3. p \in Providers \cup {Nil}
    BY <1>1 DEF TypeInv, RunsOK, RunMemory
  <2>4. ASSUME push' = m PROVE PushInv'
    <3> HIDE DEF p
    <3>1. /\ m \in PushMemory /\ m.pc = "expire" /\ m.todo = push.todo /\ m.rest = push.rest
          /\ m.fate = push.fate /\ m.ids = push.ids /\ m.retry = push.retry /\ m.perm = push.perm
          /\ m.again = push.again /\ m.gaveUp = push.gaveUp
      BY <1>0, <2>3 DEF PushMemory
    <3> HIDE DEF m
    <3>2. Handed(m) = Handed(push)
      BY <1>0, <3>1 DEF Handed
    <3>3. QueuesOK(m) /\ FatesOK(m) /\ \A t \in Tokens : Seen(t, push) => Seen(t, m)
      BY <1>0, <3>1, <3>2, Unheaped
    <3> QED BY <1>0, <2>4, <3>1, <3>3, SendsOn
  <2> QED BY <1>3, <2>1, <2>2, <2>4
<1> QED BY <1>4, <1>5

(* Once a batch was begun, nobody waits to be let through. *)
LEMMA Batches ==
    ASSUME PushInv, push.pc \notin {"throttle", "expire"}
    PROVE  push.todo = <<>> /\ ToSet(push.todo) = {} /\ Waiting(push) = ToSet(push.rest) \cup Handed(push)
<1>1. push.todo = <<>>
  BY DEF PushInv, QueuesOK
<1> QED BY <1>1, EmptyQueue DEF Waiting

LEMMA NextBatchStep == ASSUME TypeInv, PushInv, NEW w \in Workers, NextBatch(w) PROVE PushInv'
<1>0. /\ push \in PushMemory /\ On(w, "sending") /\ UNCHANGED <<scene, owner>>
      /\ push.pc \in {"throttle", "next"} /\ push.todo = <<>>
      /\ push.ids = {} /\ push.retry = {} /\ push.perm = {} /\ Queue(push.rest)
  BY DEF PushInv, QueuesOK, NextBatch, Pushing, env
<1>1. Handed(push) = {} /\ ToSet(push.todo) = {}
  BY <1>0, EmptyQueue DEF Handed
<1>2. CASE push.rest = <<>>
  <2> DEFINE m == [push EXCEPT !.pc = "ended"]
  <2>1. EndPush(w) /\ push' = m
    BY <1>2 DEF NextBatch
  <2>2. /\ m \in PushMemory /\ m.pc = "ended" /\ m.todo = push.todo /\ m.rest = push.rest
        /\ m.fate = push.fate /\ m.ids = push.ids /\ m.retry = push.retry /\ m.perm = push.perm
        /\ m.again = push.again /\ m.gaveUp = push.gaveUp
    BY <1>0 DEF PushMemory
  <2> HIDE DEF m
  <2>3. Handed(m) = Handed(push)
    BY <1>0, <1>1, <2>2 DEF Handed
  <2>4. QueuesOK(m) /\ FatesOK(m) /\ \A t \in Tokens : Seen(t, push) => Seen(t, m)
    BY <1>0, <1>2, <2>2, <2>3, Unheaped
  <2> QED BY <1>0, <2>1, <2>2, <2>4, SendsOn
<1>3. CASE push.rest # <<>>
  <2> DEFINE n == Least(BatchSize, Len(push.rest))
             b == SubSeq(push.rest, 1, n)
             c == SubSeq(push.rest, n + 1, Len(push.rest))
             m == [push EXCEPT !.pc = "post", !.attempt = 1, !.send = b, !.rest = c]
  <2>1. UNCHANGED run /\ push' = m
    BY <1>3 DEF NextBatch
  <2>2. n \in 1..Len(push.rest)
    <3>1. Len(push.rest) \in Nat \ {0}
      BY <1>0, <1>3, EmptySeq DEF Queue
    <3> QED BY <3>1, NoticesAssumption DEF Least
  <2>3. /\ b \in Seq(Tokens) /\ Queue(c)
        /\ ToSet(b) \cup ToSet(c) = ToSet(push.rest) /\ ToSet(b) \cap ToSet(c) = {}
    <3> HIDE DEF n
    <3> QED BY <1>0, <2>2, SplitQueue
  <2> HIDE DEF b, c
  <2>4. /\ m \in PushMemory /\ m.pc = "post" /\ m.todo = push.todo /\ m.rest = c /\ m.send = b
        /\ m.fate = push.fate /\ m.ids = {} /\ m.retry = {} /\ m.perm = {} /\ m.again = push.again
    BY <1>0, <2>3 DEF PushMemory, Queue
  <2> HIDE DEF m
  <2>5. Handed(m) = ToSet(b)
    BY <2>4 DEF Handed
  <2>6. Waiting(m) = Waiting(push)
    BY <1>1, <2>3, <2>4, <2>5 DEF Waiting
  <2>7. QueuesOK(m)
    BY <1>0, <1>1, <2>3, <2>4, <2>5, Sends DEF QueuesOK
  <2>8. FatesOK(m) /\ \A t \in Tokens : Seen(t, push) => Seen(t, m)
    BY <2>4, <2>6, Sends DEF FatesOK, Seen
  <2> QED BY <1>0, <2>1, <2>4, <2>7, <2>8, SendsOn
<1> QED BY <1>2, <1>3

(* The whole batch in hand gets one fate, or waits for the next attempt. *)
LEMMA SendFailsStep ==
    ASSUME TypeInv, PushInv, NEW w \in Workers, SendFails(w) \/ SendRefused(w)
    PROVE  PushInv'
<1>0. /\ push \in PushMemory /\ On(w, "sending") /\ UNCHANGED <<scene, owner>> /\ push.pc = "post"
      /\ push.todo = <<>> /\ push.ids = {} /\ push.retry = {} /\ push.perm = {} /\ Queue(push.rest)
  BY DEF PushInv, QueuesOK, SendFails, SendRefused, Pushing, env
<1>1. Handed(push) = Sending /\ Sending \cap ToSet(push.rest) = {} /\ Sending \subseteq Tokens
      /\ Waiting(push) = ToSet(push.rest) \cup Sending /\ ToSet(push.todo) = {}
      /\ ToSet(push.rest) \subseteq Tokens
  BY <1>0, Sends, Batches DEF Handed, Sending
<1>2. ASSUME UNCHANGED run, push' = [push EXCEPT !.attempt = @ + 1] PROVE PushInv'
  <2> DEFINE n == push.attempt + 1
             m == [push EXCEPT !.attempt = n]
  <2>0. n \in Nat
    BY <1>0 DEF PushMemory
  <2>2. push' = m
    BY <1>2
  <2> HIDE DEF n
  <2>1. /\ m \in PushMemory /\ m.pc = "post" /\ m.todo = push.todo /\ m.rest = push.rest
        /\ m.send = push.send /\ m.fate = push.fate /\ m.ids = push.ids /\ m.retry = push.retry
        /\ m.perm = push.perm /\ m.again = push.again /\ m.gaveUp = push.gaveUp
    BY <1>0, <2>0 DEF PushMemory
  <2> HIDE DEF m
  <2>3. Handed(m) = Handed(push)
    BY <1>0, <2>1 DEF Handed
  <2>4. QueuesOK(m) /\ FatesOK(m) /\ \A t \in Tokens : Seen(t, push) => Seen(t, m)
    BY <1>0, <2>1, <2>3, Unheaped
  <2> QED BY <1>0, <1>2, <2>1, <2>2, <2>4, SendsOn
<1>3. ASSUME GiveUp(w) PROVE PushInv'
  <2> DEFINE f == Fated(Sending, "buried")
             m == [push EXCEPT !.pc = "ended", !.fate = f, !.gaveUp = push.rest # <<>>]
  <2>1. EndPush(w) /\ push' = m
    BY <1>3 DEF GiveUp
  <2>2. /\ f \in [Tokens -> Fates]
        /\ \A t \in Tokens : f[t] = IF t \in Sending THEN "buried" ELSE push.fate[t]
    BY <1>0 DEF Fated, PushMemory, Fates
  <2> HIDE DEF f
  <2>3. /\ m \in PushMemory /\ m.pc = "ended" /\ m.todo = push.todo /\ m.rest = push.rest
        /\ m.fate = f /\ m.ids = {} /\ m.retry = {} /\ m.perm = {} /\ m.again = push.again
        /\ (m.rest = <<>> \/ m.gaveUp)
    BY <1>0, <2>2 DEF PushMemory
  <2> HIDE DEF m
  <2>4. Handed(m) = {} /\ Waiting(m) = ToSet(push.rest)
    BY <1>1, <2>3 DEF Handed, Waiting
  <2>5. QueuesOK(m)
    BY <1>0, <1>1, <2>3, <2>4, EmptyQueue DEF QueuesOK
  <2>6. FatesOK(m)
    BY <1>1, <2>2, <2>3, <2>4, Sends DEF FatesOK
  <2>7. \A t \in Tokens : Seen(t, push) => Seen(t, m)
    BY <1>1, <2>2, <2>3, <2>4 DEF Seen
  <2> QED BY <1>0, <2>1, <2>3, <2>5, <2>6, <2>7, SendsOn
<1> QED BY <1>2, <1>3 DEF SendFails, SendRefused

(* The answers sort a set of devices. *)
LEMMA Sorts ==
    ASSUME NEW S \in SUBSET Tokens, NEW f \in [S -> Answers]
    PROVE  /\ \A a : Given(f, a) \subseteq S
           /\ Retried(f) \subseteq S /\ Buried(f) \subseteq S
           /\ Retried(f) \cap Buried(f) = {}
           /\ \A a \in {"ok", "invalid", "none"} :
                 Given(f, a) \cap Retried(f) = {} /\ Given(f, a) \cap Buried(f) = {}
           /\ Given(f, "ok") \cap Given(f, "invalid") = {} /\ Given(f, "ok") \cap Given(f, "none") = {}
           /\ S = Given(f, "ok") \cup Given(f, "invalid") \cup Given(f, "none")
                    \cup Retried(f) \cup Buried(f)
<1>1. DOMAIN f = S /\ \A t \in S : f[t] \in Answers
  OBVIOUS
<1>2. \A a : \A t : t \in Given(f, a) <=> t \in S /\ f[t] = a
  BY <1>1 DEF Given
<1>3. Retried(f) = (IF MayRetry THEN Given(f, "transient") ELSE {})
  BY DEF Retried
<1>4. Buried(f) = Given(f, "permanent") \cup (Given(f, "transient") \ Retried(f))
  BY DEF Buried
<1>5. \A t \in S : f[t] \in {"ok", "invalid", "transient", "permanent", "none"}
  BY <1>1 DEF Answers
<1>6. Retried(f) \subseteq Given(f, "transient")
  BY <1>3
<1> QED BY <1>2, <1>4, <1>5, <1>6

(* Part of what is in hand gets its fate, the rest stays in hand. *)
LEMMA Settles ==
    ASSUME PushInv, push.pc \in {"post", "prune", "receipts", "bury"}, NEW m,
           m.pc \in {"post", "prune", "bury", "next"}, m.todo = push.todo, m.rest = push.rest,
           m.again = push.again, NEW F \in SUBSET Tokens,
           \A t \in Tokens : t \notin F => m.fate[t] = push.fate[t],
           \A t \in F : m.fate[t] # "none",
           Handed(m) = Handed(push) \ F, F \subseteq Handed(push),
           m.ids \cap m.retry = {}, m.ids \cap m.perm = {}, m.retry \cap m.perm = {},
           m.pc \in {"post", "next"} => m.ids = {} /\ m.retry = {} /\ m.perm = {},
           m.pc = "bury" => m.ids = {}
    PROVE  QueuesOK(m) /\ FatesOK(m) /\ \A t \in Tokens : Seen(t, push) => Seen(t, m)
<1>1. /\ push.todo = <<>> /\ ToSet(push.todo) = {} /\ Waiting(push) = ToSet(push.rest) \cup Handed(push)
      /\ Queue(push.todo) /\ Queue(push.rest)
      /\ Handed(push) \cap ToSet(push.rest) = {}
  BY Batches, Sends
<1>2. Waiting(m) = Waiting(push) \ F
  BY <1>1 DEF Waiting
<1>3. QueuesOK(m)
  BY <1>1 DEF QueuesOK
<1>4. Waiting(push) \subseteq Tokens
  BY <1>1, Sends DEF Handed, PushMemory
<1>5. FatesOK(m)
  BY <1>2, <1>4, Sends DEF FatesOK
<1>6. \A t \in Tokens : Seen(t, push) => Seen(t, m)
  BY <1>2 DEF Seen
<1> QED BY <1>3, <1>5, <1>6

LEMMA TicketsStep ==
    ASSUME TypeInv, PushInv, NEW w \in Workers, NEW f \in [Sending -> Answers], Tickets(w, f)
    PROVE  PushInv'
<1>0. /\ push \in PushMemory /\ On(w, "sending") /\ UNCHANGED <<scene, run, owner>> /\ push.pc = "post"
      /\ push.ids = {} /\ push.retry = {} /\ push.perm = {}
  BY DEF PushInv, QueuesOK, Tickets, Pushing, env
<1>1. /\ Handed(push) = Sending /\ Sending \subseteq Tokens /\ Sending \subseteq Waiting(push)
      /\ ~push.again /\ \A t \in Sending : push.fate[t] = "none"
  BY <1>0, Sends DEF Handed, Sending, Waiting
<1> DEFINE V == Given(f, "invalid")
           N == Given(f, "none")
           K == Given(f, "ok")
           R == Retried(f)
           B == Buried(f)
           g == [t \in Tokens |-> IF t \in V THEN "pruned" ELSE IF t \in N THEN "unanswered" ELSE push.fate[t]]
           a == push.again \/ \E t \in Sending : push.fate[t] # "none"
           m == [push EXCEPT !.pc = "prune", !.invalid = V, !.ids = K, !.retry = R, !.perm = B,
                             !.fate = g, !.again = a]
<1>2. push' = m
  BY DEF Tickets
<1>3. /\ V \subseteq Sending /\ N \subseteq Sending /\ K \subseteq Sending /\ R \subseteq Sending
      /\ B \subseteq Sending /\ Sending = K \cup V \cup N \cup R \cup B
      /\ R \cap B = {} /\ K \cap R = {} /\ K \cap B = {} /\ V \cap R = {} /\ V \cap B = {}
      /\ N \cap R = {} /\ N \cap B = {} /\ K \cap V = {} /\ K \cap N = {}
  BY <1>1, Sorts
<1>4. a = FALSE
  BY <1>1
<1> HIDE DEF V, N, K, R, B, a
<1>5. /\ g \in [Tokens -> Fates]
      /\ \A t \in Tokens : t \notin V \cup N => g[t] = push.fate[t]
      /\ \A t \in Tokens : t \in V \cup N => g[t] # "none"
  BY <1>0 DEF PushMemory, Fates
<1> HIDE DEF g
<1>6. /\ m \in PushMemory /\ m.pc = "prune" /\ m.todo = push.todo /\ m.rest = push.rest
      /\ m.ids = K /\ m.retry = R /\ m.perm = B /\ m.fate = g /\ m.again = push.again
  BY <1>0, <1>1, <1>3, <1>4, <1>5 DEF PushMemory
<1> HIDE DEF m
<1>7. Handed(m) = Handed(push) \ (V \cup N)
  BY <1>1, <1>3, <1>6 DEF Handed
<1>8. QueuesOK(m) /\ FatesOK(m) /\ \A t \in Tokens : Seen(t, push) => Seen(t, m)
  <2> DEFINE F == V \cup N
  <2>1. /\ F \in SUBSET Tokens /\ F \subseteq Handed(push) /\ Handed(m) = Handed(push) \ F
        /\ \A t \in Tokens : t \notin F => m.fate[t] = push.fate[t]
        /\ \A t \in F : m.fate[t] # "none"
    BY <1>1, <1>3, <1>5, <1>6, <1>7
  <2> HIDE DEF F
  <2> QED BY <1>0, <1>3, <1>6, <2>1, Settles
<1> QED BY <1>0, <1>2, <1>6, <1>8, SendsOn

LEMMA PruneStep == ASSUME TypeInv, PushInv, NEW w \in Workers, Prune(w) PROVE PushInv'
<1>0. /\ push \in PushMemory /\ On(w, "sending") /\ UNCHANGED <<scene, run>> /\ push.pc = "prune"
  BY DEF PushInv, Prune, Pushing, Failing, env
<1> DEFINE m == [push EXCEPT !.pc = IF push.ids = {} THEN "bury" ELSE "receipts", !.invalid = {}]
<1>1. push' = m
  BY DEF Prune
<1>2. /\ m \in PushMemory /\ m.pc \in {"bury", "receipts"} /\ (m.pc = "bury" => push.ids = {})
      /\ m.todo = push.todo /\ m.rest = push.rest
      /\ m.fate = push.fate /\ m.ids = push.ids /\ m.retry = push.retry /\ m.perm = push.perm
      /\ m.again = push.again /\ m.gaveUp = push.gaveUp
  BY <1>0 DEF PushMemory
<1> HIDE DEF m
<1>3. Handed(m) = Handed(push)
  BY <1>0, <1>2 DEF Handed
<1>4. push.todo = <<>>
  BY <1>0, Batches
<1>5. QueuesOK(m) /\ FatesOK(m) /\ \A t \in Tokens : Seen(t, push) => Seen(t, m)
  BY <1>0, <1>2, <1>3, <1>4, Unheaped
<1> QED BY <1>0, <1>1, <1>2, <1>5, SendsOn

LEMMA ReceiptsStep ==
    ASSUME TypeInv, PushInv, NEW w \in Workers, NEW g \in [push.ids -> Answers], Receipts(w, g)
    PROVE  PushInv'
<1>0. /\ push \in PushMemory /\ On(w, "sending") /\ UNCHANGED <<scene, run, owner>> /\ push.pc = "receipts"
      /\ push.ids \subseteq Tokens /\ push.retry \subseteq Tokens /\ push.perm \subseteq Tokens
      /\ push.ids \cap push.retry = {} /\ push.ids \cap push.perm = {} /\ push.retry \cap push.perm = {}
  BY DEF PushInv, PushMemory, QueuesOK, Receipts, Pushing, env
<1>1. Handed(push) = push.ids \cup push.retry \cup push.perm
  BY <1>0 DEF Handed
<1> DEFINE V == Given(g, "invalid")
           N == Given(g, "none")
           K == Given(g, "ok")
           R == Retried(g)
           B == Buried(g)
           f == [t \in Tokens |-> IF t \in V THEN "pruned"
                                  ELSE IF t \in K \cup N THEN "delivered" ELSE push.fate[t]]
           m == [push EXCEPT !.pc = "prune", !.ids = {}, !.invalid = V, !.retry = push.retry \cup R,
                             !.perm = push.perm \cup B, !.fate = f]
<1>2. push' = m
  BY DEF Receipts, Permanent
<1>3. /\ V \subseteq push.ids /\ N \subseteq push.ids /\ K \subseteq push.ids /\ R \subseteq push.ids
      /\ B \subseteq push.ids /\ push.ids = K \cup V \cup N \cup R \cup B
      /\ R \cap B = {} /\ K \cap R = {} /\ K \cap B = {} /\ V \cap R = {} /\ V \cap B = {}
      /\ N \cap R = {} /\ N \cap B = {}
  BY <1>0, Sorts
<1> HIDE DEF V, N, K, R, B
<1>4. /\ f \in [Tokens -> Fates]
      /\ \A t \in Tokens : t \notin V \cup N \cup K => f[t] = push.fate[t]
      /\ \A t \in Tokens : t \in V \cup N \cup K => f[t] # "none"
  BY <1>0 DEF PushMemory, Fates
<1> HIDE DEF f
<1>5. /\ m \in PushMemory /\ m.pc = "prune" /\ m.todo = push.todo /\ m.rest = push.rest
      /\ m.ids = {} /\ m.retry = push.retry \cup R /\ m.perm = push.perm \cup B /\ m.fate = f
      /\ m.again = push.again
  BY <1>0, <1>3, <1>4 DEF PushMemory
<1> HIDE DEF m
<1>6. Handed(m) = Handed(push) \ (V \cup N \cup K)
  BY <1>0, <1>1, <1>3, <1>5 DEF Handed
<1>7. QueuesOK(m) /\ FatesOK(m) /\ \A t \in Tokens : Seen(t, push) => Seen(t, m)
  <2> DEFINE F == V \cup N \cup K
  <2>1. /\ F \in SUBSET Tokens /\ F \subseteq Handed(push) /\ Handed(m) = Handed(push) \ F
        /\ \A t \in Tokens : t \notin F => m.fate[t] = push.fate[t]
        /\ \A t \in F : m.fate[t] # "none"
    BY <1>0, <1>1, <1>3, <1>4, <1>5, <1>6
  <2>2. m.retry \cap m.perm = {}
    BY <1>0, <1>3, <1>5
  <2> HIDE DEF F
  <2> QED BY <1>0, <1>5, <2>1, <2>2, Settles
<1> QED BY <1>0, <1>2, <1>5, <1>7, SendsOn

LEMMA ReceiptsFailStep == ASSUME TypeInv, PushInv, NEW w \in Workers, ReceiptsFail(w) PROVE PushInv'
<1>0. /\ push \in PushMemory /\ On(w, "sending") /\ UNCHANGED <<scene, run, owner>> /\ push.pc = "receipts"
      /\ push.ids \subseteq Tokens /\ push.retry \cap push.perm = {}
      /\ push.ids \cap push.retry = {} /\ push.ids \cap push.perm = {}
  BY DEF PushInv, PushMemory, QueuesOK, ReceiptsFail, Pushing, env
<1> DEFINE F == push.ids
           f == Fated(push.ids, "delivered")
           m == [push EXCEPT !.pc = "bury", !.fate = f, !.ids = {}]
<1>1. push' = m
  BY DEF ReceiptsFail
<1>2. /\ f \in [Tokens -> Fates]
      /\ \A t \in Tokens : f[t] = IF t \in F THEN "delivered" ELSE push.fate[t]
  BY <1>0 DEF Fated, PushMemory, Fates
<1> HIDE DEF f
<1>3. /\ m \in PushMemory /\ m.pc = "bury" /\ m.todo = push.todo /\ m.rest = push.rest
      /\ m.ids = {} /\ m.retry = push.retry /\ m.perm = push.perm /\ m.fate = f /\ m.again = push.again
  BY <1>0, <1>2 DEF PushMemory
<1> HIDE DEF m
<1>4. /\ Handed(m) = Handed(push) \ F /\ F \in SUBSET Tokens /\ F \subseteq Handed(push)
      /\ \A t \in Tokens : t \notin F => m.fate[t] = push.fate[t]
      /\ \A t \in F : m.fate[t] # "none"
  BY <1>0, <1>2, <1>3 DEF Handed
<1>5. QueuesOK(m) /\ FatesOK(m) /\ \A t \in Tokens : Seen(t, push) => Seen(t, m)
  <2> HIDE DEF F
  <2> QED BY <1>0, <1>3, <1>4, Settles
<1> QED BY <1>0, <1>1, <1>3, <1>5, SendsOn

LEMMA BuryStep == ASSUME TypeInv, PushInv, NEW w \in Workers, Bury(w) PROVE PushInv'
<1>0. /\ push \in PushMemory /\ On(w, "sending") /\ UNCHANGED <<scene, run, owner>> /\ push.pc = "bury"
      /\ push.perm \subseteq Tokens /\ push.retry \subseteq Tokens /\ push.ids = {}
      /\ push.retry \cap push.perm = {}
  BY DEF PushInv, PushMemory, QueuesOK, Bury, Pushing, env
<1> DEFINE F == push.perm
           f == Fated(push.perm, "buried")
<1>1. /\ f \in [Tokens -> Fates]
      /\ \A t \in Tokens : f[t] = IF t \in F THEN "buried" ELSE push.fate[t]
  BY <1>0 DEF Fated, PushMemory, Fates
<1>2. Handed(push) = push.retry \cup F /\ F \in SUBSET Tokens /\ F \subseteq Handed(push)
  BY <1>0 DEF Handed
<1>3. CASE push.retry # {}
  <2> DEFINE s == SetToSeq(push.retry)
             n == push.attempt + 1
             m == [push EXCEPT !.pc = "post", !.attempt = n, !.send = s, !.retry = {}, !.perm = {},
                               !.fate = f]
  <2>1. push' = m
    BY <1>3 DEF Bury
  <2>2. s \in Seq(Tokens) /\ ToSet(s) = push.retry
    BY <1>0, QueueOfSet DEF Queue
  <2>0. n \in Nat
    BY <1>0 DEF PushMemory
  <2> HIDE DEF s, f, n
  <2>3. /\ m \in PushMemory /\ m.pc = "post" /\ m.todo = push.todo /\ m.rest = push.rest /\ m.send = s
        /\ m.ids = {} /\ m.retry = {} /\ m.perm = {} /\ m.fate = f /\ m.again = push.again
    BY <1>0, <1>1, <2>0, <2>2 DEF PushMemory
  <2> HIDE DEF m
  <2>4. Handed(m) = Handed(push) \ F
    BY <1>0, <1>2, <2>2, <2>3 DEF Handed
  <2>5. /\ \A t \in Tokens : t \notin F => m.fate[t] = push.fate[t]
        /\ \A t \in F : m.fate[t] # "none"
    BY <1>1, <1>2, <2>3
  <2>6. QueuesOK(m) /\ FatesOK(m) /\ \A t \in Tokens : Seen(t, push) => Seen(t, m)
    <3> HIDE DEF F
    <3> QED BY <1>0, <1>2, <2>3, <2>4, <2>5, Settles
  <2> QED BY <1>0, <2>1, <2>3, <2>6, SendsOn
<1>4. CASE push.retry = {}
  <2> DEFINE m == [push EXCEPT !.pc = "next", !.perm = {}, !.fate = f]
  <2>1. push' = m
    BY <1>4 DEF Bury
  <2> HIDE DEF f
  <2>2. /\ m \in PushMemory /\ m.pc = "next" /\ m.todo = push.todo /\ m.rest = push.rest
        /\ m.ids = {} /\ m.retry = {} /\ m.perm = {} /\ m.fate = f /\ m.again = push.again
    BY <1>0, <1>1, <1>4 DEF PushMemory
  <2> HIDE DEF m
  <2>3. Handed(m) = Handed(push) \ F
    BY <1>2, <1>4, <2>2 DEF Handed
  <2>4. /\ \A t \in Tokens : t \notin F => m.fate[t] = push.fate[t]
        /\ \A t \in F : m.fate[t] # "none"
    BY <1>1, <1>2, <2>2
  <2>5. QueuesOK(m) /\ FatesOK(m) /\ \A t \in Tokens : Seen(t, push) => Seen(t, m)
    <3> HIDE DEF F
    <3> QED BY <1>0, <1>2, <2>2, <2>3, <2>4, Settles
  <2> QED BY <1>0, <2>1, <2>2, <2>5, SendsOn
<1> QED BY <1>3, <1>4

LEMMA PushInit == NoticesInit => PushInv
<1> SUFFICES ASSUME NoticesInit PROVE PushInv
  OBVIOUS
<1>1. push \in PushMemory /\ QueuesOK(push) /\ FatesOK(push)
  BY NoPushOK DEF NoticesInit
<1>2. \A w \in Workers : run[w].pc = "idle" /\ \A t \in Tokens : run[w].to[t] = Nil
  BY DEF NoticesInit, NoRun
<1>3. OneRuns /\ PushOwned /\ AllInSight
  BY <1>2 DEF OneRuns, PushOwned, AllInSight, On
<1>4. NoDevices
  BY <1>2 DEF NoticesInit, NoDevices
<1> QED BY <1>1, <1>3, <1>4 DEF PushInv

LEMMA PushNext == AnnounceInv /\ PushInv /\ [NoticesNext]_noticesVars => PushInv'
<1> SUFFICES ASSUME AnnounceInv, PushInv, [NoticesNext]_noticesVars PROVE PushInv'
  OBVIOUS
<1>0. TypeInv
  BY DEF AnnounceInv
<1>1. CASE \/ UNCHANGED noticesVars \/ Tick \/ \E a \in scene.ads : HideAd(a)
           \/ \E p \in scene.providers : \/ Block(p) \/ RateExpires(p)
                                         \/ \E b \in Bodies : PutPrefs(p, b)
                                         \/ \E t \in Tokens : PutToken(t, p)
  <2>1. UNCHANGED <<scene, run, push>> /\ (In("push") \/ UNCHANGED owner)
    BY <1>1 DEF Tick, HideAd, Block, RateExpires, PutPrefs, PutToken, Changing, noticesVars, env,
                matching, pushing
  <2> QED BY <2>1, PushElsewhere
<1>2. CASE \E b \in Bells : Rings(b)
  <2>1. UNCHANGED <<scene, run, push, owner>>
    BY <1>2 DEF Rings, BellUnchanged, matching, pushing, env
  <2> QED BY <2>1, PushElsewhere
<1>3. CASE \E c \in Calls : \/ ListRead(c) \/ ReadFind(c) \/ ReadWrite(c) \/ ReadAll(c) \/ TellRead(c)
                            \/ FetchList(c) \/ ListShown(c) \/ ListFails(c)
                            \/ MarkAllRead(c) \/ \E b \in Bells : MarkRead(c, b)
                            \/ Acked(c) \/ MarkFails(c) \/ Lost(c)
  <2>1. BellUnchanged /\ UNCHANGED scene
    BY <1>3 DEF ListRead, ReadFind, ReadWrite, ReadAll, TellRead, FetchList, ListShown, ListFails,
                MarkAllRead, MarkRead, Marks, Acked, MarkFails, Lost, Failing, env
  <2>2. UNCHANGED <<scene, run, push, owner>>
    BY <2>1 DEF BellUnchanged, matching, pushing
  <2> QED BY <2>2, PushElsewhere
<1>4. ASSUME NEW w \in Workers,
             \/ \E a \in scene.ads : Announce(w, a)
             \/ \E S \in SUBSET scene.providers : Candidates(w, S)
             \/ DedupRead(w) \/ PrefsRead(w) \/ InstantCaps(w) \/ DigestCaps(w)
             \/ Commit(w) \/ Conflicts(w) \/ Schedule(w) \/ RunFails(w) \/ StartPush(w)
      PROVE  PushInv'
  BY <1>0, <1>4, UnsentSteps, RunFailsStep, StartPushStep
<1>5. ASSUME NEW w \in Workers,
             \/ Throttle(w) \/ SetExpiry(w) \/ NextBatch(w) \/ SendFails(w) \/ SendRefused(w)
             \/ \E f \in [Sending -> Answers] : Tickets(w, f)
             \/ Prune(w) \/ ReceiptsFail(w) \/ Bury(w)
             \/ \E g \in [push.ids -> Answers] : Receipts(w, g)
      PROVE  PushInv'
  BY <1>0, <1>5, ThrottleStep, NextBatchStep, SendFailsStep, TicketsStep, PruneStep, ReceiptsFailStep,
     BuryStep, ReceiptsStep
<1> QED BY <1>1, <1>2, <1>3, <1>4, <1>5 DEF NoticesNext

(* Whatever Expo answers, however the devices are batched and retried, and  *)
(* wherever a send gives up: none is sent a second message for one fate,    *)
(* and none that was to be told of the job is forgotten.                    *)
THEOREM PushesAreAccounted == NoticesSpec => []PushAccounted
<1>1. ASSUME PushInv PROVE PushAccounted
  <2>1. ~push.again
    BY <1>1, Sends
  <2>2. ASSUME push.pc = "ended", NEW w \in Workers, NEW t \in Tokens,
               run[w].pc = "schedule", run[w].to[t] \in run[w].instant
        PROVE  push.fate[t] # "none" \/ (push.gaveUp /\ t \in ToSet(push.rest))
    <3>1. Seen(t, push)
      BY <1>1, <2>2 DEF PushInv, AllInSight, On, InSight
    <3>2. /\ push.ids = {} /\ push.retry = {} /\ push.perm = {} /\ (push.rest = <<>> \/ push.gaveUp)
      BY <1>1, <2>2 DEF PushInv, QueuesOK
    <3>3. Waiting(push) = ToSet(push.rest)
      BY <1>1, <2>2, <3>2, Batches DEF Handed
    <3> QED BY <3>1, <3>2, <3>3, EmptyQueue DEF Seen
  <2> QED BY <2>1, <2>2 DEF PushAccounted
<1>2. NoticesInit => AnnounceInv /\ PushInv
  BY AnnounceInit, PushInit
<1>3. AnnounceInv /\ PushInv /\ [NoticesNext]_noticesVars => AnnounceInv' /\ PushInv'
  BY AnnounceNext, PushNext
<1> QED BY <1>1, <1>2, <1>3, PTL DEF NoticesSpec
=============================================================================
