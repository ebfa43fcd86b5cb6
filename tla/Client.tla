------------------------------- MODULE Client -------------------------------
(***************************************************************************)
(* The session of the mobile app (context/AuthContext.tsx): the stored     *)
(* token, the signed-in user, and the subscription that is fetched and     *)
(* cached for that user (context/SubscriptionContext.tsx); composed with   *)
(* the Screens.                                                            *)
(*                                                                         *)
(* A token is the user it belongs to.  Each request reads the stored token *)
(* when it is sent (lib/apiClient.ts), which is after it was started.      *)
(***************************************************************************)
EXTENDS Screens

CONSTANTS People,
          Ops          \* taps on log in or log out at once

ASSUME ClientAssumption == None \notin People

VARIABLES
    stored,            \* the token in SecureStore
    token, user, booting, \* the state of AuthProvider
    op,                \* op[o]: a login or a logout under way
    me,                \* me[c]: a GET /me
    mounted,           \* the GET /me whose effect is mounted
    sub, subLatest,    \* the subscription shown, and its requestIdRef
    fetch,             \* fetch[c]: a GET /subscription
    cache,             \* the subscription cached in SecureStore
    hydrations,        \* reads of the cache under way
    fresh              \* history: the newest answer, not the cache, is what is shown

sessionVars == <<stored, token, user, booting, op, me, mounted, sub, subLatest, fetch, cache,
                 hydrations, fresh>>
auth == <<token, user, booting>>
subscription == <<sub, subLatest, fetch, cache, hydrations, fresh>>
others2 == <<screen, rows, query, debounce, focus, list, text>>
vars == <<screenVars, sessionVars>>

NoOp == [pc |-> "idle", who |-> None]

Init ==
    /\ ScreensInit
    /\ IF screen = "session" THEN stored \in People \cup {None} ELSE stored = None
    /\ token = None /\ user = None /\ booting = TRUE
    /\ op = [o \in Ops |-> NoOp]
    /\ me = [c \in Calls |-> NoOp] /\ mounted = None
    /\ sub = None /\ subLatest = None
    /\ fetch = [c \in Calls |-> NoOp]
    /\ cache = None /\ hydrations = 0 /\ fresh = FALSE

InSession == screen = "session"

----------------------------------------------------------------------------
(* The effects of a change of token or user *)

(* GET /me, when there is a token and no user; the one before is unmounted. *)
MeEffect == IF token' # None /\ user' = None
              THEN \E c \in Calls : /\ me[c].pc = "idle"
                                    /\ me' = [me EXCEPT ![c].pc = "read"]
                                    /\ mounted' = c
              ELSE mounted' = None /\ UNCHANGED me

StartFetch(c) == /\ fetch[c].pc = "idle"
                 /\ fetch' = [fetch EXCEPT ![c].pc = "read"]
                 /\ subLatest' = c /\ fresh' = FALSE

(* The cache and the server are read at the same time. *)
SubEffect == IF token' # None
               THEN /\ hydrations < Cardinality(Calls)
                    /\ hydrations' = hydrations + 1
                    /\ \E c \in Calls : StartFetch(c)
                    /\ UNCHANGED <<sub, cache>>
               ELSE sub' = None /\ fresh' = FALSE /\ UNCHANGED <<subLatest, fetch, cache, hydrations>>

Effects == /\ MeEffect
           /\ IF token' = token /\ booting' = booting THEN UNCHANGED subscription ELSE SubEffect

Hydrate ==
    /\ InSession /\ booting
    /\ token' = stored /\ booting' = FALSE /\ UNCHANGED user
    /\ Effects
    /\ UNCHANGED <<screenVars, stored, op>>

----------------------------------------------------------------------------
(* Logging in, signing up, logging out *)

LogIn(o, u) ==
    /\ InSession /\ ~booting /\ token = None
    /\ op[o].pc = "idle" /\ \A p \in Ops : op[p].who = None
    /\ op' = [op EXCEPT ![o] = [pc |-> "save", who |-> u]]
    /\ UNCHANGED <<screenVars, stored, auth, me, mounted, subscription>>

SaveAuthToken(o) ==
    /\ op[o].pc = "save"
    /\ stored' = op[o].who
    /\ op' = [op EXCEPT ![o].pc = "login"]
    /\ UNCHANGED <<screenVars, auth, me, mounted, subscription>>

LoggedIn(o) ==
    /\ op[o].pc = "login"
    /\ token' = op[o].who /\ user' = op[o].who /\ UNCHANGED booting
    /\ op' = [op EXCEPT ![o] = NoOp]
    /\ Effects
    /\ UNCHANGED <<screenVars, stored>>

LogOut(o) ==
    /\ token # None
    /\ op[o].pc = "idle"
    /\ op' = [op EXCEPT ![o].pc = "delete"]
    /\ UNCHANGED <<screenVars, stored, auth, me, mounted, subscription>>

(* An error of the store is ignored. *)
DeleteAuthToken(o) ==
    /\ op[o].pc = "delete"
    /\ \/ stored' = None /\ UNCHANGED failures
       \/ Breaks /\ UNCHANGED stored
    /\ op' = [op EXCEPT ![o].pc = "logout"]
    /\ UNCHANGED <<others2, auth, me, mounted, subscription>>

LoggedOut(o) ==
    /\ op[o].pc = "logout"
    /\ token' = None /\ user' = None /\ UNCHANGED booting
    /\ op' = [op EXCEPT ![o] = NoOp]
    /\ Effects
    /\ UNCHANGED <<screenVars, stored>>

(* The app is closed and opened again. *)
Restart ==
    /\ InSession /\ Breaks
    /\ token' = None /\ user' = None /\ booting' = TRUE
    /\ op' = [o \in Ops |-> NoOp]
    /\ me' = [c \in Calls |-> NoOp] /\ mounted' = None
    /\ sub' = None /\ subLatest' = None /\ fetch' = [c \in Calls |-> NoOp]
    /\ hydrations' = 0 /\ fresh' = FALSE
    /\ UNCHANGED <<others2, stored, cache>>

----------------------------------------------------------------------------
(* Requests with the stored token *)

Reads(calls, c) == calls[c].pc = "read" /\ stored # None

MeRead(c) ==
    /\ Reads(me, c)
    /\ me' = [me EXCEPT ![c] = [pc |-> "answer", who |-> stored]]
    /\ UNCHANGED <<screenVars, stored, auth, op, mounted, subscription>>

Mounted_Always(c) == TRUE                                                  \* mutant
Mounted(c) == mounted = c

MeAnswer(c) ==
    /\ me[c].pc = "answer"
    /\ me' = [me EXCEPT ![c] = NoOp]
    /\ IF Mounted(c) THEN user' = me[c].who /\ mounted' = None ELSE UNCHANGED <<user, mounted>>
    /\ UNCHANGED <<screenVars, stored, token, booting, op, subscription>>

(* Without a token the server refuses. *)
MeFails(c) ==
    /\ me[c].pc # "idle"
    /\ me[c].pc = "answer" \/ stored = None
    /\ me' = [me EXCEPT ![c] = NoOp]
    /\ UNCHANGED <<screenVars, stored, auth, op, mounted, subscription>>

FetchSubscription(c) ==
    /\ token # None
    /\ StartFetch(c)
    /\ UNCHANGED <<screenVars, stored, auth, op, me, mounted, sub, cache, hydrations>>

SubRead(c) ==
    /\ Reads(fetch, c)
    /\ fetch' = [fetch EXCEPT ![c] = [pc |-> "answer", who |-> stored]]
    /\ UNCHANGED <<screenVars, stored, auth, op, me, mounted, sub, subLatest, cache, hydrations, fresh>>

SubCurrent(c) == subLatest = c

SubAnswer(c) ==
    /\ fetch[c].pc = "answer"
    /\ IF SubCurrent(c)
         THEN sub' = fetch[c].who /\ fresh' = TRUE /\ fetch' = [fetch EXCEPT ![c].pc = "cache"]
         ELSE fetch' = [fetch EXCEPT ![c] = NoOp] /\ UNCHANGED <<sub, fresh>>
    /\ UNCHANGED <<screenVars, stored, auth, op, me, mounted, subLatest, cache, hydrations>>

SubCache(c) ==
    /\ fetch[c].pc = "cache"
    /\ cache' = fetch[c].who
    /\ fetch' = [fetch EXCEPT ![c] = NoOp]
    /\ UNCHANGED <<screenVars, stored, auth, op, me, mounted, sub, subLatest, hydrations, fresh>>

SubFails(c) ==
    /\ fetch[c].pc = "answer" \/ (fetch[c].pc = "read" /\ stored = None)
    /\ fetch' = [fetch EXCEPT ![c] = NoOp]
    /\ UNCHANGED <<screenVars, stored, auth, op, me, mounted, sub, subLatest, cache, hydrations, fresh>>

(* Whatever has been answered since, and whoever's the cache is *)
HydrateFromCache ==
    /\ hydrations > 0
    /\ hydrations' = hydrations - 1
    /\ sub' = IF cache = None THEN sub ELSE cache
    /\ fresh' = (fresh /\ cache = None)
    /\ UNCHANGED <<screenVars, stored, auth, op, me, mounted, subLatest, fetch, cache>>

SessionNext ==
    \/ Hydrate \/ Restart \/ HydrateFromCache
    \/ \E o \in Ops : \/ \E u \in People : LogIn(o, u)
                      \/ SaveAuthToken(o) \/ LoggedIn(o)
                      \/ LogOut(o) \/ DeleteAuthToken(o) \/ LoggedOut(o)
    \/ \E c \in Calls : \/ MeRead(c) \/ MeAnswer(c) \/ MeFails(c)
                        \/ FetchSubscription(c) \/ SubRead(c) \/ SubAnswer(c) \/ SubCache(c) \/ SubFails(c)

Next == (~InSession /\ ScreensNext /\ UNCHANGED sessionVars) \/ SessionNext

Spec == Init /\ [][Next]_vars

----------------------------------------------------------------------------
(* Properties *)

(* The user shown is the one whose token is in use, however late GET /me is *)
(* answered; and unless the cache was read later, the newest answer to GET  *)
(* /subscription is of that user, whoever was signed in when others began.  *)
SessionAgrees ==
    /\ user # None => user = token
    /\ fresh /\ token # None => sub = token
=============================================================================
