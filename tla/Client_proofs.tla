---------------------------- MODULE Client_proofs ----------------------------
(***************************************************************************)
(* Proofs about the mobile app.                                            *)
(***************************************************************************)
EXTENDS Client, Discovery, Workspace, FiniteSetTheorems, SequenceTheorems, TLAPS

----------------------------------------------------------------------------
(* Sorted lists *)

(* R is a strict total order of S; s is in this order. *)
Orders(R, S) ==
    /\ \A x, y \in S : x # y => <<x, y>> \in R \/ <<y, x>> \in R
    /\ \A x, y, z \in S : <<x, y>> \in R /\ <<y, z>> \in R => <<x, z>> \in R
    /\ \A x \in S : <<x, x>> \notin R
InOrder(s, R) == \A i, j \in DOMAIN s : i < j => <<s[i], s[j]>> \in R

ListOf(s, S, R) == s \in [1 .. Cardinality(S) -> S] /\ InOrder(s, R)

(* s has each element of S once. *)
Whole(s, S) ==
    /\ DOMAIN s = 1 .. Cardinality(S)
    /\ \A i, j \in DOMAIN s : s[i] = s[j] => i = j
    /\ \A x \in S : \E i \in DOMAIN s : s[i] = x

(* A set of numbers has a least one. *)
LEMMA Least ==
    ASSUME NEW T \in SUBSET Nat, T # {}
    PROVE \E n \in T : \A m \in T : n <= m
<1> DEFINE R == OpToRel(<, Nat)
<1>1. IsWellFoundedOn(R, Nat)
  BY NatLessThanWellFounded
<1>2. \A m, n \in Nat : m < n => <<m, n>> \in R
  BY DEF OpToRel
<1> HIDE DEF R
<1>3. PICK n \in T : \A m \in T : ~(<<m, n>> \in R)
  BY <1>1, WFMin
<1>4. ASSUME NEW m \in T PROVE n <= m
  <2>1. m \in Nat /\ n \in Nat
    OBVIOUS
  <2>2. ~ (<<m, n>> \in R)
    BY <1>3
  <2>3. ~ (m < n)
    BY <1>2, <2>1, <2>2
  <2> QED BY <2>1, <2>3
<1> QED
  BY <1>4

(* A set that is not empty has a first element. *)
LEMMA FirstExists ==
    ASSUME NEW U, NEW R, Orders(R, U), NEW S \in SUBSET U, IsFiniteSet(S), S # {}
    PROVE \E x \in S : \A y \in S \ {x} : <<x, y>> \in R
<1> DEFINE First(X) == \E x \in X : \A y \in X \ {x} : <<x, y>> \in R
           Bad == {X \in SUBSET U : IsFiniteSet(X) /\ X # {} /\ ~First(X)}
           Sizes == {Cardinality(X) : X \in Bad}
<1> SUFFICES ASSUME Bad # {} PROVE FALSE
  OBVIOUS
<1>1. Sizes \in SUBSET Nat /\ Sizes # {}
  BY FS_CardinalityType
<1>2. PICK n \in Sizes : \A m \in Sizes : n <= m
  BY <1>1, Least
<1>3. PICK X \in Bad : Cardinality(X) = n
  OBVIOUS
<1>a. n \in Nat /\ \A Y \in Bad : Cardinality(Y) \in Nat /\ n <= Cardinality(Y)
  BY <1>1, <1>2
<1>4. PICK x \in X : TRUE
  OBVIOUS
<1>5. IsFiniteSet(X \ {x}) /\ Cardinality(X \ {x}) = n - 1
  BY <1>3, <1>4, FS_RemoveElement
<1>6. X \ {x} # {}
  BY <1>3, <1>4
<1>7. First(X \ {x})
  <2>1. ~ (X \ {x} \in Bad)
    <3> HIDE DEF Bad
    <3> QED BY <1>a, <1>5
  <2> QED BY <2>1, <1>3, <1>5, <1>6
<1>8. PICK y \in X \ {x} : \A z \in (X \ {x}) \ {y} : <<y, z>> \in R
  BY <1>7
<1>9. X \subseteq U
  BY <1>3
<1>10. CASE <<x, y>> \in R
  <2>1. \A z \in X \ {x} : <<x, z>> \in R
    BY <1>4, <1>8, <1>9, <1>10 DEF Orders
  <2> QED BY <2>1, <1>3, <1>4
<1>11. CASE <<y, x>> \in R
  <2>1. \A z \in X \ {y} : <<y, z>> \in R
    BY <1>8, <1>11
  <2> QED BY <2>1, <1>3, <1>8
<1> QED
  BY <1>4, <1>8, <1>9, <1>10, <1>11 DEF Orders

(* Every finite set can be put in order. *)
LEMMA SortedExists ==
    ASSUME NEW S, NEW R, Orders(R, S), IsFiniteSet(S)
    PROVE \E s : ListOf(s, S, R)
<1> DEFINE Ok(X) == \E s \in [1 .. Cardinality(X) -> X] : InOrder(s, R)
           Bad == {X \in SUBSET S : IsFiniteSet(X) /\ ~Ok(X)}
           Sizes == {Cardinality(X) : X \in Bad}
<1> SUFFICES ASSUME Bad # {} PROVE FALSE
  BY DEF ListOf
<1>1. Sizes \in SUBSET Nat /\ Sizes # {}
  BY FS_CardinalityType
<1>2. PICK n \in Sizes : \A m \in Sizes : n <= m
  BY <1>1, Least
<1>3. PICK X \in Bad : Cardinality(X) = n
  OBVIOUS
<1>a. n \in Nat /\ \A Y \in Bad : Cardinality(Y) \in Nat /\ n <= Cardinality(Y)
  BY <1>1, <1>2
<1>4. X # {}
  <2> SUFFICES ASSUME X = {} PROVE Ok(X)
    BY <1>3
  <2>1. Cardinality(X) = 0
    BY FS_EmptySet
  <2>2. [i \in 1 .. 0 |-> i] \in [1 .. Cardinality(X) -> X]
    BY <2>1
  <2>3. InOrder([i \in 1 .. 0 |-> i], R)
    BY DEF InOrder
  <2> QED BY <2>2, <2>3
<1>5. PICK x \in X : \A y \in X \ {x} : <<x, y>> \in R
  BY <1>3, <1>4, FirstExists
<1>6. IsFiniteSet(X \ {x}) /\ Cardinality(X \ {x}) = n - 1 /\ n \in Nat \ {0}
  <2>1. n # 0
    BY <1>3, <1>4, FS_EmptySet
  <2> QED BY <2>1, <1>a, <1>3, FS_RemoveElement
<1>7. Ok(X \ {x})
  <2>1. ~ (X \ {x} \in Bad)
    <3> HIDE DEF Bad
    <3> QED BY <1>a, <1>6
  <2> QED BY <2>1, <1>3, <1>6
<1>8. PICK t \in [1 .. n - 1 -> X \ {x}] : InOrder(t, R)
  BY <1>6, <1>7
<1> DEFINE s == [i \in 1 .. n |-> IF i = 1 THEN x ELSE t[i - 1]]
<1>9. s \in [1 .. n -> X]
  BY <1>6, <1>8
<1>10. InOrder(s, R)
  <2> SUFFICES ASSUME NEW i \in 1 .. n, NEW j \in 1 .. n, i < j PROVE <<s[i], s[j]>> \in R
    BY DEF InOrder
  <2>1. j - 1 \in 1 .. n - 1 /\ s[j] = t[j - 1] /\ t[j - 1] \in X \ {x}
    BY <1>6, <1>8
  <2>2. CASE i = 1
    BY <1>5, <2>1, <2>2
  <2>3. CASE i # 1
    <3>1. i - 1 \in 1 .. n - 1 /\ s[i] = t[i - 1] /\ i - 1 < j - 1
      BY <1>6, <2>3
    <3> QED BY <2>1, <3>1, <1>8 DEF InOrder
  <2> QED BY <2>2, <2>3
<1> QED
  BY <1>3, <1>9, <1>10

(* A list in order has no element twice; if it is as long as its set, it    *)
(* has each of them.                                                        *)
LEMMA SortedWhole ==
    ASSUME NEW S, NEW R, Orders(R, S), IsFiniteSet(S), NEW s, ListOf(s, S, R)
    PROVE Whole(s, S)
<1> USE DEF ListOf, Whole
<1> DEFINE n == Cardinality(S)
<1>1. n \in Nat
  BY FS_CardinalityType
<1>2. \A i, j \in 1 .. n : s[i] = s[j] => i = j
  <2> SUFFICES ASSUME NEW i \in 1 .. n, NEW j \in 1 .. n, s[i] = s[j], i # j PROVE FALSE
    OBVIOUS
  <2>1. i < j \/ j < i
    OBVIOUS
  <2>2. <<s[i], s[i]>> \in R
    BY <2>1 DEF InOrder
  <2> QED BY <2>2 DEF Orders
<1>3. s \in Injection(1 .. n, S)
  BY <1>2 DEF Injection, IsInjective
<1>4. IsFiniteSet(1 .. n) /\ Cardinality(1 .. n) = n
  BY <1>1, FS_Interval
<1>5. s \in Surjection(1 .. n, S)
  BY <1>3, <1>4, FS_Injection
<1> QED
  BY <1>2, <1>5 DEF Surjection

(* There is one list of a set in order. *)
LEMMA SortedOnce ==
    ASSUME NEW S, NEW R, Orders(R, S), IsFiniteSet(S),
           NEW s, ListOf(s, S, R), NEW t, ListOf(t, S, R)
    PROVE s = t
<1> DEFINE n == Cardinality(S)
           Apart == {i \in 1 .. n : s[i] # t[i]}
<1> SUFFICES ASSUME Apart # {} PROVE FALSE
  <2>1. s = [i \in 1 .. n |-> s[i]] /\ t = [i \in 1 .. n |-> t[i]]
    BY DEF ListOf
  <2>2. ASSUME Apart = {} PROVE s = t
    <3>1. \A i \in 1 .. n : s[i] = t[i]
      BY <2>2
    <3> QED BY <2>1, <3>1
  <2> QED BY <2>2
<1>1. n \in Nat
  BY FS_CardinalityType
<1>a. Apart \in SUBSET Nat
  BY <1>1
<1>2. PICK i \in Apart : \A m \in Apart : i <= m
  <2> HIDE DEF Apart
  <2> QED BY <1>a, Least
<1>b. /\ \A h, m \in 1 .. n : s[h] = s[m] => h = m
      /\ \A x \in S : \E h \in 1 .. n : s[h] = x
  <2>1. Whole(s, S)
    BY SortedWhole
  <2> QED BY <2>1 DEF Whole
<1>c. /\ \A h, m \in 1 .. n : t[h] = t[m] => h = m
      /\ \A x \in S : \E h \in 1 .. n : t[h] = x
  <2>1. Whole(t, S)
    BY SortedWhole
  <2> QED BY <2>1 DEF Whole
<1>d. i \in 1 .. n /\ s[i] # t[i] /\ s[i] \in S /\ t[i] \in S
  BY DEF ListOf
<1>3. PICK j \in 1 .. n : t[j] = s[i]
  BY <1>c, <1>d
<1>4. PICK k \in 1 .. n : s[k] = t[i]
  BY <1>b, <1>d
<1>5. i < j
  <2> SUFFICES ASSUME j < i PROVE FALSE
    BY <1>3, <1>d
  <2>1. s[j] = t[j]
    BY <1>2
  <2> QED BY <2>1, <1>3, <1>b, <1>d
<1>6. i < k
  <2> SUFFICES ASSUME k < i PROVE FALSE
    BY <1>4, <1>d
  <2>1. s[k] = t[k]
    BY <1>2
  <2> QED BY <2>1, <1>4, <1>c, <1>d
<1>7. <<t[i], s[i]>> \in R /\ <<s[i], t[i]>> \in R
  BY <1>3, <1>4, <1>5, <1>6, <1>d DEF InOrder, ListOf
<1> QED
  BY <1>7, <1>d DEF Orders

(* A list in order that has each element is the list of its set. *)
LEMMA ListIs ==
    ASSUME NEW S, NEW R, Orders(R, S), IsFiniteSet(S), NEW n \in Nat, NEW s \in [1 .. n -> S],
           InOrder(s, R), \A x \in S : \E i \in 1 .. n : s[i] = x
    PROVE n = Cardinality(S) /\ ListOf(s, S, R)
<1>1. \A i, j \in 1 .. n : s[i] = s[j] => i = j
  <2> SUFFICES ASSUME NEW i \in 1 .. n, NEW j \in 1 .. n, s[i] = s[j], i # j PROVE FALSE
    OBVIOUS
  <2>1. i < j \/ j < i
    OBVIOUS
  <2>2. <<s[i], s[i]>> \in R
    BY <2>1 DEF InOrder
  <2> QED BY <2>2 DEF Orders
<1>2. s \in Bijection(1 .. n, S)
  BY <1>1 DEF Bijection, Injection, Surjection, IsInjective
<1>3. n = Cardinality(S)
  BY <1>2, FS_CountingElements DEF ExistsBijection
<1> QED
  BY <1>3 DEF ListOf

(* Lists of numbers, larger ones first *)
Above == {p \in Nat \X Nat : p[1] > p[2]}

NewestList(s, S) ==
    /\ s \in Seq(S)
    /\ \A i, j \in DOMAIN s : i < j => s[i] > s[j]
    /\ \A x \in S : \E i \in DOMAIN s : s[i] = x

LEMMA NewestHas ==
    ASSUME NEW s, NEW S, NewestList(s, S)
    PROVE /\ Len(s) \in Nat /\ DOMAIN s = 1 .. Len(s) /\ \A i \in DOMAIN s : s[i] \in S
          /\ \A i, j \in DOMAIN s : i < j => s[i] > s[j]
          /\ \A x \in S : \E i \in DOMAIN s : s[i] = x
BY DEF NewestList

LEMMA AboveOrders == \A S \in SUBSET Nat : Orders(Above, S)
BY DEF Orders, Above

LEMMA InAbove ==
    ASSUME NEW S \in SUBSET Nat, NEW n \in Nat, NEW s \in [1 .. n -> S]
    PROVE InOrder(s, Above) <=> \A i, j \in DOMAIN s : i < j => s[i] > s[j]
<1>1. \A i, j \in 1 .. n : s[i] \in Nat /\ s[j] \in Nat
  OBVIOUS
<1>2. \A x, y \in Nat : <<x, y>> \in Above <=> x > y
  BY DEF Above
<1> QED
  BY <1>1, <1>2 DEF InOrder

(* NewestFirst is this list, and there is no other. *)
LEMMA NewestIs ==
    ASSUME NEW S \in SUBSET Nat, IsFiniteSet(S)
    PROVE NewestList(NewestFirst(S), S) /\ \A s : NewestList(s, S) => s = NewestFirst(S)
<1> DEFINE n == Cardinality(S)
<1>n. n \in Nat
  BY FS_CardinalityType
<1>1. Orders(Above, S)
  BY AboveOrders
<1>2. \E s \in [1 .. n -> S] : \A i, j \in DOMAIN s : i < j => s[i] > s[j]
  <2>1. PICK s : ListOf(s, S, Above)
    BY <1>1, SortedExists
  <2> QED BY <2>1, <1>n, InAbove DEF ListOf
<1> DEFINE all == NewestFirst(S)
<1>3. all \in [1 .. n -> S] /\ \A i, j \in DOMAIN all : i < j => all[i] > all[j]
  BY <1>2 DEF NewestFirst, Sorted
<1> HIDE DEF all
<1>4. InOrder(all, Above)
  BY <1>n, <1>3, InAbove
<1>5. ListOf(all, S, Above)
  BY <1>3, <1>4 DEF ListOf
<1>6. Whole(all, S)
  BY <1>1, <1>5, SortedWhole
<1>7. NewestList(all, S)
  <2>1. all \in Seq(S)
    BY <1>n, <1>3
  <2> QED BY <2>1, <1>3, <1>6 DEF NewestList, Whole
<1>8. ASSUME NEW s, NewestList(s, S) PROVE s = all
  <2>1. Len(s) \in Nat /\ s \in [1 .. Len(s) -> S] /\ DOMAIN s = 1 .. Len(s)
    BY <1>8 DEF NewestList
  <2>2. InOrder(s, Above)
    BY <1>8, <2>1, InAbove DEF NewestList
  <2>3. ListOf(s, S, Above)
    BY <1>1, <1>8, <2>1, <2>2, ListIs DEF NewestList
  <2> QED BY <1>1, <1>5, <2>3, SortedOnce
<1> QED
  BY <1>7, <1>8 DEF all

(* Positions in order, and what a filter leaves *)
Under == {p \in Nat \X Nat : p[1] < p[2]}

LEMMA PositionsIs ==
    ASSUME NEW K \in SUBSET Nat, IsFiniteSet(K)
    PROVE LET at == Sorted(K, <)
          IN  /\ Cardinality(K) \in Nat /\ at \in [1 .. Cardinality(K) -> K]
              /\ \A i, j \in DOMAIN at : i < j => at[i] < at[j]
              /\ \A k \in K : \E i \in DOMAIN at : at[i] = k
<1> DEFINE n == Cardinality(K)
           at == Sorted(K, <)
<1>n. n \in Nat
  BY FS_CardinalityType
<1>1. Orders(Under, K)
  BY DEF Orders, Under
<1>2. \A x, y \in Nat : <<x, y>> \in Under <=> x < y
  BY DEF Under
<1>3. \E s \in [1 .. n -> K] : \A i, j \in DOMAIN s : i < j => s[i] < s[j]
  <2>1. PICK s : ListOf(s, K, Under)
    BY <1>1, SortedExists
  <2>2. \A i, j \in 1 .. n : s[i] \in Nat /\ s[j] \in Nat
    BY <2>1 DEF ListOf
  <2> QED BY <2>1, <2>2, <1>n, <1>2 DEF ListOf, InOrder
<1>4. at \in [1 .. n -> K] /\ \A i, j \in DOMAIN at : i < j => at[i] < at[j]
  BY <1>3 DEF Sorted
<1> HIDE DEF at
<1>5. ListOf(at, K, Under)
  <2>1. \A i, j \in 1 .. n : at[i] \in Nat /\ at[j] \in Nat
    BY <1>4
  <2> QED BY <2>1, <1>n, <1>2, <1>4 DEF ListOf, InOrder
<1>6. Whole(at, K)
  BY <1>1, <1>5, SortedWhole
<1> QED
  BY <1>n, <1>4, <1>6 DEF Whole, at

(* at are positions of s, in order, of which t has the elements. *)
Picks(t, s, K, at) ==
    /\ at \in [DOMAIN t -> K]
    /\ \A i, j \in DOMAIN t : i < j => at[i] < at[j]
    /\ \A j \in DOMAIN t : t[j] = s[at[j]]
    /\ \A k \in K : \E j \in DOMAIN t : at[j] = k

LEMMA ThoseIs ==
    ASSUME NEW T, NEW s \in Seq(T), NEW K \in SUBSET (DOMAIN s)
    PROVE /\ Those(s, K) \in Seq(T)
          /\ \E at : Picks(Those(s, K), s, K, at)
<1> DEFINE n == Cardinality(K)
           at == Sorted(K, <)
           t == Those(s, K)
<1>1. K \in SUBSET Nat /\ IsFiniteSet(K)
  <2>1. IsFiniteSet(1 .. Len(s)) /\ DOMAIN s = 1 .. Len(s)
    BY FS_Interval
  <2> QED BY <2>1, FS_Subset
<1>2. /\ n \in Nat /\ at \in [1 .. n -> K]
      /\ \A i, j \in DOMAIN at : i < j => at[i] < at[j]
      /\ \A k \in K : \E i \in DOMAIN at : at[i] = k
  BY <1>1, PositionsIs
<1>3. t = [j \in DOMAIN at |-> s[at[j]]]
  BY DEF Those
<1> HIDE DEF at, t
<1>4. DOMAIN t = 1 .. n /\ t \in [1 .. n -> T]
  BY <1>2, <1>3
<1>5. Picks(t, s, K, at)
  BY <1>2, <1>3, <1>4 DEF Picks
<1> QED
  BY <1>2, <1>4, <1>5 DEF t

----------------------------------------------------------------------------
(* The session *)

OpPCs == {"idle", "save", "login", "delete", "logout"}
Users == People \cup {None}

SessionTypes ==
    /\ stored \in Users /\ token \in Users /\ user \in Users /\ booting \in BOOLEAN
    /\ op \in [Ops -> [pc : OpPCs, who : Users]]
    /\ me \in [Calls -> [pc : {"idle", "read", "answer"}, who : Users]]
    /\ mounted \in Calls \cup {None}
    /\ sub \in Users /\ subLatest \in Calls \cup {None} /\ cache \in Users /\ fresh \in BOOLEAN
    /\ fetch \in [Calls -> [pc : {"idle", "read", "answer", "cache"}, who : Users]]

(* Signing in is done by one at a time, and only by somebody who is not.    *)
OpsAgree ==
    /\ \A o \in Ops : (op[o].who # None) <=> op[o].pc \in {"save", "login"}
    /\ \A o \in Ops : op[o].who # None => token = None /\ ~booting /\ \A p \in Ops : op[p].who # None => p = o
    /\ \A o \in Ops : op[o].pc = "login" => stored \in {op[o].who, None}
    /\ booting => token = None /\ user = None /\ mounted = None /\ \A o \in Ops : op[o].pc = "idle"

TokenAgrees ==
    /\ token # None => stored \in {token, None}
    /\ user # None => user = token

AnswersAgree ==
    /\ mounted # None => /\ token # None /\ user = None
                         /\ me[mounted].pc = "answer" => me[mounted].who = token
    /\ token # None => /\ subLatest # None
                       /\ fetch[subLatest].pc = "answer" => fetch[subLatest].who = token
                       /\ fresh => sub = token

SessionInv == SessionTypes /\ OpsAgree /\ TokenAgrees /\ AnswersAgree

LEMMA InitSession == Init => SessionInv
<1> SUFFICES ASSUME Init PROVE SessionInv
  OBVIOUS
<1> USE DEF Init, NoOp
<1>1. SessionTypes
  BY DEF SessionTypes, Users, OpPCs
<1>2. OpsAgree /\ TokenAgrees /\ AnswersAgree
  BY DEF OpsAgree, TokenAgrees, AnswersAgree
<1> QED
  BY <1>1, <1>2 DEF SessionInv

(* What the effects of a changed token or user do to the requests *)
LEMMA EffectsKeep ==
    ASSUME SessionTypes, Effects, token' \in Users, user' \in Users, booting' \in BOOLEAN,
           token' # token \/ booting' # booting
    PROVE /\ me' \in [Calls -> [pc : {"idle", "read", "answer"}, who : Users]]
          /\ fetch' \in [Calls -> [pc : {"idle", "read", "answer", "cache"}, who : Users]]
          /\ mounted' \in Calls \cup {None} /\ subLatest' \in Calls \cup {None}
          /\ sub' \in Users /\ fresh' \in BOOLEAN
          /\ mounted' # None => token' # None /\ user' = None /\ me'[mounted'].pc = "read"
          /\ token' # None => subLatest' \in Calls /\ fetch'[subLatest'].pc = "read" /\ ~fresh'
<1> USE ScreensAssumption DEF SessionTypes
<1>1. MeEffect /\ SubEffect
  BY DEF Effects
<1>2. /\ me' \in [Calls -> [pc : {"idle", "read", "answer"}, who : Users]]
      /\ mounted' \in Calls \cup {None}
      /\ mounted' # None => token' # None /\ user' = None /\ me'[mounted'].pc = "read"
  BY <1>1 DEF MeEffect
<1>3. CASE token' # None
  <2>1. \E c \in Calls : StartFetch(c)
    BY <1>1, <1>3 DEF SubEffect
  <2>2. PICK c \in Calls : StartFetch(c)
    BY <2>1
  <2>3. sub' = sub
    BY <1>1, <1>3 DEF SubEffect
  <2> QED BY <1>2, <1>3, <2>2, <2>3 DEF StartFetch
<1>4. CASE token' = None
  BY <1>1, <1>2, <1>4 DEF SubEffect, Users
<1> QED
  BY <1>3, <1>4

LEMMA NextSession == SessionInv /\ [Next]_vars => SessionInv'
<1> SUFFICES ASSUME SessionInv, [Next]_vars PROVE SessionInv'
  OBVIOUS
<1> USE ScreensAssumption, ClientAssumption DEF SessionInv
<1>t. ASSUME NEW o \in Ops PROVE op[o] \in [pc : OpPCs, who : Users]
  BY DEF SessionTypes
<1>m. ASSUME NEW c \in Calls
      PROVE /\ me[c] \in [pc : {"idle", "read", "answer"}, who : Users]
            /\ fetch[c] \in [pc : {"idle", "read", "answer", "cache"}, who : Users]
  BY DEF SessionTypes
<1>0. CASE UNCHANGED sessionVars
  BY <1>0 DEF sessionVars, SessionTypes, OpsAgree, TokenAgrees, AnswersAgree
<1>1. CASE Hydrate
  <2>1. /\ token' = stored /\ booting' = FALSE /\ user' = None /\ stored' = stored /\ op' = op
        /\ booting /\ token = None /\ Effects
    BY <1>1 DEF Hydrate, OpsAgree
  <2>2. cache' = cache
    BY <2>1 DEF Effects, SubEffect
  <2>3. SessionTypes' /\ AnswersAgree'
    BY <2>1, <2>2, EffectsKeep DEF SessionTypes, AnswersAgree
  <2>4. OpsAgree' /\ TokenAgrees'
    BY <2>1, <1>t DEF OpsAgree, TokenAgrees, OpPCs
  <2> QED BY <2>3, <2>4
<1>2. CASE Restart
  <2>1. SessionTypes'
    BY <1>2 DEF Restart, NoOp, SessionTypes, OpPCs, Users
  <2> QED
    BY <1>2, <2>1 DEF Restart, NoOp, OpsAgree, TokenAgrees, AnswersAgree
<1>3. CASE HydrateFromCache
  <2> USE <1>3 DEF HydrateFromCache, auth
  <2>1. fresh' \in BOOLEAN /\ sub' \in Users /\ (fresh' => fresh /\ sub' = sub)
    BY DEF SessionTypes
  <2>2. SessionTypes'
    BY <2>1 DEF SessionTypes
  <2> QED BY <2>1, <2>2 DEF OpsAgree, TokenAgrees, AnswersAgree
<1>4. ASSUME NEW o \in Ops, NEW u \in People, LogIn(o, u) PROVE SessionInv'
  <2> USE <1>4 DEF LogIn, auth, subscription
  <2>1. SessionTypes'
    BY DEF SessionTypes, OpPCs, Users
  <2>2. /\ op'[o].who = u /\ op'[o].pc = "save" /\ token = None /\ ~booting
        /\ \A p \in Ops \ {o} : op'[p] = op[p] /\ op[p].who = None
    BY DEF SessionTypes
  <2>3. OpsAgree'
    BY <2>2 DEF OpsAgree
  <2> QED BY <2>1, <2>3 DEF TokenAgrees, AnswersAgree
<1>5. ASSUME NEW o \in Ops, SaveAuthToken(o) PROVE SessionInv'
  <2> USE <1>5 DEF SaveAuthToken, auth, subscription
  <2>1. /\ op'[o].who = op[o].who /\ op'[o].pc = "login" /\ token = None /\ ~booting /\ op[o].who # None
        /\ \A p \in Ops \ {o} : op'[p] = op[p] /\ op[p].who = None
    BY DEF SessionTypes, OpsAgree
  <2>2. SessionTypes'
    BY DEF SessionTypes, OpPCs
  <2>3. OpsAgree'
    BY <2>1 DEF OpsAgree
  <2> QED BY <2>1, <2>2, <2>3 DEF TokenAgrees, AnswersAgree
<1>6. ASSUME NEW o \in Ops, LoggedIn(o) PROVE SessionInv'
  <2>1. /\ op[o].who # None /\ stored \in {op[o].who, None} /\ token = None /\ ~booting
        /\ token' = op[o].who /\ user' = op[o].who /\ booting' = booting /\ stored' = stored
        /\ op[o].who \in Users /\ Effects
    BY <1>6, <1>t DEF LoggedIn, OpsAgree
  <2>2. op' = [op EXCEPT ![o] = NoOp] /\ \A p \in Ops \ {o} : op[p].who = None
    BY <1>6, <2>1 DEF LoggedIn, OpsAgree
  <2>3. cache' = cache
    BY <2>1 DEF Effects, SubEffect
  <2>4. op' \in [Ops -> [pc : OpPCs, who : Users]]
    BY <2>2 DEF SessionTypes, NoOp, OpPCs, Users
  <2>5. SessionTypes' /\ AnswersAgree'
    BY <2>1, <2>3, <2>4, EffectsKeep DEF SessionTypes, AnswersAgree
  <2>6. OpsAgree' /\ TokenAgrees'
    BY <2>1, <2>2 DEF OpsAgree, TokenAgrees, NoOp, SessionTypes
  <2> QED BY <2>5, <2>6
<1>7. ASSUME NEW o \in Ops, LogOut(o) PROVE SessionInv'
  <2> USE <1>7 DEF LogOut, auth, subscription
  <2>1. SessionTypes'
    BY DEF SessionTypes, OpPCs
  <2>2. op'[o].who = None /\ op'[o].pc = "delete" /\ \A p \in Ops \ {o} : op'[p] = op[p]
    BY <1>t DEF SessionTypes, OpsAgree
  <2>3. OpsAgree'
    BY <2>2 DEF OpsAgree
  <2> QED BY <2>1, <2>3 DEF TokenAgrees, AnswersAgree
<1>8. ASSUME NEW o \in Ops, DeleteAuthToken(o) PROVE SessionInv'
  <2> USE <1>8 DEF DeleteAuthToken, auth, subscription
  <2>1. SessionTypes'
    BY DEF SessionTypes, OpPCs, Users
  <2>2. /\ op'[o].who = None /\ op'[o].pc = "logout" /\ \A p \in Ops \ {o} : op'[p] = op[p]
        /\ stored' \in {stored, None}
    BY <1>t DEF SessionTypes, OpsAgree
  <2>3. OpsAgree'
    BY <2>2 DEF OpsAgree
  <2> QED BY <2>1, <2>2, <2>3 DEF TokenAgrees, AnswersAgree
<1>9. ASSUME NEW o \in Ops, LoggedOut(o) PROVE SessionInv'
  <2>1. /\ token' = None /\ user' = None /\ booting' = booting /\ stored' = stored /\ Effects /\ ~booting
        /\ op' = [op EXCEPT ![o] = NoOp] /\ op[o].who = None
    BY <1>9, <1>t DEF LoggedOut, OpsAgree
  <2>2. cache' = cache /\ mounted' = None
    BY <2>1 DEF Effects, SubEffect, MeEffect, subscription
  <2>3. op' \in [Ops -> [pc : OpPCs, who : Users]]
    BY <2>1 DEF SessionTypes, NoOp, OpPCs, Users
  <2>4. SessionTypes'
    <3>1. CASE token = None
      BY <2>1, <2>2, <2>3, <3>1 DEF SessionTypes, Effects, MeEffect, subscription, Users
    <3>2. CASE token # None
      BY <2>1, <2>2, <2>3, <3>2, EffectsKeep DEF SessionTypes, Users
    <3> QED BY <3>1, <3>2
  <2>5. OpsAgree' /\ TokenAgrees'
    BY <2>1 DEF OpsAgree, TokenAgrees, NoOp, SessionTypes
  <2> QED BY <2>1, <2>2, <2>4, <2>5 DEF AnswersAgree
<1>10. ASSUME NEW c \in Calls, MeRead(c) PROVE SessionInv'
  <2> USE <1>10 DEF MeRead, Reads, auth, subscription
  <2>1. SessionTypes'
    BY DEF SessionTypes, Users
  <2>2. me'[c].who = stored /\ \A d \in Calls \ {c} : me'[d] = me[d]
    BY DEF SessionTypes
  <2>3. AnswersAgree'
    BY <2>2 DEF TokenAgrees, AnswersAgree, SessionTypes
  <2> QED BY <2>1, <2>3 DEF OpsAgree, TokenAgrees
<1>11. ASSUME NEW c \in Calls, MeAnswer(c) PROVE SessionInv'
  <2> USE <1>11 DEF MeAnswer, Mounted, subscription
  <2>1. SessionTypes'
    BY <1>m DEF SessionTypes, Users, NoOp
  <2>2. mounted' = None \/ (mounted' = mounted /\ mounted # c /\ user' = user)
    OBVIOUS
  <2>3. user' = user \/ (user' = token /\ token # None)
    BY DEF AnswersAgree
  <2>4. \A d \in Calls \ {c} : me'[d] = me[d]
    BY DEF SessionTypes
  <2>5. AnswersAgree'
    BY <2>2, <2>4 DEF AnswersAgree, SessionTypes
  <2> QED BY <2>1, <2>3, <2>5 DEF OpsAgree, TokenAgrees
<1>12. ASSUME NEW c \in Calls, MeFails(c) PROVE SessionInv'
  <2> USE <1>12 DEF MeFails, auth, subscription
  <2>1. SessionTypes'
    BY DEF SessionTypes, Users, NoOp
  <2>2. me'[c].pc = "idle" /\ \A d \in Calls \ {c} : me'[d] = me[d]
    BY DEF SessionTypes, NoOp
  <2>3. AnswersAgree'
    BY <2>2 DEF AnswersAgree, SessionTypes
  <2> QED BY <2>1, <2>3 DEF OpsAgree, TokenAgrees
<1>13. ASSUME NEW c \in Calls, FetchSubscription(c) PROVE SessionInv'
  <2> USE <1>13 DEF FetchSubscription, StartFetch, auth
  <2>1. SessionTypes'
    BY DEF SessionTypes
  <2>2. fetch'[c].pc = "read"
    BY DEF SessionTypes
  <2>3. AnswersAgree'
    BY <2>2 DEF AnswersAgree
  <2> QED BY <2>1, <2>3 DEF OpsAgree, TokenAgrees
<1>14. ASSUME NEW c \in Calls, SubRead(c) PROVE SessionInv'
  <2> USE <1>14 DEF SubRead, Reads, auth
  <2>1. SessionTypes'
    BY DEF SessionTypes
  <2>2. fetch'[c].who = stored /\ \A d \in Calls \ {c} : fetch'[d] = fetch[d]
    BY DEF SessionTypes
  <2>3. AnswersAgree'
    BY <2>2 DEF TokenAgrees, AnswersAgree, SessionTypes
  <2> QED BY <2>1, <2>3 DEF OpsAgree, TokenAgrees
<1>15. ASSUME NEW c \in Calls, SubAnswer(c) PROVE SessionInv'
  <2> USE <1>15 DEF SubAnswer, SubCurrent, auth
  <2>a. sub' \in Users /\ fresh' \in BOOLEAN
    BY <1>m DEF SessionTypes
  <2>b. fetch' \in [Calls -> [pc : {"idle", "read", "answer", "cache"}, who : Users]]
    BY DEF SessionTypes, NoOp, Users
  <2>1. SessionTypes'
    BY <2>a, <2>b DEF SessionTypes
  <2>2. fetch'[c].pc # "answer" /\ \A d \in Calls \ {c} : fetch'[d] = fetch[d]
    BY DEF SessionTypes, NoOp
  <2>3. AnswersAgree'
    BY <2>2 DEF AnswersAgree, SessionTypes
  <2> QED BY <2>1, <2>3 DEF OpsAgree, TokenAgrees
<1>16. ASSUME NEW c \in Calls, SubCache(c) \/ SubFails(c) PROVE SessionInv'
  <2> USE <1>16 DEF SubCache, SubFails, auth
  <2>1. SessionTypes'
    BY <1>m DEF SessionTypes, NoOp, Users
  <2>2. fetch'[c].pc # "answer" /\ \A d \in Calls \ {c} : fetch'[d] = fetch[d]
    BY DEF SessionTypes, NoOp
  <2>3. AnswersAgree'
    BY <2>2 DEF AnswersAgree, SessionTypes
  <2> QED BY <2>1, <2>3 DEF OpsAgree, TokenAgrees
<1>17. CASE UNCHANGED vars
  BY <1>0, <1>17 DEF vars
<1> QED
  BY <1>0, <1>1, <1>2, <1>3, <1>4, <1>5, <1>6, <1>7, <1>8, <1>9, <1>10, <1>11, <1>12, <1>13, <1>14,
     <1>15, <1>16, <1>17 DEF Next, SessionNext

(* However late the answers come, the user shown is the one whose token is  *)
(* in use, and so is the subscription answered last: what was asked before  *)
(* a login or a logout is not heeded after it.                              *)
THEOREM SessionsAgree == Spec => []SessionAgrees
<1>1. SessionInv => SessionAgrees
  BY DEF SessionInv, TokenAgrees, AnswersAgree, SessionAgrees
<1> QED
  BY InitSession, NextSession, <1>1, PTL DEF Spec

----------------------------------------------------------------------------
(* The lists of the screens *)

Modes == {"initial", "refresh", "more"}
RowOf == [key : Threads \cup Nat, fits : SUBSET Queries]
CallOf == [pc : {"idle", "sent", "answered"}, mode : Modes, query : Queries \cup {None}, cursor : Nat,
           page : Seq(Nat), next : Nat]
TextOf == [bubble : {"none", "sending", "failed"}, post : {"none", "sent", "stored"}, fresh : BOOLEAN,
           row : Nat, given : BOOLEAN, blocked : BOOLEAN]

ScreensTypes ==
    /\ rows \in Seq(RowOf) /\ query \in Queries
    /\ debounce \in BOOLEAN /\ focus \in BOOLEAN /\ error \in BOOLEAN /\ stale \in BOOLEAN
    /\ items \in Seq(Nat) /\ cursor \in Nat
    /\ loading \in SUBSET Modes /\ latest \in Calls \cup {None}
    /\ call \in [Calls -> CallOf] /\ text \in [Texts -> TextOf]

(* s are rows, of which no two stand for the same. *)
Distinct(s) ==
    /\ s \in Seq(DOMAIN rows)
    /\ \A i, k \in DOMAIN s : rows[s[i]].key = rows[s[k]].key => i = k

Asking(c) == c \in Calls /\ call[c].pc # "idle"
FirstPage(c) == call[c].mode # "more"

RowsMade == \A i \in DOMAIN rows : /\ ~On("inbox") => rows[i].key = i
                                   /\ ~On("jobs") => rows[i].fits = Queries

CursorsMade ==
    /\ cursor # 0 => cursor \in DOMAIN rows /\ items # <<>>
    /\ \A c \in Calls : Asking(c) =>
          /\ call[c].query \in Queries
          /\ IF FirstPage(c) THEN call[c].cursor = 0 ELSE call[c].cursor \in DOMAIN rows
          /\ ~On("jobs") => call[c].query = query
    /\ ~On("inbox") /\ Asking(latest) => call[latest].mode \in loading

(* What the app shows and gets has no row twice. *)
NothingTwice ==
    /\ Distinct(items)
    /\ \A c \in Calls : call[c].pc = "answered" =>
          /\ Distinct(call[c].page)
          /\ call[c].next # 0 => call[c].next \in DOMAIN rows /\ call[c].page # <<>>

(* s, newest first, are the rows of a search from low to high. *)
Between(q, low, high) == {i \in Below(q, 0) : low <= i /\ i <= high}
Window(s, q, low, high) == NewestList(s, Between(q, low, high))
WholeFrom(s, q, low) == s # <<>> => Window(s, q, low, Head(s))

PageWhole(c) ==
    IF FirstPage(c) THEN WholeFrom(call[c].page, call[c].query, call[c].next)
    ELSE /\ call[c].next < call[c].cursor
         /\ Window(call[c].page, call[c].query, call[c].next, call[c].cursor - 1)

(* The page asked for goes on where the list ends; a first page of the      *)
(* current search is under way.                                             *)
MoreFits == Asking(latest) /\ ~FirstPage(latest) =>
                call[latest].cursor = cursor /\ call[latest].query = query
FirstDue == Asking(latest) /\ FirstPage(latest) /\ call[latest].query = query

PagesWhole ==
    /\ \A c \in Calls : call[c].pc = "answered" => PageWhole(c)
    /\ On("jobs") /\ error => stale /\ ~Asking(latest)
    /\ Asking(latest) /\ ~debounce => call[latest].query = query
    /\ \/ On("jobs") /\ (debounce \/ error \/ FirstDue)
       \/ WholeFrom(items, query, cursor) /\ MoreFits

(* A message of which the app was told that it is stored *)
Acked(t) == text[t].row # 0 /\ text[t].post = "none"
Reaches(s, r) == s # <<>> /\ r <= Head(s)

TextsMade ==
    \A t \in Texts :
        /\ text[t].given => text[t].bubble # "none" \/ text[t].row # 0 \/ text[t].blocked
        /\ text[t].post # "none" => text[t].bubble = "sending"
        /\ text[t].post = "stored" => text[t].row # 0
        /\ text[t].row # 0 => /\ text[t].row \in DOMAIN rows
                              /\ text[t].post = "stored" \/ (text[t].post = "none" /\ text[t].bubble = "none")
        /\ text[t].post # "none" \/ text[t].bubble # "none" \/ text[t].row # 0 => On("thread")

TextsComing ==
    \A t \in Texts : Acked(t) =>
        /\ Asking(latest) /\ FirstPage(latest) /\ call[latest].pc = "answered"
             => Reaches(call[latest].page, text[t].row)
        /\ stale \/ focus \/ (Asking(latest) /\ FirstPage(latest)) \/ Reaches(items, text[t].row)

ScreensInv == /\ ScreensTypes /\ RowsMade /\ CursorsMade /\ NothingTwice /\ TextsMade
              /\ ~On("inbox") => PagesWhole
              /\ TextsComing

LEMMA SubSeqIs ==
    ASSUME NEW S, NEW s \in Seq(S), NEW m \in Nat, m <= Len(s)
    PROVE /\ SubSeq(s, 1, m) \in Seq(S) /\ Len(SubSeq(s, 1, m)) = m
          /\ \A i \in 1 .. m : SubSeq(s, 1, m)[i] = s[i]
<1>1. \A i \in 1 .. m : s[i] \in S
  OBVIOUS
<1>2. /\ SubSeq(s, 1, m) \in Seq(S) /\ Len(SubSeq(s, 1, m)) = (IF 1 <= m THEN m - 1 + 1 ELSE 0)
      /\ \A i \in 1 .. m - 1 + 1 : SubSeq(s, 1, m)[i] = s[1 + i - 1]
  BY <1>1, SubSeqProperties
<1> DEFINE p == SubSeq(s, 1, m)
<1> HIDE DEF p
<1>3. p \in Seq(S) /\ Len(p) = m /\ \A i \in 1 .. m : p[i] = s[i]
  BY <1>2 DEF p
<1> QED
  BY <1>3 DEF p

(* The first of a list, newest first: what is left out comes after them. *)
LEMMA PrefixIs ==
    ASSUME NEW S \in SUBSET Nat, NEW all \in Seq(S), NewestList(all, S), NEW m \in Nat,
           m <= Len(all), m < Len(all) => m = Page,
           NEW p \in Seq(S), Len(p) = m, \A i \in 1 .. m : p[i] = all[i]
    PROVE /\ \A i, j \in 1 .. m : i < j => p[i] > p[j]
          /\ \A x \in S : (\E i \in 1 .. m : p[i] = x) \/ (m = Page /\ m > 0 /\ x < p[m])
<1>1. Len(all) \in Nat /\ all \in [1 .. Len(all) -> S] /\ Page \in Nat \ {0}
  BY ScreensAssumption
<1>4. \A i, j \in 1 .. Len(all) : i < j => all[i] > all[j]
  BY <1>1 DEF NewestList
<1>5. \A i, j \in 1 .. m : i < j => p[i] > p[j]
  BY <1>1, <1>4
<1>6. ASSUME NEW x \in S
      PROVE (\E i \in 1 .. m : p[i] = x) \/ (m = Page /\ m > 0 /\ x < p[m])
  <2>1. PICK k \in 1 .. Len(all) : all[k] = x
    BY <1>1 DEF NewestList
  <2>2. CASE k <= m
    BY <1>1, <2>1, <2>2
  <2>3. CASE k > m
    <3>1. m = Page /\ m > 0 /\ m \in 1 .. Len(all) /\ p[m] = all[m]
      BY <1>1, <2>3
    <3>2. all[m] > all[k]
      BY <1>4, <2>3, <3>1
    <3>3. all[m] \in Nat /\ all[k] \in Nat
      BY <1>1, <3>1
    <3> QED BY <2>1, <3>1, <3>2, <3>3
  <2> QED BY <1>1, <2>1, <2>2, <2>3
<1> QED
  BY <1>5, <1>6

LEMMA BelowIs ==
    ASSUME ScreensTypes, NEW q, NEW c \in Nat
    PROVE /\ Below(q, c) \in SUBSET (DOMAIN rows) /\ IsFiniteSet(Below(q, c))
          /\ Latest(q, c) \in SUBSET Below(q, c) /\ IsFiniteSet(Latest(q, c))
          /\ DOMAIN rows = 1 .. Len(rows) /\ Len(rows) \in Nat /\ DOMAIN rows \subseteq Nat
<1>1. DOMAIN rows = 1 .. Len(rows) /\ Len(rows) \in Nat
  BY DEF ScreensTypes
<1>2. Below(q, c) \in SUBSET (DOMAIN rows) /\ Latest(q, c) \in SUBSET Below(q, c)
  BY DEF Below, Latest
<1>3. IsFiniteSet(DOMAIN rows)
  BY <1>1, FS_Interval
<1> QED
  BY <1>1, <1>2, <1>3, FS_Subset

(* A page: rows of the search below the cursor, newest first, and where the *)
(* next one begins                                                          *)
LEMMA PageIs ==
    ASSUME ScreensTypes, RowsMade, NEW q, NEW c \in Nat, NEW p, p = PageBelow(q, c)
    PROVE /\ p \in Seq(Below(q, c)) /\ Distinct(p)
          /\ \A i, j \in DOMAIN p : i < j => p[i] > p[j]
          /\ NextCursor(p) \in Nat
          /\ NextCursor(p) # 0 => p # <<>> /\ NextCursor(p) \in Below(q, c)
          /\ ~On("inbox") => /\ \A i \in DOMAIN p : NextCursor(p) <= p[i]
                             /\ \A x \in Below(q, c) : NextCursor(p) <= x => \E i \in DOMAIN p : p[i] = x
<1> DEFINE S == IF On("inbox") THEN Latest(q, c) ELSE Below(q, c)
           all == NewestFirst(S)
<1>1. /\ S \in SUBSET Below(q, c) /\ S \in SUBSET Nat /\ S \in SUBSET (DOMAIN rows) /\ IsFiniteSet(S)
      /\ Below(q, c) \in SUBSET Nat
  BY BelowIs
<1>k. \A x, y \in S : rows[x].key = rows[y].key => x = y
  <2>1. CASE On("inbox")
    BY <1>1, <2>1 DEF Latest
  <2>2. CASE ~On("inbox")
    BY <1>1, <2>2 DEF RowsMade
  <2> QED BY <2>1, <2>2
<1>2. p = SubSeq(all, 1, IF Len(all) < Page THEN Len(all) ELSE Page)
  BY DEF PageBelow
<1>r. ~On("inbox") => S = Below(q, c)
  OBVIOUS
<1> HIDE DEF S
<1>3. NewestList(all, S) /\ all \in Seq(S)
  BY <1>1, NewestIs DEF NewestList
<1> HIDE DEF all
<1> DEFINE m == Len(p)
<1>4. /\ m \in Nat /\ p \in [1 .. m -> S] /\ DOMAIN p = 1 .. m
      /\ \A i, j \in 1 .. m : i < j => p[i] > p[j]
      /\ \A x \in S : (\E i \in 1 .. m : p[i] = x) \/ (m = Page /\ x < p[m])
  <2>1. PICK l \in Nat : l = IF Len(all) < Page THEN Len(all) ELSE Page
    BY <1>3, ScreensAssumption
  <2>2. p = SubSeq(all, 1, l)
    BY <1>2, <2>1
  <2>a. l <= Len(all) /\ (l < Len(all) => l = Page)
    BY <1>3, <2>1, ScreensAssumption
  <2>3. p \in Seq(S) /\ Len(p) = l /\ \A i \in 1 .. l : p[i] = all[i]
    BY <1>3, <2>a, <2>2, SubSeqIs
  <2>4. m = l
    BY <2>3
  <2>5. /\ \A i, j \in 1 .. m : i < j => p[i] > p[j]
        /\ \A x \in S : (\E i \in 1 .. m : p[i] = x) \/ (m = Page /\ m > 0 /\ x < p[m])
    BY <1>1, <1>3, <2>3, <2>4, <2>a, PrefixIs
  <2>6. m \in Nat /\ p \in [1 .. m -> S] /\ DOMAIN p = 1 .. m
    BY <2>3, <2>4
  <2> QED BY <2>5, <2>6
<1>5. \A i \in 1 .. m : p[i] \in S /\ p[i] \in Nat
  BY <1>1, <1>4
<1> DEFINE low == NextCursor(p)
<1>e. p = <<>> <=> m = 0
  BY <1>4
<1>6. p \in Seq(Below(q, c)) /\ Distinct(p)
  <2>1. \A i \in 1 .. m : p[i] \in Below(q, c) /\ p[i] \in DOMAIN rows
    BY <1>1, <1>5
  <2>a. p = [i \in 1 .. m |-> p[i]]
    BY <1>4
  <2> DEFINE D == DOMAIN rows
             B == Below(q, c)
  <2>b. p \in [1 .. m -> B] /\ p \in [1 .. m -> D]
    BY <2>1, <2>a
  <2> HIDE DEF B, D
  <2>c. p \in Seq(B) /\ p \in Seq(D)
    BY <2>b, <1>4
  <2>2. ASSUME NEW i \in 1 .. m, NEW k \in 1 .. m, rows[p[i]].key = rows[p[k]].key PROVE i = k
    <3>1. p[i] = p[k] /\ p[i] \in Nat
      BY <1>5, <1>k, <2>2
    <3> QED BY <1>4, <3>1
  <2> QED BY <2>c, <2>2, <1>4 DEF Distinct, B, D
<1>7. CASE p # <<>> /\ (m = Page \/ On("inbox"))
  <2>1. low = p[m] /\ m \in 1 .. m
    BY <1>4, <1>e, <1>7 DEF NextCursor, Last
  <2>2. p[m] \in S /\ p[m] \in Nat /\ \A i \in 1 .. m : p[m] <= p[i]
    BY <1>4, <1>5, <2>1
  <2>3. \A x \in S : x \in Nat
    BY <1>1
  <2>4. \A x \in S : low <= x => \E i \in 1 .. m : p[i] = x
    BY <1>4, <2>1, <2>2, <2>3
  <2> QED BY <1>1, <1>4, <1>6, <1>7, <1>r, <2>1, <2>2, <2>4
<1>8. CASE ~ (p # <<>> /\ (m = Page \/ On("inbox")))
  <2>1. low = 0
    BY <1>8 DEF NextCursor
  <2>2. Page # 0
    BY ScreensAssumption
  <2>3. ~On("inbox") => \A x \in S : \E i \in 1 .. m : p[i] = x
    BY <1>4, <1>e, <1>8, <2>2
  <2> QED BY <1>4, <1>5, <1>6, <1>r, <2>1, <2>3
<1> QED
  BY <1>7, <1>8

LEMMA BetweenIs ==
    ASSUME ScreensTypes, NEW q, NEW low \in Nat, NEW high \in Int
    PROVE Between(q, low, high) \in SUBSET Nat /\ IsFiniteSet(Between(q, low, high))
<1>1. Between(q, low, high) \subseteq Below(q, 0)
  BY DEF Between
<1> QED
  BY <1>1, BelowIs, FS_Subset

(* The answer to a request is a whole page. *)
LEMMA AnswerWhole ==
    ASSUME ScreensTypes, RowsMade, ~On("inbox"), NEW q, NEW c \in Nat, NEW p, p = PageBelow(q, c)
    PROVE /\ c = 0 => WholeFrom(p, q, NextCursor(p))
          /\ c # 0 => NextCursor(p) < c /\ Window(p, q, NextCursor(p), c - 1)
<1> DEFINE low == NextCursor(p)
<1>1. /\ p \in Seq(Below(q, c)) /\ low \in Nat
      /\ \A i, j \in DOMAIN p : i < j => p[i] > p[j]
      /\ low # 0 => low \in Below(q, c)
      /\ \A i \in DOMAIN p : low <= p[i]
      /\ \A x \in Below(q, c) : low <= x => \E i \in DOMAIN p : p[i] = x
  BY PageIs
<1> HIDE DEF low
<1>2. Below(q, c) \subseteq Nat /\ \A x : x \in Below(q, c) <=> x \in Below(q, 0) /\ (c # 0 => x < c)
  <2>1. Below(q, c) \subseteq Nat
    BY BelowIs
  <2> QED BY <2>1 DEF Below
<1>3. ASSUME NEW high \in Int, \A i \in DOMAIN p : p[i] <= high,
             \A x \in Between(q, low, high) : x \in Below(q, c)
      PROVE Window(p, q, low, high)
  <2>1. Len(p) \in Nat /\ DOMAIN p = 1 .. Len(p) /\ \A i \in DOMAIN p : p[i] \in Below(q, c) /\ p[i] \in Nat
    BY <1>1, <1>2
  <2>2. \A i \in DOMAIN p : p[i] \in Between(q, low, high)
    BY <1>1, <1>2, <1>3, <2>1 DEF Between
  <2>3. p \in Seq(Between(q, low, high))
    BY <2>1, <2>2, <1>1
  <2>4. \A x \in Between(q, low, high) : \E i \in DOMAIN p : p[i] = x
    BY <1>1, <1>3 DEF Between
  <2> QED BY <1>1, <2>3, <2>4 DEF Window, NewestList
<1>4. ASSUME c = 0, p # <<>> PROVE Window(p, q, low, Head(p))
  <2>1. 1 \in DOMAIN p /\ Head(p) = p[1] /\ p[1] \in Below(q, c)
    BY <1>1, <1>4
  <2>2. p[1] \in Int /\ \A i \in DOMAIN p : p[i] \in Nat /\ p[i] <= p[1]
    <3>1. \A i \in DOMAIN p : i \in Nat \ {0} /\ p[i] \in Nat
      BY <1>1, <1>2
    <3> QED BY <1>1, <2>1, <3>1
  <2>3. \A x \in Between(q, low, p[1]) : x \in Below(q, c)
    BY <1>2, <1>4 DEF Between
  <2> QED BY <1>3, <2>1, <2>2, <2>3
<1>5. ASSUME c # 0 PROVE low < c /\ Window(p, q, low, c - 1)
  <2>1. low < c
    BY <1>1, <1>2, <1>5
  <2>2. \A i \in DOMAIN p : p[i] <= c - 1
    BY <1>1, <1>2, <1>5
  <2>3. \A x \in Between(q, low, c - 1) : x \in Below(q, c)
    <3>1. \A x \in Below(q, 0) : x \in Nat
      BY BelowIs
    <3> QED BY <1>2, <3>1 DEF Between
  <2> QED BY <1>3, <2>1, <2>2, <2>3
<1> QED
  BY <1>4, <1>5 DEF WholeFrom, low

ShownInv == RowsMade /\ CursorsMade /\ NothingTwice /\ (~On("inbox") => PagesWhole)

(* As long as the rows are the same, so is what is said of lists of them;   *)
(* a row that is added changes it only beyond those that were there.        *)
LEMMA RowsSame ==
    ASSUME rows' = rows
    PROVE /\ \A s : Distinct(s)' <=> Distinct(s)
          /\ \A s, q, low, high : Window(s, q, low, high)' <=> Window(s, q, low, high)
          /\ \A s, q, low : WholeFrom(s, q, low)' <=> WholeFrom(s, q, low)
<1>1. \A s : Distinct(s)' <=> Distinct(s)
  BY DEF Distinct
<1>2. \A q, low, high : Between(q, low, high)' = Between(q, low, high)
  BY DEF Between, Below
<1>3. \A s, q, low, high : Window(s, q, low, high)' <=> Window(s, q, low, high)
  BY <1>2 DEF Window
<1> QED
  BY <1>1, <1>3 DEF WholeFrom

LEMMA RowsGrow ==
    ASSUME ScreensTypes, NEW r \in RowOf, rows' = Append(rows, r)
    PROVE /\ rows' \in Seq(RowOf) /\ DOMAIN rows \subseteq DOMAIN rows'
          /\ DOMAIN rows' = DOMAIN rows \cup {Len(rows) + 1} /\ rows'[Len(rows) + 1] = r
          /\ \A i \in DOMAIN rows : rows'[i] = rows[i]
          /\ \A s : Distinct(s) => Distinct(s)'
          /\ \A s, q, low : \A high \in Int : high <= Len(rows) /\ Window(s, q, low, high) => Window(s, q, low, high)'
          /\ \A s, q, low : Distinct(s) /\ WholeFrom(s, q, low) => WholeFrom(s, q, low)'
<1>1. /\ rows' \in Seq(RowOf) /\ Len(rows) \in Nat /\ DOMAIN rows = 1 .. Len(rows)
      /\ DOMAIN rows' = DOMAIN rows \cup {Len(rows) + 1} /\ rows'[Len(rows) + 1] = r
      /\ \A i \in DOMAIN rows : rows'[i] = rows[i]
  BY DEF ScreensTypes
<1>2. \A s : Distinct(s) => Distinct(s)'
  <2> SUFFICES ASSUME NEW s, Distinct(s) PROVE Distinct(s)'
    OBVIOUS
  <2>1. s \in Seq(DOMAIN rows')
    BY <1>1, SeqMonotonic DEF Distinct
  <2>2. Len(s) \in Nat /\ DOMAIN s = 1 .. Len(s) /\ \A i \in DOMAIN s : s[i] \in DOMAIN rows
    BY DEF Distinct
  <2>3. \A i \in DOMAIN s : rows'[s[i]] = rows[s[i]]
    BY <1>1, <2>2
  <2> QED BY <2>1, <2>3 DEF Distinct
<1>3. ASSUME NEW q, NEW low, NEW high \in Int, high <= Len(rows)
      PROVE Between(q, low, high)' = Between(q, low, high)
  <2> DEFINE B == {i \in DOMAIN rows : q \in rows[i].fits /\ low <= i /\ i <= high}
             C == {i \in DOMAIN rows' : q \in rows'[i].fits /\ low <= i /\ i <= high}
  <2>1. ~ (Len(rows) + 1 <= high)
    BY <1>1, <1>3
  <2>2. B = C
    BY <1>1, <2>1
  <2>3. Between(q, low, high) = B /\ Between(q, low, high)' = C
    BY DEF Between, Below
  <2> QED BY <2>2, <2>3
<1>4. \A s, q, low : \A high \in Int : high <= Len(rows) /\ Window(s, q, low, high) => Window(s, q, low, high)'
  BY <1>3 DEF Window
<1>5. ASSUME NEW s, NEW q, NEW low, Distinct(s), WholeFrom(s, q, low), s # <<>>
      PROVE WholeFrom(s, q, low)'
  <2>1. Head(s) \in DOMAIN rows
    BY <1>5, HeadTailProperties DEF Distinct
  <2>2. Head(s) \in Int /\ Head(s) <= Len(rows)
    BY <1>1, <2>1
  <2> QED BY <1>4, <1>5, <2>2 DEF WholeFrom
<1>6. \A s, q, low : Distinct(s) /\ WholeFrom(s, q, low) => WholeFrom(s, q, low)'
  BY <1>5 DEF WholeFrom
<1> QED
  BY <1>1, <1>2, <1>4, <1>6

(* A row is added. *)
LEMMA GrowKeeps ==
    ASSUME ScreensTypes, ShownInv, NEW r \in RowOf, rows' = Append(rows, r),
           ~On("inbox") => r.key = Len(rows) + 1, ~On("jobs") => r.fits = Queries,
           UNCHANGED <<screen, query, debounce, focus, items, cursor, loading, error, latest, call, stale>>
    PROVE ShownInv'
<1> USE DEF ShownInv, On
<1>1. /\ rows' \in Seq(RowOf) /\ DOMAIN rows \subseteq DOMAIN rows'
      /\ DOMAIN rows' = DOMAIN rows \cup {Len(rows) + 1} /\ rows'[Len(rows) + 1] = r
      /\ \A i \in DOMAIN rows : rows'[i] = rows[i]
      /\ \A s : Distinct(s) => Distinct(s)'
      /\ \A s, q, low : \A high \in Int : high <= Len(rows) /\ Window(s, q, low, high) => Window(s, q, low, high)'
      /\ \A s, q, low : Distinct(s) /\ WholeFrom(s, q, low) => WholeFrom(s, q, low)'
  BY RowsGrow
<1>2. RowsMade'
  BY <1>1 DEF RowsMade
<1>3. CursorsMade'
  BY <1>1 DEF CursorsMade, Asking, FirstPage
<1>4. NothingTwice'
  BY <1>1 DEF NothingTwice
<1>5. ASSUME ~On("inbox") PROVE PagesWhole'
  <2>1. ASSUME NEW c \in Calls, call[c].pc = "answered" PROVE PageWhole(c)'
    <3>1. PageWhole(c) /\ Distinct(call[c].page)
      BY <1>5, <2>1 DEF PagesWhole, NothingTwice
    <3>2. CASE FirstPage(c)
      BY <1>1, <3>1, <3>2 DEF PageWhole, FirstPage
    <3>3. CASE ~FirstPage(c)
      <4>1. call[c].cursor \in 1 .. Len(rows) /\ Len(rows) \in Nat
        BY <2>1, <3>3 DEF CursorsMade, Asking, ScreensTypes
      <4>2. call[c].cursor - 1 \in Int /\ call[c].cursor - 1 <= Len(rows)
        BY <4>1
      <4> QED BY <1>1, <3>1, <3>3, <4>2 DEF PageWhole, FirstPage
    <3> QED BY <3>2, <3>3
  <2>2. WholeFrom(items, query, cursor) => WholeFrom(items, query, cursor)'
    BY <1>1 DEF NothingTwice
  <2> QED BY <1>5, <2>1, <2>2 DEF PagesWhole, MoreFits, FirstDue, Asking, FirstPage
<1> QED
  BY <1>2, <1>3, <1>4, <1>5

(* Nothing that is shown or asked for changes; without a search, the error  *)
(* may.                                                                     *)
LEMMA SameKeeps ==
    ASSUME ShownInv, On("jobs") => error' = error,
           UNCHANGED <<screen, rows, query, debounce, items, cursor, loading, latest, call, stale>>
    PROVE ShownInv'
<1> USE DEF ShownInv, On
<1>1. /\ \A s : Distinct(s)' <=> Distinct(s)
      /\ \A s, q, low, high : Window(s, q, low, high)' <=> Window(s, q, low, high)
      /\ \A s, q, low : WholeFrom(s, q, low)' <=> WholeFrom(s, q, low)
  BY RowsSame
<1>2. RowsMade' /\ CursorsMade'
  BY DEF RowsMade, CursorsMade, Asking, FirstPage
<1>3. NothingTwice'
  BY <1>1 DEF NothingTwice
<1>4. (~On("inbox") => PagesWhole)'
  BY <1>1 DEF PagesWhole, PageWhole, MoreFits, FirstDue, Asking, FirstPage
<1> QED
  BY <1>2, <1>3, <1>4

LEMMA SearchKeeps ==
    ASSUME ScreensTypes, ShownInv, NEW q \in Queries, Search(q)
    PROVE ShownInv'
<1> USE DEF ShownInv, On, Search, list
<1>1. /\ \A s : Distinct(s)' <=> Distinct(s)
      /\ \A s, r, low, high : Window(s, r, low, high)' <=> Window(s, r, low, high)
      /\ \A s, r, low : WholeFrom(s, r, low)' <=> WholeFrom(s, r, low)
  BY RowsSame
<1>2. RowsMade' /\ CursorsMade'
  BY DEF RowsMade, CursorsMade, Asking, FirstPage
<1>3. NothingTwice'
  BY <1>1 DEF NothingTwice
<1>4. (~On("inbox") => PagesWhole)'
  BY <1>1 DEF PagesWhole, PageWhole, Asking, FirstPage
<1> QED
  BY <1>2, <1>3, <1>4

LEMMA NoCallIs == NoCall \in CallOf
<1>1. <<>> \in Seq(Nat)
  OBVIOUS
<1> DEFINE e == <<>>
<1> HIDE DEF e
<1>2. [pc |-> "idle", mode |-> "initial", query |-> None, cursor |-> 0, page |-> e, next |-> 0] \in CallOf
  BY <1>1 DEF CallOf, Modes, e
<1> QED
  BY <1>2 DEF NoCall, e

LEMMA FetchIs ==
    ASSUME ScreensTypes, NEW c \in Calls, NEW mode \in Modes, Fetch(c, mode)
    PROVE /\ call' \in [Calls -> CallOf] /\ call[c].pc = "idle"
          /\ call'[c].pc = "sent" /\ call'[c].mode = mode /\ call'[c].query = query
          /\ call'[c].cursor = (IF mode = "more" THEN cursor ELSE 0)
          /\ \A d \in Calls : d # c => call'[d] = call[d]
          /\ latest' = c /\ loading' = loading \cup {mode} /\ error' \in BOOLEAN
          /\ On("jobs") => ~error'
          /\ UNCHANGED <<screen, rows, query, items, cursor, failures, stale>>
<1>1. PICK k \in Nat : k = IF mode = "more" THEN cursor ELSE 0
  BY DEF ScreensTypes
<1> DEFINE new == [NoCall EXCEPT !.pc = "sent", !.mode = mode, !.query = query, !.cursor = k]
<1>2. /\ new \in CallOf
      /\ new.pc = "sent" /\ new.mode = mode /\ new.query = query /\ new.cursor = k
  <2>1. NoCall \in CallOf
    BY NoCallIs
  <2> QED BY <2>1 DEF ScreensTypes, CallOf
<1>3. call' = [call EXCEPT ![c] = new] /\ call[c].pc = "idle"
  BY <1>1 DEF Fetch
<1> HIDE DEF new
<1>4. call' \in [Calls -> CallOf] /\ call'[c] = new /\ \A d \in Calls : d # c => call'[d] = call[d]
  BY <1>2, <1>3 DEF ScreensTypes
<1>5. error' \in BOOLEAN /\ (On("jobs") => ~error')
  BY DEF Fetch, ScreensTypes, On
<1>6. /\ latest' = c /\ loading' = loading \cup {mode}
      /\ UNCHANGED <<screen, rows, query, items, cursor, failures, stale>>
  BY DEF Fetch
<1> QED
  BY <1>1, <1>2, <1>3, <1>4, <1>5, <1>6

LEMMA FetchKeeps ==
    ASSUME ScreensTypes, ShownInv, NEW c \in Calls, NEW mode \in Modes, Fetch(c, mode),
           mode = "more" => CanLoadMore,
           debounce' = debounce \/ (mode # "more" /\ debounce' = FALSE)
    PROVE ShownInv'
<1> USE DEF ShownInv
<1>1. /\ \A s : Distinct(s)' <=> Distinct(s)
      /\ \A s, q, low, high : Window(s, q, low, high)' <=> Window(s, q, low, high)
      /\ \A s, q, low : WholeFrom(s, q, low)' <=> WholeFrom(s, q, low)
  <2>1. rows' = rows
    BY FetchIs
  <2> QED BY <2>1, RowsSame
<1>2. /\ call'[c].pc = "sent" /\ call'[c].mode = mode /\ call'[c].query = query
      /\ call'[c].cursor = (IF mode = "more" THEN cursor ELSE 0)
      /\ \A d \in Calls : d # c => call'[d] = call[d]
      /\ latest' = c /\ loading' = loading \cup {mode}
      /\ On("jobs") => ~error'
      /\ UNCHANGED <<screen, rows, query, items, cursor, failures, stale>>
  BY FetchIs
<1>3. RowsMade'
  BY <1>2 DEF RowsMade, On
<1>4. CursorsMade'
  <2>1. \A d \in Calls : Asking(d)' =>
          /\ call'[d].query \in Queries
          /\ IF FirstPage(d)' THEN call'[d].cursor = 0 ELSE call'[d].cursor \in DOMAIN rows'
          /\ ~On("jobs")' => call'[d].query = query'
    <3> SUFFICES ASSUME NEW d \in Calls, Asking(d)'
                 PROVE /\ call'[d].query \in Queries
                       /\ IF FirstPage(d)' THEN call'[d].cursor = 0 ELSE call'[d].cursor \in DOMAIN rows'
                       /\ ~On("jobs")' => call'[d].query = query'
      OBVIOUS
    <3>1. CASE d = c
      BY <1>2, <3>1 DEF CursorsMade, FirstPage, CanLoadMore, ScreensTypes
    <3>2. CASE d # c
      BY <1>2, <3>2 DEF CursorsMade, Asking, FirstPage, On
    <3> QED BY <3>1, <3>2
  <2> QED BY <1>2, <2>1 DEF CursorsMade
<1>5. NothingTwice'
  <2> SUFFICES ASSUME NEW d \in Calls, call'[d].pc = "answered"
               PROVE Distinct(call[d].page)' /\ (call[d].next # 0 => call[d].next \in DOMAIN rows /\ call[d].page # <<>>)'
    BY <1>1, <1>2 DEF NothingTwice
  <2> QED BY <1>1, <1>2 DEF NothingTwice
<1>6. ASSUME ~On("inbox")' PROVE PagesWhole'
  <2>1. PagesWhole /\ ~On("inbox")
    BY <1>2, <1>6 DEF On
  <2>2. ASSUME NEW d \in Calls, call'[d].pc = "answered" PROVE PageWhole(d)'
    BY <1>1, <1>2, <2>1, <2>2 DEF PagesWhole, PageWhole, FirstPage
  <2>3. Asking(latest)' /\ (FirstPage(latest)' <=> mode # "more")
    BY <1>2 DEF Asking, FirstPage
  <2>4. \/ On("jobs")' /\ (debounce' \/ error' \/ FirstDue')
        \/ WholeFrom(items, query, cursor)' /\ MoreFits'
    <3>1. CASE mode = "more"
      <4>1. ~Asking(latest) /\ (On("jobs") => ~error) /\ debounce' = debounce
        BY <2>1, <3>1 DEF CanLoadMore, CursorsMade
      <4>2. MoreFits'
        BY <1>2, <3>1 DEF MoreFits
      <4> QED BY <1>1, <1>2, <2>1, <4>1, <4>2 DEF PagesWhole, FirstDue, On
    <3>2. CASE mode # "more"
      <4>1. FirstDue' /\ MoreFits'
        BY <1>2, <2>3, <3>2 DEF FirstDue, MoreFits
      <4> QED BY <1>1, <1>2, <2>1, <4>1 DEF PagesWhole, On
    <3> QED BY <3>1, <3>2
  <2> QED BY <1>2, <2>2, <2>4 DEF PagesWhole, On
<1> QED
  BY <1>3, <1>4, <1>5, <1>6

LEMMA AnswerKeeps ==
    ASSUME ScreensTypes, ShownInv, NEW c \in Calls, Answer(c)
    PROVE ShownInv' /\ call' \in [Calls -> CallOf]
<1> USE DEF ShownInv
<1>1. /\ \A s : Distinct(s)' <=> Distinct(s)
      /\ \A s, q, low, high : Window(s, q, low, high)' <=> Window(s, q, low, high)
      /\ \A s, q, low : WholeFrom(s, q, low)' <=> WholeFrom(s, q, low)
  BY RowsSame DEF Answer
<1> DEFINE got == PageBelow(call[c].query, call[c].cursor)
<1>2. /\ got \in Seq(Below(call[c].query, call[c].cursor)) /\ Distinct(got)
      /\ NextCursor(got) \in Nat
      /\ NextCursor(got) # 0 => got # <<>> /\ NextCursor(got) \in Below(call[c].query, call[c].cursor)
  BY PageIs DEF ScreensTypes, CallOf
<1>3. Below(call[c].query, call[c].cursor) \subseteq DOMAIN rows /\ DOMAIN rows \subseteq Nat
  BY BelowIs DEF ScreensTypes, CallOf
<1>4. got \in Seq(Nat)
  BY <1>2, <1>3, SeqMonotonic
<1>5. ~On("inbox") => /\ call[c].cursor = 0 => WholeFrom(got, call[c].query, NextCursor(got))
                      /\ call[c].cursor # 0 => /\ NextCursor(got) < call[c].cursor
                                               /\ Window(got, call[c].query, NextCursor(got), call[c].cursor - 1)
  BY AnswerWhole DEF ScreensTypes, CallOf
<1> HIDE DEF got
<1>6. call' \in [Calls -> CallOf]
  <2>1. PICK p \in Seq(Nat), n \in Nat : p = got /\ n = NextCursor(got)
    BY <1>2, <1>4
  <2>2. call' = [call EXCEPT ![c].pc = "answered", ![c].page = p, ![c].next = n]
    BY <2>1 DEF Answer, got
  <2>3. [call[c] EXCEPT !.pc = "answered", !.page = p, !.next = n] \in CallOf
    BY DEF ScreensTypes, CallOf
  <2>4. call' = [call EXCEPT ![c] = [call[c] EXCEPT !.pc = "answered", !.page = p, !.next = n]]
    BY <2>2 DEF ScreensTypes
  <2> QED BY <2>3, <2>4 DEF ScreensTypes
<1>7. /\ call[c].pc = "sent" /\ call'[c].pc = "answered" /\ call'[c].page = got /\ call'[c].next = NextCursor(got)
      /\ call'[c].query = call[c].query /\ call'[c].mode = call[c].mode /\ call'[c].cursor = call[c].cursor
      /\ \A d \in Calls : d # c => call'[d] = call[d]
      /\ UNCHANGED <<screen, rows, query, debounce, focus, items, cursor, loading, error, latest, text, stale>>
  BY DEF Answer, ScreensTypes, CallOf, got
<1>8. \A d \in Calls : (Asking(d)' <=> Asking(d)) /\ (FirstPage(d)' <=> FirstPage(d)) /\ call'[d].mode = call[d].mode
                       /\ call'[d].query = call[d].query /\ call'[d].cursor = call[d].cursor
  BY <1>7 DEF Asking, FirstPage
<1>a. (Asking(latest)' <=> Asking(latest))
  BY <1>7, <1>8 DEF Asking
<1>9. RowsMade'
  BY <1>7 DEF RowsMade, On
<1>10. CursorsMade'
  BY <1>7, <1>8, <1>a DEF CursorsMade, On, Asking
<1>11. NothingTwice'
  <2> SUFFICES ASSUME NEW d \in Calls, call'[d].pc = "answered"
               PROVE Distinct(call[d].page)' /\ (call[d].next # 0 => call[d].next \in DOMAIN rows /\ call[d].page # <<>>)'
    BY <1>1, <1>7 DEF NothingTwice
  <2>1. CASE d = c
    BY <1>1, <1>2, <1>3, <1>7, <2>1
  <2>2. CASE d # c
    BY <1>1, <1>7, <2>2 DEF NothingTwice
  <2> QED BY <2>1, <2>2
<1>12. ASSUME ~On("inbox")' PROVE PagesWhole'
  <2>1. PagesWhole /\ ~On("inbox")
    BY <1>7, <1>12 DEF On
  <2>2. ASSUME NEW d \in Calls, call'[d].pc = "answered" PROVE PageWhole(d)'
    <3>1. CASE d = c
      <4>1. call[c].query = call'[c].query /\ (FirstPage(c) => call[c].cursor = 0)
            /\ (~FirstPage(c) => call[c].cursor \in DOMAIN rows /\ call[c].cursor # 0)
        BY <1>3, <1>7 DEF CursorsMade, Asking, ScreensTypes
      <4> QED BY <1>1, <1>5, <1>7, <1>8, <2>1, <3>1, <4>1 DEF PageWhole, FirstPage
    <3>2. CASE d # c
      BY <1>1, <1>7, <2>1, <2>2, <3>2 DEF PagesWhole, PageWhole, FirstPage
    <3> QED BY <3>1, <3>2
  <2>3. (FirstDue' <=> FirstDue) /\ (MoreFits' <=> MoreFits)
    BY <1>7, <1>8, <1>a DEF FirstDue, MoreFits, Asking, FirstPage
  <2>4. (Asking(latest) /\ ~debounce => call[latest].query = query)'
    BY <1>7, <1>8, <1>a, <2>1 DEF PagesWhole, Asking
  <2> QED BY <1>1, <1>7, <1>a, <2>1, <2>2, <2>3, <2>4 DEF PagesWhole, On
<1> QED
  BY <1>6, <1>9, <1>10, <1>11, <1>12

(* What is shown after an answer: the page, or what was shown with the rows *)
(* of the page that were not, in their order.                               *)
Unseen(p) == {k \in DOMAIN p : rows[p[k]].key \notin Shown}

LEMMA MergedIs ==
    ASSUME ScreensTypes, NothingTwice, NEW c \in Calls, call[c].pc = "answered"
    PROVE /\ Distinct(Merged(c)) /\ Merged(c) \in Seq(Nat)
          /\ call[c].page # <<>> => Merged(c) # <<>>
          /\ FirstPage(c) => Merged(c) = call[c].page
          /\ ~FirstPage(c) => \E f \in Seq(DOMAIN rows) : \E at :
                                  Merged(c) = items \o f /\ Picks(f, call[c].page, Unseen(call[c].page), at)
<1> DEFINE D == DOMAIN rows
           p == call[c].page
           m == Merged(c)
<1>1. D \subseteq Nat /\ Distinct(items) /\ Distinct(p) /\ items \in Seq(D) /\ p \in Seq(D)
  BY BelowIs DEF NothingTwice, Distinct
<1>2. CASE FirstPage(c)
  <2>1. m = p
    BY <1>2 DEF Merged, FirstPage
  <2>2. p \in Seq(Nat)
    BY <1>1, SeqMonotonic
  <2> QED BY <1>1, <1>2, <2>1, <2>2
<1>3. CASE ~FirstPage(c)
  <2> DEFINE K == Unseen(p)
             f == Those(p, K)
  <2>1. m = items \o f
    BY <1>3 DEF Merged, FirstPage, Filter, Unseen
  <2>2. K \in SUBSET (DOMAIN p) /\ \A k \in K : rows[p[k]].key \notin Shown
    BY DEF Unseen
  <2>k. \A k \in DOMAIN p : rows[p[k]].key \notin Shown => k \in K
    BY DEF Unseen
  <2> HIDE DEF K
  <2>3. f \in Seq(D) /\ \E at : Picks(f, p, K, at)
    BY <1>1, <2>2, ThoseIs
  <2>4. PICK at : Picks(f, p, K, at)
    BY <2>3
  <2> HIDE DEF f
  <2> DEFINE n == Len(items)
             l == Len(f)
  <2>5. n \in Nat /\ l \in Nat /\ DOMAIN items = 1 .. n /\ DOMAIN f = 1 .. l
    BY <1>1, <2>3
  <2>6. /\ m \in Seq(D) /\ Len(m) = n + l /\ DOMAIN m = 1 .. n + l
        /\ \A i \in 1 .. n : m[i] = items[i]
        /\ \A i \in n + 1 .. n + l : m[i] = f[i - n] /\ i - n \in 1 .. l
    <3> DEFINE w == items \o f
    <3>1. w \in Seq(D) /\ Len(w) = n + l
          /\ \A i \in 1 .. n + l : w[i] = IF i <= n THEN items[i] ELSE f[i - n]
      BY <1>1, <2>3, ConcatProperties
    <3> HIDE DEF w
    <3> QED BY <2>1, <2>5, <3>1 DEF w
  <2> HIDE DEF m
  <2>7. \A j \in 1 .. l : f[j] = p[at[j]] /\ at[j] \in K /\ at[j] \in DOMAIN p
    BY <2>2, <2>4, <2>5 DEF Picks
  <2>8. \A j \in 1 .. l : rows[f[j]].key \notin Shown
    BY <2>2, <2>7
  <2>9. \A i \in 1 .. n : rows[items[i]].key \in Shown
    BY <2>5 DEF Shown
  <2>10. \A i, j \in 1 .. l : rows[f[i]].key = rows[f[j]].key => i = j
    <3> SUFFICES ASSUME NEW i \in 1 .. l, NEW j \in 1 .. l, rows[f[i]].key = rows[f[j]].key, i # j PROVE FALSE
      OBVIOUS
    <3>1. at[i] = at[j]
      <4>1. \A a, b \in DOMAIN p : rows[p[a]].key = rows[p[b]].key => a = b
        BY <1>1 DEF Distinct
      <4> HIDE DEF p
      <4> QED BY <2>7, <4>1
    <3>2. at[i] \in Nat
      BY <1>1, <2>7
    <3>3. i < j \/ j < i
      OBVIOUS
    <3>4. at[i] < at[j] \/ at[j] < at[i]
      BY <2>4, <2>5, <3>3 DEF Picks
    <3> QED BY <3>1, <3>2, <3>4
  <2>11. ASSUME NEW i \in 1 .. n + l, NEW k \in 1 .. n + l, rows[m[i]].key = rows[m[k]].key PROVE i = k
    <3>1. CASE i <= n /\ k <= n
      <4>1. i \in 1 .. n /\ k \in 1 .. n /\ m[i] = items[i] /\ m[k] = items[k]
        BY <2>5, <2>6, <3>1
      <4>2. \A a, b \in 1 .. n : rows[items[a]].key = rows[items[b]].key => a = b
        BY <1>1, <2>5 DEF Distinct
      <4> QED BY <2>11, <4>1, <4>2
    <3>2. CASE i > n /\ k > n
      <4>1. i - n \in 1 .. l /\ k - n \in 1 .. l /\ m[i] = f[i - n] /\ m[k] = f[k - n]
        BY <2>5, <2>6, <3>2
      <4>2. i - n = k - n
        BY <2>10, <2>11, <4>1
      <4> QED BY <2>5, <4>2
    <3>3. CASE i <= n /\ k > n
      <4>1. i \in 1 .. n /\ k - n \in 1 .. l /\ m[i] = items[i] /\ m[k] = f[k - n]
        BY <2>5, <2>6, <3>3
      <4> QED BY <2>8, <2>9, <2>11, <4>1
    <3>4. CASE i > n /\ k <= n
      <4>1. k \in 1 .. n /\ i - n \in 1 .. l /\ m[k] = items[k] /\ m[i] = f[i - n]
        BY <2>5, <2>6, <3>4
      <4> QED BY <2>8, <2>9, <2>11, <4>1
    <3> QED BY <2>5, <3>1, <3>2, <3>3, <3>4
  <2>12. Distinct(m)
    BY <2>6, <2>11 DEF Distinct
  <2>13. m \in Seq(Nat)
    BY <1>1, <2>6, SeqMonotonic
  <2>14. ASSUME p # <<>> PROVE m # <<>>
    <3>1. CASE n > 0
      BY <2>5, <2>6, <3>1
    <3>2. CASE n = 0
      <4>1. Shown = {}
        BY <2>5, <3>2 DEF Shown
      <4>2. 1 \in DOMAIN p
        BY <1>1, <2>14
      <4>3. 1 \in K
        BY <2>k, <4>1, <4>2
      <4>4. l > 0
        BY <2>4, <2>5, <4>3 DEF Picks
      <4> QED BY <2>5, <2>6, <4>4
    <3> QED BY <2>5, <3>1, <3>2
  <2>15. \E g \in Seq(D) : \E a : m = items \o g /\ Picks(g, p, K, a)
    BY <2>1, <2>3, <2>4
  <2> QED BY <1>3, <2>12, <2>13, <2>14, <2>15 DEF m, K
<1> QED
  BY <1>2, <1>3

(* A page that goes on where the list ended makes a longer whole list.      *)
LEMMA MoreWhole ==
    ASSUME ScreensTypes, RowsMade, ~On("inbox"), NEW q, NEW low \in Nat, NEW p, NEW f \in Seq(DOMAIN rows), NEW at,
           items \in Seq(DOMAIN rows), items # <<>>, Window(items, q, cursor, Head(items)),
           low < cursor, Window(p, q, low, cursor - 1), Picks(f, p, Unseen(p), at)
    PROVE WholeFrom(items \o f, q, low)
<1> DEFINE n == Len(items)
           l == Len(f)
           h == Head(items)
           m == items \o f
<1>1. /\ n \in Nat \ {0} /\ l \in Nat /\ DOMAIN items = 1 .. n /\ DOMAIN f = 1 .. l
      /\ h = items[1] /\ cursor \in Nat /\ DOMAIN rows \subseteq Nat /\ h \in DOMAIN rows
  <2>1. n # 0 /\ n \in Nat /\ DOMAIN items = 1 .. n /\ h = items[1] /\ h \in DOMAIN rows
    OBVIOUS
  <2> QED BY <2>1, BelowIs DEF ScreensTypes
<1>2. /\ m \in Seq(DOMAIN rows) /\ Len(m) = n + l /\ DOMAIN m = 1 .. n + l
      /\ \A i \in 1 .. n : m[i] = items[i]
      /\ \A i \in n + 1 .. n + l : m[i] = f[i - n] /\ i - n \in 1 .. l
  <2>1. m \in Seq(DOMAIN rows) /\ Len(m) = n + l
        /\ \A i \in 1 .. n + l : m[i] = IF i <= n THEN items[i] ELSE f[i - n]
    BY ConcatProperties
  <2> HIDE DEF m
  <2> QED BY <1>1, <2>1
<1>3. /\ \A i \in 1 .. n : items[i] \in Between(q, cursor, h)
      /\ \A i, j \in 1 .. n : i < j => items[i] > items[j]
      /\ \A x \in Between(q, cursor, h) : \E i \in 1 .. n : items[i] = x
  <2> DEFINE B == Between(q, cursor, h)
  <2> HIDE DEF B
  <2>1. NewestList(items, B)
    BY DEF Window, B
  <2>2. /\ \A i \in 1 .. n : items[i] \in B
        /\ \A i, j \in 1 .. n : i < j => items[i] > items[j]
        /\ \A x \in B : \E i \in 1 .. n : items[i] = x
    BY <1>1, <2>1, NewestHas
  <2> QED BY <2>2 DEF B
<1>4. /\ \A k \in DOMAIN p : p[k] \in Between(q, low, cursor - 1)
      /\ \A i, j \in DOMAIN p : i < j => p[i] > p[j]
      /\ \A x \in Between(q, low, cursor - 1) : \E i \in DOMAIN p : p[i] = x
  BY DEF Window, NewestList
<1>5. /\ \A x : x \in Between(q, cursor, h) <=> x \in Below(q, 0) /\ cursor <= x /\ x <= h
      /\ \A x : x \in Between(q, low, cursor - 1) <=> x \in Below(q, 0) /\ low <= x /\ x <= cursor - 1
      /\ \A x : x \in Between(q, low, h) <=> x \in Below(q, 0) /\ low <= x /\ x <= h
      /\ \A x \in Below(q, 0) : x \in DOMAIN rows /\ x \in Nat /\ rows[x].key = x
  <2>1. Below(q, 0) \subseteq DOMAIN rows /\ DOMAIN rows \subseteq Nat
    BY BelowIs
  <2> QED BY <2>1 DEF Between, RowsMade
<1>6. \A k \in DOMAIN p : k \in Unseen(p)
  <2>1. \A x \in Shown : x \in Nat /\ x >= cursor
    BY <1>1, <1>3, <1>5 DEF Shown
  <2>2. \A k \in DOMAIN p : rows[p[k]].key \in Nat /\ rows[p[k]].key < cursor
    BY <1>1, <1>4, <1>5
  <2>3. \A k \in DOMAIN p : rows[p[k]].key \notin Shown
    BY <1>1, <2>1, <2>2
  <2> QED BY <2>3 DEF Unseen
<1>7. /\ \A j \in 1 .. l : at[j] \in DOMAIN p /\ f[j] = p[at[j]]
      /\ \A i, j \in 1 .. l : i < j => at[i] < at[j]
      /\ \A k \in DOMAIN p : \E j \in 1 .. l : at[j] = k
  <2>1. Unseen(p) \subseteq DOMAIN p
    BY DEF Unseen
  <2> QED BY <1>1, <1>6, <2>1 DEF Picks
<1>8. /\ \A j \in 1 .. l : f[j] \in Between(q, low, cursor - 1)
      /\ \A i, j \in 1 .. l : i < j => f[i] > f[j]
      /\ \A x \in Between(q, low, cursor - 1) : \E j \in 1 .. l : f[j] = x
  <2>1. \A i, j \in 1 .. l : i < j => f[i] > f[j]
    BY <1>4, <1>7
  <2>2. \A x \in Between(q, low, cursor - 1) : \E j \in 1 .. l : f[j] = x
    <3> SUFFICES ASSUME NEW x \in Between(q, low, cursor - 1) PROVE \E j \in 1 .. l : f[j] = x
      OBVIOUS
    <3>1. PICK k \in DOMAIN p : p[k] = x
      BY <1>4
    <3>2. PICK j \in 1 .. l : at[j] = k
      BY <1>7
    <3> QED BY <1>7, <3>1, <3>2
  <2> QED BY <1>4, <1>7, <2>1, <2>2
<1>i. \A i \in 1 .. n + l : IF i <= n THEN i \in 1 .. n ELSE i \in n + 1 .. n + l
  BY <1>1
<1> HIDE DEF m
<1>9. Head(m) = h
  BY <1>1, <1>2
<1> HIDE DEF n, l, h
<1>c. cursor <= h
  BY <1>1, <1>3, <1>5
<1>10. \A i \in 1 .. n + l : m[i] \in Between(q, low, h)
  <2> SUFFICES ASSUME NEW i \in 1 .. n + l PROVE m[i] \in Between(q, low, h)
    OBVIOUS
  <2>1. CASE i <= n
    <3>1. m[i] \in Between(q, cursor, h)
      BY <1>i, <1>2, <1>3, <2>1
    <3> QED BY <1>1, <1>5, <3>1
  <2>2. CASE i > n
    <3>1. m[i] \in Between(q, low, cursor - 1)
      BY <1>1, <1>i, <1>2, <1>8, <2>2
    <3> QED BY <1>1, <1>5, <1>c, <3>1
  <2> QED BY <1>1, <2>1, <2>2
<1>11. \A i, j \in 1 .. n + l : i < j => m[i] > m[j]
  <2> SUFFICES ASSUME NEW i \in 1 .. n + l, NEW j \in 1 .. n + l, i < j PROVE m[i] > m[j]
    OBVIOUS
  <2>1. CASE j <= n
    <3>1. i \in 1 .. n /\ j \in 1 .. n
      BY <1>1, <2>1
    <3> QED BY <1>2, <1>3, <3>1
  <2>2. CASE i > n
    <3>1. i - n \in 1 .. l /\ j - n \in 1 .. l /\ i - n < j - n /\ m[i] = f[i - n] /\ m[j] = f[j - n]
      BY <1>1, <1>i, <1>2, <2>2
    <3> QED BY <1>8, <3>1
  <2>3. CASE i <= n /\ j > n
    <3>1. m[i] \in Between(q, cursor, h) /\ m[j] \in Between(q, low, cursor - 1)
      BY <1>1, <1>i, <1>2, <1>3, <1>8, <2>3
    <3> QED BY <1>1, <1>5, <3>1
  <2> QED BY <1>1, <2>1, <2>2, <2>3
<1>12. \A x \in Between(q, low, h) : \E i \in 1 .. n + l : m[i] = x
  <2> SUFFICES ASSUME NEW x \in Between(q, low, h) PROVE \E i \in 1 .. n + l : m[i] = x
    OBVIOUS
  <2>1. CASE x >= cursor
    <3>1. x \in Between(q, cursor, h)
      BY <1>5, <2>1
    <3>2. PICK i \in 1 .. n : items[i] = x
      BY <1>3, <3>1
    <3> QED BY <1>1, <1>2, <3>2
  <2>2. CASE x < cursor
    <3>1. x \in Between(q, low, cursor - 1)
      BY <1>1, <1>5, <2>2
    <3>2. PICK j \in 1 .. l : f[j] = x
      BY <1>8, <3>1
    <3>3. n + j \in n + 1 .. n + l /\ n + j \in 1 .. n + l /\ (n + j) - n = j
      BY <1>1
    <3>4. m[n + j] = f[j]
      BY <1>2, <3>3
    <3> QED BY <3>2, <3>3, <3>4
  <2> QED BY <1>1, <1>5, <2>1, <2>2
<1>13. m \in Seq(Between(q, low, h))
  BY <1>2, <1>10
<1> QED
  BY <1>2, <1>9, <1>11, <1>12, <1>13 DEF WholeFrom, Window, NewestList, m

(* The request c is over. *)
LEMMA OverKeeps ==
    ASSUME ScreensTypes, ShownInv, NEW c \in Calls, call' = [call EXCEPT ![c] = NoCall],
           UNCHANGED <<screen, rows, query, debounce, latest>>
    PROVE /\ call' \in [Calls -> CallOf] /\ call'[c].pc = "idle"
          /\ \A d \in Calls : d # c => call'[d] = call[d]
          /\ \A d \in Calls : call'[d].pc = "answered" =>
                /\ Distinct(call[d].page)'
                /\ (call[d].next # 0 => call[d].next \in DOMAIN rows /\ call[d].page # <<>>)'
                /\ ~On("inbox") => PageWhole(d)'
          /\ \A d \in Calls : Asking(d)' => d # c /\ Asking(d) /\ (FirstPage(d)' <=> FirstPage(d)) /\ call'[d] = call[d]
          /\ RowsMade'
<1>1. /\ \A s : Distinct(s)' <=> Distinct(s)
      /\ \A s, q, low, high : Window(s, q, low, high)' <=> Window(s, q, low, high)
      /\ \A s, q, low : WholeFrom(s, q, low)' <=> WholeFrom(s, q, low)
  BY RowsSame
<1>2. call' \in [Calls -> CallOf] /\ call'[c] = NoCall /\ \A d \in Calls : d # c => call'[d] = call[d]
  BY NoCallIs DEF ScreensTypes
<1>3. call'[c].pc = "idle"
  BY <1>2 DEF NoCall
<1>4. RowsMade'
  BY DEF ShownInv, RowsMade, On
<1>5. ASSUME NEW d \in Calls, call'[d].pc = "answered"
      PROVE /\ Distinct(call[d].page)'
            /\ (call[d].next # 0 => call[d].next \in DOMAIN rows /\ call[d].page # <<>>)'
            /\ ~On("inbox") => PageWhole(d)'
  <2>1. d # c /\ call'[d] = call[d]
    BY <1>2, <1>3, <1>5
  <2>2. /\ Distinct(call[d].page)
        /\ call[d].next # 0 => call[d].next \in DOMAIN rows /\ call[d].page # <<>>
        /\ ~On("inbox") => PageWhole(d)
    BY <1>5, <2>1 DEF ShownInv, NothingTwice, PagesWhole
  <2> QED BY <1>1, <2>1, <2>2 DEF PageWhole, FirstPage
<1>6. \A d \in Calls : Asking(d)' => d # c /\ Asking(d) /\ (FirstPage(d)' <=> FirstPage(d)) /\ call'[d] = call[d]
  BY <1>2, <1>3 DEF Asking, FirstPage
<1> QED
  BY <1>2, <1>3, <1>4, <1>5, <1>6

LEMMA ApplyKeeps ==
    ASSUME ScreensTypes, ShownInv, NEW c \in Calls, Apply(c)
    PROVE ShownInv' /\ items' \in Seq(Nat) /\ cursor' \in Nat
<1>1. /\ call[c].pc = "answered" /\ call' = [call EXCEPT ![c] = NoCall]
      /\ UNCHANGED <<screen, rows, query, debounce, latest>>
  BY DEF Apply
<1>2. /\ call'[c].pc = "idle"
      /\ \A d \in Calls : d # c => call'[d] = call[d]
      /\ \A d \in Calls : call'[d].pc = "answered" =>
            /\ Distinct(call[d].page)'
            /\ (call[d].next # 0 => call[d].next \in DOMAIN rows /\ call[d].page # <<>>)'
            /\ ~On("inbox") => PageWhole(d)'
      /\ \A d \in Calls : Asking(d)' => d # c /\ Asking(d) /\ (FirstPage(d)' <=> FirstPage(d)) /\ call'[d] = call[d]
      /\ RowsMade'
  BY <1>1, OverKeeps
<1>3. /\ \A s : Distinct(s)' <=> Distinct(s)
      /\ \A s, q, low : WholeFrom(s, q, low)' <=> WholeFrom(s, q, low)
  BY <1>1, RowsSame
<1>s. \A s : On(s)' <=> On(s)
  BY <1>1 DEF On
<1>4. CASE ~Heeded(c)
  <2>1. UNCHANGED <<items, cursor, loading, stale, error>> /\ latest # c /\ ~On("inbox")
    BY <1>4 DEF Apply, Heeded, Current
  <2>2. (Asking(latest)' <=> Asking(latest)) /\ (latest \in Calls => call'[latest] = call[latest])
    BY <1>1, <1>2, <2>1 DEF Asking
  <2>3. CursorsMade'
    BY <1>1, <1>2, <1>s, <2>1, <2>2 DEF ShownInv, CursorsMade, FirstPage, Asking
  <2>4. NothingTwice'
    BY <1>2, <1>3, <2>1 DEF ShownInv, NothingTwice
  <2>5. PagesWhole'
    <3>1. PagesWhole
      BY <2>1 DEF ShownInv
    <3>2. (MoreFits' <=> MoreFits) /\ (FirstDue' <=> FirstDue)
          /\ (Asking(latest) /\ ~debounce => call[latest].query = query)'
      BY <1>1, <2>1, <2>2, <3>1 DEF PagesWhole, MoreFits, FirstDue, FirstPage, Asking
    <3>3. WholeFrom(items, query, cursor)' <=> WholeFrom(items, query, cursor)
      BY <1>1, <1>3, <2>1
    <3> QED BY <1>1, <1>2, <1>s, <2>1, <2>2, <3>1, <3>2, <3>3 DEF PagesWhole
  <2>6. items' \in Seq(Nat) /\ cursor' \in Nat
    BY <2>1 DEF ScreensTypes
  <2> QED BY <1>2, <2>3, <2>4, <2>5, <2>6 DEF ShownInv
<1>5. CASE Heeded(c)
  <2>1. items' = Merged(c) /\ cursor' = call[c].next
        /\ (~On("inbox") => latest = c /\ error' = error)
    BY <1>5 DEF Apply, Heeded, Current, On
  <2>2. /\ Distinct(Merged(c)) /\ Merged(c) \in Seq(Nat)
        /\ call[c].page # <<>> => Merged(c) # <<>>
        /\ FirstPage(c) => Merged(c) = call[c].page
        /\ ~FirstPage(c) => \E f \in Seq(DOMAIN rows) : \E at :
                                Merged(c) = items \o f /\ Picks(f, call[c].page, Unseen(call[c].page), at)
    BY <1>1, MergedIs DEF ShownInv
  <2>3. call[c].next # 0 => call[c].next \in DOMAIN rows /\ call[c].page # <<>>
    BY <1>1 DEF ShownInv, NothingTwice
  <2>4. call[c].next \in Nat
    BY DEF ScreensTypes, CallOf
  <2>5. NothingTwice'
    BY <1>2, <1>3, <2>1, <2>2 DEF NothingTwice
  <2>6. ~On("inbox") => ~Asking(latest)'
    BY <1>1, <1>2, <2>1 DEF Asking
  <2>7. CursorsMade'
    BY <1>1, <1>2, <1>s, <2>1, <2>2, <2>3, <2>6 DEF ShownInv, CursorsMade
  <2>8. ASSUME ~On("inbox") PROVE PagesWhole'
    <3>1. PagesWhole /\ latest = c /\ Asking(latest) /\ error' = error
      BY <1>1, <2>1, <2>8 DEF ShownInv, Asking
    <3>2. ~ (On("jobs") /\ error)
      BY <3>1 DEF PagesWhole
    <3>3. PageWhole(c)
      BY <1>1, <3>1 DEF PagesWhole
    <3>4. ~Asking(latest)'
      BY <2>6, <2>8
    <3>5. CASE On("jobs") /\ debounce
      BY <1>1, <1>2, <1>s, <2>8, <3>1, <3>2, <3>4, <3>5 DEF PagesWhole
    <3>6. CASE ~ (On("jobs") /\ debounce)
      <4>1. call[c].query = query
        <5>1. CASE On("jobs")
          BY <3>1, <3>6, <5>1 DEF PagesWhole
        <5>2. CASE ~On("jobs")
          BY <3>1, <5>2 DEF ShownInv, CursorsMade
        <5> QED BY <5>1, <5>2
      <4>2. WholeFrom(Merged(c), query, call[c].next)
        <5>1. CASE FirstPage(c)
          BY <2>2, <3>3, <4>1, <5>1 DEF PageWhole
        <5>2. CASE ~FirstPage(c)
          <6>1. WholeFrom(items, query, cursor) /\ MoreFits
            BY <3>1, <3>2, <3>6, <5>2 DEF PagesWhole, FirstDue
          <6>2. call[c].cursor = cursor /\ cursor # 0 /\ items # <<>>
            <7>1. call[c].cursor \in DOMAIN rows /\ DOMAIN rows = 1 .. Len(rows)
              BY <3>1, <5>2, BelowIs DEF ShownInv, CursorsMade, ScreensTypes
            <7> QED BY <3>1, <5>2, <6>1, <7>1 DEF MoreFits, ShownInv, CursorsMade
          <6>3. PICK f \in Seq(DOMAIN rows) : \E at :
                    Merged(c) = items \o f /\ Picks(f, call[c].page, Unseen(call[c].page), at)
            BY <2>2, <5>2
          <6>4. PICK at : Merged(c) = items \o f /\ Picks(f, call[c].page, Unseen(call[c].page), at)
            BY <6>3
          <6>5. call[c].next < cursor /\ Window(call[c].page, query, call[c].next, cursor - 1)
            BY <3>3, <4>1, <5>2, <6>2 DEF PageWhole
          <6>6. items \in Seq(DOMAIN rows) /\ Window(items, query, cursor, Head(items)) /\ RowsMade
            BY <6>1, <6>2 DEF ShownInv, NothingTwice, Distinct, WholeFrom
          <6>7. WholeFrom(items \o f, query, call[c].next)
            BY <2>4, <2>8, <6>2, <6>4, <6>5, <6>6, MoreWhole
          <6> QED BY <6>4, <6>7
        <5> QED BY <5>1, <5>2
      <4>3. WholeFrom(items, query, cursor)'
        BY <1>1, <1>3, <2>1, <4>2
      <4>4. MoreFits'
        BY <3>4 DEF MoreFits
      <4> QED BY <1>1, <1>2, <1>s, <2>8, <3>1, <3>2, <3>4, <4>3, <4>4 DEF PagesWhole
    <3> QED BY <3>5, <3>6
  <2> QED BY <1>2, <1>s, <2>1, <2>2, <2>4, <2>5, <2>7, <2>8 DEF ShownInv
<1> QED
  BY <1>4, <1>5

LEMMA FailsKeeps ==
    ASSUME ScreensTypes, ShownInv, NEW c \in Calls, Fails(c)
    PROVE ShownInv'
<1>1. /\ call[c].pc # "idle" /\ call' = [call EXCEPT ![c] = NoCall]
      /\ UNCHANGED <<screen, rows, query, debounce, latest, items, cursor>>
  BY DEF Fails
<1>2. /\ call'[c].pc = "idle"
      /\ \A d \in Calls : d # c => call'[d] = call[d]
      /\ \A d \in Calls : call'[d].pc = "answered" =>
            /\ Distinct(call[d].page)'
            /\ (call[d].next # 0 => call[d].next \in DOMAIN rows /\ call[d].page # <<>>)'
            /\ ~On("inbox") => PageWhole(d)'
      /\ \A d \in Calls : Asking(d)' => d # c /\ Asking(d) /\ (FirstPage(d)' <=> FirstPage(d)) /\ call'[d] = call[d]
      /\ RowsMade'
  BY <1>1, OverKeeps
<1>3. /\ \A s : Distinct(s)' <=> Distinct(s)
      /\ \A s, q, low : WholeFrom(s, q, low)' <=> WholeFrom(s, q, low)
  BY <1>1, RowsSame
<1>s. \A s : On(s)' <=> On(s)
  BY <1>1 DEF On
<1>4. NothingTwice'
  BY <1>1, <1>2, <1>3 DEF ShownInv, NothingTwice
<1>5. CASE latest = c \/ On("inbox")
  <2>1. ~On("inbox") => ~Asking(latest)' /\ stale'
    BY <1>1, <1>2, <1>5 DEF Asking, Fails, Heeded, Current
  <2>2. CursorsMade'
    BY <1>1, <1>2, <1>s, <2>1 DEF ShownInv, CursorsMade
  <2>3. ASSUME ~On("inbox") PROVE PagesWhole'
    <3>1. PagesWhole /\ ~Asking(latest)' /\ stale' /\ error'
      BY <1>5, <2>1, <2>3 DEF ShownInv, Fails, Heeded, Current
    <3>2. WholeFrom(items, query, cursor)' <=> WholeFrom(items, query, cursor)
      BY <1>1, <1>3
    <3> QED BY <1>1, <1>2, <1>s, <2>3, <3>1, <3>2 DEF PagesWhole, MoreFits
  <2> QED BY <1>2, <1>4, <1>s, <2>2, <2>3 DEF ShownInv
<1>6. CASE latest # c /\ ~On("inbox")
  <2>1. UNCHANGED <<loading, stale, error>>
    BY <1>6 DEF Fails, Heeded, Current
  <2>2. (Asking(latest)' <=> Asking(latest)) /\ (latest \in Calls => call'[latest] = call[latest])
    BY <1>1, <1>2, <1>6 DEF Asking
  <2>3. CursorsMade'
    BY <1>1, <1>2, <1>s, <2>1, <2>2 DEF ShownInv, CursorsMade, FirstPage, Asking
  <2>5. PagesWhole'
    <3>1. PagesWhole
      BY <1>6 DEF ShownInv
    <3>2. (MoreFits' <=> MoreFits) /\ (FirstDue' <=> FirstDue)
          /\ (Asking(latest) /\ ~debounce => call[latest].query = query)'
      BY <1>1, <2>1, <2>2, <3>1 DEF PagesWhole, MoreFits, FirstDue, FirstPage, Asking
    <3>3. WholeFrom(items, query, cursor)' <=> WholeFrom(items, query, cursor)
      BY <1>1, <1>3, <2>1
    <3> QED BY <1>1, <1>2, <1>6, <1>s, <2>1, <2>2, <3>1, <3>2, <3>3 DEF PagesWhole
  <2> QED BY <1>2, <1>4, <2>3, <2>5 DEF ShownInv
<1> QED
  BY <1>5, <1>6

(* A first page of a thread reaches every message there is. *)
LEMMA TopReached ==
    ASSUME ScreensTypes, RowsMade, On("thread"), NEW q \in Queries, NEW r \in DOMAIN rows
    PROVE Reaches(PageBelow(q, 0), r)
<1> DEFINE p == PageBelow(q, 0)
           low == NextCursor(p)
<1>1. /\ p \in Seq(Below(q, 0)) /\ \A i, j \in DOMAIN p : i < j => p[i] > p[j]
      /\ low \in Nat /\ (low # 0 => p # <<>>)
      /\ \A i \in DOMAIN p : low <= p[i]
      /\ \A x \in Below(q, 0) : low <= x => \E i \in DOMAIN p : p[i] = x
  <2>1. ~On("inbox")
    BY DEF On
  <2> QED BY <2>1, PageIs
<1>2. r \in Below(q, 0) /\ r \in Nat /\ Below(q, 0) \subseteq Nat
  <2>1. rows[r].fits = Queries
    BY DEF RowsMade, On
  <2> QED BY <2>1, BelowIs DEF Below
<1> HIDE DEF p, low
<1>3. p # <<>>
  <2>1. p = <<>> => low <= r
    BY <1>1, <1>2
  <2>2. p = <<>> => DOMAIN p = {}
    OBVIOUS
  <2> QED BY <1>1, <1>2, <2>1, <2>2
<1>4. 1 \in DOMAIN p /\ Head(p) = p[1] /\ p[1] \in Nat
      /\ \A i \in DOMAIN p : i \in Nat \ {0} /\ p[i] \in Nat
  BY <1>1, <1>2, <1>3
<1>5. \A i \in DOMAIN p : p[i] <= p[1]
  BY <1>1, <1>4
<1>6. r <= p[1]
  BY <1>1, <1>2, <1>4, <1>5
<1> QED
  BY <1>3, <1>4, <1>6 DEF Reaches, p

showing == <<screen, items, call, latest, stale, focus>>

(* A message that was stored is not lost as long as nothing changes but the *)
(* texts whose answer is not known.                                         *)
LEMMA TextsSame ==
    ASSUME TextsComing, UNCHANGED showing, \A t \in Texts : Acked(t)' => Acked(t) /\ text'[t].row = text[t].row
    PROVE TextsComing'
BY DEF TextsComing, showing, Asking, FirstPage, Reaches

(* After a request begins, its answer is what the texts wait for. *)
LEMMA TextsFetch ==
    ASSUME ScreensTypes, ShownInv, TextsMade, TextsComing, NEW c \in Calls, NEW mode \in Modes, Fetch(c, mode),
           mode = "more" => CanLoadMore /\ focus' = focus /\ text' = text
    PROVE TextsComing'
<1>1. /\ call'[c].pc = "sent" /\ call'[c].mode = mode /\ latest' = c
      /\ UNCHANGED <<items, stale>>
  BY FetchIs
<1>2. CASE mode # "more"
  BY <1>1, <1>2 DEF TextsComing, Asking, FirstPage
<1>3. CASE mode = "more"
  <2> SUFFICES ASSUME NEW t \in Texts, Acked(t)' PROVE stale \/ focus \/ Reaches(items, text[t].row)
    BY <1>1, <1>3 DEF TextsComing, Asking, Reaches
  <2>1. Acked(t)
    BY <1>3 DEF Acked
  <2>2. On("thread")
    BY <2>1 DEF Acked, TextsMade
  <2>3. ~Asking(latest)
    BY <1>3, <2>2 DEF CanLoadMore, ShownInv, CursorsMade, On
  <2> QED BY <2>1, <2>3 DEF TextsComing
<1> QED
  BY <1>2, <1>3

LEMMA TextsKept ==
    ASSUME TextsMade, UNCHANGED <<screen, text>>, DOMAIN rows \subseteq DOMAIN rows'
    PROVE TextsMade'
BY DEF TextsMade, On

LEMMA NextScreens ==
    ASSUME ScreensInv, ScreensNext, ~InSession
    PROVE ScreensInv'
<1> USE DEF ScreensInv
<1>s. ShownInv
  BY DEF ShownInv
<1>v. ASSUME ScreensTypes', ShownInv', TextsMade', TextsComing' PROVE ScreensInv'
  BY <1>v DEF ShownInv
<1>x. ASSUME NEW t \in Texts PROVE text[t] \in TextOf
  BY DEF ScreensTypes
<1>1. CASE Arrives
  <2>1. PICK k \in NewKeys, fits \in SUBSET Queries \ {{}} :
            /\ On("jobs") \/ fits = Queries
            /\ rows' = Append(rows, [key |-> k, fits |-> fits])
    BY <1>1 DEF Arrives
  <2>2. Len(rows) + 1 \in Nat
    BY DEF ScreensTypes
  <2> DEFINE r == [key |-> k, fits |-> fits]
  <2>3. r \in RowOf /\ (~On("inbox") => r.key = Len(rows) + 1) /\ (~On("jobs") => r.fits = Queries)
    BY <2>1, <2>2 DEF RowOf, NewKeys
  <2>4. rows' = Append(rows, r) /\ UNCHANGED <<screen, query, debounce, focus, list, text, failures>>
    BY <1>1, <2>1 DEF Arrives
  <2> HIDE DEF r
  <2>5. ShownInv'
    BY <1>s, <2>3, <2>4, GrowKeeps DEF list
  <2>6. rows' \in Seq(RowOf) /\ DOMAIN rows \subseteq DOMAIN rows'
    BY <2>3, <2>4, RowsGrow
  <2>7. ScreensTypes'
    BY <2>4, <2>6 DEF ScreensTypes, list
  <2>8. TextsMade' /\ TextsComing'
    BY <2>4, <2>6, TextsKept, TextsSame DEF list, showing, Acked
  <2> QED BY <1>v, <2>5, <2>7, <2>8
<1>2. CASE Focus
  <2>1. ShownInv'
    BY <1>s, <1>2, SameKeeps DEF Focus, list
  <2>2. ScreensTypes'
    BY <1>2 DEF Focus, list, ScreensTypes
  <2>3. TextsMade'
    BY <1>2, TextsKept DEF Focus
  <2>4. TextsComing'
    BY <1>2 DEF Focus, list, TextsComing, Acked, Asking, FirstPage, Reaches
  <2> QED BY <1>v, <2>1, <2>2, <2>3, <2>4
<1>3. ASSUME NEW q \in Queries, Search(q) PROVE ScreensInv'
  <2>1. ShownInv'
    BY <1>s, <1>3, SearchKeeps
  <2>2. ScreensTypes'
    BY <1>3 DEF Search, list, ScreensTypes
  <2>3. TextsMade' /\ TextsComing'
    BY <1>3, TextsKept, TextsSame DEF Search, list, showing, Acked
  <2> QED BY <1>v, <2>1, <2>2, <2>3
<1>4. ASSUME NEW c \in Calls, Answer(c) PROVE ScreensInv'
  <2>1. ShownInv' /\ call' \in [Calls -> CallOf]
    BY <1>s, <1>4, AnswerKeeps
  <2>2. ScreensTypes'
    BY <1>4, <2>1 DEF Answer, ScreensTypes
  <2>3. TextsMade'
    BY <1>4, TextsKept DEF Answer
  <2>4. /\ call[c].pc = "sent" /\ call'[c].page = PageBelow(call[c].query, call[c].cursor) /\ call'[c].mode = call[c].mode
        /\ call'[c].pc = "answered"
        /\ \A d \in Calls : d # c => call'[d] = call[d]
        /\ UNCHANGED <<screen, items, latest, stale, focus, text>>
    BY <1>4 DEF Answer, ScreensTypes, CallOf
  <2>5. TextsComing'
    <3> SUFFICES ASSUME NEW t \in Texts, Acked(t)'
                 PROVE /\ Asking(latest)' /\ FirstPage(latest)' /\ call'[latest'].pc = "answered"
                            => Reaches(call'[latest'].page, text'[t].row)
                       /\ stale' \/ focus' \/ (Asking(latest)' /\ FirstPage(latest)') \/ Reaches(items', text'[t].row)
      BY DEF TextsComing, Reaches
    <3>1. Acked(t) /\ text' = text
      BY <2>4 DEF Acked
    <3>2. On("thread") /\ text[t].row \in DOMAIN rows
      BY <3>1 DEF Acked, TextsMade
    <3>3. (Asking(latest)' <=> Asking(latest)) /\ (latest \in Calls => call'[latest].mode = call[latest].mode)
      BY <2>4 DEF Asking
    <3>4. CASE latest = c
      <4>1. Asking(c)
        BY <2>4 DEF Asking
      <4>2. call[c].query \in Queries /\ (FirstPage(c) => call[c].cursor = 0)
        BY <4>1 DEF CursorsMade
      <4>3. FirstPage(c) => Reaches(call'[c].page, text[t].row)
        BY <2>4, <3>2, <4>2, TopReached
      <4> QED BY <2>4, <3>1, <3>3, <3>4, <4>3 DEF TextsComing, FirstPage, Asking
    <3>5. CASE latest # c
      <4>1. latest \in Calls => call'[latest] = call[latest]
        BY <2>4, <3>5
      <4> QED BY <2>4, <3>1, <3>3, <4>1 DEF TextsComing, FirstPage, Asking
    <3> QED BY <3>4, <3>5
  <2> QED BY <1>v, <2>1, <2>2, <2>3, <2>5
<1>5. ASSUME NEW c \in Calls, NEW mode \in Modes, Fetch(c, mode), mode = "more" => CanLoadMore,
             debounce' = debounce \/ (mode # "more" /\ debounce' = FALSE),
             focus' = focus \/ (mode # "more" /\ focus' = FALSE), text' = text
      PROVE ScreensInv'
  <2>1. ShownInv'
    BY <1>s, <1>5, FetchKeeps
  <2>2. call' \in [Calls -> CallOf] /\ latest' = c /\ loading' = loading \cup {mode} /\ error' \in BOOLEAN
        /\ UNCHANGED <<screen, rows, query, items, cursor, failures, stale>>
    BY <1>5, FetchIs
  <2>3. focus' \in BOOLEAN /\ debounce' \in BOOLEAN /\ loading' \in SUBSET Modes
    BY <1>5, <2>2 DEF ScreensTypes
  <2>4. ScreensTypes'
    BY <1>5, <2>2, <2>3 DEF ScreensTypes
  <2>5. TextsMade'
    BY <1>5, <2>2, TextsKept
  <2>6. TextsComing'
    BY <1>s, <1>5, TextsFetch
  <2> QED BY <1>v, <2>1, <2>4, <2>5, <2>6
<1>6. ASSUME NEW c \in Calls, Apply(c) PROVE ScreensInv'
  <2>1. ShownInv' /\ items' \in Seq(Nat) /\ cursor' \in Nat
    BY <1>s, <1>6, ApplyKeeps
  <2>2. text' = text
    <3>1. ASSUME NEW t \in Texts PROVE [text[t] EXCEPT !.bubble = Optimistic(t)] = text[t]
      BY <1>x DEF Optimistic, TextOf
    <3>2. text = [t \in Texts |-> text[t]]
      BY DEF ScreensTypes
    <3>3. text' = text \/ text' = [t \in Texts |-> [text[t] EXCEPT !.bubble = Optimistic(t)]]
      BY <1>6 DEF Apply
    <3> QED BY <3>1, <3>2, <3>3
  <2>3. /\ call[c].pc = "answered" /\ call' = [call EXCEPT ![c] = NoCall]
        /\ UNCHANGED <<screen, rows, query, debounce, latest>>
    BY <1>6 DEF Apply
  <2>4. /\ call' \in [Calls -> CallOf] /\ call'[c].pc = "idle"
        /\ \A d \in Calls : d # c => call'[d] = call[d]
    BY <1>s, <2>3, OverKeeps
  <2>5. focus' \in BOOLEAN /\ stale' \in BOOLEAN /\ error' \in BOOLEAN /\ loading' \in SUBSET Modes
    <3>1. CASE Heeded(c)
      <4>1. focus' \in BOOLEAN
        BY <1>6, <3>1 DEF Apply, ScreensTypes
      <4>2. stale' \in BOOLEAN /\ error' \in BOOLEAN
        BY <1>6, <3>1 DEF Apply, ScreensTypes
      <4>3. loading' \in SUBSET Modes
        BY <1>6, <3>1 DEF Apply, ScreensTypes, LoadingAfter
      <4> QED BY <4>1, <4>2, <4>3
    <3>2. CASE ~Heeded(c)
      BY <1>6, <3>2 DEF Apply, ScreensTypes
    <3> QED BY <3>1, <3>2
  <2>6. ScreensTypes'
    BY <2>1, <2>2, <2>3, <2>4, <2>5 DEF ScreensTypes
  <2>7. TextsMade'
    BY <2>2, <2>3, TextsKept
  <2>8. TextsComing'
    <3> SUFFICES ASSUME NEW t \in Texts, Acked(t)'
                 PROVE /\ Asking(latest)' /\ FirstPage(latest)' /\ call'[latest'].pc = "answered"
                            => Reaches(call'[latest'].page, text'[t].row)
                       /\ stale' \/ focus' \/ (Asking(latest)' /\ FirstPage(latest)') \/ Reaches(items', text'[t].row)
      BY DEF TextsComing, Reaches
    <3>1. Acked(t)
      BY <2>2 DEF Acked
    <3>2. On("thread") /\ ~On("inbox") /\ ~On("jobs")
      BY <3>1 DEF Acked, TextsMade, On
    <3>3. CASE latest # c
      <4>1. UNCHANGED <<items, focus, stale>> /\ (latest \in Calls => call'[latest] = call[latest])
        BY <1>6, <2>4, <3>2, <3>3 DEF Apply, Heeded, Current
      <4> QED BY <2>2, <2>3, <3>1, <4>1 DEF TextsComing, Asking, FirstPage
    <3>4. CASE latest = c
      <4>1. ~Asking(latest)' /\ Asking(latest)
        BY <2>3, <2>4, <3>4 DEF Asking
      <4>2. /\ items' = Merged(c) /\ cursor' = call[c].next
            /\ focus' = (focus \/ (On("thread") /\ cursor' # cursor))
        BY <1>6, <3>4 DEF Apply, Heeded, Current
      <4>3. CASE FirstPage(c)
        <5>1. items' = call[c].page
          BY <1>s, <2>3, <4>2, <4>3, MergedIs
        <5> QED BY <2>2, <2>3, <3>1, <3>4, <4>1, <4>3, <5>1 DEF TextsComing
      <4>4. CASE ~FirstPage(c)
        <5>1. PageWhole(c) /\ MoreFits
          BY <2>3, <3>2 DEF PagesWhole
        <5>2. call[c].next < call[c].cursor /\ call[c].cursor = cursor
          BY <3>4, <4>1, <4>4, <5>1 DEF PageWhole, MoreFits
        <5>3. call[c].next \in Nat /\ cursor \in Nat
          BY DEF ScreensTypes, CallOf
        <5>4. cursor' # cursor
          BY <4>2, <5>2, <5>3
        <5>5. focus'
          BY <3>2, <4>2, <5>4, Zenon
        <5> QED BY <4>1, <5>5
      <4> QED BY <4>3, <4>4
    <3> QED BY <3>3, <3>4
  <2> QED BY <1>v, <2>1, <2>6, <2>7, <2>8
<1>7. ASSUME NEW c \in Calls, Fails(c) PROVE ScreensInv'
  <2>1. ShownInv'
    BY <1>s, <1>7, FailsKeeps
  <2>3. /\ call' = [call EXCEPT ![c] = NoCall]
        /\ UNCHANGED <<screen, rows, query, debounce, focus, items, cursor, latest, text>>
    BY <1>7 DEF Fails
  <2>4. /\ call' \in [Calls -> CallOf] /\ call'[c].pc = "idle"
        /\ \A d \in Calls : d # c => call'[d] = call[d]
    BY <1>s, <2>3, OverKeeps
  <2>5. stale' \in BOOLEAN /\ error' \in BOOLEAN /\ loading' \in SUBSET Modes
    BY <1>7 DEF Fails, ScreensTypes, LoadingAfter
  <2>6. ScreensTypes'
    BY <2>3, <2>4, <2>5 DEF ScreensTypes
  <2>7. TextsMade'
    BY <2>3, TextsKept
  <2>8. TextsComing'
    <3>1. CASE latest = c
      <4>1. stale' /\ ~Asking(latest)'
        BY <1>7, <2>3, <2>4, <3>1 DEF Fails, Heeded, Current, Asking
      <4> QED BY <4>1 DEF TextsComing
    <3>2. CASE latest # c
      <4>1. (latest \in Calls => call'[latest] = call[latest]) /\ (stale => stale')
        BY <1>7, <2>4, <3>2 DEF Fails
      <4> QED BY <2>3, <4>1 DEF TextsComing, Asking, FirstPage, Acked, Reaches
    <3> QED BY <3>1, <3>2
  <2> QED BY <1>v, <2>1, <2>6, <2>7, <2>8
<1>8. ASSUME NEW t \in Texts, OnSend(t) \/ Retry(t) \/ PostBlocked(t) \/ PostFails(t) PROVE ScreensInv'
  <2>1. UNCHANGED <<others, rows>> /\ error' \in BOOLEAN
    BY <1>8 DEF OnSend, Retry, PostBlocked, PostFails, ScreensTypes
  <2>2. text[t] \in TextOf
    BY <1>x
  <2>3. On("jobs") => error' = error
    BY <1>8 DEF OnSend, Retry, PostBlocked, PostFails, TextsMade, On
  <2>4. ShownInv'
    BY <1>s, <2>1, <2>3, SameKeeps DEF others
  <2>5. /\ text' \in [Texts -> TextOf] /\ \A u \in Texts : u # t => text'[u] = text[u]
        /\ text'[t].row = 0 /\ On("thread")
        /\ text'[t].given => text'[t].bubble # "none" \/ text'[t].blocked
        /\ text'[t].post # "stored" /\ (text'[t].post # "none" => text'[t].bubble = "sending")
    <3>1. CASE OnSend(t)
      BY <3>1 DEF OnSend, ScreensTypes, TextOf, NoText
    <3>2. CASE Retry(t)
      BY <2>2, <3>2 DEF Retry, ScreensTypes, TextOf, TextsMade
    <3>3. CASE PostBlocked(t)
      BY <2>2, <3>3 DEF PostBlocked, ScreensTypes, TextOf, TextsMade
    <3>4. CASE PostFails(t)
      BY <2>2, <3>4 DEF PostFails, ScreensTypes, TextOf, TextsMade
    <3> QED BY <1>8, <3>1, <3>2, <3>3, <3>4
  <2>6. ScreensTypes'
    BY <2>1, <2>5 DEF ScreensTypes, others
  <2>7. TextsMade'
    BY <2>1, <2>5 DEF TextsMade, others, On
  <2>8. TextsComing'
    <3>1. \A u \in Texts : Acked(u)' => Acked(u) /\ text'[u].row = text[u].row
      BY <2>5 DEF Acked
    <3> QED BY <2>1, <3>1, TextsSame DEF others, showing
  <2> QED BY <1>v, <2>4, <2>6, <2>7, <2>8
<1>9. ASSUME NEW t \in Texts, PostStored(t) PROVE ScreensInv'
  <2>1. On("thread") /\ text[t].post = "sent" /\ UNCHANGED <<others, error, failures>> /\ text[t] \in TextOf
    BY <1>9, <1>x DEF PostStored, TextsMade
  <2>2. PICK n \in Nat : n = Len(rows) + 1 /\ n # 0
    BY DEF ScreensTypes
  <2> DEFINE r == [key |-> n, fits |-> Queries]
  <2>3. r \in RowOf /\ r.key = Len(rows) + 1 /\ r.fits = Queries /\ rows' = Append(rows, r)
    BY <1>9, <2>2 DEF RowOf, PostStored
  <2> HIDE DEF r
  <2>4. ShownInv'
    BY <1>s, <2>1, <2>3, GrowKeeps DEF others
  <2>5. rows' \in Seq(RowOf) /\ DOMAIN rows \subseteq DOMAIN rows' /\ n \in DOMAIN rows'
    BY <2>2, <2>3, RowsGrow
  <2>6. /\ text' \in [Texts -> TextOf] /\ \A u \in Texts : u # t => text'[u] = text[u]
        /\ text'[t].row = n /\ text'[t].post = "stored" /\ text'[t].bubble = text[t].bubble
    <3>1. text' = [text EXCEPT ![t].post = "stored", ![t].row = n]
      BY <1>9, <2>2 DEF PostStored
    <3> QED BY <2>1, <3>1 DEF ScreensTypes, TextOf
  <2>7. ScreensTypes'
    BY <2>1, <2>5, <2>6 DEF ScreensTypes, others
  <2>8. TextsMade'
    BY <2>1, <2>2, <2>5, <2>6 DEF TextsMade, others, On
  <2>9. TextsComing'
    <3>1. \A u \in Texts : Acked(u)' => Acked(u) /\ text'[u].row = text[u].row
      BY <2>6 DEF Acked
    <3> QED BY <2>1, <3>1, TextsSame DEF others, showing
  <2> QED BY <1>v, <2>4, <2>7, <2>8, <2>9
<1>10. ASSUME NEW t \in Texts, NEW c \in Calls, PostAcked(t, c) PROVE ScreensInv'
  <2>1. /\ text[t].post = "stored" /\ text[t] \in TextOf /\ Fetch(c, "refresh") /\ "refresh" \in Modes
        /\ UNCHANGED <<focus, debounce>>
        /\ text' = [text EXCEPT ![t].post = "none", ![t].bubble = "none"]
    BY <1>10, <1>x DEF PostAcked, Modes
  <2>2. call' \in [Calls -> CallOf] /\ latest' = c /\ loading' = loading \cup {"refresh"} /\ error' \in BOOLEAN
        /\ UNCHANGED <<screen, rows, query, items, cursor, failures, stale>>
    BY <2>1, FetchIs
  <2>3. ShownInv'
    BY <1>s, <2>1, FetchKeeps
  <2>4. /\ text' \in [Texts -> TextOf] /\ \A u \in Texts : u # t => text'[u] = text[u]
        /\ text'[t].row = text[t].row /\ text'[t].post = "none" /\ text'[t].bubble = "none"
        /\ text'[t].given = text[t].given /\ text'[t].blocked = text[t].blocked
    BY <2>1 DEF ScreensTypes, TextOf
  <2>5. ScreensTypes'
    BY <2>1, <2>2, <2>4 DEF ScreensTypes
  <2>a. text[t].row # 0
    BY <2>1 DEF TextsMade
  <2>6. TextsMade'
    BY <2>1, <2>2, <2>4, <2>a DEF TextsMade, On
  <2>7. TextsComing'
    BY <1>s, <2>1, TextsFetch
  <2> QED BY <1>v, <2>3, <2>5, <2>6, <2>7
<1>11. ASSUME NEW c \in Calls, FetchesFirst(c) \/ Refresh(c) \/ LoadMore(c) \/ SearchFires(c) PROVE ScreensInv'
  <2>1. {"initial", "refresh", "more"} \subseteq Modes
    BY DEF Modes
  <2>2. CASE FetchesFirst(c)
    BY <1>5, <2>1, <2>2 DEF FetchesFirst
  <2>3. CASE Refresh(c)
    BY <1>5, <2>1, <2>3 DEF Refresh
  <2>4. CASE LoadMore(c)
    BY <1>5, <2>1, <2>4 DEF LoadMore
  <2>5. CASE SearchFires(c)
    BY <1>5, <2>1, <2>5 DEF SearchFires
  <2> QED BY <1>11, <2>2, <2>3, <2>4, <2>5
<1> QED
  BY <1>1, <1>2, <1>3, <1>4, <1>6, <1>7, <1>8, <1>9, <1>10, <1>11 DEF ScreensNext

LEMMA InitScreens == Init => ScreensInv
<1> SUFFICES ASSUME Init PROVE ScreensInv
  OBVIOUS
<1> USE ScreensAssumption DEF Init, ScreensInit
<1>1. <<>> \in Seq(RowOf) /\ <<>> \in Seq(Nat)
  OBVIOUS
<1>2. call \in [Calls -> CallOf] /\ \A c \in Calls : call[c].pc = "idle"
  <2>1. NoCall.pc = "idle"
    BY DEF NoCall
  <2> QED BY <2>1, NoCallIs
<1>3. text \in [Texts -> TextOf] /\ \A t \in Texts : text[t].row = 0 /\ ~text[t].given /\ text[t].post = "none"
                                                     /\ text[t].bubble = "none"
  BY DEF TextOf, NoText
<1>4. ScreensTypes
  <2>1. debounce \in BOOLEAN
    OBVIOUS
  <2> QED BY <1>1, <1>2, <1>3, <2>1 DEF ScreensTypes
<1>5. DOMAIN items = {} /\ DOMAIN rows = {}
  OBVIOUS
<1>6. RowsMade /\ CursorsMade /\ NothingTwice
  <2>1. items \in Seq(DOMAIN rows)
    OBVIOUS
  <2> QED BY <1>2, <1>5, <2>1 DEF RowsMade, CursorsMade, NothingTwice, Distinct, Asking
<1>7. TextsMade /\ TextsComing
  BY <1>3 DEF TextsMade, TextsComing, Acked
<1>8. PagesWhole
  <2>1. WholeFrom(items, query, cursor)
    BY DEF WholeFrom
  <2> QED BY <1>2, <2>1 DEF PagesWhole, MoreFits, Asking, On
<1> QED
  BY <1>4, <1>6, <1>7, <1>8 DEF ScreensInv

(* The session leaves the screens alone. *)
LEMMA SessionLeaves == SessionNext => UNCHANGED others2
BY DEF SessionNext, Hydrate, Restart, HydrateFromCache, LogIn, SaveAuthToken, LoggedIn, LogOut, DeleteAuthToken,
       LoggedOut, MeRead, MeAnswer, MeFails, FetchSubscription, SubRead, SubAnswer, SubCache, SubFails,
       screenVars, others2, list

LEMMA NextScreensInv == ScreensInv /\ [Next]_vars => ScreensInv'
<1> SUFFICES ASSUME ScreensInv, [Next]_vars PROVE ScreensInv'
  OBVIOUS
<1>1. CASE ~InSession /\ ScreensNext
  BY <1>1, NextScreens
<1>2. CASE UNCHANGED others2
  <2>1. /\ \A s : Distinct(s)' <=> Distinct(s)
        /\ \A s, q, low, high : Window(s, q, low, high)' <=> Window(s, q, low, high)
        /\ \A s, q, low : WholeFrom(s, q, low)' <=> WholeFrom(s, q, low)
    BY <1>2, RowsSame DEF others2
  <2>2. ShownInv'
    BY <1>2, SameKeeps DEF ScreensInv, ShownInv, others2, list
  <2>3. ScreensTypes' /\ TextsMade' /\ TextsComing'
    BY <1>2, TextsKept, TextsSame DEF ScreensInv, ScreensTypes, others2, list, showing, Acked
  <2> QED BY <2>2, <2>3 DEF ScreensInv, ShownInv
<1>3. [Next]_vars => (~InSession /\ ScreensNext) \/ UNCHANGED others2
  BY SessionLeaves DEF Next, vars, screenVars, others2, list
<1> QED
  BY <1>1, <1>2, <1>3

LEMMA AlwaysScreens == Spec => []ScreensInv
BY InitScreens, NextScreensInv, PTL DEF Spec

(* However many requests for pages were superseded, failed or answered out  *)
(* of order while rows were added and the search changed, a list has        *)
(* nothing twice, and once all is quiet it is the whole of its search from  *)
(* the newest row shown down to the cursor.                                 *)
THEOREM ListsAreWhole == Spec => []ListWhole
<1>1. ScreensInv => ListWhole
  <2> SUFFICES ASSUME ScreensInv PROVE ListWhole
    OBVIOUS
  <2>1. \A i, k \in DOMAIN items : rows[items[i]].key = rows[items[k]].key => i = k
    BY DEF ScreensInv, NothingTwice, Distinct
  <2>2. ASSUME Quiet, ~stale, ~On("inbox"), items # <<>>
        PROVE items = NewestFirst({i \in Below(query, 0) : cursor <= i /\ i <= Head(items)})
    <3>1. PagesWhole
      BY <2>2 DEF ScreensInv
    <3>2. ~Asking(latest) /\ ~debounce
      BY <2>2 DEF Quiet, Asking
    <3>3. Window(items, query, cursor, Head(items))
      BY <2>2, <3>1, <3>2 DEF PagesWhole, FirstDue, WholeFrom
    <3>4. cursor \in Nat /\ Head(items) \in Int
      <4>1. items \in Seq(Nat) /\ items # <<>>
        BY <2>2 DEF ScreensInv, ScreensTypes
      <4>2. Head(items) \in Nat
        BY <4>1, HeadTailProperties
      <4> QED BY <4>2 DEF ScreensInv, ScreensTypes
    <3> DEFINE S == {i \in Below(query, 0) : cursor <= i /\ i <= Head(items)}
    <3>5. S \in SUBSET Nat /\ IsFiniteSet(S) /\ NewestList(items, S)
      BY <3>3, <3>4, BetweenIs DEF Between, Window, ScreensInv
    <3> HIDE DEF S
    <3>6. items = NewestFirst(S)
      BY <3>5, NewestIs
    <3> QED BY <3>6 DEF S
  <2> QED BY <2>1, <2>2 DEF ListWhole
<1> QED
  BY AlwaysScreens, <1>1, PTL

(* A text given to Send is never lost from sight: it is a bubble, or it is  *)
(* blocked, or it is on the server, and then the list comes to show it.     *)
THEOREM TextsAreShown == Spec => []SentIsShown
<1>1. ScreensInv => SentIsShown
  BY DEF ScreensInv, TextsMade, TextsComing, SentIsShown, Quiet, Asking, Acked, Reaches
<1> QED
  BY AlwaysScreens, <1>1, PTL

----------------------------------------------------------------------------
(* The walk through the pages of a search *)

Entry == [first : Nat, second : Nat, id : Ids]

DiscoveryTypes ==
    /\ walk \in [sort : Sorts, cursor : Entry \cup {NoCursor}, got : Seq(Ids), ended : BOOLEAN]
    /\ card \in [Ids -> {c \in Cards : Fits(c, walk.sort)}]
    /\ suspended \subseteq touched /\ touched \subseteq Ids
    /\ ranking \in [kept : BOOLEAN, list : Seq(Entry)]

(* x comes before y in the walk. *)
Ahead(x, y) == IF walk.sort = "feed" THEN x.id > y.id ELSE Before(x, y)
Even == walk.sort \in {"rating", "distance"} \/ (walk.sort = "feed" /\ suspended = {})

(* What a list has of a provider that did not change is true. *)
InTurn(s) == \A j, k \in DOMAIN s : j < k => Ahead(s[j], s[k])
TrueTo(s) == \A k \in DOMAIN s : /\ s[k].first \in Marks
                                 /\ s[k].id \in touched \/ s[k] = Item(s[k].id)
HasAll(s) == \A i \in Ids \ touched : \E k \in DOMAIN s : s[k] = Item(i)

IsSeen(i) == \E k \in DOMAIN walk.got : walk.got[k] = i
SeenOnce(i) == \A k, l \in DOMAIN walk.got : walk.got[k] = i /\ walk.got[l] = i => k = l

(* Seen are those that the cursor has passed. *)
Walked ==
    /\ walk.cursor # NoCursor => walk.cursor.first \in Marks
    /\ \A i \in Ids \ touched :
          /\ SeenOnce(i)
          /\ walk.ended => IsSeen(i)
          /\ ~walk.ended => (IsSeen(i) <=> walk.cursor # NoCursor /\ ~Ahead(walk.cursor, Item(i)))

RankingTrue == InTurn(ranking.list) /\ TrueTo(ranking.list) /\ HasAll(ranking.list)

DiscoveryInv ==
    /\ DiscoveryTypes
    /\ Even => Walked
    /\ walk.sort \in {"rating", "distance"} /\ ranking.kept => RankingTrue

(* What comes after the cursor in a list *)
ToCome(x) == walk.cursor = NoCursor \/ Ahead(walk.cursor, x)
Rest(s) == /\ s \in Seq(Entry) /\ InTurn(s) /\ TrueTo(s)
           /\ \A k \in DOMAIN s : ToCome(s[k])
           /\ \A i \in Ids \ touched : ToCome(Item(i)) => \E k \in DOMAIN s : s[k] = Item(i)

LEMMA AheadIs ==
    /\ \A x, y, z \in Entry : Ahead(x, y) /\ Ahead(y, z) => Ahead(x, z)
    /\ \A x \in Entry : ~Ahead(x, x)
    /\ \A x, y \in Entry : x.id # y.id => Ahead(x, y) \/ Ahead(y, x)
<1>1. \A x \in Entry : x.first \in Nat /\ x.second \in Nat /\ x.id \in Nat
  BY DiscoveryAssumption DEF Entry
<1>2. ASSUME NEW x \in Entry, NEW y \in Entry, NEW z \in Entry, Ahead(x, y), Ahead(y, z) PROVE Ahead(x, z)
  <2>1. CASE walk.sort = "feed"
    BY <1>1, <1>2, <2>1 DEF Ahead
  <2>2. CASE walk.sort # "feed" /\ Largest
    BY <1>1, <1>2, <2>2 DEF Ahead, Before
  <2>3. CASE walk.sort # "feed" /\ ~Largest
    BY <1>1, <1>2, <2>3 DEF Ahead, Before
  <2> QED BY <2>1, <2>2, <2>3
<1>3. ASSUME NEW x \in Entry PROVE ~Ahead(x, x)
  BY <1>1 DEF Ahead, Before
<1>4. ASSUME NEW x \in Entry, NEW y \in Entry, x.id # y.id PROVE Ahead(x, y) \/ Ahead(y, x)
  BY <1>1, <1>4 DEF Ahead, Before
<1> QED
  BY <1>2, <1>3, <1>4

LEMMA ItemIs ==
    ASSUME DiscoveryTypes
    PROVE /\ \A i \in Ids : Item(i) \in Entry /\ Item(i).id = i
          /\ walk.sort # "responseTime" => \A i \in Ids : Item(i).first \in Marks
          /\ Listed \subseteq Entry /\ IsFiniteSet(Listed)
          /\ \A x \in Listed : x.id \in Ids \ suspended /\ x = Item(x.id)
          /\ \A i \in Ids \ suspended : Item(i) \in Listed
<1> USE DiscoveryAssumption DEF DiscoveryTypes
<1>1. \A i \in Ids : Item(i) \in Entry /\ Item(i).id = i
  BY DEF Item, Entry, Cards
<1>2. walk.sort # "responseTime" => \A i \in Ids : Item(i).first \in Marks
  BY DEF Item, Cards, Fits
<1>3. IsFiniteSet(Listed)
  <2>1. IsFiniteSet(Ids \ suspended)
    BY FS_Difference
  <2> DEFINE I == Ids \ suspended
             f == [i \in I |-> Item(i)]
  <2>2. Listed = {Item(i) : i \in I}
    BY DEF Listed
  <2>3. f \in Surjection(I, Listed)
    BY <2>2 DEF Surjection
  <2> QED BY <2>1, <2>3, FS_Surjection
<1> QED
  BY <1>1, <1>2, <1>3 DEF Listed

(* The ranked list is that of everybody who is listed. *)
Turn == {p \in Entry \X Entry : Ahead(p[1], p[2])}

LEMMA InTurnIs ==
    ASSUME NEW S \in SUBSET Entry, NEW n \in Nat, NEW s \in [1 .. n -> S]
    PROVE InOrder(s, Turn) <=> InTurn(s)
<1>1. \A j, k \in 1 .. n : s[j] \in Entry /\ s[k] \in Entry
  OBVIOUS
<1>2. \A x, y \in Entry : <<x, y>> \in Turn <=> Ahead(x, y)
  BY DEF Turn
<1> QED
  BY <1>1, <1>2 DEF InOrder, InTurn

LEMMA TurnOrders ==
    ASSUME NEW S \in SUBSET Entry, \A x, y \in S : x.id = y.id => x = y
    PROVE Orders(Turn, S)
<1>1. \A x, y \in Entry : <<x, y>> \in Turn <=> Ahead(x, y)
  BY DEF Turn
<1> QED
  BY <1>1, AheadIs DEF Orders

LEMMA InTurnExists ==
    ASSUME NEW S \in SUBSET Entry, IsFiniteSet(S), \A x, y \in S : x.id = y.id => x = y
    PROVE \E s \in [1 .. Cardinality(S) -> S] : InTurn(s)
<1>1. PICK s : ListOf(s, S, Turn)
  BY TurnOrders, SortedExists
<1>2. Cardinality(S) \in Nat
  BY FS_CardinalityType
<1> QED
  BY <1>1, <1>2, InTurnIs DEF ListOf

LEMMA InTurnWhole ==
    ASSUME NEW S \in SUBSET Entry, IsFiniteSet(S), \A x, y \in S : x.id = y.id => x = y,
           NEW s \in [1 .. Cardinality(S) -> S], InTurn(s)
    PROVE s \in Seq(S) /\ \A x \in S : \E k \in DOMAIN s : s[k] = x
<1>1. Cardinality(S) \in Nat
  BY FS_CardinalityType
<1>2. ListOf(s, S, Turn)
  BY <1>1, InTurnIs DEF ListOf
<1>3. Whole(s, S)
  BY <1>2, TurnOrders, SortedWhole
<1> QED
  BY <1>1, <1>3 DEF Whole

LEMMA RankedIs ==
    ASSUME DiscoveryTypes, walk.sort # "feed"
    PROVE Ranked \in Seq(Listed) /\ InTurn(Ranked) /\ \A x \in Listed : \E k \in DOMAIN Ranked : Ranked[k] = x
<1>1. Listed \in SUBSET Entry /\ IsFiniteSet(Listed) /\ \A x, y \in Listed : x.id = y.id => x = y
  BY ItemIs
<1>2. \E s \in [1 .. Cardinality(Listed) -> Listed] : InTurn(s)
  BY <1>1, InTurnExists
<1> DEFINE s == Ranked
<1>3. s \in [1 .. Cardinality(Listed) -> Listed] /\ InTurn(s)
  BY <1>2 DEF Ranked, Sorted, InTurn, Ahead
<1> HIDE DEF s
<1>4. s \in Seq(Listed) /\ \A x \in Listed : \E k \in DOMAIN s : s[k] = x
  BY <1>1, <1>3, InTurnWhole
<1> QED
  BY <1>3, <1>4 DEF s

LEMMA JoinIs ==
    ASSUME NEW S, NEW s \in Seq(S), NEW t \in Seq(S)
    PROVE /\ s \o t \in Seq(S) /\ Len(s \o t) = Len(s) + Len(t)
          /\ \A k \in 1 .. Len(s) : (s \o t)[k] = s[k]
          /\ \A k \in 1 .. Len(t) : (s \o t)[Len(s) + k] = t[k]
<1>1. /\ s \o t \in Seq(S) /\ Len(s \o t) = Len(s) + Len(t)
      /\ \A k \in 1 .. Len(s) + Len(t) : (s \o t)[k] = IF k <= Len(s) THEN s[k] ELSE t[k - Len(s)]
  BY ConcatProperties
<1> DEFINE w == s \o t
           n == Len(s)
           l == Len(t)
<1>2. n \in Nat /\ l \in Nat
  OBVIOUS
<1> HIDE DEF w, n, l
<1>3. \A k \in 1 .. n + l : w[k] = IF k <= n THEN s[k] ELSE t[k - n]
  BY <1>1 DEF w, n, l
<1>4. \A k \in 1 .. n : w[k] = s[k]
  BY <1>2, <1>3
<1>5. ASSUME NEW k \in 1 .. l PROVE w[n + k] = t[k]
  <2>1. n + k \in 1 .. n + l /\ ~ (n + k <= n) /\ (n + k) - n = k
    BY <1>2
  <2> QED BY <1>3, <2>1
<1> QED
  BY <1>1, <1>4, <1>5 DEF w, n, l

LEMMA CutIs ==
    ASSUME NEW s \in Seq(Entry)
    PROVE /\ Cut(s) \in Seq(Entry) /\ Len(Cut(s)) <= Len(s)
          /\ Len(Cut(s)) < PageSize => Len(Cut(s)) = Len(s)
          /\ Len(Cut(s)) <= PageSize
          /\ \A k \in 1 .. Len(Cut(s)) : Cut(s)[k] = s[k]
<1>1. PICK m \in Nat : m = IF Len(s) < PageSize THEN Len(s) ELSE PageSize
  BY DiscoveryAssumption
<1>2. Cut(s) = SubSeq(s, 1, m)
  BY <1>1 DEF Cut
<1>3. m <= Len(s) /\ m <= PageSize /\ (m < PageSize => m = Len(s))
  BY <1>1, DiscoveryAssumption
<1> QED
  BY <1>2, <1>3, SubSeqIs

LEMMA TurnsIs ==
    ASSUME DiscoveryTypes, NEW p \in Seq(Entry), Turns(p)
    PROVE /\ walk' \in [sort : Sorts, cursor : Entry \cup {NoCursor}, got : Seq(Ids), ended : BOOLEAN]
          /\ walk'.sort = walk.sort
          /\ walk'.ended <=> Len(p) < PageSize
          /\ walk'.cursor = IF p = <<>> THEN walk.cursor ELSE Cursor(Last(p))
          /\ walk.got \in Seq(Ids) /\ Len(walk'.got) = Len(walk.got) + Len(p)
          /\ \A k \in 1 .. Len(walk.got) : walk'.got[k] = walk.got[k]
          /\ \A k \in 1 .. Len(p) : walk'.got[Len(walk.got) + k] = p[k].id
<1>1. PICK ids : ids = [k \in DOMAIN p |-> p[k].id]
  OBVIOUS
<1>p. Len(p) \in Nat /\ DOMAIN p = 1 .. Len(p) /\ \A k \in 1 .. Len(p) : p[k] \in Entry
  OBVIOUS
<1>2. ids \in Seq(Ids) /\ Len(ids) = Len(p) /\ \A k \in 1 .. Len(p) : ids[k] = p[k].id
  <2>1. \A k \in 1 .. Len(p) : p[k].id \in Ids
    BY <1>p DEF Entry
  <2>2. ids \in [1 .. Len(p) -> Ids]
    BY <1>1, <1>p, <2>1
  <2> QED BY <1>1, <1>p, <2>2
<1>3. PICK g : g = walk.got \o ids
  OBVIOUS
<1>4. PICK w \in Seq(Ids) : w = walk.got
  BY DEF DiscoveryTypes
<1>5. /\ g \in Seq(Ids) /\ Len(g) = Len(walk.got) + Len(p)
      /\ \A k \in 1 .. Len(walk.got) : g[k] = walk.got[k]
      /\ \A k \in 1 .. Len(p) : g[Len(walk.got) + k] = p[k].id
  <2>1. /\ w \o ids \in Seq(Ids) /\ Len(w \o ids) = Len(w) + Len(ids)
        /\ \A k \in 1 .. Len(w) : (w \o ids)[k] = w[k]
        /\ \A k \in 1 .. Len(ids) : (w \o ids)[Len(w) + k] = ids[k]
    <3>1. ids \in Seq(Ids)
      BY <1>2
    <3> HIDE <1>2
    <3> QED BY ONLY <3>1, w \in Seq(Ids), JoinIs
  <2> QED BY <1>2, <1>3, <1>4, <2>1
<1>6. PICK e \in BOOLEAN : e <=> Len(p) < PageSize
  OBVIOUS
<1>7. PICK c \in Entry \cup {NoCursor} : c = IF p = <<>> THEN walk.cursor ELSE Cursor(Last(p))
  <2>1. CASE p = <<>>
    BY <2>1 DEF DiscoveryTypes
  <2>2. CASE p # <<>>
    <3>1. Last(p) \in Entry
      BY <2>2 DEF Last
    <3>2. Cursor(Last(p)) \in Entry
      BY <3>1, DiscoveryAssumption DEF Cursor, Entry
    <3> QED BY <2>2, <3>2
  <2> QED BY <2>1, <2>2
<1>8. walk' = [walk EXCEPT !.got = g, !.ended = e, !.cursor = c]
  <2>1. (Len(p) < PageSize) = e
    BY <1>6
  <2> QED BY <1>1, <1>3, <1>7, <2>1 DEF Turns
<1> QED
  BY <1>4, <1>5, <1>6, <1>7, <1>8 DEF DiscoveryTypes

(* A page is turned: those on it, and nobody else, the cursor has passed.   *)
LEMMA TurnStep ==
    ASSUME DiscoveryTypes, Even, Walked, ~walk.ended, NEW s, Rest(s), Turns(Cut(s)),
           UNCHANGED <<card, suspended, touched>>
    PROVE Walked'
<1> DEFINE p == Cut(s)
           m == Len(p)
           n == Len(walk.got)
<1>1. s \in Seq(Entry) /\ p \in Seq(Entry)
  BY CutIs DEF Rest
<1>2. /\ m \in Nat /\ m <= Len(s) /\ m <= PageSize /\ (m < PageSize => m = Len(s))
      /\ \A k \in 1 .. m : p[k] = s[k]
      /\ p = <<>> <=> m = 0
  BY <1>1, CutIs
<1> DEFINE l == Len(s)
<1>r. /\ l \in Nat /\ \A k \in 1 .. l : s[k] \in Entry /\ s[k].first \in Marks /\ ToCome(s[k])
      /\ \A k \in 1 .. l : s[k].id \in touched \/ s[k] = Item(s[k].id)
      /\ \A j, k \in 1 .. l : j < k => Ahead(s[j], s[k])
      /\ \A i \in Ids \ touched : ToCome(Item(i)) => \E k \in 1 .. l : s[k] = Item(i)
  <2>1. l \in Nat /\ DOMAIN s = 1 .. l /\ \A k \in 1 .. l : s[k] \in Entry
    BY <1>1
  <2> QED BY <2>1 DEF Rest, InTurn, TrueTo
<1>m. \A k \in 1 .. m : k \in 1 .. l
  BY <1>2, <1>r
<1>3. /\ walk'.sort = walk.sort
      /\ walk'.ended <=> m < PageSize
      /\ walk'.cursor = IF p = <<>> THEN walk.cursor ELSE Cursor(Last(p))
      /\ walk.got \in Seq(Ids) /\ Len(walk'.got) = n + m
      /\ \A k \in 1 .. n : walk'.got[k] = walk.got[k]
      /\ \A k \in 1 .. m : walk'.got[n + k] = p[k].id
      /\ walk'.got \in Seq(Ids)
  BY <1>1, TurnsIs
<1>4. n \in Nat /\ DOMAIN walk.got = 1 .. n /\ DOMAIN walk'.got = 1 .. n + m
  BY <1>2, <1>3
<1>5. Last(p) = p[m] /\ PageSize \in Nat \ {0}
  BY DiscoveryAssumption DEF Last
<1> HIDE DEF p, m, n, l
<1>6. \A x, y : Ahead(x, y)' <=> Ahead(x, y)
  BY <1>3 DEF Ahead, Before, Largest
<1>7. \A i : Item(i)' = Item(i)
  BY DEF Item
<1>8. m > 0 => walk'.cursor = s[m] /\ s[m] \in Entry /\ s[m].first \in Marks /\ walk'.cursor # NoCursor
  <2> SUFFICES ASSUME m > 0 PROVE walk'.cursor = s[m] /\ s[m] \in Entry /\ s[m].first \in Marks /\ walk'.cursor # NoCursor
    OBVIOUS
  <2>a. m \in 1 .. m
    BY <1>2
  <2>1. m \in 1 .. l /\ p[m] = s[m] /\ p # <<>>
    BY <1>2, <1>m, <2>a
  <2>b. walk'.cursor = Cursor(s[m])
    BY <1>3, <1>5, <2>1
  <2>2. s[m] \in Entry /\ s[m].first \in Marks
    BY <1>r, <2>1
  <2>3. s[m].first # 0
    BY <2>2, DiscoveryAssumption
  <2>4. Cursor(s[m]) = s[m] /\ s[m] # NoCursor
    BY <2>3 DEF Cursor, NoCursor
  <2> QED BY <2>b, <2>2, <2>4
<1>9. walk'.cursor # NoCursor => walk'.cursor.first \in Marks
  BY <1>2, <1>3, <1>8 DEF Walked
<1>10. ASSUME NEW i \in Ids \ touched
       PROVE /\ SeenOnce(i)'
             /\ walk'.ended => IsSeen(i)'
             /\ ~walk'.ended => (IsSeen(i)' <=> walk'.cursor # NoCursor /\ ~Ahead(walk'.cursor, Item(i)))
  <2> DEFINE x == Item(i)
  <2>1. x \in Entry /\ x.id = i
    BY ItemIs
  <2>2. SeenOnce(i) /\ (IsSeen(i) <=> ~ToCome(x))
    BY DEF Walked, ToCome
  <2>3. \A k \in 1 .. m : p[k].id = i <=> s[k] = x
    <3> SUFFICES ASSUME NEW k \in 1 .. m PROVE p[k].id = i <=> s[k] = x
      OBVIOUS
    <3>1. k \in 1 .. l /\ p[k] = s[k]
      BY <1>2, <1>m
    <3> QED BY <1>r, <2>1, <3>1
  <2>4. IsSeen(i) <=> \E k \in 1 .. n : walk.got[k] = i
    BY <1>4 DEF IsSeen
  <2>5. IsSeen(i)' <=> IsSeen(i) \/ \E k \in 1 .. m : s[k] = x
    <3>1. ASSUME NEW k \in 1 .. n + m, walk'.got[k] = i PROVE IsSeen(i) \/ \E j \in 1 .. m : s[j] = x
      <4>1. CASE k <= n
        <5>1. k \in 1 .. n
          BY <1>4, <4>1
        <5> QED BY <1>3, <2>4, <3>1, <5>1
      <4>2. CASE k > n
        <5>1. k - n \in 1 .. m /\ n + (k - n) = k
          BY <1>2, <1>4, <4>2
        <5>2. p[k - n].id = i
          BY <1>3, <3>1, <5>1
        <5> QED BY <2>3, <5>1, <5>2
      <4> QED BY <1>4, <4>1, <4>2
    <3>2. ASSUME NEW k \in 1 .. m, s[k] = x PROVE n + k \in 1 .. n + m /\ walk'.got[n + k] = i
      <4>1. n + k \in 1 .. n + m
        BY <1>2, <1>4
      <4> QED BY <1>3, <2>3, <3>2, <4>1
    <3>3. ASSUME NEW k \in 1 .. n, walk.got[k] = i PROVE k \in 1 .. n + m /\ walk'.got[k] = i
      <4>1. k \in 1 .. n + m
        BY <1>2, <1>4
      <4> QED BY <1>3, <3>3, <4>1
    <3> QED BY <1>4, <2>4, <3>1, <3>2, <3>3 DEF IsSeen
  <2>6. \A k \in 1 .. m : s[k] = x => ToCome(x)
    BY <1>m, <1>r
  <2>7. SeenOnce(i)'
    <3> SUFFICES ASSUME NEW k \in 1 .. n + m, NEW j \in 1 .. n + m, walk'.got[k] = i, walk'.got[j] = i, k < j PROVE FALSE
      BY <1>2, <1>4 DEF SeenOnce
    <3>1. CASE j <= n
      <4>1. k \in 1 .. n /\ j \in 1 .. n /\ k # j
        BY <1>4, <3>1
      <4>2. walk.got[k] = i /\ walk.got[j] = i
        BY <1>3, <4>1
      <4> QED BY <1>4, <2>2, <4>1, <4>2 DEF SeenOnce
    <3>2. CASE j > n
      <4>1. j - n \in 1 .. m /\ n + (j - n) = j
        BY <1>2, <1>4, <3>2
      <4>2. s[j - n] = x
        BY <1>3, <2>3, <4>1
      <4>3. ToCome(x)
        BY <2>6, <4>1, <4>2
      <4>4. CASE k <= n
        <5>1. k \in 1 .. n
          BY <1>4, <4>4
        <5>2. walk.got[k] = i
          BY <1>3, <5>1
        <5> QED BY <2>2, <2>4, <4>3, <5>1, <5>2
      <4>5. CASE k > n
        <5>1. k - n \in 1 .. m /\ n + (k - n) = k /\ k - n < j - n
          BY <1>2, <1>4, <3>2, <4>1, <4>5
        <5>2. s[k - n] = x
          BY <1>3, <2>3, <5>1
        <5>3. Ahead(x, x)
          BY <1>m, <1>r, <4>1, <4>2, <5>1, <5>2
        <5> QED BY <2>1, <5>3, AheadIs
      <4> QED BY <1>4, <4>4, <4>5
    <3> QED BY <1>4, <3>1, <3>2
  <2>8. ToCome(x) => \E k \in 1 .. l : s[k] = x
    BY <1>r
  <2>9. walk'.ended => IsSeen(i)'
    <3>1. walk'.ended => m = l
      BY <1>2, <1>3 DEF l
    <3> QED BY <2>2, <2>5, <2>8, <3>1
  <2>10. ASSUME ~walk'.ended PROVE IsSeen(i)' <=> walk'.cursor # NoCursor /\ ~Ahead(walk'.cursor, x)
    <3>a. m > 0
      BY <1>2, <1>3, <1>5, <2>10
    <3>b. m \in 1 .. m
      BY <1>2, <3>a
    <3>1. m > 0 /\ m \in 1 .. l /\ m \in 1 .. m
      BY <1>m, <3>a, <3>b
    <3>2. walk'.cursor = s[m] /\ s[m] \in Entry /\ walk'.cursor # NoCursor
      BY <1>8, <3>1
    <3>3. ToCome(s[m])
      BY <1>r, <3>1
    <3>4. CASE IsSeen(i)
      <4>1. walk.cursor # NoCursor /\ ~Ahead(walk.cursor, x) /\ Ahead(walk.cursor, s[m])
        BY <2>2, <3>3, <3>4 DEF ToCome
      <4>2. walk.cursor \in Entry
        BY <4>1 DEF DiscoveryTypes
      <4>3. ~Ahead(s[m], x)
        BY <2>1, <3>2, <4>1, <4>2, AheadIs
      <4> QED BY <2>5, <3>2, <3>4, <4>3
    <3>5. CASE ~IsSeen(i)
      <4>1. PICK k \in 1 .. l : s[k] = x
        BY <2>2, <2>8, <3>5
      <4>2. CASE k > m
        <5>1. Ahead(s[m], x)
          BY <1>r, <3>1, <4>1, <4>2
        <5>2. ~ \E j \in 1 .. m : s[j] = x
          <6> SUFFICES ASSUME NEW j \in 1 .. m, s[j] = x PROVE FALSE
            OBVIOUS
          <6>1. j < k /\ j \in 1 .. l
            BY <1>2, <1>m, <4>2
          <6>2. Ahead(x, x)
            BY <1>r, <4>1, <6>1
          <6> QED BY <2>1, <6>2, AheadIs
        <5> QED BY <2>5, <3>2, <3>5, <5>1, <5>2
      <4>3. CASE k <= m
        <5>1. k \in 1 .. m
          BY <1>2, <4>3
        <5>2. ~Ahead(s[m], x)
          <6>1. CASE k = m
            BY <2>1, <4>1, <6>1, AheadIs
          <6>2. CASE k < m
            <7>1. Ahead(x, s[m])
              BY <1>r, <3>1, <4>1, <6>2
            <7> QED BY <2>1, <3>2, <7>1, AheadIs
          <6> QED BY <1>2, <4>3, <6>1, <6>2
        <5> QED BY <2>5, <3>2, <4>1, <5>1, <5>2
      <4> QED BY <1>2, <4>2, <4>3
    <3> QED BY <3>4, <3>5
  <2> QED BY <2>7, <2>9, <2>10
<1> QED
  BY <1>6, <1>7, <1>9, <1>10 DEF Walked

(* isAfterCursor goes by the order of the list. *)
LEMMA AfterIs ==
    ASSUME walk.sort \in {"rating", "distance"}
    PROVE \A x, c \in Entry : After(x, c) <=> Ahead(c, x)
<1>1. \A x \in Entry : x.first \in Nat /\ x.second \in Nat /\ x.id \in Nat
  BY DiscoveryAssumption DEF Entry
<1>2. ASSUME NEW x \in Entry, NEW c \in Entry PROVE After(x, c) <=> Ahead(c, x)
  <2>1. CASE walk.sort = "rating"
    BY <1>1, <2>1 DEF After, Ahead, Before, Largest
  <2>2. CASE walk.sort = "distance"
    BY <1>1, <2>2 DEF After, Ahead, Before, Largest
  <2> QED BY <2>1, <2>2
<1> QED
  BY <1>2

LEMMA OnwardIs ==
    ASSUME DiscoveryTypes, NEW s \in Seq(Entry)
    PROVE Onward(s) \in Seq(Entry)
<1>1. CASE walk.cursor = NoCursor
  BY <1>1 DEF Onward
<1>2. CASE walk.cursor # NoCursor
  <2> DEFINE K == {k \in DOMAIN s : After(s[k], walk.cursor)}
  <2>1. Onward(s) = Those(s, K)
    BY <1>2 DEF Onward, Filter
  <2>2. K \in SUBSET (DOMAIN s)
    OBVIOUS
  <2> HIDE DEF K
  <2>3. Those(s, K) \in Seq(Entry)
    BY <2>2, ThoseIs
  <2> QED BY <2>1, <2>3
<1> QED
  BY <1>1, <1>2

(* What the cursor leaves of a true list is what is to come. *)
LEMMA OnwardRest ==
    ASSUME DiscoveryTypes, walk.sort \in {"rating", "distance"},
           NEW s \in Seq(Entry), InTurn(s), TrueTo(s), HasAll(s)
    PROVE Rest(Onward(s))
<1>1. CASE walk.cursor = NoCursor
  <2>1. Onward(s) = s /\ \A x : ToCome(x)
    BY <1>1 DEF Onward, ToCome
  <2> QED BY <2>1 DEF Rest, HasAll
<1>2. CASE walk.cursor # NoCursor
  <2> DEFINE K == {k \in DOMAIN s : After(s[k], walk.cursor)}
             f == Those(s, K)
  <2>1. Onward(s) = f
    BY <1>2 DEF Onward, Filter
  <2>2. walk.cursor \in Entry
    BY <1>2 DEF DiscoveryTypes
  <2>3. K \in SUBSET (DOMAIN s) /\ \A k \in DOMAIN s : k \in K <=> Ahead(walk.cursor, s[k])
    <3>1. \A k \in DOMAIN s : s[k] \in Entry
      OBVIOUS
    <3> QED BY <2>2, <3>1, AfterIs
  <2>k. K \subseteq Nat
    <3>1. DOMAIN s = 1 .. Len(s) /\ Len(s) \in Nat
      OBVIOUS
    <3> QED BY <3>1, <2>3
  <2> HIDE DEF K
  <2>4. f \in Seq(Entry) /\ \E at : Picks(f, s, K, at)
    BY <2>3, ThoseIs
  <2>5. PICK at : Picks(f, s, K, at)
    BY <2>4
  <2> HIDE DEF f
  <2>6. \A j \in DOMAIN f : f[j] = s[at[j]] /\ at[j] \in K /\ at[j] \in DOMAIN s /\ Ahead(walk.cursor, s[at[j]])
    BY <2>3, <2>5 DEF Picks
  <2>7. InTurn(f)
    <3> SUFFICES ASSUME NEW j \in DOMAIN f, NEW k \in DOMAIN f, j < k PROVE Ahead(f[j], f[k])
      BY DEF InTurn
    <3>1. at[j] < at[k]
      BY <2>5 DEF Picks
    <3> QED BY <2>6, <3>1 DEF InTurn
  <2>8. TrueTo(f)
    BY <2>6 DEF TrueTo
  <2>9. \A k \in DOMAIN f : ToCome(f[k])
    BY <2>6 DEF ToCome
  <2>10. ASSUME NEW i \in Ids \ touched, ToCome(Item(i)) PROVE \E k \in DOMAIN f : f[k] = Item(i)
    <3>1. PICK k \in DOMAIN s : s[k] = Item(i)
      BY DEF HasAll
    <3>2. k \in K
      BY <1>2, <2>3, <2>10, <3>1 DEF ToCome
    <3>3. PICK j \in DOMAIN f : at[j] = k
      BY <2>5, <3>2 DEF Picks
    <3> QED BY <2>6, <3>1, <3>3
  <2> QED BY <2>1, <2>4, <2>7, <2>8, <2>9, <2>10 DEF Rest
<1> QED
  BY <1>1, <1>2

(* The ranked list is a true one. *)
LEMMA RankedTrue ==
    ASSUME DiscoveryTypes, walk.sort \in {"rating", "distance"}
    PROVE /\ Ranked \in Seq(Entry) /\ InTurn(Ranked) /\ TrueTo(Ranked) /\ HasAll(Ranked)
          /\ Json(Ranked) = Ranked
<1>1. Ranked \in Seq(Listed) /\ InTurn(Ranked) /\ \A x \in Listed : \E k \in DOMAIN Ranked : Ranked[k] = x
  BY RankedIs
<1> DEFINE s == Ranked
<1>j. Json(Ranked) = [k \in DOMAIN s |-> IF s[k].first = Unknown THEN [s[k] EXCEPT !.first = 0] ELSE s[k]]
  BY DEF Json
<1>2. s \in Seq(Listed) /\ InTurn(s) /\ \A x \in Listed : \E k \in DOMAIN s : s[k] = x
  BY <1>1
<1> HIDE DEF s
<1>3. \A k \in DOMAIN s : s[k] \in Listed
  BY <1>2
<1>4. /\ Listed \subseteq Entry
      /\ \A x \in Listed : x.id \in Ids \ suspended /\ x = Item(x.id)
      /\ \A i \in Ids \ suspended : Item(i) \in Listed
      /\ \A i \in Ids : Item(i).first \in Marks
  BY ItemIs
<1>5. s \in Seq(Entry)
  BY <1>2, <1>4, SeqMonotonic
<1>6. TrueTo(s)
  <2> SUFFICES ASSUME NEW k \in DOMAIN s PROVE s[k].first \in Marks /\ s[k] = Item(s[k].id)
    BY DEF TrueTo
  <2> QED BY <1>3, <1>4
<1>7. HasAll(s)
  <2>1. suspended \subseteq touched
    BY DEF DiscoveryTypes
  <2> QED BY <1>2, <1>4, <2>1 DEF HasAll
<1>8. [k \in DOMAIN s |-> IF s[k].first = Unknown THEN [s[k] EXCEPT !.first = 0] ELSE s[k]] = s
  <2>1. \A k \in DOMAIN s : s[k].first # Unknown
    BY <1>6, DiscoveryAssumption DEF TrueTo
  <2>2. s = [k \in DOMAIN s |-> s[k]]
    BY <1>5
  <2> QED BY <2>1, <2>2
<1> QED
  BY <1>2, <1>5, <1>6, <1>7, <1>8, <1>j DEF s

LEMMA JsonIs ==
    ASSUME NEW s \in Seq(Entry)
    PROVE Json(s) \in Seq(Entry)
<1>1. Len(s) \in Nat /\ DOMAIN s = 1 .. Len(s) /\ \A k \in DOMAIN s : s[k] \in Entry
  OBVIOUS
<1>2. ASSUME NEW x \in Entry PROVE [x EXCEPT !.first = 0] \in Entry
  BY DEF Entry
<1>3. Json(s) \in [1 .. Len(s) -> Entry]
  BY <1>1, <1>2 DEF Json
<1> QED
  BY <1>1, <1>3

(* The feed: the rows from the cursor on, by falling id *)
FeedRows == {x \in Listed : walk.cursor = NoCursor \/ x.id <= walk.cursor.id}
FeedList == Sorted(FeedRows, LAMBDA x, y : x.id > y.id)

LEMMA FeedIs ==
    ASSUME DiscoveryTypes, walk.sort = "feed"
    PROVE FeedList \in Seq(FeedRows) /\ InTurn(FeedList) /\ \A x \in FeedRows : \E k \in DOMAIN FeedList : FeedList[k] = x
<1>a. FeedRows \subseteq Listed
  BY DEF FeedRows
<1>1. FeedRows \in SUBSET Entry /\ IsFiniteSet(FeedRows) /\ \A x, y \in FeedRows : x.id = y.id => x = y
  BY <1>a, ItemIs, FS_Subset
<1>2. \E s \in [1 .. Cardinality(FeedRows) -> FeedRows] : InTurn(s)
  BY <1>1, InTurnExists
<1> DEFINE s == FeedList
<1>3. s \in [1 .. Cardinality(FeedRows) -> FeedRows] /\ InTurn(s)
  BY <1>2 DEF FeedList, Sorted, InTurn, Ahead
<1> HIDE DEF s
<1>4. s \in Seq(FeedRows) /\ \A x \in FeedRows : \E k \in DOMAIN s : s[k] = x
  BY <1>1, <1>3, InTurnWhole
<1> QED
  BY <1>3, <1>4 DEF s

LEMMA TailIs ==
    ASSUME NEW S, NEW s \in Seq(S), NEW n \in Nat, n = Len(s)
    PROVE /\ SubSeq(s, 2, n) \in Seq(S)
          /\ Len(SubSeq(s, 2, n)) = IF 1 <= n THEN n - 1 ELSE 0
          /\ \A k \in 1 .. n - 1 : SubSeq(s, 2, n)[k] = s[k + 1]
<1>1. \A k \in 2 .. n : s[k] \in S
  OBVIOUS
<1>2. /\ SubSeq(s, 2, n) \in Seq(S) /\ Len(SubSeq(s, 2, n)) = (IF 2 <= n THEN n - 2 + 1 ELSE 0)
      /\ \A k \in 1 .. n - 2 + 1 : SubSeq(s, 2, n)[k] = s[2 + k - 1]
  BY <1>1, SubSeqProperties
<1> DEFINE p == SubSeq(s, 2, n)
<1> HIDE DEF p
<1>3. p \in Seq(S) /\ Len(p) = (IF 2 <= n THEN n - 2 + 1 ELSE 0) /\ \A k \in 1 .. n - 2 + 1 : p[k] = s[2 + k - 1]
  BY <1>2 DEF p
<1>4. Len(p) = IF 1 <= n THEN n - 1 ELSE 0
  BY <1>3
<1>5. \A k \in 1 .. n - 1 : k \in 1 .. n - 2 + 1 /\ 2 + k - 1 = k + 1
  OBVIOUS
<1>6. \A k \in 1 .. n - 1 : p[k] = s[k + 1]
  BY <1>3, <1>5
<1> QED
  BY <1>3, <1>4, <1>6 DEF p

FeedOnward == IF walk.cursor = NoCursor THEN FeedList ELSE SubSeq(FeedList, 2, Len(FeedList))

LEMMA FeedOnwardIs ==
    ASSUME DiscoveryTypes, walk.sort = "feed"
    PROVE FeedOnward \in Seq(Entry)
<1>a. FeedRows \subseteq Entry
  BY ItemIs DEF FeedRows
<1>1. FeedList \in Seq(Entry)
  BY <1>a, FeedIs, SeqMonotonic
<1>2. PICK s \in Seq(Entry) : s = FeedList
  BY <1>1
<1>3. PICK n \in Nat : n = Len(s)
  OBVIOUS
<1>4. SubSeq(s, 2, n) \in Seq(Entry)
  BY <1>3, TailIs
<1> QED
  BY <1>2, <1>3, <1>4 DEF FeedOnward

(* As nobody is suspended, the row of the cursor is still the first one. *)
LEMMA FeedRest ==
    ASSUME DiscoveryTypes, walk.sort = "feed", suspended = {}
    PROVE Rest(FeedOnward)
<1>1. /\ \A i \in Ids : Item(i) \in Entry /\ Item(i).id = i /\ Item(i).first \in Marks /\ Item(i) \in Listed
      /\ Listed \subseteq Entry
      /\ \A x \in Listed : x.id \in Ids /\ x = Item(x.id)
  BY ItemIs
<1>2. \A x \in Entry : x.id \in Nat /\ x.id \in Ids
  BY DiscoveryAssumption DEF Entry
<1>3. PICK s : s = FeedList
  OBVIOUS
<1>4. s \in Seq(FeedRows) /\ InTurn(s) /\ \A x \in FeedRows : \E k \in DOMAIN s : s[k] = x
  BY <1>3, FeedIs
<1>5. \A k \in DOMAIN s : s[k] \in FeedRows
  BY <1>4
<1>6. PICK n \in Nat : n = Len(s) /\ DOMAIN s = 1 .. n
  BY <1>4
<1>7. s \in Seq(Entry)
  <2>1. FeedRows \subseteq Entry
    BY <1>1 DEF FeedRows
  <2> QED BY <1>4, <2>1, SeqMonotonic
<1>8. \A k \in DOMAIN s : s[k] \in Entry /\ s[k].first \in Marks /\ s[k] = Item(s[k].id)
  BY <1>1, <1>5 DEF FeedRows
<1>9. CASE walk.cursor = NoCursor
  <2>1. FeedOnward = s /\ FeedRows = Listed /\ \A x : ToCome(x)
    BY <1>3, <1>9 DEF FeedOnward, FeedRows, ToCome
  <2>2. TrueTo(s)
    BY <1>8 DEF TrueTo
  <2>3. \A i \in Ids \ touched : \E k \in DOMAIN s : s[k] = Item(i)
    BY <1>1, <1>4, <2>1
  <2> QED BY <1>4, <1>7, <2>1, <2>2, <2>3 DEF Rest
<1>10. CASE walk.cursor # NoCursor
  <2>1. PICK c \in Entry : c = walk.cursor
    BY <1>10 DEF DiscoveryTypes
  <2>2. \A x : x \in FeedRows <=> x \in Listed /\ x.id <= c.id
    BY <1>10, <2>1 DEF FeedRows
  <2>3. \A x, y : Ahead(x, y) <=> x.id > y.id
    BY DEF Ahead
  <2>4. Item(c.id) \in FeedRows
    BY <1>1, <1>2, <2>2
  <2>5. PICK k \in 1 .. n : s[k] = Item(c.id)
    BY <1>4, <1>6, <2>4
  <2>6. k = 1
    <3> SUFFICES ASSUME k # 1 PROVE FALSE
      OBVIOUS
    <3>1. 1 \in 1 .. n /\ 1 < k
      BY <1>6
    <3>2. s[1].id > s[k].id
      BY <1>4, <1>6, <2>3, <3>1 DEF InTurn
    <3>3. s[1].id <= c.id /\ s[k].id = c.id /\ s[1].id \in Nat /\ c.id \in Nat
      BY <1>1, <1>2, <1>5, <1>6, <1>8, <2>2, <2>5, <3>1
    <3> QED BY <3>2, <3>3
  <2>7. s[1].id = c.id /\ 1 \in 1 .. n
    BY <1>1, <1>2, <2>5, <2>6
  <2> DEFINE t == SubSeq(s, 2, n)
  <2>8. t \in Seq(Entry) /\ Len(t) = n - 1 /\ \A j \in 1 .. n - 1 : t[j] = s[j + 1]
    <3>1. /\ t \in Seq(Entry) /\ Len(t) = IF 1 <= n THEN n - 1 ELSE 0
          /\ \A j \in 1 .. n - 1 : t[j] = s[j + 1]
      BY <1>6, <1>7, TailIs
    <3>2. 1 <= n
      BY <2>7
    <3> HIDE DEF t
    <3> QED BY <3>1, <3>2
  <2>9. FeedOnward = t
    BY <1>3, <1>6, <1>10 DEF FeedOnward
  <2> HIDE DEF t
  <2>10. DOMAIN t = 1 .. n - 1
    BY <2>8
  <2>11. \A j \in 1 .. n - 1 : j + 1 \in 1 .. n /\ 1 < j + 1
    BY <1>6
  <2>12. \A j \in DOMAIN t : t[j] = s[j + 1] /\ j + 1 \in DOMAIN s /\ 1 < j + 1
    BY <1>6, <2>8, <2>10, <2>11
  <2>13. InTurn(t)
    <3> SUFFICES ASSUME NEW j \in DOMAIN t, NEW l \in DOMAIN t, j < l PROVE Ahead(t[j], t[l])
      BY DEF InTurn
    <3>1. j + 1 < l + 1
      BY <2>10
    <3> QED BY <1>4, <2>12, <3>1 DEF InTurn
  <2>14. TrueTo(t)
    BY <1>8, <2>12 DEF TrueTo
  <2>15. ASSUME NEW j \in DOMAIN t PROVE ToCome(t[j])
    <3>1. Ahead(s[1], s[j + 1])
      BY <1>4, <1>6, <2>7, <2>12 DEF InTurn
    <3> QED BY <2>1, <2>3, <2>7, <2>12, <3>1 DEF ToCome
  <2>16. ASSUME NEW i \in Ids \ touched, ToCome(Item(i)) PROVE \E j \in DOMAIN t : t[j] = Item(i)
    <3>1. c.id > Item(i).id
      BY <1>10, <2>1, <2>3, <2>16 DEF ToCome
    <3>2. Item(i) \in FeedRows
      <4>1. Item(i).id \in Nat /\ c.id \in Nat
        BY <1>1, <1>2
      <4> QED BY <1>1, <2>2, <3>1, <4>1
    <3>3. PICK l \in 1 .. n : s[l] = Item(i)
      BY <1>4, <1>6, <3>2
    <3>4. l # 1
      <4>1. c.id \in Nat
        BY <1>2
      <4> QED BY <2>7, <3>1, <3>3, <4>1
    <3>5. l - 1 \in 1 .. n - 1 /\ (l - 1) + 1 = l
      BY <3>4
    <3> QED BY <2>8, <2>10, <3>3, <3>5
  <2> QED BY <2>8, <2>9, <2>13, <2>14, <2>15, <2>16 DEF Rest
<1> QED
  BY <1>9, <1>10

LEMMA InitWalk == DiscoveryInit => DiscoveryInv
<1> SUFFICES ASSUME DiscoveryInit PROVE DiscoveryInv
  OBVIOUS
<1>1. /\ walk \in [sort : Sorts, cursor : {NoCursor}, got : {<<>>}, ended : {FALSE}]
      /\ card \in [Ids -> {c \in Cards : Fits(c, walk.sort)}]
      /\ suspended = {} /\ touched = {} /\ ranking = [kept |-> FALSE, list |-> <<>>]
  BY DEF DiscoveryInit
<1>2. walk.cursor = NoCursor /\ walk.got = <<>> /\ walk.ended = FALSE /\ walk.sort \in Sorts
  BY <1>1
<1>3. DiscoveryTypes
  <2>1. walk \in [sort : Sorts, cursor : Entry \cup {NoCursor}, got : Seq(Ids), ended : BOOLEAN]
    <3>1. <<>> \in Seq(Ids)
      OBVIOUS
    <3>2. walk = [sort |-> walk.sort, cursor |-> NoCursor, got |-> <<>>, ended |-> FALSE]
      BY <1>1
    <3> QED BY <1>2, <3>1, <3>2
  <2>2. ranking \in [kept : BOOLEAN, list : Seq(Entry)]
    BY <1>1
  <2> QED BY <1>1, <2>1, <2>2 DEF DiscoveryTypes
<1>4. Walked
  <2>1. DOMAIN walk.got = {}
    BY <1>2
  <2> QED BY <1>2, <2>1 DEF Walked, IsSeen, SeenOnce
<1> QED
  BY <1>1, <1>3, <1>4 DEF DiscoveryInv

(* A provider changes, or is suspended. *)
LEMMA ChangeKeeps ==
    ASSUME DiscoveryInv, NEW i \in Ids, Changes(i), suspended \subseteq suspended',
           suspended' \subseteq suspended \cup {i},
           card' \in [Ids -> {c \in Cards : Fits(c, walk.sort)}], \A j \in Ids \ {i} : card'[j] = card[j]
    PROVE DiscoveryInv'
<1>1. touched' = touched \cup {i} /\ walk' = walk /\ ranking' = ranking
  BY DEF Changes
<1>2. DiscoveryTypes'
  BY <1>1 DEF DiscoveryInv, DiscoveryTypes, Fits
<1>3. /\ \A x, y : Ahead(x, y)' <=> Ahead(x, y)
      /\ \A j : IsSeen(j)' <=> IsSeen(j)
      /\ \A j : SeenOnce(j)' <=> SeenOnce(j)
  BY <1>1 DEF Ahead, Before, Largest, IsSeen, SeenOnce
<1>4. \A j \in Ids \ touched' : j \in Ids \ touched /\ Item(j)' = Item(j)
  BY <1>1 DEF Item
<1>5. ASSUME Even' PROVE Walked'
  <2>1. Even
    BY <1>1, <1>5 DEF Even
  <2>2. Walked
    BY <2>1 DEF DiscoveryInv
  <2> QED BY <1>1, <1>3, <1>4, <2>2 DEF Walked
<1>6. ASSUME walk'.sort \in {"rating", "distance"}, ranking'.kept PROVE RankingTrue'
  <2>1. RankingTrue
    BY <1>1, <1>6 DEF DiscoveryInv
  <2>2. PICK s \in Seq(Entry) : s = ranking.list
    BY DEF DiscoveryInv, DiscoveryTypes
  <2>3. InTurn(s) /\ TrueTo(s) /\ HasAll(s)
    BY <2>1, <2>2 DEF RankingTrue
  <2>4. InTurn(s)'
    BY <1>3, <2>3 DEF InTurn
  <2>5. \A k \in DOMAIN s : s[k].id \in Ids
    <3>1. \A k \in DOMAIN s : s[k] \in Entry
      OBVIOUS
    <3> QED BY <3>1 DEF Entry
  <2>6. TrueTo(s)'
    BY <1>1, <1>4, <2>3, <2>5 DEF TrueTo
  <2>7. HasAll(s)'
    BY <1>4, <2>3 DEF HasAll
  <2> QED BY <1>1, <2>2, <2>4, <2>6, <2>7 DEF RankingTrue
<1> QED
  BY <1>2, <1>5, <1>6 DEF DiscoveryInv

(* A page of what is to come is turned; what is cached is a true ranking.  *)
LEMMA PageKeeps ==
    ASSUME DiscoveryInv, ~walk.ended, NEW s \in Seq(Entry), Even => Rest(s), Turns(Cut(s)),
           UNCHANGED <<card, suspended, touched>>,
           ranking' = ranking \/ (walk.sort # "feed" /\ ranking' = [kept |-> TRUE, list |-> Json(Ranked)])
    PROVE DiscoveryInv'
<1>1. DiscoveryTypes
  BY DEF DiscoveryInv
<1>2. Cut(s) \in Seq(Entry)
  BY CutIs
<1>3. /\ walk' \in [sort : Sorts, cursor : Entry \cup {NoCursor}, got : Seq(Ids), ended : BOOLEAN]
      /\ walk'.sort = walk.sort
  BY <1>1, <1>2, TurnsIs
<1>4. ranking' \in [kept : BOOLEAN, list : Seq(Entry)]
  <2>1. CASE ranking' = ranking
    BY <1>1, <2>1 DEF DiscoveryTypes
  <2>2. CASE walk.sort # "feed" /\ ranking' = [kept |-> TRUE, list |-> Json(Ranked)]
    <3>1. Ranked \in Seq(Listed) /\ Listed \subseteq Entry
      BY <1>1, <2>2, RankedIs, ItemIs
    <3>2. Ranked \in Seq(Entry)
      BY <3>1, SeqMonotonic
    <3>3. Json(Ranked) \in Seq(Entry)
      BY <3>2, JsonIs
    <3> QED BY <2>2, <3>3
  <2> QED BY <2>1, <2>2
<1>5. DiscoveryTypes'
  BY <1>1, <1>3, <1>4 DEF DiscoveryTypes, Fits
<1>6. Even' <=> Even
  BY <1>3 DEF Even
<1>7. Even => Walked'
  BY <1>1, TurnStep DEF DiscoveryInv
<1>8. ASSUME walk'.sort \in {"rating", "distance"}, ranking'.kept PROVE RankingTrue'
  <2>1. \E t : t = ranking'.list /\ InTurn(t) /\ TrueTo(t) /\ HasAll(t)
    <3>1. CASE ranking' = ranking
      BY <1>3, <1>8, <3>1 DEF DiscoveryInv, RankingTrue
    <3>2. CASE ranking' = [kept |-> TRUE, list |-> Json(Ranked)]
      BY <1>1, <1>3, <1>8, <3>2, RankedTrue
    <3> QED BY <3>1, <3>2
  <2>2. PICK t : t = ranking'.list /\ InTurn(t) /\ TrueTo(t) /\ HasAll(t)
    BY <2>1
  <2>3. \A x, y : Ahead(x, y)' <=> Ahead(x, y)
    BY <1>3 DEF Ahead, Before, Largest
  <2>4. \A j : Item(j)' = Item(j)
    BY DEF Item
  <2>5. InTurn(t)' /\ TrueTo(t)' /\ HasAll(t)'
    BY <2>2, <2>3, <2>4 DEF InTurn, TrueTo, HasAll
  <2> QED BY <2>2, <2>5 DEF RankingTrue
<1> QED
  BY <1>5, <1>6, <1>7, <1>8 DEF DiscoveryInv

LEMMA NextWalk == DiscoveryInv /\ [DiscoveryNext]_discoveryVars => DiscoveryInv'
<1> SUFFICES ASSUME DiscoveryInv, [DiscoveryNext]_discoveryVars PROVE DiscoveryInv'
  OBVIOUS
<1>t. DiscoveryTypes
  BY DEF DiscoveryInv
<1>s. Even => walk.sort \in {"rating", "distance"} \/ (walk.sort = "feed" /\ suspended = {})
  BY DEF Even
<1>1. ASSUME NEW i \in Ids, Suspend(i) PROVE DiscoveryInv'
  <2>1. Changes(i) /\ suspended' = suspended \cup {i} /\ card' = card
    BY <1>1 DEF Suspend
  <2>2. card \in [Ids -> {c \in Cards : Fits(c, walk.sort)}]
    BY <1>t DEF DiscoveryTypes
  <2> QED BY <2>1, <2>2, ChangeKeeps
<1>2. ASSUME NEW i \in Ids, NEW c \in Cards, CardChanges(i, c) PROVE DiscoveryInv'
  <2>1. Changes(i) /\ suspended' = suspended /\ Fits(c, walk.sort) /\ card' = [card EXCEPT ![i] = c]
    BY <1>2 DEF CardChanges
  <2>2. card \in [Ids -> {d \in Cards : Fits(d, walk.sort)}]
    BY <1>t DEF DiscoveryTypes
  <2>3. card' \in [Ids -> {d \in Cards : Fits(d, walk.sort)}] /\ \A j \in Ids \ {i} : card'[j] = card[j]
    BY <2>1, <2>2
  <2> QED BY <2>1, <2>3, ChangeKeeps
<1>3. ASSUME CacheExpires PROVE DiscoveryInv'
  <2>1. ranking' = [kept |-> FALSE, list |-> <<>>] /\ UNCHANGED <<card, suspended, touched, walk>>
    BY <1>3 DEF CacheExpires
  <2>2. DiscoveryTypes'
    BY <1>t, <2>1 DEF DiscoveryTypes, Fits
  <2>3. Even' => Walked'
    BY <2>1 DEF DiscoveryInv, Even, Walked, IsSeen, SeenOnce, Ahead, Before, Largest, Item
  <2> QED BY <2>1, <2>2, <2>3 DEF DiscoveryInv
<1>4. ASSUME SearchCached PROVE DiscoveryInv'
  <2>1. /\ walk.sort # "feed" /\ ~walk.ended /\ ranking.kept
        /\ Turns(Cut(Onward(ranking.list))) /\ UNCHANGED <<card, suspended, touched, ranking>>
    BY <1>4 DEF SearchCached
  <2>2. PICK s \in Seq(Entry) : s = ranking.list
    BY <1>t DEF DiscoveryTypes
  <2>3. Onward(s) \in Seq(Entry)
    BY <1>t, OnwardIs
  <2>4. Even => Rest(Onward(s))
    <3>1. SUFFICES ASSUME Even PROVE Rest(Onward(s))
      OBVIOUS
    <3>2. walk.sort \in {"rating", "distance"}
      BY <1>s, <2>1, <3>1
    <3>3. InTurn(s) /\ TrueTo(s) /\ HasAll(s)
      BY <2>1, <2>2, <3>2 DEF DiscoveryInv, RankingTrue
    <3> QED BY <1>t, <3>2, <3>3, OnwardRest
  <2> QED BY <2>1, <2>2, <2>3, <2>4, PageKeeps
<1>5. ASSUME SearchRanked PROVE DiscoveryInv'
  <2>1. /\ walk.sort # "feed" /\ ~walk.ended
        /\ Turns(Cut(Onward(Ranked))) /\ UNCHANGED <<card, suspended, touched>>
        /\ ranking' = [kept |-> TRUE, list |-> Json(Ranked)] \/ ranking' = ranking
    BY <1>5 DEF SearchRanked
  <2>2. Ranked \in Seq(Entry)
    <3>1. Ranked \in Seq(Listed) /\ Listed \subseteq Entry
      BY <1>t, <2>1, RankedIs, ItemIs
    <3> QED BY <3>1, SeqMonotonic
  <2>3. Onward(Ranked) \in Seq(Entry)
    BY <1>t, <2>2, OnwardIs
  <2>4. Even => Rest(Onward(Ranked))
    <3>1. SUFFICES ASSUME Even PROVE Rest(Onward(Ranked))
      OBVIOUS
    <3>2. walk.sort \in {"rating", "distance"}
      BY <1>s, <2>1, <3>1
    <3> QED BY <1>t, <3>2, RankedTrue, OnwardRest
  <2> QED BY <2>1, <2>3, <2>4, PageKeeps
<1>6. ASSUME FeedPage PROVE DiscoveryInv'
  <2>1. /\ walk.sort = "feed" /\ ~walk.ended
        /\ Turns(Cut(FeedOnward)) /\ UNCHANGED <<card, suspended, touched, ranking>>
    BY <1>6 DEF FeedPage, FeedOnward, FeedList, FeedRows
  <2>2. FeedOnward \in Seq(Entry)
    BY <1>t, <2>1, FeedOnwardIs
  <2>3. Even => Rest(FeedOnward)
    BY <1>s, <1>t, <2>1, FeedRest
  <2> QED BY <2>1, <2>2, <2>3, PageKeeps
<1>7. ASSUME UNCHANGED discoveryVars PROVE DiscoveryInv'
  <2>1. UNCHANGED <<card, suspended, touched, ranking, walk>>
    BY <1>7 DEF discoveryVars
  <2> QED BY <2>1 DEF DiscoveryInv, DiscoveryTypes, Fits, Even, Walked, RankingTrue, IsSeen, SeenOnce, InTurn, TrueTo,
                   HasAll, Ahead, Before, Largest, Item
<1> QED
  BY <1>1, <1>2, <1>3, <1>4, <1>5, <1>6, <1>7 DEF DiscoveryNext

(* Who walks by rating, by distance or by id sees every provider that does  *)
(* not change exactly once, for any number of providers and pages.          *)
THEOREM WalksAreWhole == DiscoverySpec => []WalkWhole
<1>1. DiscoveryInv => WalkWhole
  <2> SUFFICES ASSUME DiscoveryInv, Steady, NEW i \in Ids \ touched
               PROVE LET times == Cardinality({k \in DOMAIN walk.got : walk.got[k] = i})
                     IN  times <= 1 /\ (walk.ended => times = 1)
    BY DEF WalkWhole
  <2>1. Even
    BY DEF Steady, Even
  <2>2. SeenOnce(i) /\ (walk.ended => IsSeen(i))
    BY <2>1 DEF DiscoveryInv, Walked
  <2> DEFINE S == {k \in DOMAIN walk.got : walk.got[k] = i}
  <2>3. CASE IsSeen(i)
    <3>1. PICK k \in DOMAIN walk.got : walk.got[k] = i
      BY <2>3 DEF IsSeen
    <3>2. S = {k}
      BY <2>2, <3>1 DEF SeenOnce
    <3> HIDE DEF S
    <3>3. Cardinality(S) = 1
      BY <3>2, FS_Singleton
    <3> QED BY <3>3 DEF S
  <2>4. CASE ~IsSeen(i)
    <3>1. S = {}
      BY <2>4 DEF IsSeen
    <3> QED BY <2>2, <2>4, <3>1, FS_EmptySet
  <2> QED BY <2>3, <2>4
<1> QED
  BY <1>1, InitWalk, NextWalk, PTL DEF DiscoverySpec

----------------------------------------------------------------------------
(* The pages of Workspace *)

Words == Entries \cup {Exists}
Val == Words \cup {Nil}
Sheets == [Rows -> Val]
Statuses == {"NONE", "PENDING", "VERIFIED", "REJECTED"}
Verbs == {"none", "create", "update", "delete", "replace", "upload", "submit", "add", "remove", "put"}
LoadOf == [pc : {"idle", "asked", "answered"}, rows : Sheets, status : Statuses, old : BOOLEAN]
Command == [pc : {"idle", "sent", "between", "ok", "refused", "loading"}, kind : Verbs,
            id : Rows \cup {1, Nil}, val : Val, was : Sheets, edit : Rows \cup {Nil, Left},
            gone : BOOLEAN, get : Gets \cup {Nil}]

WorkTypes ==
    /\ visit \in Visits
    /\ kept \in Sheets /\ next \in Nat /\ review.status \in Statuses
    /\ view \in Sheets /\ seen \in Statuses
    /\ gets \in [Gets -> LoadOf] /\ asked \in Seq(Gets)
    /\ busy \in BOOLEAN /\ broken \in BOOLEAN /\ off \in BOOLEAN /\ mixed \in BOOLEAN
    /\ form \in [id : Rows \cup {Nil}, val : Val]
    /\ page = "profile" /\ form.val # Nil => form.id # Nil
    /\ act \in [Acts -> Command]
    /\ typed \subseteq Entries /\ lost \subseteq Val

(* What is sent from which page, and of whom *)
Sent ==
    CASE Lists -> {"create", "update", "delete"}
      [] page = "slots" -> {"replace"}
      [] page = "docs" -> {"upload", "submit"}
      [] page = "profile" -> {"update"}
      [] page = "blocked" -> {"delete"}
      [] Immediate -> {"add", "remove"}
      [] page = "counter" -> {"put"}
      [] OTHER -> {"create"}

Fitting(c) ==
    /\ c.pc = "idle" => c = NoAct
    /\ c.pc # "idle" => c.kind \in Sent
    /\ c.gone => c.pc \in {"sent", "between"}
    /\ c.kind \in Saves /\ page \notin Forms => c.edit = Nil
    /\ c.kind = "update" => c.id \in Rows
    /\ c.kind \in {"create", "update"} => c.val # Nil
    /\ c.pc = "between" => c.kind \in {"create", "replace"}
    /\ c.pc = "refused" => ~Immediate
    /\ c.kind \in {"add", "remove"} => c.id \in Rows /\ c.val = Exists
    /\ Immediate => \A i \in Rows : c.was[i] \in {Exists, Nil}

ActsFit == \A o \in Acts : Fitting(act[o])

(* Of what the flag of the form is about, one is under way. *)
Busies(c) == c.pc # "idle" /\ ~c.gone /\ c.kind \in Saves /\ c.edit # Left
OneSave == \A o, p \in Acts : Busies(act[o]) /\ Busies(act[p]) => o = p

(* asked has the loads under way, once each. *)
LoadsFit ==
    /\ \A g \in Gets : gets[g].pc # "idle" <=> \E k \in DOMAIN asked : asked[k] = g
    /\ \A j, k \in DOMAIN asked : asked[j] = asked[k] => j = k
    /\ busy => asked # <<>>
    /\ page \in Forms => asked = <<>>

PageFits ==
    /\ page # "docs" => seen = "NONE" /\ review.status = "NONE" /\ \A g \in Gets : gets[g].status = "NONE"
    /\ Immediate => \A i \in Rows : /\ kept[i] \in {Exists, Nil} /\ view[i] \in {Exists, Nil}
                                    /\ \A g \in Gets : gets[g].rows[i] \in {Exists, Nil}

(* What is typed is in one row at most, on the server and on the page. *)
Sole == Lists \/ page \in Inserting
Has(i, e) == \/ kept[i] = e \/ view[i] = e \/ \E g \in Gets : gets[g].rows[i] = e
             \/ form.id = i /\ form.val = e
             \/ \E o \in Acts : act[o].kind = "update" /\ act[o].id = i /\ act[o].val = e
Brings(c, e) == c.kind = "create" /\ c.val = e /\ c.pc \in {"sent", "between"}
Wrote(c, e) == c.kind = "create" /\ c.val = e /\ c.pc = "ok" /\ c.edit # Left
NewForm(e) == form.id = Nil /\ form.val = e
InOneRow(e) ==
    /\ \A i, j \in Rows : Has(i, e) /\ Has(j, e) => i = j
    /\ \A o \in Acts : Brings(act[o], e) => /\ \A i \in Rows : ~Has(i, e)
                                            /\ \A p \in Acts : Brings(act[p], e) => p = o
    /\ NewForm(e) => /\ \A i \in Rows : Has(i, e) => \E o \in Acts : Wrote(act[o], e)
                     /\ \A o \in Acts : Brings(act[o], e) => ~act[o].gone /\ act[o].edit # Left
    /\ e \notin typed => /\ form.val # e
                         /\ \A i \in Rows : ~Has(i, e)
                         /\ \A o \in Acts : ~Brings(act[o], e)
OneRow == Sole => /\ page \in Inserting => form.id = Nil
                  /\ \A e \in Words \ lost : InOneRow(e)

(* How many rows there are, as a command between its two steps knows *)
Count == Cardinality(Present(kept))
Counts ==
    /\ page \in Updating => /\ Count <= 1
                            /\ \A o \in Acts : act[o].pc = "between" => Present(act[o].was) \subseteq Present(kept)
    /\ ~mixed =>
         /\ \A o, p \in Acts : act[o].pc = "between" /\ act[p].pc = "between" => o = p
         /\ page = "dispute" => Count <= 1 /\ \A o \in Acts : act[o].pc = "between" => Count = 0
         /\ page = "slots" => Count <= 1 /\ \A o \in Acts : act[o].pc = "between" => Present(act[o].was) = Present(kept)
         /\ page = "searches" => Count <= SavedMax /\ \A o \in Acts : act[o].pc = "between" => Count < SavedMax

(* A command of which the page does not know yet that it was served, and the *)
(* load whose answer will be the last                                        *)
Served(c) == c.pc = "ok" /\ ~c.gone
Newest(g) == /\ asked # <<>> /\ g = asked[Len(asked)]
             /\ gets[g].pc = "answered" /\ ~gets[g].old
Still == asked = <<>> /\ ~broken /\ ~off

Reloading == page \in {"list", "searches", "slots", "docs", "blocked"}
ShownCurrent ==
    Reloading /\ (\A o \in Acts : ~Served(act[o])) =>
        /\ Still => view = kept /\ seen = review.status
        /\ \A g \in Gets : Newest(g) => gets[g].rows = kept /\ gets[g].status = review.status

(* The profile: what is served is written into what is shown. *)
Near(s) == \A i \in Rows : s[i] = kept[i] \/ \E o \in Acts : Served(act[o]) /\ act[o].id = i /\ kept[i] = act[o].val
FieldsCurrent ==
    page = "profile" =>
        /\ Still => Near(view)
        /\ \A g \in Gets : Newest(g) => Near(gets[g].rows)

(* Favourites are shown before they are served, but for a provider. *)
Written(c) == IF c.kind = "add" THEN Exists ELSE Nil
OnRow(c, i) == c.pc # "idle" /\ ~c.gone /\ c.id = i
Settled == ~busy /\ ~broken /\ ~off
HeartsCurrent ==
    Immediate =>
        /\ \A g \in Gets : gets[g].pc # "idle" /\ ~gets[g].old =>
              /\ \A o \in Acts : ~Active(o)
              /\ gets[g].pc = "answered" => gets[g].rows = kept
        /\ Settled => \A i \in Rows :
              /\ \A o, p \in Acts : OnRow(act[o], i) /\ OnRow(act[p], i) => o = p
              /\ (\A o \in Acts : ~OnRow(act[o], i)) => view[i] = kept[i]
              /\ \A o \in Acts : OnRow(act[o], i) => /\ view[i] = Written(act[o]) <=> page # "hearts"
                                                     /\ act[o].pc = "ok" => kept[i] = Written(act[o])

WorkInv == /\ WorkTypes /\ ActsFit /\ OneSave /\ LoadsFit /\ PageFits
           /\ OneRow /\ Counts
           /\ ShownCurrent /\ FieldsCurrent /\ HeartsCurrent

LEMMA PageSame ==
    visit' = visit =>
        /\ page' = page /\ (Lists' <=> Lists) /\ (Immediate' <=> Immediate) /\ (Sole' <=> Sole)
        /\ (Reloading' <=> Reloading) /\ Sent' = Sent
        /\ \A c : Fitting(c)' <=> Fitting(c)
<1> SUFFICES ASSUME visit' = visit PROVE
        /\ page' = page /\ (Lists' <=> Lists) /\ (Immediate' <=> Immediate) /\ (Sole' <=> Sole)
        /\ (Reloading' <=> Reloading) /\ Sent' = Sent
        /\ \A c : Fitting(c)' <=> Fitting(c)
  OBVIOUS
<1>1. page' = page
  BY DEF page
<1>2. (Lists' <=> Lists) /\ (Immediate' <=> Immediate) /\ (Reloading' <=> Reloading)
  BY <1>1 DEF Lists, Immediate, Reloading
<1>3. Sole' <=> Sole
  BY <1>1, <1>2 DEF Sole
<1>4. Sent' = Sent
  BY <1>1, <1>2 DEF Sent
<1>5. \A c : Fitting(c)' <=> Fitting(c)
  BY <1>1, <1>2, <1>4 DEF Fitting
<1> QED
  BY <1>1, <1>2, <1>3, <1>4, <1>5

LEMMA Nothings ==
    /\ Nothing \in Sheets /\ NoAct \in Command /\ NoForm \in [id : Rows \cup {Nil}, val : Val] /\ NoGet \in LoadOf
    /\ NoAct.pc = "idle" /\ ~NoAct.gone /\ NoAct.kind = "none" /\ NoAct.id = Nil /\ NoAct.val = Nil /\ NoAct.edit = Nil
    /\ NoGet.pc = "idle" /\ NoGet.status = "NONE" /\ NoGet.rows = Nothing /\ NoGet.old = FALSE
    /\ NoForm.id = Nil /\ NoForm.val = Nil
    /\ Present(Nothing) = {} /\ Fitting(NoAct)
    /\ \A e \in Words : e # Nil
<1>1. Nothing \in Sheets
  BY DEF Nothing, Sheets, Val, Words
<1>2. NoAct \in Command /\ NoGet \in LoadOf /\ NoForm \in [id : Rows \cup {Nil}, val : Val]
  BY <1>1 DEF NoAct, NoGet, NoForm, Command, LoadOf, Val, Words, Statuses, Verbs
<1>3. NoAct.pc = "idle" /\ ~NoAct.gone /\ NoAct.kind = "none" /\ NoAct.id = Nil /\ NoAct.val = Nil /\ NoAct.edit = Nil
  BY DEF NoAct
<1>4. NoGet.pc = "idle" /\ NoGet.status = "NONE" /\ NoGet.rows = Nothing /\ NoGet.old = FALSE
  BY DEF NoGet
<1>5. Present(Nothing) = {}
  BY DEF Present, Nothing
<1>6. Fitting(NoAct)
  <2>1. \A i \in Rows : NoAct.was[i] = Nil
    BY DEF NoAct, Nothing
  <2> QED BY <1>3, <2>1 DEF Fitting, Saves
<1> QED
  BY <1>1, <1>2, <1>3, <1>4, <1>5, <1>6, WorkspaceAssumption DEF NoForm, Words

LEMMA SendIs ==
    ASSUME WorkTypes, NEW o \in Acts, NEW k \in Verbs, NEW i \in Rows \cup {1, Nil}, NEW v \in Val, Send(o, k, i, v)
    PROVE /\ act[o].pc = "idle"
          /\ \E c \in Command : /\ act' = [act EXCEPT ![o] = c]
                                /\ c.pc = "sent" /\ c.kind = k /\ c.id = i /\ c.val = v /\ ~c.gone
                                /\ k # "delete" => c.edit = Nil
<1>1. PICK w \in Sheets : w = IF page \in {"saved", "docs"} THEN view ELSE NoAct.was
  BY Nothings DEF WorkTypes, NoAct
<1>2. PICK e \in Rows \cup {Nil, Left} : e = IF k = "delete" THEN form.id ELSE NoAct.edit
  BY Nothings DEF WorkTypes
<1>3. PICK c : c = [NoAct EXCEPT !.pc = "sent", !.kind = k, !.id = i, !.val = v, !.was = w, !.edit = e]
  OBVIOUS
<1>4. c \in Command /\ c.pc = "sent" /\ c.kind = k /\ c.id = i /\ c.val = v /\ ~c.gone /\ c.edit = e
  BY <1>3, Nothings DEF Command
<1>5. act[o].pc = "idle" /\ act' = [act EXCEPT ![o] = c]
  BY <1>1, <1>2, <1>3 DEF Send
<1> QED
  BY <1>2, <1>4, <1>5, Nothings

LEMMA AllOldIs ==
    ASSUME WorkTypes
    PROVE /\ AllOld \in [Gets -> LoadOf]
          /\ \A g \in Gets : /\ AllOld[g].pc = gets[g].pc /\ AllOld[g].rows = gets[g].rows
                             /\ AllOld[g].status = gets[g].status /\ AllOld[g].old = TRUE
<1>1. \A r \in LoadOf : LET n == [r EXCEPT !.old = TRUE]
                        IN  n \in LoadOf /\ n.pc = r.pc /\ n.rows = r.rows /\ n.status = r.status /\ n.old = TRUE
  BY DEF LoadOf
<1>2. \A g \in Gets : gets[g] \in LoadOf
  BY DEF WorkTypes
<1> QED
  BY <1>1, <1>2 DEF AllOld

(* A command is served: the app learns it, or had given it up. *)
LEMMA ServesIs ==
    ASSUME WorkTypes, NEW o \in Acts, NEW ok \in BOOLEAN, Serves(o, ok)
    PROVE /\ UNCHANGED <<visit, view, seen, busy, broken, asked, form, typed, lost, faults>>
          /\ gets' \in [Gets -> LoadOf]
          /\ \A g \in Gets : gets'[g].pc = gets[g].pc /\ gets'[g].rows = gets[g].rows /\ gets'[g].status = gets[g].status
          /\ act[o].gone => /\ act' = [act EXCEPT ![o] = NoAct] /\ off' = TRUE
                            /\ \A g \in Gets : gets'[g].old = TRUE
          /\ ~act[o].gone => /\ gets' = gets /\ off' = off
                             /\ \E c \in Command :
                                   /\ act' = [act EXCEPT ![o] = c]
                                   /\ c.pc = IF ok THEN "ok" ELSE "refused"
                                   /\ c.kind = act[o].kind /\ c.id = act[o].id /\ c.val = act[o].val
                                   /\ c.was = act[o].was /\ c.edit = act[o].edit /\ ~c.gone
<1>1. UNCHANGED <<visit, view, seen, busy, broken, asked, form, typed, lost, faults>>
  BY DEF Serves, shownVars
<1>t. act[o] \in Command /\ gets \in [Gets -> LoadOf] /\ act \in [Acts -> Command]
  BY DEF WorkTypes
<1>2. CASE act[o].gone
  <2>1. act' = [act EXCEPT ![o] = NoAct] /\ gets' = AllOld /\ off' = TRUE
    BY <1>2 DEF Serves
  <2> QED BY <1>1, <1>2, <2>1, AllOldIs
<1>3. CASE ~act[o].gone
  <2>1. PICK s \in {"ok", "refused"} : s = IF ok THEN "ok" ELSE "refused"
    OBVIOUS
  <2>2. PICK c : c = [act[o] EXCEPT !.pc = s]
    OBVIOUS
  <2>3. c \in Command /\ c.pc = s /\ c.kind = act[o].kind /\ c.id = act[o].id /\ c.val = act[o].val
        /\ c.was = act[o].was /\ c.edit = act[o].edit /\ c.gone = act[o].gone
    BY <1>t, <2>2 DEF Command
  <2>4. act' = [act EXCEPT ![o] = c] /\ gets' = gets /\ off' = off
    BY <1>3, <1>t, <2>1, <2>2 DEF Serves
  <2> QED BY <1>1, <1>3, <1>t, <2>1, <2>3, <2>4
<1> QED
  BY <1>2, <1>3

(* A load is asked for: it is the last one. *)
LEMMA LoadIs ==
    ASSUME WorkTypes, LoadsFit, NEW g \in Gets, Load(g)
    PROVE /\ page \notin Forms /\ gets[g].pc = "idle" /\ busy' = TRUE /\ broken' = FALSE
          /\ gets' \in [Gets -> LoadOf] /\ gets'[g].pc = "asked" /\ gets'[g].rows = Nothing /\ gets'[g].status = "NONE"
          /\ gets'[g].old <=> Immediate /\ \E o \in Acts : Active(o)
          /\ \A h \in Gets \ {g} : gets'[h] = gets[h]
          /\ asked' \in Seq(Gets) /\ asked' # <<>> /\ asked'[Len(asked')] = g
          /\ \A h \in Gets : gets'[h].pc # "idle" <=> \E k \in DOMAIN asked' : asked'[k] = h
          /\ \A j, k \in DOMAIN asked' : asked'[j] = asked'[k] => j = k
<1>t. gets \in [Gets -> LoadOf] /\ asked \in Seq(Gets)
  BY DEF WorkTypes
<1>1. PICK b \in BOOLEAN : b <=> Immediate /\ \E o \in Acts : Active(o)
  OBVIOUS
<1>2. PICK r : r = [NoGet EXCEPT !.pc = "asked", !.old = b]
  OBVIOUS
<1>3. r \in LoadOf /\ r.pc = "asked" /\ r.rows = Nothing /\ r.status = "NONE" /\ r.old = b
  BY <1>2, Nothings DEF LoadOf
<1>4. /\ page \notin Forms /\ gets[g].pc = "idle" /\ busy' = TRUE /\ broken' = FALSE
      /\ gets' = [gets EXCEPT ![g] = r] /\ asked' = Append(asked, g)
  <2>1. (Immediate /\ \E o \in Acts : Active(o)) = b
    BY <1>1
  <2> QED BY <1>2, <2>1 DEF Load
<1>5. PICK n \in Nat : n = Len(asked) /\ DOMAIN asked = 1 .. n
  BY <1>t
<1>6. /\ asked' \in Seq(Gets) /\ Len(asked') = n + 1 /\ asked'[n + 1] = g
      /\ \A k \in 1 .. n : asked'[k] = asked[k]
  BY <1>t, <1>4, <1>5, AppendProperties
<1>7. DOMAIN asked' = 1 .. n + 1 /\ asked' # <<>>
  BY <1>6
<1>8. \A k \in 1 .. n : asked[k] # g
  BY <1>4, <1>5 DEF LoadsFit
<1>9. \A k \in 1 .. n + 1 : k = n + 1 \/ k \in 1 .. n
  OBVIOUS
<1>10. gets' \in [Gets -> LoadOf] /\ gets'[g] = r /\ \A h \in Gets \ {g} : gets'[h] = gets[h]
  BY <1>t, <1>3, <1>4
<1>11. \A h \in Gets : gets'[h].pc # "idle" <=> \E k \in 1 .. n + 1 : asked'[k] = h
  <2>1. n + 1 \in 1 .. n + 1 /\ \A k \in 1 .. n : k \in 1 .. n + 1
    OBVIOUS
  <2>2. gets'[g].pc # "idle" /\ \E k \in 1 .. n + 1 : asked'[k] = g
    BY <1>3, <1>6, <1>10, <2>1
  <2>3. ASSUME NEW h \in Gets, h # g PROVE gets'[h].pc # "idle" <=> \E k \in 1 .. n + 1 : asked'[k] = h
    <3>1. gets[h].pc # "idle" <=> \E k \in 1 .. n : asked[k] = h
      BY <1>5 DEF LoadsFit
    <3> QED BY <1>6, <1>9, <1>10, <2>1, <2>3, <3>1
  <2> QED BY <2>2, <2>3
<1>12. \A j, k \in 1 .. n + 1 : asked'[j] = asked'[k] => j = k
  <2>1. \A j, k \in 1 .. n : asked[j] = asked[k] => j = k
    BY <1>5 DEF LoadsFit
  <2> QED BY <1>6, <1>8, <1>9, <2>1
<1> QED
  BY <1>1, <1>3, <1>4, <1>6, <1>7, <1>10, <1>11, <1>12

(* A load is over: those that were asked for before it are out of date. *)
LEMMA EndedIs ==
    ASSUME WorkTypes, LoadsFit, NEW g \in Gets, gets[g].pc # "idle", Ended(g)
    PROVE /\ busy' = FALSE
          /\ gets' \in [Gets -> LoadOf] /\ gets'[g] = NoGet
          /\ \A h \in Gets \ {g} : /\ gets'[h].pc = gets[h].pc /\ gets'[h].rows = gets[h].rows
                                   /\ gets'[h].status = gets[h].status /\ (gets[h].old => gets'[h].old)
          /\ asked' \in Seq(Gets)
          /\ \A h \in Gets : gets'[h].pc # "idle" <=> \E k \in DOMAIN asked' : asked'[k] = h
          /\ \A j, k \in DOMAIN asked' : asked'[j] = asked'[k] => j = k
          /\ asked' # <<>> => \/ gets'[asked'[Len(asked')]].old
                              \/ asked # <<>> /\ asked'[Len(asked')] = asked[Len(asked)]
          /\ asked' = <<>> => asked # <<>> /\ g = asked[Len(asked)]
          /\ act' \in [Acts -> Command] /\ \A o \in Acts : act'[o] = act[o] \/ (act[o].pc = "loading" /\ act'[o] = NoAct)
<1>t. gets \in [Gets -> LoadOf] /\ asked \in Seq(Gets) /\ act \in [Acts -> Command]
  BY DEF WorkTypes
<1>5. PICK n \in Nat : n = Len(asked) /\ DOMAIN asked = 1 .. n
  BY <1>t
<1>6. PICK at \in 1 .. n : at = CHOOSE k \in DOMAIN asked : asked[k] = g
  <2>1. \E k \in DOMAIN asked : asked[k] = g
    BY DEF LoadsFit
  <2> QED BY <1>5, <2>1
<1>7. asked[at] = g /\ \A k \in 1 .. n : asked[k] = g => k = at
  <2>1. \E k \in DOMAIN asked : asked[k] = g
    BY DEF LoadsFit
  <2> QED BY <1>5, <1>6, <2>1 DEF LoadsFit
<1> DEFINE older == {asked[k] : k \in 1 .. at}
           K == {k \in DOMAIN asked : asked[k] # g}
<1>8. /\ gets' = [h \in Gets |-> IF h = g THEN NoGet ELSE [gets[h] EXCEPT !.old = @ \/ h \in older]]
      /\ asked' = Those(asked, K) /\ busy' = FALSE
      /\ act' = [o \in Acts |-> IF act[o].pc = "loading" /\ act[o].get = g THEN NoAct ELSE act[o]]
  BY <1>6 DEF Ended, Awaited, Filter
<1>9. K \in SUBSET (DOMAIN asked) /\ \A k \in 1 .. n : k \in K <=> k # at
  BY <1>5, <1>7
<1> HIDE DEF K
<1>10. asked' \in Seq(Gets) /\ \E f : Picks(asked', asked, K, f)
  BY <1>t, <1>8, <1>9, ThoseIs
<1>11. PICK f : Picks(asked', asked, K, f)
  BY <1>10
<1>12. PICK m \in Nat : m = Len(asked') /\ DOMAIN asked' = 1 .. m
  BY <1>10
<1>13. /\ \A j \in 1 .. m : f[j] \in K /\ f[j] \in 1 .. n /\ asked'[j] = asked[f[j]]
       /\ \A i, j \in 1 .. m : i < j => f[i] < f[j]
       /\ \A k \in K : \E j \in 1 .. m : f[j] = k
  BY <1>5, <1>9, <1>11, <1>12 DEF Picks
<1>14. /\ gets' \in [Gets -> LoadOf] /\ gets'[g] = NoGet
       /\ \A h \in Gets \ {g} : /\ gets'[h].pc = gets[h].pc /\ gets'[h].rows = gets[h].rows
                                /\ gets'[h].status = gets[h].status /\ (gets'[h].old <=> gets[h].old \/ h \in older)
  <2>1. \A r \in LoadOf : \A b \in BOOLEAN :
           LET q == [r EXCEPT !.old = b]
           IN  q \in LoadOf /\ q.pc = r.pc /\ q.rows = r.rows /\ q.status = r.status /\ q.old = b
    BY DEF LoadOf
  <2>2. ASSUME NEW h \in Gets \ {g}
        PROVE /\ gets'[h] \in LoadOf
              /\ gets'[h].pc = gets[h].pc /\ gets'[h].rows = gets[h].rows
              /\ gets'[h].status = gets[h].status /\ (gets'[h].old <=> gets[h].old \/ h \in older)
    <3>1. PICK b \in BOOLEAN : b <=> gets[h].old \/ h \in older
      OBVIOUS
    <3>2. gets[h] \in LoadOf
      BY <1>t
    <3>3. gets'[h] = [gets[h] EXCEPT !.old = gets[h].old \/ h \in older]
      BY <1>8
    <3> HIDE DEF older
    <3>4. (gets[h].old \/ h \in older) = b
      BY <3>1
    <3>5. gets'[h] = [gets[h] EXCEPT !.old = b]
      BY <3>3, <3>4
    <3> QED BY <2>1, <3>1, <3>2, <3>5
  <2>3. gets'[g] = NoGet /\ NoGet \in LoadOf
    BY <1>8, Nothings
  <2>4. gets' \in [Gets -> LoadOf]
    BY <1>8, <2>2, <2>3
  <2> QED BY <2>2, <2>3, <2>4
<1>15. \A h \in Gets : gets'[h].pc # "idle" <=> \E k \in 1 .. m : asked'[k] = h
  <2>1. ~ \E k \in 1 .. m : asked'[k] = g
    BY <1>7, <1>9, <1>13
  <2>2. ASSUME NEW h \in Gets, h # g PROVE gets'[h].pc # "idle" <=> \E k \in 1 .. m : asked'[k] = h
    <3>1. gets[h].pc # "idle" <=> \E k \in 1 .. n : asked[k] = h
      BY <1>5 DEF LoadsFit
    <3>2. \A k \in 1 .. n : asked[k] = h => k \in K
      BY <1>7, <1>9, <2>2
    <3> QED BY <1>13, <1>14, <2>2, <3>1, <3>2
  <2> QED BY <1>14, <2>1, <2>2, Nothings
<1>16. \A j, k \in 1 .. m : asked'[j] = asked'[k] => j = k
  <2> SUFFICES ASSUME NEW j \in 1 .. m, NEW k \in 1 .. m, asked'[j] = asked'[k], j < k PROVE FALSE
    OBVIOUS
  <2>1. f[j] < f[k] /\ asked[f[j]] = asked[f[k]] /\ f[j] \in 1 .. n /\ f[k] \in 1 .. n
    BY <1>13
  <2>2. f[j] = f[k]
    BY <1>5, <2>1 DEF LoadsFit
  <2> QED BY <2>1, <2>2
<1>17. asked' # <<>> => \/ gets'[asked'[m]].old
                        \/ asked # <<>> /\ asked'[m] = asked[n]
  <2> SUFFICES ASSUME asked' # <<>>, asked'[m] # asked[n] PROVE gets'[asked'[m]].old
    BY <1>5, <1>6
  <2>1. m \in 1 .. m
    BY <1>10, <1>12
  <2>2. f[m] \in K /\ f[m] \in 1 .. n /\ asked'[m] = asked[f[m]]
    BY <1>13, <2>1
  <2>3. n \in 1 .. n
    BY <2>2
  <2>4. n \notin K
    <3> SUFFICES ASSUME n \in K PROVE FALSE
      OBVIOUS
    <3>1. PICK j \in 1 .. m : f[j] = n
      BY <1>13
    <3>2. j = m \/ j < m
      OBVIOUS
    <3>3. j # m
      BY <2>2, <3>1
    <3>4. f[j] < f[m]
      BY <1>13, <2>1, <3>2, <3>3
    <3> QED BY <2>2, <3>1, <3>4
  <2>5. at = n
    BY <1>9, <2>3, <2>4
  <2>6. asked'[m] \in older
    BY <2>2, <2>5
  <2>7. asked'[m] \in Gets \ {g}
    BY <1>7, <1>9, <1>t, <1>5, <2>2
  <2> QED BY <1>14, <2>6, <2>7
<1>18. asked' = <<>> => asked # <<>> /\ g = asked[n]
  <2> SUFFICES ASSUME asked' = <<>> PROVE g = asked[n] /\ asked # <<>>
    OBVIOUS
  <2>1. m = 0 /\ n \in 1 .. n
    BY <1>6, <1>12
  <2>2. n \notin K
    BY <1>13, <2>1
  <2>3. n = at
    BY <1>9, <2>1, <2>2
  <2> QED BY <1>5, <1>7, <2>1, <2>3
<1>19. act' \in [Acts -> Command] /\ \A o \in Acts : act'[o] = act[o] \/ (act[o].pc = "loading" /\ act'[o] = NoAct)
  BY <1>8, <1>t, Nothings
<1> QED
  BY <1>5, <1>8, <1>10, <1>12, <1>14, <1>15, <1>16, <1>17, <1>18, <1>19

(* What a step leaves alone *)
LEMMA SavingIs == Saving <=> \E o \in Acts : Busies(act[o])
BY DEF Saving, Busies, Active

LEMMA ActsKept ==
    ASSUME ActsFit, OneSave, visit' = visit, \A o \in Acts : act'[o] = act[o] \/ act'[o] = NoAct
    PROVE ActsFit' /\ OneSave'
<1>1. ActsFit'
  BY PageSame, Nothings DEF ActsFit
<1>2. ~Busies(NoAct)
  BY Nothings DEF Busies
<1>3. \A o, p \in Acts : Busies(act'[o]) /\ Busies(act'[p]) => o = p
  BY <1>2 DEF OneSave
<1> QED
  BY <1>1, <1>3 DEF OneSave, Busies

LEMMA ActsStep ==
    ASSUME WorkTypes, ActsFit, OneSave, visit' = visit, NEW o \in Acts, NEW c \in Command,
           act' = [act EXCEPT ![o] = c], Fitting(c), Busies(c) => Busies(act[o]) \/ ~Saving
    PROVE act' \in [Acts -> Command] /\ ActsFit' /\ OneSave'
<1>1. act' \in [Acts -> Command] /\ act'[o] = c /\ \A p \in Acts \ {o} : act'[p] = act[p]
  BY DEF WorkTypes
<1>2. ActsFit'
  BY <1>1, PageSame DEF ActsFit
<1>3. \A p, q \in Acts : Busies(act'[p]) /\ Busies(act'[q]) => p = q
  <2>1. CASE ~Busies(c)
    BY <1>1, <2>1 DEF OneSave
  <2>2. CASE Busies(c) /\ Busies(act[o])
    BY <1>1, <2>2 DEF OneSave
  <2>3. CASE Busies(c) /\ ~Saving
    BY <1>1, <2>3, SavingIs
  <2> QED BY <2>1, <2>2, <2>3
<1> QED
  BY <1>1, <1>2, <1>3 DEF OneSave, Busies

LEMMA LoadsKept ==
    ASSUME LoadsFit, visit' = visit, asked' = asked, busy' = busy, \A g \in Gets : gets'[g].pc = "idle" <=> gets[g].pc = "idle"
    PROVE LoadsFit'
BY PageSame DEF LoadsFit

LEMMA PageKept ==
    ASSUME PageFits, visit' = visit, UNCHANGED <<kept, view, seen, review>>,
           \A g \in Gets : \/ gets'[g].rows = gets[g].rows /\ gets'[g].status = gets[g].status
                           \/ gets'[g].rows = Nothing /\ gets'[g].status = "NONE"
                           \/ gets'[g].rows = kept /\ gets'[g].status = review.status
    PROVE PageFits'
<1>1. page # "docs" => seen' = "NONE" /\ review'.status = "NONE" /\ \A g \in Gets : gets'[g].status = "NONE"
  BY DEF PageFits
<1>2. \A i \in Rows : Nothing[i] = Nil
  BY DEF Nothing
<1>3. Immediate => \A i \in Rows : /\ kept'[i] \in {Exists, Nil} /\ view'[i] \in {Exists, Nil}
                                   /\ \A g \in Gets : gets'[g].rows[i] \in {Exists, Nil}
  BY <1>2 DEF PageFits
<1> QED
  BY <1>1, <1>3, PageSame DEF PageFits

LEMMA InOneKeeps ==
    ASSUME NEW e, InOneRow(e), typed \subseteq typed',
           \A i \in Rows : Has(i, e)' => Has(i, e),
           \A o \in Acts : Brings(act'[o], e) => Brings(act[o], e),
           form'.val = e => form.val = e \/ \E i \in Rows : Has(i, e),
           NewForm(e)' => /\ NewForm(e)
                          /\ \A o \in Acts : Wrote(act[o], e) => Wrote(act'[o], e)
                          /\ \A o \in Acts : Brings(act'[o], e) => ~act'[o].gone /\ act'[o].edit # Left
    PROVE InOneRow(e)'
<1>1. e \notin typed' => e \notin typed
  OBVIOUS
<1>2. /\ \A o : Brings(act[o], e)' <=> Brings(act'[o], e)
      /\ \A o : Wrote(act[o], e)' <=> Wrote(act'[o], e)
  BY DEF Brings, Wrote
<1>5. (\A i, j \in Rows : Has(i, e) /\ Has(j, e) => i = j)'
  BY DEF InOneRow
<1>6. (\A o \in Acts : Brings(act[o], e) => /\ \A i \in Rows : ~Has(i, e)
                                           /\ \A p \in Acts : Brings(act[p], e) => p = o)'
  BY <1>2 DEF InOneRow
<1>7. (NewForm(e) => /\ \A i \in Rows : Has(i, e) => \E o \in Acts : Wrote(act[o], e)
                     /\ \A o \in Acts : Brings(act[o], e) => ~act[o].gone /\ act[o].edit # Left)'
  BY <1>2 DEF InOneRow
<1>8. (e \notin typed => /\ form.val # e
                         /\ \A i \in Rows : ~Has(i, e)
                         /\ \A o \in Acts : ~Brings(act[o], e))'
  BY <1>1, <1>2 DEF InOneRow
<1> QED
  BY <1>5, <1>6, <1>7, <1>8 DEF InOneRow

LEMMA SoleKeeps ==
    ASSUME OneRow, visit' = visit, lost \subseteq lost', typed \subseteq typed',
           page \in Inserting => form'.id \in {form.id, Nil},
           Sole => \A e \in Words \ lost' :
              /\ \A i \in Rows : Has(i, e)' => Has(i, e)
              /\ \A o \in Acts : Brings(act'[o], e) => Brings(act[o], e)
              /\ form'.val = e => form.val = e \/ \E i \in Rows : Has(i, e)
              /\ NewForm(e)' => /\ NewForm(e)
                                /\ \A o \in Acts : Wrote(act[o], e) => Wrote(act'[o], e)
                                /\ \A o \in Acts : Brings(act'[o], e) => ~act'[o].gone /\ act'[o].edit # Left
    PROVE OneRow'
<1> SUFFICES ASSUME Sole, NEW e \in Words \ lost' PROVE InOneRow(e)'
  BY PageSame DEF OneRow
<1>1. InOneRow(e)
  BY DEF OneRow
<1> QED
  BY <1>1, InOneKeeps

(* No row, form or command has an entry that it had not before. *)
Comes(c, d) ==
    /\ d.kind = "update" => c.kind = "update" /\ d.id = c.id /\ d.val = c.val
    /\ \A e \in Words : Brings(d, e) => Brings(c, e)
Stays(c, d) ==
    /\ \A e \in Words \ lost' : Wrote(c, e) => Wrote(d, e)
    /\ \A e \in Words \ lost' : Brings(d, e) /\ ~c.gone /\ c.edit # Left => ~d.gone /\ d.edit # Left

LEMMA SoleKept ==
    ASSUME OneRow, visit' = visit, lost \subseteq lost', typed' = typed,
           \A i \in Rows : \/ kept'[i] \in {kept[i], Nil}
                           \/ \E o \in Acts : act[o].kind = "update" /\ act[o].id = i /\ kept'[i] = act[o].val,
           \A i \in Rows : \/ view'[i] \in {view[i], Nil}
                           \/ \E g \in Gets : view'[i] = gets[g].rows[i],
           \A g \in Gets, i \in Rows : gets'[g].rows[i] \in {gets[g].rows[i], kept[i], Nil},
           form' \in {form, NoForm}, \A o \in Acts : Comes(act[o], act'[o]),
           form' = form /\ form.val # Nil => \A o \in Acts : Stays(act[o], act'[o])
    PROVE OneRow'
<1> SUFFICES ASSUME Sole, NEW e \in Words \ lost'
             PROVE /\ \A i \in Rows : Has(i, e)' => Has(i, e)
                   /\ \A o \in Acts : Brings(act'[o], e) => Brings(act[o], e)
                   /\ form'.val = e => form.val = e \/ \E i \in Rows : Has(i, e)
                   /\ NewForm(e)' => /\ NewForm(e)
                                     /\ \A o \in Acts : Wrote(act[o], e) => Wrote(act'[o], e)
                                     /\ \A o \in Acts : Brings(act'[o], e) => ~act'[o].gone /\ act'[o].edit # Left
  BY SoleKeeps, Nothings
<1>1. InOneRow(e) /\ e # Nil
  BY Nothings DEF OneRow
<1>2. ASSUME NEW i \in Rows, Has(i, e)' PROVE Has(i, e)
  <2>1. CASE kept'[i] = e
    BY <1>1, <2>1 DEF Has
  <2>2. CASE view'[i] = e
    BY <1>1, <2>2 DEF Has
  <2>3. CASE \E g \in Gets : gets'[g].rows[i] = e
    BY <1>1, <2>3 DEF Has
  <2>4. CASE form'.id = i /\ form'.val = e
    BY <1>1, <2>4, Nothings DEF Has
  <2>5. CASE \E o \in Acts : act'[o].kind = "update" /\ act'[o].id = i /\ act'[o].val = e
    BY <2>5 DEF Has, Comes
  <2> QED BY <1>2, <2>1, <2>2, <2>3, <2>4, <2>5 DEF Has
<1>3. \A o \in Acts : Brings(act'[o], e) => Brings(act[o], e)
  BY DEF Comes
<1>4. form'.val = e => form' = form
  BY <1>1, Nothings
<1>5. ASSUME NewForm(e)'
      PROVE /\ NewForm(e)
            /\ \A o \in Acts : Wrote(act[o], e) => Wrote(act'[o], e)
            /\ \A o \in Acts : Brings(act'[o], e) => ~act'[o].gone /\ act'[o].edit # Left
  <2>1. form' = form /\ NewForm(e)
    BY <1>4, <1>5 DEF NewForm
  <2>2. \A o \in Acts : Brings(act[o], e) => ~act[o].gone /\ act[o].edit # Left
    BY <1>1, <2>1 DEF InOneRow
  <2>3. form.val # Nil
    BY <1>1, <2>1 DEF NewForm
  <2> QED BY <1>3, <2>1, <2>2, <2>3 DEF Stays
<1> QED
  BY <1>2, <1>3, <1>4, <1>5

LEMMA CountsSame ==
    ASSUME Counts, visit' = visit, kept' = kept, mixed' = mixed,
           \A o \in Acts : act'[o].pc = "between" => act[o].pc = "between" /\ act'[o].was = act[o].was
    PROVE Counts'
<1>1. Count' = Count /\ Present(kept)' = Present(kept)
  BY DEF Count, Present
<1>2. \A s : Present(s)' = Present(s)
  BY DEF Present
<1>3. page \in Updating =>
        /\ Count <= 1
        /\ \A o \in Acts : act'[o].pc = "between" => Present(act'[o].was) \subseteq Present(kept)
  BY DEF Counts
<1>4. ~mixed =>
         /\ \A o, p \in Acts : act'[o].pc = "between" /\ act'[p].pc = "between" => o = p
         /\ page = "dispute" => Count <= 1 /\ \A o \in Acts : act'[o].pc = "between" => Count = 0
         /\ page = "slots" => Count <= 1 /\ \A o \in Acts : act'[o].pc = "between" => Present(act'[o].was) = Present(kept)
         /\ page = "searches" => Count <= SavedMax /\ \A o \in Acts : act'[o].pc = "between" => Count < SavedMax
  BY DEF Counts
<1>5. \A o : Present(act[o].was)' = Present(act'[o].was)
  BY DEF Present
<1> QED
  BY <1>1, <1>3, <1>4, <1>5, PageSame DEF Counts

LEMMA CurrentSame ==
    ASSUME ShownCurrent, FieldsCurrent, HeartsCurrent, visit' = visit,
           UNCHANGED <<kept, review, view, seen, gets, asked, busy, broken, off>>,
           \A o \in Acts : Served(act[o]) => Served(act'[o]) /\ act'[o].id = act[o].id /\ act'[o].val = act[o].val,
           Immediate => \A o \in Acts : act'[o] = act[o] \/ (~Active(o) /\ ~Active(o)')
    PROVE ShownCurrent' /\ FieldsCurrent' /\ HeartsCurrent'
<1>1. /\ \A g : Newest(g)' <=> Newest(g)
      /\ Still' <=> Still
      /\ Settled' <=> Settled
  BY DEF Newest, Still, Settled
<1>2. \A o \in Acts : /\ Served(act[o])' <=> Served(act'[o])
                      /\ \A i : OnRow(act[o], i)' <=> OnRow(act'[o], i)
                      /\ Written(act[o])' = Written(act'[o])
  BY DEF Served, OnRow, Written
<1>3. ShownCurrent'
  BY <1>1, <1>2, PageSame DEF ShownCurrent
<1>4. FieldsCurrent'
  <2>1. \A s : Near(s) => Near(s)'
    BY <1>2 DEF Near
  <2> QED BY <1>1, <2>1, PageSame DEF FieldsCurrent
<1>5. HeartsCurrent'
  <2> SUFFICES ASSUME Immediate PROVE HeartsCurrent'
    BY PageSame DEF HeartsCurrent
  <2>1. \A o \in Acts : Active(o)' <=> Active(o)
    BY DEF Active
  <2>2. \A o \in Acts, i \in Rows : /\ OnRow(act'[o], i) <=> OnRow(act[o], i)
                                    /\ OnRow(act[o], i) => act'[o] = act[o]
    BY DEF OnRow, Active
  <2> QED BY <1>1, <1>2, <2>1, <2>2, PageSame DEF HeartsCurrent
<1> QED
  BY <1>3, <1>4, <1>5

(* Something that is not known to the page was done. *)
LEMMA OffIs ==
    ASSUME off' = TRUE, \A g \in Gets : gets'[g].old = TRUE
    PROVE ShownCurrent' /\ FieldsCurrent' /\ HeartsCurrent'
<1>1. ~Still' /\ ~Settled' /\ \A g \in Gets : ~Newest(g)'
  BY DEF Still, Settled, Newest
<1> QED
  BY <1>1 DEF ShownCurrent, FieldsCurrent, HeartsCurrent

LEMMA SentIs ==
    /\ Lists => Sent = {"create", "update", "delete"}
    /\ page = "slots" => Sent = {"replace"}
    /\ page = "docs" => Sent = {"upload", "submit"}
    /\ page = "profile" => Sent = {"update"}
    /\ page = "blocked" => Sent = {"delete"}
    /\ Immediate => Sent = {"add", "remove"}
    /\ page = "counter" => Sent = {"put"}
    /\ page \in Forms \ {"counter"} => Sent = {"create"}
BY DEF Sent, Lists, Immediate, Forms, Inserting

(* Neither what the server has nor what the page shows changes. *)
Calm == UNCHANGED <<visit, kept, next, review, view, seen, gets, asked, busy, broken, off, lost>>

LEMMA CalmKeeps ==
    ASSUME WorkTypes, LoadsFit, PageFits, Calm, form' \in [id : Rows \cup {Nil}, val : Val],
           page = "profile" /\ form'.val # Nil => form'.id # Nil,
           act' \in [Acts -> Command], typed' \subseteq Entries, mixed' \in BOOLEAN
    PROVE WorkTypes' /\ LoadsFit' /\ PageFits'
<1>1. UNCHANGED <<visit, kept, next, review, view, seen, gets, asked, busy, broken, off, lost>>
  BY DEF Calm
<1>2. WorkTypes'
  BY <1>1, PageSame DEF WorkTypes, LoadOf, Command
<1>3. LoadsFit' /\ PageFits'
  BY <1>1, LoadsKept, PageKept
<1> QED
  BY <1>2, <1>3

(* A text is typed for the first time. *)
LEMMA EnterKeeps ==
    ASSUME WorkInv, NEW e \in Entries, Enter(e), page = "profile" => form.id # Nil
    PROVE WorkInv'
<1> USE DEF WorkInv
<1>1. /\ e \notin typed /\ typed' = typed \cup {e}
      /\ form' = [form EXCEPT !.val = e]
      /\ UNCHANGED <<visit, kept, next, review, mixed, view, seen, busy, broken, gets, asked, act, off, lost, faults>>
  BY DEF Enter, server, shownVars
<1>2. form' \in [id : Rows \cup {Nil}, val : Val] /\ form'.id = form.id /\ form'.val = e
  BY <1>1 DEF WorkTypes, Val, Words
<1>3. WorkTypes' /\ LoadsFit' /\ PageFits'
  <2>1. Calm /\ typed' \subseteq Entries /\ mixed' \in BOOLEAN /\ act' \in [Acts -> Command]
    BY <1>1 DEF Calm, WorkTypes
  <2> QED BY <1>2, <2>1, CalmKeeps
<1>4. ActsFit' /\ OneSave'
  BY <1>1, ActsKept
<1>5. OneRow'
  <2> SUFFICES ASSUME Sole, NEW x \in Words \ lost PROVE InOneRow(x)'
    BY <1>1, <1>2, PageSame DEF OneRow
  <2>1. InOneRow(x)
    BY DEF OneRow
  <2>2. \A i \in Rows : Has(i, x)' => Has(i, x) \/ (x = e /\ i = form.id)
    BY <1>1, <1>2 DEF Has
  <2>3. CASE x # e
    <3>1. ~NewForm(x)' /\ form'.val # x
      BY <1>2, <2>3 DEF NewForm
    <3>2. \A i \in Rows : Has(i, x)' => Has(i, x)
      BY <2>2, <2>3
    <3> QED BY <1>1, <2>1, <3>1, <3>2, InOneKeeps
  <2>4. CASE x = e
    <3>1. (\A i \in Rows : ~Has(i, x)) /\ \A o \in Acts : ~Brings(act[o], x)
      BY <1>1, <2>1, <2>4 DEF InOneRow
    <3>2. x \in typed' /\ \A o \in Acts : ~Brings(act[o], x)'
      BY <1>1, <2>4, <3>1 DEF Brings
    <3>3. \A i \in Rows : Has(i, x)' => i = form.id
      BY <2>2, <3>1
    <3>4. NewForm(x)' => \A i \in Rows : ~Has(i, x)'
      BY <1>2, <3>3, Nothings, WorkspaceAssumption DEF NewForm
    <3> QED BY <3>2, <3>3, <3>4 DEF InOneRow
  <2> QED BY <2>3, <2>4
<1>6. Counts'
  BY <1>1, CountsSame
<1>7. ShownCurrent' /\ FieldsCurrent' /\ HeartsCurrent'
  BY <1>1, CurrentSame
<1> QED
  BY <1>3, <1>4, <1>5, <1>6, <1>7

(* The form is emptied, by whoever is at the page. *)
LEMMA ClearKeeps ==
    ASSUME WorkInv, Clear
    PROVE WorkInv'
<1> USE DEF WorkInv
<1>1. /\ form' = NoForm
      /\ UNCHANGED <<visit, kept, next, review, mixed, view, seen, busy, broken, gets, asked, act, off, typed, lost, faults>>
  BY DEF Clear, server, shownVars
<1>3. WorkTypes' /\ LoadsFit' /\ PageFits'
  <2>1. Calm /\ typed' \subseteq Entries /\ mixed' \in BOOLEAN /\ act' \in [Acts -> Command]
    BY <1>1 DEF Calm, WorkTypes
  <2> QED BY <1>1, <2>1, CalmKeeps, Nothings
<1>4. ActsFit' /\ OneSave'
  BY <1>1, ActsKept
<1>5. OneRow'
  BY <1>1, SoleKept DEF Comes, Stays
<1>6. Counts'
  BY <1>1, CountsSame
<1>7. ShownCurrent' /\ FieldsCurrent' /\ HeartsCurrent'
  BY <1>1, CurrentSame
<1> QED
  BY <1>3, <1>4, <1>5, <1>6, <1>7

LEMMA EditsKeep ==
    ASSUME WorkInv, NEW i \in Rows, Edits(i), page \notin Forms
    PROVE WorkInv'
<1> USE DEF WorkInv
<1>1. /\ form' = [id |-> i, val |-> view[i]]
      /\ UNCHANGED <<visit, kept, next, review, mixed, view, seen, busy, broken, gets, asked, act, off, typed, lost, faults>>
  BY DEF Edits, server, shownVars
<1>2. form' \in [id : Rows \cup {Nil}, val : Val] /\ form'.id = i /\ form'.val = view[i]
  BY <1>1 DEF WorkTypes, Sheets
<1>3. WorkTypes' /\ LoadsFit' /\ PageFits'
  <2>1. Calm /\ typed' \subseteq Entries /\ mixed' \in BOOLEAN /\ act' \in [Acts -> Command]
    BY <1>1 DEF Calm, WorkTypes
  <2> QED BY <1>2, <2>1, CalmKeeps, WorkspaceAssumption
<1>4. ActsFit' /\ OneSave'
  BY <1>1, ActsKept
<1>5. OneRow'
  <2>1. page \notin Inserting
    BY DEF Forms
  <2>2. \A e : ~NewForm(e)'
    BY <1>2, WorkspaceAssumption DEF NewForm
  <2>3. \A e, j : Has(j, e)' => Has(j, e)
    BY <1>1, <1>2 DEF Has
  <2>4. \A e : form'.val = e => Has(i, e)
    BY <1>2 DEF Has
  <2> QED BY <1>1, <2>1, <2>2, <2>3, <2>4, SoleKeeps
<1>6. Counts'
  BY <1>1, CountsSame
<1>7. ShownCurrent' /\ FieldsCurrent' /\ HeartsCurrent'
  BY <1>1, CurrentSame
<1> QED
  BY <1>3, <1>4, <1>5, <1>6, <1>7

(* The form is left; what it has sent is not of the next one. *)
LEMMA LeaveKeeps ==
    ASSUME WorkInv, Leave
    PROVE WorkInv'
<1> USE DEF WorkInv
<1>1. /\ page \in Forms /\ form' = NoForm
      /\ act' = [o \in Acts |-> IF Active(o) THEN [act[o] EXCEPT !.edit = Left] ELSE act[o]]
      /\ UNCHANGED <<visit, kept, next, review, mixed, view, seen, busy, broken, gets, asked, off, typed, lost, faults>>
  BY DEF Leave, server, shownVars
<1>2. \A c \in Command : LET d == [c EXCEPT !.edit = Left]
                         IN  /\ d \in Command /\ d.pc = c.pc /\ d.kind = c.kind /\ d.id = c.id /\ d.val = c.val
                             /\ d.was = c.was /\ d.gone = c.gone /\ d.edit = Left
  BY DEF Command
<1>t. \A o \in Acts : act[o] \in Command
  BY DEF WorkTypes
<1>3. /\ act' \in [Acts -> Command]
      /\ \A o \in Acts : LET c == act[o]
                             d == act'[o]
                         IN  /\ d.pc = c.pc /\ d.kind = c.kind /\ d.id = c.id /\ d.val = c.val
                             /\ d.was = c.was /\ d.gone = c.gone
                             /\ ~Active(o) => d = c
                             /\ Active(o) => d.edit = Left
  BY <1>1, <1>2, <1>t
<1>4. WorkTypes' /\ LoadsFit' /\ PageFits'
  <2>1. Calm /\ typed' \subseteq Entries /\ mixed' \in BOOLEAN
    BY <1>1 DEF Calm, WorkTypes
  <2> QED BY <1>1, <1>3, <2>1, CalmKeeps, Nothings
<1>5. ActsFit'
  <2>1. \A o \in Acts : Fitting(act'[o])
    BY <1>1, <1>3 DEF ActsFit, Fitting, Active
  <2> QED BY <1>1, <2>1, PageSame DEF ActsFit
<1>6. OneSave'
  <2>1. \A o \in Acts : ~Busies(act'[o])
    BY <1>3 DEF Busies, Active
  <2> QED BY <2>1 DEF OneSave, Busies
<1>7. OneRow'
  <2>1. form' # form => \A o \in Acts : Comes(act[o], act'[o])
    BY <1>3 DEF Comes, Brings
  <2>2. \A o \in Acts : Comes(act[o], act'[o])
    BY <1>3 DEF Comes, Brings
  <2>3. \A e \in Words : ~NewForm(e)' /\ form'.val # e
    BY <1>1, Nothings DEF NewForm
  <2>4. \A e, i : Has(i, e)' => Has(i, e) \/ e \notin Words
    BY <1>1, <1>3, <2>3 DEF Has
  <2>5. form'.id = Nil
    BY <1>1, Nothings
  <2> QED BY <1>1, <2>2, <2>3, <2>4, <2>5, SoleKeeps DEF Comes
<1>8. Counts'
  BY <1>1, <1>3, CountsSame
<1>9. ShownCurrent' /\ FieldsCurrent' /\ HeartsCurrent'
  <2>1. ~Immediate
    BY <1>1 DEF Immediate, Forms, Inserting
  <2>2. \A o \in Acts : Served(act[o]) => Served(act'[o]) /\ act'[o].id = act[o].id /\ act'[o].val = act[o].val
    BY <1>3 DEF Served
  <2> QED BY <1>1, <2>1, <2>2, CurrentSame
<1> QED
  BY <1>4, <1>5, <1>6, <1>7, <1>8, <1>9

(* A command is sent: but for favourites, nothing else happens. *)
LEMMA SendKeeps ==
    ASSUME WorkInv, Calm, ~Immediate, UNCHANGED <<form, typed, mixed>>,
           NEW o \in Acts, act[o].pc = "idle", NEW c \in Command, act' = [act EXCEPT ![o] = c],
           c.pc = "sent", ~c.gone, c.kind \in Sent,
           c.kind \in Saves => c.edit = Nil /\ ~Saving,
           c.kind \in {"create", "update"} => c.val = form.val /\ c.val # Nil,
           c.kind = "update" => c.id = form.id /\ c.id # Nil,
           c.kind = "create" /\ Lists => form.id = Nil
    PROVE WorkInv'
<1> USE DEF WorkInv
<1>1. UNCHANGED <<visit, kept, next, review, view, seen, gets, asked, busy, broken, off, lost, form, typed, mixed>>
  BY DEF Calm
<1>2. act[o] = NoAct /\ act' \in [Acts -> Command] /\ act'[o] = c /\ \A p \in Acts \ {o} : act'[p] = act[p]
  BY DEF WorkTypes, ActsFit, Fitting
<1>i. c.kind = "update" => c.id \in Rows
  BY DEF WorkTypes
<1>s. c.kind \notin {"add", "remove"}
  BY DEF Sent, Lists, Immediate
<1>3. Fitting(c)
  BY <1>i, <1>s DEF Fitting
<1>4. WorkTypes' /\ LoadsFit' /\ PageFits'
  <2>1. /\ typed' \subseteq Entries /\ mixed' \in BOOLEAN /\ form' \in [id : Rows \cup {Nil}, val : Val]
        /\ page = "profile" /\ form'.val # Nil => form'.id # Nil
    BY <1>1 DEF WorkTypes
  <2> QED BY <1>2, <2>1, CalmKeeps
<1>5. ActsFit' /\ OneSave'
  BY <1>1, <1>3, ActsStep DEF Busies
<1>6. OneRow'
  <2> SUFFICES ASSUME Sole, NEW e \in Words \ lost PROVE InOneRow(e)'
    BY <1>1, PageSame DEF OneRow
  <2>1. InOneRow(e)
    BY DEF OneRow
  <2>2. \A i \in Rows : Has(i, e)' => Has(i, e)
    <3>1. \A i \in Rows : c.kind = "update" /\ c.id = i /\ c.val = e => Has(i, e)
      BY DEF Has
    <3> QED BY <1>1, <1>2, <3>1 DEF Has
  <2>3. NewForm(e)' <=> NewForm(e)
    BY <1>1 DEF NewForm
  <2>4. \A p \in Acts : (Wrote(act[p], e) => Wrote(act'[p], e)) /\ (Brings(act'[p], e) => p = o \/ Brings(act[p], e))
    BY <1>2, Nothings DEF Wrote, Brings
  <2>5. CASE ~Brings(c, e)
    <3>1. \A p \in Acts : Brings(act'[p], e) => p # o /\ Brings(act[p], e) /\ act'[p] = act[p]
      BY <1>2, <2>4, <2>5
    <3> QED BY <1>1, <2>1, <2>2, <2>3, <2>4, <3>1, InOneKeeps DEF InOneRow
  <2>6. CASE Brings(c, e)
    <3>1. form.val = e /\ NewForm(e) /\ c.edit = Nil /\ ~Saving
      BY <2>6 DEF Brings, NewForm, OneRow, Sole, Saves
    <3>2. \A p \in Acts : ~Wrote(act[p], e)
      <4>1. \A p \in Acts : Wrote(act[p], e) => Busies(act[p])
        BY DEF Wrote, Busies, ActsFit, Fitting, Saves
      <4> QED BY <3>1, <4>1, SavingIs
    <3>3. \A p \in Acts : ~Brings(act[p], e)
      <4>1. \A p \in Acts : Brings(act[p], e) => Busies(act[p])
        BY <2>1, <3>1 DEF InOneRow, Brings, Busies, Saves
      <4> QED BY <3>1, <4>1, SavingIs
    <3>4. \A i \in Rows : ~Has(i, e)
      BY <2>1, <3>1, <3>2 DEF InOneRow
    <3>5. e \in typed
      BY <2>1, <3>1 DEF InOneRow
    <3>6. \A i \in Rows : ~Has(i, e)'
      BY <2>2, <3>4
    <3>7. \A p \in Acts : Brings(act'[p], e) => p = o
      BY <2>4, <3>3
    <3>8. \A p \in Acts : Brings(act[p], e)' <=> Brings(act'[p], e)
      BY DEF Brings
    <3>9. ~act'[o].gone /\ act'[o].edit # Left
      BY <1>2, <3>1, WorkspaceAssumption
    <3> QED BY <1>1, <3>5, <3>6, <3>7, <3>8, <3>9 DEF InOneRow
  <2> QED BY <2>5, <2>6
<1>7. Counts'
  BY <1>1, <1>2, CountsSame
<1>8. ShownCurrent' /\ FieldsCurrent' /\ HeartsCurrent'
  <2>1. \A p \in Acts : Served(act[p]) => act'[p] = act[p]
    BY <1>2 DEF Served
  <2> QED BY <1>1, <2>1, CurrentSame
<1> QED
  BY <1>4, <1>5, <1>6, <1>7, <1>8

LEMMA SendsKeep ==
    ASSUME WorkInv, NEW o \in Acts, NEW k \in {"create", "update", "replace", "put"}, NEW i \in Rows \cup {1, Nil},
           Sends(o, k, i), ~Immediate, k \in Sent,
           k = "update" => i = form.id /\ i # Nil, k = "create" /\ Lists => form.id = Nil
    PROVE WorkInv'
<1>1. /\ form.val # Nil /\ ~Saving /\ Send(o, k, i, form.val)
      /\ UNCHANGED <<visit, kept, next, review, mixed, view, seen, busy, broken, gets, asked, form, off, typed, lost, faults>>
  BY DEF Sends, MaySave, server, shownVars
<1>2. WorkTypes /\ form.val \in Val /\ k \in Verbs
  BY DEF WorkInv, WorkTypes, Verbs
<1>3. /\ act[o].pc = "idle"
      /\ \E c \in Command : /\ act' = [act EXCEPT ![o] = c]
                            /\ c.pc = "sent" /\ c.kind = k /\ c.id = i /\ c.val = form.val /\ ~c.gone
                            /\ k # "delete" => c.edit = Nil
  BY <1>1, <1>2, SendIs
<1>4. PICK c \in Command : /\ act' = [act EXCEPT ![o] = c]
                           /\ c.pc = "sent" /\ c.kind = k /\ c.id = i /\ c.val = form.val /\ ~c.gone
                           /\ k # "delete" => c.edit = Nil
  BY <1>3
<1>5. Calm /\ UNCHANGED <<form, typed, mixed>>
  BY <1>1 DEF Calm
<1> QED
  BY <1>1, <1>3, <1>4, <1>5, SendKeeps

LEMMA SavesKeep ==
    ASSUME WorkInv, NEW o \in Acts,
           \/ SaveRow(o) \/ SaveSlots(o) \/ SaveField(o)
           \/ PostJob(o) \/ AddMedia(o) \/ Report(o) \/ Review(o) \/ OpenDispute(o)
           \/ CancelJob(o) \/ PlaceBid(o) \/ CounterBid(o)
    PROVE WorkInv'
<1>t. form.id \in Rows \cup {Nil}
  BY DEF WorkInv, WorkTypes
<1>1. CASE SaveRow(o)
  <2>1. PICK k \in {"create", "update"} : k = IF form.id = Nil THEN "create" ELSE "update"
    OBVIOUS
  <2>2. Lists /\ Sends(o, k, form.id)
    BY <1>1, <2>1 DEF SaveRow
  <2>3. ~Immediate /\ k \in Sent
    BY <2>2, SentIs DEF Lists, Immediate
  <2> QED BY <1>t, <2>1, <2>2, <2>3, SendsKeep
<1>2. CASE SaveSlots(o)
  <2>1. page = "slots" /\ Sends(o, "replace", Nil)
    BY <1>2 DEF SaveSlots
  <2>2. ~Immediate /\ "replace" \in Sent
    BY <2>1, SentIs DEF Immediate
  <2> QED BY <2>1, <2>2, SendsKeep
<1>3. CASE SaveField(o)
  <2>1. page = "profile" /\ Sends(o, "update", form.id)
    BY <1>3 DEF SaveField
  <2>2. ~Immediate /\ "update" \in Sent
    BY <2>1, SentIs DEF Immediate
  <2>3. form.id # Nil
    BY <2>1 DEF Sends, WorkInv, WorkTypes
  <2> QED BY <1>t, <2>1, <2>2, <2>3, SendsKeep
<1>4. CASE CounterBid(o)
  <2>1. page = "counter" /\ Sends(o, "put", 1)
    BY <1>4 DEF CounterBid
  <2>2. ~Immediate /\ "put" \in Sent
    BY <2>1, SentIs DEF Immediate
  <2> QED BY <2>1, <2>2, SendsKeep
<1>5. ASSUME \/ PostJob(o) \/ AddMedia(o) \/ Report(o) \/ Review(o) \/ OpenDispute(o) \/ CancelJob(o) \/ PlaceBid(o)
      PROVE WorkInv'
  <2>1. page \in Forms \ {"counter"} /\ \E i \in {1, Nil} : Sends(o, "create", i)
    BY <1>5 DEF PostJob, AddMedia, Report, Review, OpenDispute, CancelJob, PlaceBid, Forms, Inserting
  <2>2. ~Immediate /\ ~Lists /\ "create" \in Sent
    BY <2>1, SentIs DEF Immediate, Lists, Forms, Inserting
  <2>3. PICK i \in {1, Nil} : Sends(o, "create", i)
    BY <2>1
  <2> QED BY <2>2, <2>3, SendsKeep
<1> QED
  BY <1>1, <1>2, <1>3, <1>4, <1>5

LEMMA OthersKeep ==
    ASSUME WorkInv, NEW o \in Acts, \/ Upload(o) \/ Submit(o)
                                    \/ \E i \in Rows : DeleteRow(o, i) \/ Unblock(o, i)
    PROVE WorkInv'
<1>t. WorkTypes
  BY DEF WorkInv
<1>1. CASE Upload(o)
  <2>1. /\ page = "docs" /\ ~Saving /\ Send(o, "upload", Nil, Exists)
        /\ UNCHANGED <<visit, kept, next, review, mixed, view, seen, busy, broken, gets, asked, form, off, typed, lost, faults>>
    BY <1>1 DEF Upload, MaySave, server, shownVars
  <2>t. "upload" \in Verbs /\ Nil \in Rows \cup {1, Nil} /\ Exists \in Val
    BY DEF Verbs, Val, Words
  <2>2. /\ act[o].pc = "idle"
        /\ \E c \in Command : /\ act' = [act EXCEPT ![o] = c]
                              /\ c.pc = "sent" /\ c.kind = "upload" /\ ~c.gone
                              /\ "upload" # "delete" => c.edit = Nil
    BY <1>t, <2>1, <2>t, SendIs
  <2>3. ~Immediate /\ "upload" \in Sent /\ Calm
    BY <2>1, SentIs DEF Immediate, Calm
  <2> QED BY <2>1, <2>2, <2>3, SendKeeps
<1>2. CASE Submit(o)
  <2>1. /\ page = "docs" /\ Send(o, "submit", Nil, Nil)
        /\ UNCHANGED <<visit, kept, next, review, mixed, view, seen, busy, broken, gets, asked, form, off, typed, lost, faults>>
    BY <1>2 DEF Submit, server, shownVars
  <2>2. /\ act[o].pc = "idle"
        /\ \E c \in Command : /\ act' = [act EXCEPT ![o] = c]
                              /\ c.pc = "sent" /\ c.kind = "submit" /\ ~c.gone
    BY <1>t, <2>1, SendIs DEF Verbs, Val, Words
  <2>3. ~Immediate /\ "submit" \in Sent /\ Calm /\ "submit" \notin Saves
    BY <2>1, SentIs DEF Immediate, Calm, Saves
  <2> QED BY <2>1, <2>2, <2>3, SendKeeps
<1>3. ASSUME NEW i \in Rows, DeleteRow(o, i) \/ Unblock(o, i)
      PROVE WorkInv'
  <2>1. /\ Lists \/ page = "blocked"
        /\ Send(o, "delete", i, Nil)
        /\ UNCHANGED <<visit, kept, next, review, mixed, view, seen, busy, broken, gets, asked, form, off, typed, lost, faults>>
    BY <1>3 DEF DeleteRow, Unblock, Deletes, server, shownVars
  <2>2. /\ act[o].pc = "idle"
        /\ \E c \in Command : /\ act' = [act EXCEPT ![o] = c]
                              /\ c.pc = "sent" /\ c.kind = "delete" /\ ~c.gone
    BY <1>t, <2>1, SendIs DEF Verbs, Val, Words
  <2>3. ~Immediate /\ "delete" \in Sent /\ Calm /\ "delete" \notin Saves
    BY <2>1, SentIs DEF Immediate, Calm, Saves, Lists
  <2> QED BY <2>1, <2>2, <2>3, SendKeeps
<1> QED
  BY <1>1, <1>2, <1>3

LEMMA CountIs ==
    ASSUME WorkTypes
    PROVE /\ IsFiniteSet(Present(kept)) /\ Count \in Nat /\ Present(kept) \subseteq Rows
          /\ Count = 0 <=> Present(kept) = {}
          /\ Count <= 1 => \A i, j \in Present(kept) : i = j
<1>1. Present(kept) \subseteq Rows
  BY DEF Present
<1>2. IsFiniteSet(Present(kept))
  BY <1>1, WorkspaceAssumption, FS_Subset
<1>3. Count \in Nat /\ (Count = 0 <=> Present(kept) = {})
  BY <1>2, FS_CardinalityType, FS_EmptySet DEF Count
<1>4. Count <= 1 => \A i, j \in Present(kept) : i = j
  <2> SUFFICES ASSUME Count <= 1, NEW i \in Present(kept) PROVE \A j \in Present(kept) : j = i
    OBVIOUS
  <2>1. Count = 1
    BY <1>3
  <2>2. \E x : Present(kept) = {x}
    BY <1>2, <2>1, FS_Singleton DEF Count
  <2> QED BY <2>2
<1> QED
  BY <1>1, <1>2, <1>3, <1>4

(* A command looks at the rows there are, before it adds its own. *)
LEMMA StepsKeep ==
    ASSUME WorkInv, NEW o \in Acts, Steps(o)
    PROVE WorkInv'
<1> USE DEF WorkInv
<1>1. /\ act[o].pc = "sent"
      /\ \/ act[o].kind = "create" /\ page \in Refusing /\ ~Full
         \/ act[o].kind = "create" /\ page \in Updating
         \/ act[o].kind = "replace"
      /\ mixed' = (mixed \/ \E p \in Acts : act[p].pc = "between")
      /\ UNCHANGED <<visit, kept, next, review, view, seen, busy, broken, gets, asked, form, off, typed, lost, faults>>
  BY DEF Steps, shownVars
<1>t. act \in [Acts -> Command] /\ kept \in Sheets
  BY DEF WorkTypes
<1>2. PICK w \in Sheets : w = IF page \in Updating \cup {"slots"} THEN kept ELSE act[o].was
  BY <1>t DEF Command
<1>3. PICK c : c = [act[o] EXCEPT !.pc = "between", !.was = w]
  OBVIOUS
<1>4. /\ c \in Command /\ c.pc = "between" /\ c.was = w /\ c.kind = act[o].kind /\ c.id = act[o].id /\ c.val = act[o].val
      /\ c.edit = act[o].edit /\ c.gone = act[o].gone
  BY <1>t, <1>3 DEF Command
<1>5. act' = [act EXCEPT ![o] = c]
  BY <1>t, <1>2, <1>3 DEF Steps
<1>6. act' \in [Acts -> Command] /\ act'[o] = c /\ \A p \in Acts \ {o} : act'[p] = act[p]
  BY <1>t, <1>4, <1>5
<1>7. page \notin {"saved", "stars", "hearts"} /\ ~Immediate
  <2>1. act[o].kind \in Sent /\ act[o].kind \in {"create", "replace"}
    BY <1>1 DEF ActsFit, Fitting
  <2> QED BY <2>1, SentIs DEF Immediate
<1>8. WorkTypes' /\ LoadsFit' /\ PageFits'
  <2>1. Calm /\ typed' \subseteq Entries /\ mixed' \in BOOLEAN /\ form' \in [id : Rows \cup {Nil}, val : Val]
        /\ (page = "profile" /\ form'.val # Nil => form'.id # Nil)
    BY <1>1 DEF Calm, WorkTypes
  <2> QED BY <1>6, <2>1, CalmKeeps
<1>9. ActsFit' /\ OneSave'
  <2>1. Fitting(act[o])
    BY DEF ActsFit
  <2>2. Fitting(c)
    BY <1>1, <1>4, <1>7, <2>1 DEF Fitting
  <2>3. Busies(c) => Busies(act[o])
    BY <1>1, <1>4 DEF Busies
  <2> QED BY <1>1, <1>4, <1>5, <2>2, <2>3, ActsStep
<1>10. OneRow'
  <2>1. Comes(act[o], c) /\ Stays(act[o], c)
    BY <1>1, <1>4 DEF Comes, Stays, Brings, Wrote
  <2>2. \A p \in Acts : Comes(act[p], act[p]) /\ Stays(act[p], act[p])
    BY DEF Comes, Stays
  <2> QED BY <1>1, <1>6, <2>1, <2>2, SoleKept
<1>11. Counts'
  <2>1. Count' = Count /\ Present(kept)' = Present(kept) /\ \A p : Present(act[p].was)' = Present(act'[p].was)
    BY <1>1 DEF Count, Present
  <2>2. ASSUME page \in Updating
        PROVE Count <= 1 /\ \A p \in Acts : act'[p].pc = "between" => Present(act'[p].was) \subseteq Present(kept)
    BY <1>2, <1>4, <1>6, <2>2 DEF Counts
  <2>3. ASSUME ~mixed'
        PROVE /\ \A p, q \in Acts : act'[p].pc = "between" /\ act'[q].pc = "between" => p = q
              /\ page = "dispute" => Count <= 1 /\ Count = 0
              /\ page = "slots" => Count <= 1 /\ \A p \in Acts : act'[p].pc = "between" => Present(act'[p].was) = Present(kept)
              /\ page = "searches" => Count <= SavedMax /\ Count < SavedMax
    <3>1. ~mixed /\ \A p \in Acts : act[p].pc # "between"
      BY <1>1, <2>3
    <3>2. \A p \in Acts : act'[p].pc = "between" => p = o
      BY <1>6, <3>1
    <3>3. Count \in Nat
      BY CountIs
    <3>4. page \in {"dispute", "searches"} => ~Full
      BY <1>1, SentIs DEF ActsFit, Fitting, Lists, Forms, Inserting, Updating
    <3>5. ~Full => Count < IF page = "searches" THEN SavedMax ELSE 1
      <4>1. SavedMax \in Nat
        BY WorkspaceAssumption
      <4> QED BY <3>3, <4>1 DEF Full, Count
    <3>6. page = "slots" => act'[o].was = kept
      BY <1>2, <1>4, <1>6
    <3> QED BY <3>1, <3>2, <3>3, <3>4, <3>5, <3>6, WorkspaceAssumption DEF Counts
  <2> QED BY <1>1, <2>1, <2>2, <2>3, PageSame DEF Counts
<1>12. ShownCurrent' /\ FieldsCurrent' /\ HeartsCurrent'
  <2>1. \A p \in Acts : Served(act[p]) => act'[p] = act[p]
    BY <1>1, <1>6 DEF Served
  <2> QED BY <1>1, <1>7, <2>1, CurrentSame
<1> QED
  BY <1>8, <1>9, <1>10, <1>11, <1>12

(* A command is served; what it writes is of each route. *)
LEMMA ServedKeeps ==
    ASSUME WorkInv, NEW o \in Acts, NEW ok \in BOOLEAN, Serves(o, ok), act[o].pc \in {"sent", "between"},
           ~ok => ~Immediate, kept' \in Sheets, next' \in Nat, review'.status \in Statuses, mixed' = mixed,
           review' = review \/ page = "docs",
           Immediate => \A i \in Rows : kept'[i] \in {kept[i], Exists, Nil}
    PROVE /\ WorkTypes' /\ ActsFit' /\ OneSave' /\ LoadsFit' /\ PageFits'
          /\ \A p \in Acts \ {o} : act'[p] = act[p]
          /\ act'[o].pc # "between" /\ Comes(act[o], act'[o]) /\ Stays(act[o], act'[o])
          /\ UNCHANGED <<visit, view, form, typed, lost>>
          /\ \A g \in Gets : gets'[g].rows = gets[g].rows
          /\ \A e \in Words : ok /\ Brings(act[o], e) /\ ~act[o].gone /\ act[o].edit # Left => Wrote(act'[o], e)
<1> USE DEF WorkInv
<1>1. /\ UNCHANGED <<visit, view, seen, busy, broken, asked, form, typed, lost, faults>>
      /\ gets' \in [Gets -> LoadOf]
      /\ \A g \in Gets : gets'[g].pc = gets[g].pc /\ gets'[g].rows = gets[g].rows /\ gets'[g].status = gets[g].status
      /\ off' = TRUE \/ off' = off
  BY ServesIs
<1>2. PICK c \in Command :
        /\ act' = [act EXCEPT ![o] = c]
        /\ \/ act[o].gone /\ c = NoAct
           \/ /\ ~act[o].gone /\ c.pc = IF ok THEN "ok" ELSE "refused"
              /\ c.kind = act[o].kind /\ c.id = act[o].id /\ c.val = act[o].val
              /\ c.was = act[o].was /\ c.edit = act[o].edit /\ ~c.gone
  <2>1. WorkTypes
    OBVIOUS
  <2> QED BY <2>1, ServesIs, Nothings
<1>3. act'[o] = c /\ \A p \in Acts \ {o} : act'[p] = act[p]
  BY <1>2 DEF WorkTypes
<1>f. Fitting(act[o]) /\ act[o].pc # "idle"
  BY DEF ActsFit
<1>4. act' \in [Acts -> Command] /\ ActsFit' /\ OneSave'
  <2>1. Fitting(c)
    BY <1>2, <1>f, Nothings DEF Fitting
  <2>2. Busies(c) => Busies(act[o])
    BY <1>2, Nothings DEF Busies
  <2> QED BY <1>1, <1>2, <2>1, <2>2, ActsStep
<1>5. WorkTypes'
  <2>1. off' \in BOOLEAN
    BY <1>1 DEF WorkTypes
  <2> QED BY <1>1, <1>4, <2>1, PageSame DEF WorkTypes
<1>6. LoadsFit'
  BY <1>1, LoadsKept
<1>7. PageFits'
  BY <1>1, PageSame DEF PageFits
<1>8. Comes(act[o], c) /\ Stays(act[o], c) /\ c.pc # "between"
  BY <1>2, Nothings DEF Comes, Stays, Brings, Wrote
<1>9. \A e \in Words : ok /\ Brings(act[o], e) /\ ~act[o].gone /\ act[o].edit # Left => Wrote(c, e)
  BY <1>2 DEF Brings, Wrote
<1> QED
  BY <1>1, <1>3, <1>4, <1>5, <1>6, <1>7, <1>8, <1>9

(* The server answers a load with what it has. *)
LEMMA ServeLoadKeeps ==
    ASSUME WorkInv, NEW g \in Gets, ServeLoad(g)
    PROVE WorkInv'
<1> USE DEF WorkInv
<1>t. gets \in [Gets -> LoadOf] /\ kept \in Sheets /\ review.status \in Statuses
  BY DEF WorkTypes
<1>1. /\ gets[g].pc = "asked"
      /\ gets' = [gets EXCEPT ![g].pc = "answered", ![g].rows = kept, ![g].status = review.status]
      /\ UNCHANGED <<visit, kept, next, review, mixed, view, seen, busy, broken, asked, form, act, off, typed, lost, faults>>
  BY DEF ServeLoad, server, shownVars
<1>2. PICK r : r = [gets[g] EXCEPT !.pc = "answered", !.rows = kept, !.status = review.status]
  OBVIOUS
<1>3. r \in LoadOf /\ r.pc = "answered" /\ r.rows = kept /\ r.status = review.status /\ r.old = gets[g].old
  BY <1>2, <1>t DEF LoadOf
<1>4. gets' = [gets EXCEPT ![g] = r]
  BY <1>1, <1>2, <1>t
<1>5. gets' \in [Gets -> LoadOf] /\ gets'[g] = r /\ \A h \in Gets \ {g} : gets'[h] = gets[h]
  BY <1>3, <1>4, <1>t
<1>6. WorkTypes'
  BY <1>1, <1>5, PageSame DEF WorkTypes, Command, LoadOf
<1>7. LoadsFit' /\ PageFits'
  BY <1>1, <1>3, <1>5, LoadsKept, PageKept
<1>8. ActsFit' /\ OneSave'
  BY <1>1, ActsKept
<1>9. OneRow'
  <2>1. \A h \in Gets, i \in Rows : gets'[h].rows[i] \in {gets[h].rows[i], kept[i], Nil}
    BY <1>3, <1>5
  <2> QED BY <1>1, <2>1, SoleKept DEF Comes, Stays
<1>10. Counts'
  BY <1>1, CountsSame
<1>11. /\ \A h \in Gets : Newest(h)' => h = g \/ Newest(h)
       /\ Still' <=> Still
       /\ Settled' <=> Settled
  BY <1>1, <1>5 DEF Newest, Still, Settled
<1>12. \A o \in Acts : /\ Served(act[o])' <=> Served(act[o])
                       /\ \A i : OnRow(act[o], i)' <=> OnRow(act[o], i)
                       /\ Written(act[o])' = Written(act[o])
                       /\ Active(o)' <=> Active(o)
  BY <1>1 DEF Served, OnRow, Written, Active
<1>13. ShownCurrent'
  BY <1>1, <1>3, <1>5, <1>11, <1>12, PageSame DEF ShownCurrent, Newest
<1>14. FieldsCurrent'
  <2>1. \A s : Near(s)' <=> Near(s)
    BY <1>1, <1>12 DEF Near
  <2>2. Near(kept)
    BY DEF Near
  <2> QED BY <1>1, <1>3, <1>5, <1>11, <2>1, <2>2, PageSame DEF FieldsCurrent
<1>15. HeartsCurrent'
  BY <1>1, <1>3, <1>5, <1>11, <1>12, PageSame DEF HeartsCurrent
<1> QED
  BY <1>6, <1>7, <1>8, <1>9, <1>10, <1>13, <1>14, <1>15

(* The page asks again for its rows. *)
LEMMA LoadCurrent ==
    ASSUME WorkInv, NEW g \in Gets, Load(g), Immediate => act' = act,
           UNCHANGED <<visit, kept, next, review, mixed, view, seen, off, typed, lost, faults>>,
           form' \in {form, NoForm}, act' \in [Acts -> Command]
    PROVE /\ WorkTypes' /\ LoadsFit' /\ PageFits'
          /\ ShownCurrent' /\ FieldsCurrent' /\ HeartsCurrent'
          /\ \A h \in Gets, i \in Rows : gets'[h].rows[i] \in {gets[h].rows[i], kept[i], Nil}
<1> USE DEF WorkInv
<1>1. /\ page \notin Forms /\ gets[g].pc = "idle" /\ busy' = TRUE /\ broken' = FALSE
      /\ gets' \in [Gets -> LoadOf] /\ gets'[g].pc = "asked" /\ gets'[g].rows = Nothing /\ gets'[g].status = "NONE"
      /\ gets'[g].old <=> Immediate /\ \E o \in Acts : Active(o)
      /\ \A h \in Gets \ {g} : gets'[h] = gets[h]
      /\ asked' \in Seq(Gets) /\ asked' # <<>> /\ asked'[Len(asked')] = g
      /\ \A h \in Gets : gets'[h].pc # "idle" <=> \E k \in DOMAIN asked' : asked'[k] = h
      /\ \A j, k \in DOMAIN asked' : asked'[j] = asked'[k] => j = k
  BY LoadIs
<1>2. WorkTypes'
  BY <1>1, PageSame, Nothings DEF WorkTypes
<1>3. LoadsFit' /\ PageFits'
  BY <1>1, PageSame, PageKept DEF LoadsFit
<1>4. ~Still' /\ ~Settled' /\ \A h \in Gets : ~Newest(h)'
  BY <1>1 DEF Still, Settled, Newest
<1>5. HeartsCurrent'
  <2> SUFFICES ASSUME Immediate PROVE HeartsCurrent'
    BY PageSame DEF HeartsCurrent
  <2>1. \A o \in Acts : Active(o)' <=> Active(o)
    BY DEF Active
  <2>2. ASSUME NEW h \in Gets, gets'[h].pc # "idle", ~gets'[h].old
        PROVE (\A o \in Acts : ~Active(o)) /\ (gets'[h].pc = "answered" => gets'[h].rows = kept)
    BY <1>1, <2>2 DEF HeartsCurrent
  <2> QED BY <1>4, <2>1, <2>2 DEF HeartsCurrent
<1>6. \A h \in Gets, i \in Rows : gets'[h].rows[i] \in {gets[h].rows[i], kept[i], Nil}
  BY <1>1 DEF Nothing
<1> QED
  BY <1>2, <1>3, <1>4, <1>5, <1>6 DEF ShownCurrent, FieldsCurrent

LEMMA ReopenKeeps ==
    ASSUME WorkInv, NEW g \in Gets, Reopen(g)
    PROVE WorkInv'
<1> USE DEF WorkInv
<1>1. /\ Load(g)
      /\ UNCHANGED <<visit, kept, next, review, mixed, view, seen, form, act, off, typed, lost, faults>>
  BY DEF Reopen, server
<1>2. act' \in [Acts -> Command]
  BY <1>1 DEF WorkTypes
<1>3. /\ WorkTypes' /\ LoadsFit' /\ PageFits'
      /\ ShownCurrent' /\ FieldsCurrent' /\ HeartsCurrent'
      /\ \A h \in Gets, i \in Rows : gets'[h].rows[i] \in {gets[h].rows[i], kept[i], Nil}
  BY <1>1, <1>2, LoadCurrent
<1>4. ActsFit' /\ OneSave'
  BY <1>1, ActsKept
<1>5. OneRow'
  BY <1>1, <1>3, SoleKept DEF Comes, Stays
<1>6. Counts'
  BY <1>1, CountsSame
<1> QED
  BY <1>3, <1>4, <1>5, <1>6

(* What was saved or deleted is answered, and the rows are asked for again. *)
LEMMA AnswerReloadKeeps ==
    ASSUME WorkInv, NEW o \in Acts, NEW g \in Gets, AnswerReload(o, g)
    PROVE WorkInv'
<1> USE DEF WorkInv
<1>1. /\ act[o].pc = "ok" /\ Reloading /\ Load(g) /\ Emptied(o)
      /\ act' = [act EXCEPT ![o].pc = "loading", ![o].get = g]
      /\ UNCHANGED <<visit, kept, next, review, mixed, view, seen, off, typed, lost, faults>>
  BY DEF AnswerReload, server, Reloads, Reloading
<1>t. act \in [Acts -> Command] /\ Fitting(act[o])
  BY DEF WorkTypes, ActsFit
<1>2. PICK c : c = [act[o] EXCEPT !.pc = "loading", !.get = g]
  OBVIOUS
<1>3. /\ c \in Command /\ c.pc = "loading" /\ c.kind = act[o].kind /\ c.id = act[o].id /\ c.val = act[o].val
      /\ c.was = act[o].was /\ c.edit = act[o].edit /\ c.gone = act[o].gone
  BY <1>2, <1>t DEF Command
<1>4. act' = [act EXCEPT ![o] = c]
  BY <1>1, <1>2, <1>t
<1>5. act' \in [Acts -> Command] /\ act'[o] = c /\ \A p \in Acts \ {o} : act'[p] = act[p]
  BY <1>3, <1>4, <1>t
<1>6. ~Immediate /\ form' \in {form, NoForm}
  BY <1>1 DEF Reloading, Immediate, Emptied
<1>7. /\ WorkTypes' /\ LoadsFit' /\ PageFits'
      /\ ShownCurrent' /\ FieldsCurrent' /\ HeartsCurrent'
      /\ \A h \in Gets, i \in Rows : gets'[h].rows[i] \in {gets[h].rows[i], kept[i], Nil}
  BY <1>1, <1>5, <1>6, LoadCurrent
<1>8. ActsFit' /\ OneSave'
  <2>1. Fitting(c)
    BY <1>1, <1>3, <1>t DEF Fitting
  <2>2. Busies(c) => Busies(act[o])
    BY <1>1, <1>3 DEF Busies
  <2> QED BY <1>1, <1>3, <1>4, <2>1, <2>2, ActsStep
<1>9. OneRow'
  <2> SUFFICES ASSUME Sole PROVE OneRow'
    BY <1>1, PageSame DEF OneRow
  <2>1. \A p \in Acts : Comes(act[p], act'[p])
    BY <1>1, <1>3, <1>5 DEF Comes, Brings
  <2>2. Lists
    BY <1>1 DEF Sole, Reloading, Inserting
  <2>3. act[o].kind = "create" => form' = NoForm
    BY <1>1, <2>2 DEF Emptied, Lists, Saves
  <2>4. form' = form /\ form.val # Nil => act[o].kind # "create"
    BY <2>3, Nothings
  <2>5. act[o].kind # "create" => \A p \in Acts : Stays(act[p], act'[p])
    BY <1>3, <1>5 DEF Stays, Wrote, Brings
  <2> QED BY <1>1, <1>6, <1>7, <2>1, <2>4, <2>5, SoleKept
<1>10. Counts'
  BY <1>1, <1>3, <1>5, CountsSame
<1> QED
  BY <1>7, <1>8, <1>9, <1>10

(* Of the loads that are left, the last one is the last one still, or out of date. *)
LEMMA EndedNewest ==
    ASSUME WorkInv, NEW g \in Gets, gets[g].pc # "idle", Ended(g), NEW h \in Gets, Newest(h)'
    PROVE Newest(h) /\ h # g /\ gets'[h].rows = gets[h].rows /\ gets'[h].status = gets[h].status
<1> USE DEF WorkInv
<1>1. /\ gets'[g] = NoGet
      /\ \A x \in Gets \ {g} : /\ gets'[x].pc = gets[x].pc /\ gets'[x].rows = gets[x].rows
                               /\ gets'[x].status = gets[x].status /\ (gets[x].old => gets'[x].old)
      /\ asked' # <<>> => \/ gets'[asked'[Len(asked')]].old
                          \/ asked # <<>> /\ asked'[Len(asked')] = asked[Len(asked)]
  BY EndedIs
<1>2. asked' # <<>> /\ h = asked'[Len(asked')] /\ gets'[h].pc = "answered" /\ ~gets'[h].old
  BY DEF Newest
<1>3. h # g
  BY <1>1, <1>2, Nothings
<1> QED
  BY <1>1, <1>2, <1>3 DEF Newest

(* A load is over, with its rows or without. *)
LEMMA LoadEnds ==
    ASSUME WorkInv, NEW g \in Gets, gets[g].pc # "idle", Ended(g),
           UNCHANGED <<visit, kept, next, review, mixed, typed, lost>>,
           view' \in {view, Nothing, gets[g].rows}, seen' \in {seen, gets[g].status},
           broken' \in BOOLEAN, off' \in BOOLEAN, form' \in {form, NoForm}
    PROVE /\ WorkTypes' /\ ActsFit' /\ OneSave' /\ LoadsFit' /\ PageFits' /\ OneRow' /\ Counts'
          /\ page \notin Forms
          /\ \A o \in Acts : /\ Served(act[o]) => act'[o] = act[o]
                             /\ Active(o)' => Active(o)
                             /\ Served(act[o])' <=> Served(act'[o])
          /\ \A h \in Gets : gets'[h].pc # "idle" /\ ~gets'[h].old =>
                 h # g /\ ~gets[h].old /\ gets'[h].pc = gets[h].pc /\ gets'[h].rows = gets[h].rows
<1> USE DEF WorkInv
<1>1. /\ busy' = FALSE
      /\ gets' \in [Gets -> LoadOf] /\ gets'[g] = NoGet
      /\ \A h \in Gets \ {g} : /\ gets'[h].pc = gets[h].pc /\ gets'[h].rows = gets[h].rows
                               /\ gets'[h].status = gets[h].status /\ (gets[h].old => gets'[h].old)
      /\ asked' \in Seq(Gets)
      /\ \A h \in Gets : gets'[h].pc # "idle" <=> \E k \in DOMAIN asked' : asked'[k] = h
      /\ \A j, k \in DOMAIN asked' : asked'[j] = asked'[k] => j = k
      /\ act' \in [Acts -> Command] /\ \A o \in Acts : act'[o] = act[o] \/ (act[o].pc = "loading" /\ act'[o] = NoAct)
  BY EndedIs
<1>t. gets[g] \in LoadOf /\ view \in Sheets /\ seen \in Statuses /\ form \in [id : Rows \cup {Nil}, val : Val]
  BY DEF WorkTypes
<1>2. view' \in Sheets /\ seen' \in Statuses
  BY <1>t, Nothings DEF LoadOf
<1>3. WorkTypes'
  <2>1. form' \in [id : Rows \cup {Nil}, val : Val] /\ (page = "profile" /\ form'.val # Nil => form'.id # Nil)
    BY <1>t, Nothings DEF WorkTypes
  <2> QED BY <1>1, <1>2, <2>1, PageSame DEF WorkTypes
<1>4. page \notin Forms
  BY DEF LoadsFit
<1>5. LoadsFit'
  BY <1>1, <1>4, PageSame DEF LoadsFit
<1>6. PageFits'
  <2>1. \A i \in Rows : Nothing[i] = Nil
    BY DEF Nothing
  <2>2. page # "docs" => seen' = "NONE" /\ review'.status = "NONE" /\ \A h \in Gets : gets'[h].status = "NONE"
    BY <1>1, Nothings DEF PageFits
  <2>3. Immediate => \A i \in Rows : /\ kept'[i] \in {Exists, Nil} /\ view'[i] \in {Exists, Nil}
                                     /\ \A h \in Gets : gets'[h].rows[i] \in {Exists, Nil}
    BY <1>1, <2>1, Nothings DEF PageFits
  <2> QED BY <2>2, <2>3, PageSame DEF PageFits
<1>7. ActsFit' /\ OneSave'
  BY <1>1, ActsKept
<1>8. OneRow'
  <2>1. \A i \in Rows : Nothing[i] = Nil
    BY DEF Nothing
  <2>2. \A i \in Rows : view'[i] \in {view[i], Nil} \/ \E h \in Gets : view'[i] = gets[h].rows[i]
    BY <2>1
  <2>3. \A h \in Gets, i \in Rows : gets'[h].rows[i] \in {gets[h].rows[i], kept[i], Nil}
    BY <1>1, <2>1, Nothings
  <2>4. \A o \in Acts : Comes(act[o], act'[o]) /\ Stays(act[o], act'[o])
    BY <1>1, Nothings DEF Comes, Stays, Brings, Wrote
  <2> QED BY <2>2, <2>3, <2>4, SoleKept
<1>9. Counts'
  BY <1>1, Nothings, CountsSame
<1>10. \A o \in Acts : /\ Served(act[o]) => act'[o] = act[o]
                       /\ Active(o)' => Active(o)
                       /\ Served(act[o])' <=> Served(act'[o])
  BY <1>1, Nothings DEF Served, Active
<1>11. \A h \in Gets : gets'[h].pc # "idle" /\ ~gets'[h].old =>
                 h # g /\ ~gets[h].old /\ gets'[h].pc = gets[h].pc /\ gets'[h].rows = gets[h].rows
  BY <1>1, Nothings
<1> QED
  BY <1>3, <1>4, <1>5, <1>6, <1>7, <1>8, <1>9, <1>10, <1>11

LEMMA LoadFailsKeeps ==
    ASSUME WorkInv, NEW g \in Gets, LoadFails(g)
    PROVE WorkInv'
<1> USE DEF WorkInv
<1>1. /\ gets[g].pc # "idle" /\ Ended(g)
      /\ view' = IF page = "blocked" THEN Nothing ELSE view
      /\ broken' = (page \notin {"docs", "profile"})
      /\ off' = (off \/ ~broken')
      /\ UNCHANGED <<visit, kept, next, review, mixed, seen, form, typed, lost>>
  BY DEF LoadFails, server
<1>2. broken' \in BOOLEAN /\ off' \in BOOLEAN /\ (broken' \/ off')
  BY <1>1 DEF WorkTypes
<1>3. /\ WorkTypes' /\ ActsFit' /\ OneSave' /\ LoadsFit' /\ PageFits' /\ OneRow' /\ Counts'
      /\ \A o \in Acts : /\ Served(act[o]) => act'[o] = act[o]
                         /\ Active(o)' => Active(o)
                         /\ Served(act[o])' <=> Served(act'[o])
      /\ \A h \in Gets : gets'[h].pc # "idle" /\ ~gets'[h].old =>
             h # g /\ ~gets[h].old /\ gets'[h].pc = gets[h].pc /\ gets'[h].rows = gets[h].rows
  BY <1>1, <1>2, LoadEnds
<1>4. ~Still' /\ ~Settled'
  BY <1>2 DEF Still, Settled
<1>5. \A h \in Gets : Newest(h)' => Newest(h) /\ gets'[h].rows = gets[h].rows /\ gets'[h].status = gets[h].status
  BY <1>1, EndedNewest
<1>6. ShownCurrent'
  <2>1. (\A o \in Acts : ~Served(act[o]))' => \A o \in Acts : ~Served(act[o])
    BY <1>3
  <2> QED BY <1>1, <1>4, <1>5, <2>1, PageSame DEF ShownCurrent
<1>7. FieldsCurrent'
  <2>1. page = "profile" =>
          \A h \in Gets : Newest(h)' =>
              \A i \in Rows : \/ gets'[h].rows[i] = kept'[i]
                             \/ \E o \in Acts : Served(act[o])' /\ act'[o].id = i /\ kept'[i] = act'[o].val
    BY <1>1, <1>3, <1>5 DEF FieldsCurrent, Near
  <2> QED BY <1>1, <1>4, <2>1, PageSame DEF FieldsCurrent, Near
<1>8. HeartsCurrent'
  BY <1>1, <1>3, <1>4, PageSame DEF HeartsCurrent
<1> QED
  BY <1>3, <1>6, <1>7, <1>8

(* The answer is shown: it is current if it was the last one asked for, and in time. *)
LEMMA LoadAnswerKeeps ==
    ASSUME WorkInv, NEW g \in Gets, LoadAnswer(g)
    PROVE WorkInv'
<1> USE DEF WorkInv
<1>1. /\ gets[g].pc = "answered" /\ Ended(g)
      /\ view' = gets[g].rows /\ seen' = gets[g].status /\ off' = gets[g].old
      /\ form' \in {form, NoForm}
      /\ UNCHANGED <<visit, kept, next, review, mixed, broken, typed, lost>>
  BY DEF LoadAnswer, server
<1>2. gets[g].pc # "idle" /\ broken' \in BOOLEAN /\ off' \in BOOLEAN
  BY <1>1 DEF WorkTypes, LoadOf
<1>3. /\ WorkTypes' /\ ActsFit' /\ OneSave' /\ LoadsFit' /\ PageFits' /\ OneRow' /\ Counts'
      /\ \A o \in Acts : /\ Served(act[o]) => act'[o] = act[o]
                         /\ Active(o)' => Active(o)
                         /\ Served(act[o])' <=> Served(act'[o])
      /\ \A h \in Gets : gets'[h].pc # "idle" /\ ~gets'[h].old =>
             h # g /\ ~gets[h].old /\ gets'[h].pc = gets[h].pc /\ gets'[h].rows = gets[h].rows
  BY <1>1, <1>2, LoadEnds
<1>4. Still' => Newest(g)
  <2>1. asked' = <<>> => asked # <<>> /\ g = asked[Len(asked)]
    BY <1>1, <1>2, EndedIs
  <2> QED BY <1>1, <2>1 DEF Still, Newest
<1>5. \A h \in Gets : Newest(h)' => Newest(h) /\ gets'[h].rows = gets[h].rows /\ gets'[h].status = gets[h].status
  BY <1>1, <1>2, EndedNewest
<1>6. ShownCurrent'
  <2>1. (\A o \in Acts : ~Served(act[o]))' => \A o \in Acts : ~Served(act[o])
    BY <1>3
  <2> QED BY <1>1, <1>4, <1>5, <2>1, PageSame DEF ShownCurrent
<1>7. FieldsCurrent'
  <2>1. page = "profile" =>
          \A h \in Gets : Newest(h)' =>
              \A i \in Rows : \/ gets'[h].rows[i] = kept'[i]
                             \/ \E o \in Acts : Served(act[o])' /\ act'[o].id = i /\ kept'[i] = act'[o].val
    BY <1>1, <1>3, <1>5 DEF FieldsCurrent, Near
  <2>2. page = "profile" /\ Still' =>
              \A i \in Rows : \/ view'[i] = kept'[i]
                             \/ \E o \in Acts : Served(act[o])' /\ act'[o].id = i /\ kept'[i] = act'[o].val
    BY <1>1, <1>3, <1>4 DEF FieldsCurrent, Near
  <2> QED BY <1>1, <2>1, <2>2, PageSame DEF FieldsCurrent, Near
<1>8. HeartsCurrent'
  <2> SUFFICES ASSUME Immediate PROVE HeartsCurrent'
    BY <1>1, PageSame DEF HeartsCurrent
  <2>1. \A h \in Gets : gets'[h].pc # "idle" /\ ~gets'[h].old =>
              /\ \A o \in Acts : ~Active(o)'
              /\ gets'[h].pc = "answered" => gets'[h].rows = kept'
    BY <1>1, <1>3 DEF HeartsCurrent
  <2>2. Settled' => (\A o \in Acts : ~Active(o)') /\ view' = kept'
    BY <1>1, <1>2, <1>3 DEF HeartsCurrent, Settled
  <2>3. \A o \in Acts, i \in Rows : OnRow(act[o], i)' => Active(o)'
    BY DEF OnRow, Active
  <2> QED BY <2>1, <2>2, <2>3 DEF HeartsCurrent
<1> QED
  BY <1>3, <1>6, <1>7, <1>8

LEMMA SentFrom ==
    /\ "replace" \in Sent => page = "slots"
    /\ "update" \in Sent => Lists \/ page = "profile"
    /\ "delete" \in Sent => Lists \/ page = "blocked"
    /\ "put" \in Sent => page = "counter"
    /\ "add" \in Sent \/ "remove" \in Sent => Immediate
    /\ "submit" \in Sent \/ "upload" \in Sent => page = "docs"
    /\ "create" \in Sent => ~Immediate /\ page \notin {"slots", "docs", "profile", "blocked", "counter"}
BY DEF Sent, Lists, Immediate

(* What is served and not given up is what the page shows, or will ask for. *)
LEMMA ServedCurrent ==
    ASSUME WorkInv, NEW o \in Acts, NEW ok \in BOOLEAN, Serves(o, ok), act[o].pc \in {"sent", "between"},
           kept' \in Sheets,
           ~ok => ~Immediate /\ kept' = kept /\ review' = review,
           ok /\ page = "profile" => kept' = [kept EXCEPT ![act[o].id] = act[o].val],
           ok /\ Immediate => kept' = [kept EXCEPT ![act[o].id] = Written(act[o])]
    PROVE ShownCurrent' /\ FieldsCurrent' /\ HeartsCurrent'
<1> USE DEF WorkInv
<1>w. WorkTypes
  OBVIOUS
<1>1. UNCHANGED <<visit, view, seen, busy, broken, asked, form, typed, lost, faults>>
  BY <1>w, ServesIs
<1>2. CASE act[o].gone
  <2>1. off' = TRUE /\ \A g \in Gets : gets'[g].old = TRUE
    BY <1>2, <1>w, ServesIs
  <2> QED BY <2>1, OffIs
<1>3. CASE ~act[o].gone
  <2>1. /\ gets' = gets /\ off' = off
        /\ \E c \in Command :
               /\ act' = [act EXCEPT ![o] = c]
               /\ c.pc = IF ok THEN "ok" ELSE "refused"
               /\ c.kind = act[o].kind /\ c.id = act[o].id /\ c.val = act[o].val /\ ~c.gone
    BY <1>3, <1>w, ServesIs
  <2>2. PICK c \in Command :
               /\ act' = [act EXCEPT ![o] = c]
               /\ c.pc = IF ok THEN "ok" ELSE "refused"
               /\ c.kind = act[o].kind /\ c.id = act[o].id /\ c.val = act[o].val /\ ~c.gone
    BY <2>1
  <2>3. act'[o] = c /\ \A p \in Acts \ {o} : act'[p] = act[p]
    BY <2>2 DEF WorkTypes
  <2>4. ~Served(act[o])
    BY DEF Served
  <2>5. CASE ~ok
    <3>1. \A p \in Acts : Served(act[p]) => act'[p] = act[p]
      BY <2>3, <2>4
    <3> QED BY <1>1, <2>1, <2>5, <3>1, CurrentSame
  <2>6. CASE ok
    <3>1. Served(act'[o]) /\ \A p \in Acts : Served(act[p])' <=> Served(act'[p])
      BY <2>2, <2>3, <2>6 DEF Served
    <3>2. ShownCurrent'
      BY <3>1 DEF ShownCurrent
    <3>3. FieldsCurrent'
      <4> SUFFICES ASSUME page = "profile" PROVE FieldsCurrent'
        BY <1>1, PageSame DEF FieldsCurrent
      <4>1. kept' = [kept EXCEPT ![act[o].id] = act[o].val] /\ kept \in Sheets
        BY <2>6 DEF WorkTypes
      <4>2. \A i \in Rows : kept'[i] = kept[i] \/ (i = act'[o].id /\ kept'[i] = act'[o].val)
        BY <2>2, <2>3, <4>1 DEF Sheets
      <4>3. \A s : Near(s) => Near(s)'
        BY <2>3, <2>4, <3>1, <4>2 DEF Near
      <4>4. (Still' <=> Still) /\ \A g \in Gets : Newest(g)' <=> Newest(g)
        BY <1>1, <2>1 DEF Still, Newest
      <4> QED BY <1>1, <2>1, <4>3, <4>4, PageSame DEF FieldsCurrent
    <3>4. HeartsCurrent'
      <4> SUFFICES ASSUME Immediate PROVE HeartsCurrent'
        BY <1>1, PageSame DEF HeartsCurrent
      <4>1. kept' = [kept EXCEPT ![act[o].id] = Written(act[o])] /\ kept \in Sheets
        BY <2>6 DEF WorkTypes
      <4>2. act[o].id \in Rows
        BY SentIs DEF ActsFit, Fitting
      <4>3. kept'[act[o].id] = Written(act[o]) /\ \A i \in Rows : i # act[o].id => kept'[i] = kept[i]
        BY <4>1, <4>2 DEF Sheets
      <4>4. Settled' <=> Settled
        BY <1>1, <2>1 DEF Settled
      <4>5. \A g \in Gets : gets'[g].pc # "idle" => gets'[g].old
        <5>1. Active(o)
          BY <1>3 DEF Active
        <5> QED BY <2>1, <5>1 DEF HeartsCurrent
      <4>6. OnRow(act[o], act[o].id)
        BY <1>3 DEF OnRow
      <4>7. \A p \in Acts : /\ Written(act[p])' = Written(act[p])
                            /\ \A i : OnRow(act[p], i)' <=> OnRow(act[p], i)
        BY <1>3, <2>2, <2>3, <2>6 DEF Written, OnRow
      <4>8. ASSUME Settled', NEW i \in Rows
            PROVE /\ \A p, q \in Acts : OnRow(act[p], i) /\ OnRow(act[q], i) => p = q
                  /\ (\A p \in Acts : ~OnRow(act[p], i)) => view[i] = kept'[i]
                  /\ \A p \in Acts : OnRow(act[p], i) => /\ view[i] = Written(act[p]) <=> page # "hearts"
                                                         /\ act'[p].pc = "ok" => kept'[i] = Written(act[p])
        <5>1. /\ \A p, q \in Acts : OnRow(act[p], i) /\ OnRow(act[q], i) => p = q
              /\ (\A p \in Acts : ~OnRow(act[p], i)) => view[i] = kept[i]
              /\ \A p \in Acts : OnRow(act[p], i) => /\ view[i] = Written(act[p]) <=> page # "hearts"
                                                     /\ act[p].pc = "ok" => kept[i] = Written(act[p])
          BY <4>4, <4>8 DEF HeartsCurrent
        <5>2. i # act[o].id => ~OnRow(act[o], i)
          BY DEF OnRow
        <5>3. CASE i = act[o].id
          BY <4>3, <4>6, <5>1, <5>3
        <5>4. CASE i # act[o].id
          <6>1. \A p \in Acts : OnRow(act[p], i) => act'[p] = act[p]
            BY <2>3, <5>2, <5>4
          <6> QED BY <4>3, <5>1, <5>4, <6>1
        <5> QED BY <5>3, <5>4
      <4>9. (\A g \in Gets : gets[g].pc # "idle" /\ ~gets[g].old =>
                /\ \A p \in Acts : ~Active(p)
                /\ gets[g].pc = "answered" => gets[g].rows = kept)'
        BY <4>5
      <4>10. (Settled => \A i \in Rows :
                /\ \A p, q \in Acts : OnRow(act[p], i) /\ OnRow(act[q], i) => p = q
                /\ (\A p \in Acts : ~OnRow(act[p], i)) => view[i] = kept[i]
                /\ \A p \in Acts : OnRow(act[p], i) => /\ view[i] = Written(act[p]) <=> page # "hearts"
                                                       /\ act[p].pc = "ok" => kept[i] = Written(act[p]))'
        <5>1. page' = page /\ view' = view
          BY <1>1 DEF page
        <5> SUFFICES ASSUME Settled', NEW i \in Rows
                     PROVE  (/\ \A p, q \in Acts : OnRow(act[p], i) /\ OnRow(act[q], i) => p = q
                             /\ (\A p \in Acts : ~OnRow(act[p], i)) => view[i] = kept[i]
                             /\ \A p \in Acts : OnRow(act[p], i) => /\ view[i] = Written(act[p]) <=> page # "hearts"
                                                                    /\ act[p].pc = "ok" => kept[i] = Written(act[p]))'
          OBVIOUS
        <5> QED BY <4>7, <4>8, <5>1
      <4> QED BY <4>9, <4>10 DEF HeartsCurrent
    <3> QED BY <3>2, <3>3, <3>4
  <2> QED BY <2>5, <2>6
<1> QED
  BY <1>2, <1>3

(* How many rows there are once a command was served *)
LEMMA ServedCounts ==
    ASSUME WorkInv, NEW o \in Acts, visit' = visit, mixed' = mixed,
           act'[o].pc # "between", \A p \in Acts \ {o} : act'[p] = act[p], kept' \in Sheets,
           page \in Updating => Present(kept) \subseteq Present(kept)' /\ Count' <= 1,
           page \in {"dispute", "slots"} => kept' = kept \/ (act[o].pc = "between" /\ (~mixed => Count' <= 1)),
           page = "searches" => Count' <= Count \/ (act[o].pc = "between" /\ Count' <= Count + 1)
    PROVE Counts'
<1> USE DEF WorkInv
<1>1. \A p \in Acts : act'[p].pc = "between" => p # o /\ act'[p] = act[p]
  OBVIOUS
<1>2. \A p \in Acts : Present(act[p].was)' = Present(act'[p].was)
  BY DEF Present
<1>3. page \in Updating => \A p \in Acts : act'[p].pc = "between" => Present(act'[p].was) \subseteq Present(kept)'
  BY <1>1 DEF Counts
<1>4. Count \in Nat /\ Count' \in Nat /\ SavedMax \in Nat
  <2>1. Present(kept)' \subseteq Rows /\ IsFiniteSet(Present(kept)')
    BY WorkspaceAssumption, FS_Subset DEF Present
  <2> QED BY <2>1, CountIs, FS_CardinalityType, WorkspaceAssumption DEF Count
<1>5. ASSUME ~mixed
      PROVE /\ \A p, q \in Acts : act'[p].pc = "between" /\ act'[q].pc = "between" => p = q
            /\ page = "dispute" => Count' <= 1 /\ \A p \in Acts : act'[p].pc = "between" => Count' = 0
            /\ page = "slots" => /\ Count' <= 1
                                 /\ \A p \in Acts : act'[p].pc = "between" => Present(act'[p].was) = Present(kept)'
            /\ page = "searches" => Count' <= SavedMax /\ \A p \in Acts : act'[p].pc = "between" => Count' < SavedMax
  <2>1. /\ \A p, q \in Acts : act[p].pc = "between" /\ act[q].pc = "between" => p = q
        /\ page = "dispute" => Count <= 1 /\ \A p \in Acts : act[p].pc = "between" => Count = 0
        /\ page = "slots" => Count <= 1 /\ \A p \in Acts : act[p].pc = "between" => Present(act[p].was) = Present(kept)
        /\ page = "searches" => Count <= SavedMax /\ \A p \in Acts : act[p].pc = "between" => Count < SavedMax
    BY <1>5 DEF Counts
  <2>2. act[o].pc = "between" => \A p \in Acts : act'[p].pc # "between"
    BY <1>1, <2>1
  <2>3. kept' = kept => Count' = Count /\ Present(kept)' = Present(kept)
    BY DEF Count, Present
  <2>4. page = "dispute" => Count' <= 1 /\ \A p \in Acts : act'[p].pc = "between" => Count' = 0
    BY <1>1, <1>5, <2>1, <2>2, <2>3
  <2>5. page = "slots" => /\ Count' <= 1
                          /\ \A p \in Acts : act'[p].pc = "between" => Present(act'[p].was) = Present(kept)'
    BY <1>1, <1>5, <2>1, <2>2, <2>3
  <2>6. page = "searches" => Count' <= SavedMax /\ \A p \in Acts : act'[p].pc = "between" => Count' < SavedMax
    <3> SUFFICES ASSUME page = "searches"
                 PROVE Count' <= SavedMax /\ \A p \in Acts : act'[p].pc = "between" => Count' < SavedMax
      OBVIOUS
    <3>1. CASE Count' <= Count
      BY <1>1, <1>4, <2>1, <3>1
    <3>2. CASE act[o].pc = "between" /\ Count' <= Count + 1
      BY <1>4, <2>1, <2>2, <3>2
    <3> QED BY <3>1, <3>2
  <2> QED BY <1>1, <2>1, <2>4, <2>5, <2>6
<1> QED
  BY <1>2, <1>3, <1>5, PageSame DEF Counts

(* A row is inserted: it has what was typed for it alone. *)
LEMMA InsertSole ==
    ASSUME WorkInv, Sole, NEW o \in Acts, act[o].kind = "create", act[o].pc \in {"sent", "between"},
           next \in Rows, kept' = [kept EXCEPT ![next] = act[o].val],
           UNCHANGED <<visit, view, form, typed, lost>>,
           \A p \in Acts \ {o} : act'[p] = act[p], act'[o].pc # "between", Comes(act[o], act'[o]), Stays(act[o], act'[o]),
           act'[o].pc # "sent",
           \A g \in Gets : gets'[g].rows = gets[g].rows,
           \A e \in Words : Brings(act[o], e) /\ ~act[o].gone /\ act[o].edit # Left => Wrote(act'[o], e)
    PROVE OneRow'
<1> USE DEF WorkInv
<1> SUFFICES ASSUME NEW e \in Words \ lost PROVE InOneRow(e)'
  BY PageSame DEF OneRow
<1>1. InOneRow(e) /\ e # Nil
  BY Nothings DEF OneRow
<1>2. \A i \in Rows : kept'[i] = kept[i] \/ (i = next /\ kept'[i] = act[o].val)
  BY DEF WorkTypes, Sheets
<1>3. \A i \in Rows : Has(i, e)' => Has(i, e) \/ (i = next /\ act[o].val = e)
  <2> SUFFICES ASSUME NEW i \in Rows, Has(i, e)' PROVE Has(i, e) \/ (i = next /\ act[o].val = e)
    OBVIOUS
  <2>1. ASSUME NEW p \in Acts, act'[p].kind = "update", act'[p].id = i, act'[p].val = e PROVE Has(i, e)
    <3>1. act[p].kind = "update" /\ act[p].id = i /\ act[p].val = e
      BY <2>1 DEF Comes
    <3> QED BY <3>1 DEF Has
  <2>2. CASE kept'[i] = e
    BY <1>2, <2>2 DEF Has
  <2> QED BY <2>1, <2>2 DEF Has
<1>4. \A p \in Acts : Brings(act'[p], e) => p # o /\ Brings(act[p], e)
  BY DEF Brings
<1>5. \A p \in Acts : /\ Brings(act[p], e)' <=> Brings(act'[p], e)
                      /\ Wrote(act[p], e)' <=> Wrote(act'[p], e)
  BY DEF Brings, Wrote
<1>6. NewForm(e)' <=> NewForm(e)
  BY DEF NewForm
<1>7. CASE act[o].val # e
  <2>1. \A p \in Acts : Wrote(act[p], e) => Wrote(act'[p], e)
    BY DEF Wrote
  <2>2. \A p \in Acts : Brings(act'[p], e) => act'[p] = act[p]
    BY <1>4
  <2>3. NewForm(e)' => \A p \in Acts : Brings(act'[p], e) => ~act'[p].gone /\ act'[p].edit # Left
    BY <1>1, <1>4, <1>6, <2>2 DEF InOneRow
  <2>4. \A i \in Rows : Has(i, e)' => Has(i, e)
    BY <1>3, <1>7
  <2> QED BY <1>1, <1>4, <1>6, <2>1, <2>3, <2>4, InOneKeeps
<1>8. CASE act[o].val = e
  <2>1. Brings(act[o], e)
    BY <1>8 DEF Brings
  <2>2. (\A i \in Rows : ~Has(i, e)) /\ \A p \in Acts : Brings(act[p], e) => p = o
    BY <1>1, <2>1 DEF InOneRow
  <2>3. (\A i \in Rows : Has(i, e)' => i = next) /\ \A p \in Acts : ~Brings(act[p], e)'
    BY <1>3, <1>4, <1>5, <2>2
  <2>4. NewForm(e)' => \E p \in Acts : Wrote(act[p], e)'
    <3> SUFFICES ASSUME NewForm(e) PROVE Wrote(act'[o], e)
      BY <1>5, <1>6
    <3> QED BY <1>1, <2>1 DEF InOneRow
  <2>5. e \in typed'
    BY <1>1, <2>1 DEF InOneRow
  <2> QED BY <2>3, <2>4, <2>5 DEF InOneRow
<1> QED
  BY <1>7, <1>8

(* What is common to the routes *)
LEMMA RouteKeeps ==
    ASSUME WorkInv, NEW o \in Acts, NEW ok \in BOOLEAN, Serves(o, ok), act[o].pc \in {"sent", "between"},
           kept' \in Sheets, next' \in Nat, review'.status \in Statuses, mixed' = mixed,
           review' = review \/ page = "docs",
           ~ok => ~Immediate /\ kept' = kept /\ review' = review,
           ok /\ page = "profile" => kept' = [kept EXCEPT ![act[o].id] = act[o].val],
           ok /\ Immediate => kept' = [kept EXCEPT ![act[o].id] = Written(act[o])],
           Sole => \/ \A i \in Rows : \/ kept'[i] \in {kept[i], Nil}
                                      \/ act[o].kind = "update" /\ act[o].id = i /\ kept'[i] = act[o].val
                   \/ ok /\ act[o].kind = "create" /\ next \in Rows /\ kept' = [kept EXCEPT ![next] = act[o].val],
           page \in Updating => Present(kept) \subseteq Present(kept)' /\ Count' <= 1,
           page \in {"dispute", "slots"} => kept' = kept \/ (act[o].pc = "between" /\ (~mixed => Count' <= 1)),
           page = "searches" => Count' <= Count \/ (act[o].pc = "between" /\ Count' <= Count + 1)
    PROVE WorkInv'
<1>1. Immediate => \A i \in Rows : kept'[i] \in {kept[i], Exists, Nil}
  BY DEF Written, WorkInv, WorkTypes, Sheets
<1>2. /\ WorkTypes' /\ ActsFit' /\ OneSave' /\ LoadsFit' /\ PageFits'
      /\ \A p \in Acts \ {o} : act'[p] = act[p]
      /\ act'[o].pc # "between" /\ Comes(act[o], act'[o]) /\ Stays(act[o], act'[o])
      /\ UNCHANGED <<visit, view, form, typed, lost>>
      /\ \A g \in Gets : gets'[g].rows = gets[g].rows
      /\ \A e \in Words : ok /\ Brings(act[o], e) /\ ~act[o].gone /\ act[o].edit # Left => Wrote(act'[o], e)
  BY <1>1, ServedKeeps
<1>3. ShownCurrent' /\ FieldsCurrent' /\ HeartsCurrent'
  BY ServedCurrent
<1>4. Counts'
  BY <1>2, ServedCounts
<1>5. OneRow'
  <2> SUFFICES ASSUME Sole PROVE OneRow'
    BY <1>2, PageSame DEF OneRow
  <2>1. CASE \A i \in Rows : \/ kept'[i] \in {kept[i], Nil}
                             \/ act[o].kind = "update" /\ act[o].id = i /\ kept'[i] = act[o].val
    <3>1. \A p \in Acts : Comes(act[p], act'[p]) /\ Stays(act[p], act'[p])
      BY <1>2 DEF Comes, Stays
    <3>2. OneRow
      BY DEF WorkInv
    <3> QED BY <1>2, <2>1, <3>1, <3>2, SoleKept
  <2>2. CASE ok /\ act[o].kind = "create" /\ next \in Rows /\ kept' = [kept EXCEPT ![next] = act[o].val]
    <3>1. act'[o].pc # "sent"
      <4>1. WorkTypes
        BY DEF WorkInv
      <4>2. act[o].gone => act' = [act EXCEPT ![o] = NoAct]
        BY <4>1, ServesIs
      <4>3. ~act[o].gone => \E c \in Command : act' = [act EXCEPT ![o] = c] /\ c.pc = IF ok THEN "ok" ELSE "refused"
        BY <4>1, ServesIs
      <4> QED BY <4>1, <4>2, <4>3, Nothings DEF WorkTypes
    <3> QED BY <1>2, <2>2, <3>1, InsertSole
  <2> QED BY <2>1, <2>2
<1> QED
  BY <1>2, <1>3, <1>4, <1>5 DEF WorkInv

LEMMA ServesOne ==
    ASSUME NEW o \in Acts
    PROVE /\ Serves(o, TRUE) => \E ok \in BOOLEAN : ok /\ Serves(o, ok)
          /\ Serves(o, FALSE) => \E ok \in BOOLEAN : ~ok /\ Serves(o, ok)
<1>1. ASSUME Serves(o, TRUE) PROVE \E ok \in BOOLEAN : ok /\ Serves(o, ok)
  <2> WITNESS TRUE \in BOOLEAN
  <2> QED BY <1>1
<1>2. ASSUME Serves(o, FALSE) PROVE \E ok \in BOOLEAN : ~ok /\ Serves(o, ok)
  <2> WITNESS FALSE \in BOOLEAN
  <2> QED BY <1>2
<1> QED
  BY <1>1, <1>2

LEMMA CountShrinks ==
    ASSUME WorkTypes, Present(kept)' \subseteq Present(kept)
    PROVE Count' <= Count
<1>1. IsFiniteSet(Present(kept))
  BY CountIs
<1> QED
  BY <1>1, FS_Subset DEF Count

LEMMA CountGrows ==
    ASSUME WorkTypes, NEW i, Present(kept)' \subseteq Present(kept) \cup {i}
    PROVE Count' <= Count + 1
<1>1. IsFiniteSet(Present(kept)) /\ Count \in Nat
  BY CountIs
<1> DEFINE S == Present(kept)
<1>2. IsFiniteSet(S \cup {i}) /\ Cardinality(S \cup {i}) <= Count + 1
  <2>1. IsFiniteSet(S) /\ Count = Cardinality(S)
    BY <1>1 DEF Count
  <2> HIDE DEF S
  <2>2. IsFiniteSet(S \cup {i}) /\ Cardinality(S \cup {i}) = IF i \in S THEN Cardinality(S) ELSE Cardinality(S) + 1
    BY <2>1, FS_AddElement
  <2> QED BY <1>1, <2>1, <2>2
<1>3. Count' <= Cardinality(Present(kept) \cup {i}) /\ Count' \in Nat /\ Cardinality(Present(kept) \cup {i}) \in Nat
  BY <1>2, FS_Subset, FS_CardinalityType DEF Count
<1> QED
  BY <1>1, <1>2, <1>3

LEMMA ActIs ==
    ASSUME WorkInv, NEW o \in Acts, act[o].pc # "idle"
    PROVE /\ act[o] \in Command /\ act[o].kind \in Sent /\ Fitting(act[o])
          /\ kept \in Sheets /\ next \in Nat /\ review.status \in Statuses
          /\ WorkTypes
BY DEF WorkInv, WorkTypes, ActsFit, Fitting

LEMMA ServeRefusalKeeps ==
    ASSUME WorkInv, NEW o \in Acts, ServeRefusal(o)
    PROVE WorkInv'
<1>1. act[o].pc \in {"sent", "between"} /\ Serves(o, FALSE) /\ UNCHANGED <<kept, next, review, mixed>>
  BY DEF ServeRefusal, server
<1>2. /\ act[o].kind \in Sent /\ Fitting(act[o])
      /\ kept \in Sheets /\ next \in Nat /\ review.status \in Statuses
  BY <1>1, ActIs
<1>3. ~Immediate
  <2>1. act[o].kind = "create" \/ Lists \/ page \in Updating
    BY DEF ServeRefusal
  <2> QED BY <1>2, <2>1, SentFrom DEF Lists, Immediate, Updating
<1>4. Present(kept)' = Present(kept) /\ Count' = Count
  BY <1>1 DEF Present, Count
<1>5. (page \in Updating => Count <= 1) /\ Count \in Nat
  <2>1. WorkTypes
    BY DEF WorkInv
  <2> QED BY <2>1, CountIs DEF WorkInv, Counts
<1>ok. PICK ok \in BOOLEAN : ~ok /\ Serves(o, ok)
  BY <1>1, ServesOne
<1> QED
  BY <1>1, <1>ok, <1>2, <1>3, <1>4, <1>5, RouteKeeps

LEMMA ServeCreateKeeps ==
    ASSUME WorkInv, NEW o \in Acts, ServeCreate(o)
    PROVE WorkInv'
<1>1. /\ act[o].pc \in {"sent", "between"} /\ Serves(o, TRUE)
      /\ next \in Rows /\ kept' = [kept EXCEPT ![next] = act[o].val] /\ next' = next + 1
      /\ UNCHANGED <<review, mixed>>
  BY DEF ServeCreate, Inserts
<1>2. /\ act[o] \in Command /\ act[o].kind \in Sent
      /\ kept \in Sheets /\ next \in Nat /\ review.status \in Statuses /\ WorkTypes
  BY <1>1, ActIs
<1>3. kept' \in Sheets /\ next' \in Nat
  BY <1>1, <1>2 DEF Sheets, Command
<1>4. ~Immediate /\ page \notin {"profile", "slots"} /\ (Sole => act[o].kind = "create")
  <2>1. act[o].kind \in {"create", "upload"}
    BY DEF ServeCreate
  <2> QED BY <1>2, <2>1, SentFrom DEF Lists, Immediate, Sole, Inserting
<1>5. Present(kept)' \subseteq Present(kept) \cup {next} /\ (page \notin {"docs"} => Present(kept) \subseteq Present(kept)')
  <2>1. \A i \in Rows : kept'[i] = kept[i] \/ (i = next /\ kept'[i] = act[o].val)
    BY <1>1, <1>2 DEF Sheets
  <2>2. act[o].kind = "create" => act[o].val # Nil
    BY <1>1, ActIs DEF Fitting
  <2>3. page # "docs" => act[o].kind = "create"
    BY <1>2, SentFrom DEF ServeCreate
  <2> QED BY <2>1, <2>2, <2>3 DEF Present
<1>6. Count' <= Count + 1 /\ Count \in Nat
  BY <1>2, <1>5, CountGrows, CountIs
<1>7. page \in Updating => Count' <= 1
  <2> SUFFICES ASSUME page \in Updating PROVE Count' <= 1
    OBVIOUS
  <2>1. ~Full /\ page # "searches"
    BY DEF ServeCreate, Updating, Inserting
  <2>2. Count = 0
    BY <1>6, <2>1 DEF Full, Count
  <2>3. Present(kept) = {}
    BY <1>2, <2>2, CountIs
  <2>4. Present(kept)' \subseteq {next}
    BY <1>5, <2>3
  <2>5. IsFiniteSet({next}) /\ Cardinality({next}) = 1
    BY FS_Singleton
  <2>6. Count' <= 1
    BY <2>4, <2>5, FS_Subset DEF Count
  <2> QED BY <2>6
<1>8. page \in {"dispute", "searches"} => act[o].pc = "between"
  BY <1>2, SentFrom DEF ServeCreate, Inserting
<1>9. page = "dispute" /\ ~mixed => Count' <= 1
  BY <1>6, <1>8 DEF WorkInv, Counts
<1>10. "docs" \notin Updating /\ "slots" \notin Updating
  BY DEF Updating
<1>ok. PICK ok \in BOOLEAN : ok /\ Serves(o, ok)
  BY <1>1, ServesOne
<1> QED
  BY <1>1, <1>ok, <1>2, <1>3, <1>4, <1>5, <1>6, <1>7, <1>8, <1>9, <1>10, RouteKeeps

LEMMA ServeRewriteKeeps ==
    ASSUME WorkInv, NEW o \in Acts, ServeRewrite(o)
    PROVE WorkInv'
<1>1. /\ act[o].pc = "between" /\ Serves(o, TRUE) /\ page \in Updating \cup {"cancel"}
      /\ UNCHANGED <<next, review, mixed>>
  BY DEF ServeRewrite
<1>2. /\ act[o] \in Command /\ Fitting(act[o]) /\ act[o].kind \in Sent
      /\ kept \in Sheets /\ next \in Nat /\ review.status \in Statuses /\ WorkTypes
  BY <1>1, ActIs
<1>3. ~Immediate /\ ~Sole /\ page \notin {"profile", "slots", "dispute", "searches", "docs"}
  BY <1>1 DEF Immediate, Sole, Lists, Inserting, Updating
<1>4. PICK i : kept' = [kept EXCEPT ![i] = act[o].val]
  BY DEF ServeRewrite
<1>5. kept' \in Sheets
  BY <1>2, <1>4 DEF Sheets, Command
<1>6. ASSUME page \in Updating PROVE Present(kept)' = Present(kept)
  <2>1. Present(act[o].was) # {} /\ kept' = [kept EXCEPT ![Max(Present(act[o].was))] = act[o].val]
    BY <1>6 DEF ServeRewrite, Updating
  <2>2. Count <= 1 /\ Present(act[o].was) \subseteq Present(kept)
    BY <1>1, <1>6 DEF WorkInv, Counts
  <2>3. PICK x : x \in Present(act[o].was)
    BY <2>1
  <2>4. Present(act[o].was) = {x} /\ x \in Present(kept) /\ x \in Rows /\ x \in Nat
    <3>1. \A i1, j1 \in Present(kept) : i1 = j1
      BY <1>2, <2>2, CountIs
    <3> QED BY <2>2, <2>3, <3>1, WorkspaceAssumption DEF Present
  <2>5. Max({x}) = x
    BY <2>4 DEF Max
  <2>6. act[o].val # Nil
    BY <1>1, <1>2 DEF Fitting, Updating, Sent, Lists, Immediate
  <2>7. kept' = [kept EXCEPT ![x] = act[o].val]
    BY <2>1, <2>4, <2>5
  <2> QED BY <1>2, <2>4, <2>6, <2>7 DEF Present, Sheets
<1>7. page \in Updating => Count <= 1 /\ Count' = Count
  BY <1>6 DEF WorkInv, Counts, Count
<1>ok. PICK ok \in BOOLEAN : ok /\ Serves(o, ok)
  BY <1>1, ServesOne
<1> QED
  BY <1>1, <1>ok, <1>2, <1>3, <1>5, <1>6, <1>7, RouteKeeps

(* What was there when the slots were replaced is gone; but for another request, *)
(* that is all there was.                                                        *)
LEMMA ServeReplaceKeeps ==
    ASSUME WorkInv, NEW o \in Acts, ServeReplace(o)
    PROVE WorkInv'
<1>1. /\ act[o].pc = "between" /\ act[o].kind = "replace" /\ next \in Rows
      /\ kept' = [Replaced(o) EXCEPT ![next] = act[o].val] /\ next' = next + 1
      /\ Serves(o, TRUE) /\ UNCHANGED <<review, mixed>>
  BY DEF ServeReplace
<1>2. /\ act[o] \in Command /\ act[o].kind \in Sent
      /\ kept \in Sheets /\ next \in Nat /\ review.status \in Statuses /\ WorkTypes
  BY <1>1, ActIs
<1>3. page = "slots" /\ ~Immediate /\ ~Sole
  BY <1>1, <1>2, SentFrom DEF Immediate, Sole, Lists, Inserting
<1>4. Replaced(o) \in Sheets
  BY <1>2 DEF Replaced, Sheets, Val
<1>5. kept' \in Sheets /\ next' \in Nat
  BY <1>1, <1>2, <1>4 DEF Sheets, Command
<1>6. ASSUME ~mixed PROVE Count' <= 1
  <2>1. Present(act[o].was) = Present(kept)
    BY <1>1, <1>3, <1>6 DEF WorkInv, Counts
  <2>2. \A i \in Rows : Replaced(o)[i] = Nil
    BY <2>1 DEF Replaced, Present
  <2>3. Present(kept)' \subseteq {next}
    BY <1>1, <1>4, <2>2 DEF Present, Sheets
  <2>4. IsFiniteSet({next}) /\ Cardinality({next}) = 1
    BY FS_Singleton
  <2> QED BY <2>3, <2>4, FS_Subset DEF Count
<1>7. page \notin Updating /\ page \notin {"profile", "searches", "docs"}
  BY <1>3 DEF Updating
<1>ok. PICK ok \in BOOLEAN : ok /\ Serves(o, ok)
  BY <1>1, ServesOne
<1> QED
  BY <1>1, <1>ok, <1>2, <1>3, <1>5, <1>6, <1>7, RouteKeeps

(* What is written into a row that is there, or taken out of it *)
LEMMA BecomesKeeps ==
    ASSUME WorkInv, NEW o \in Acts, NEW v \in Val, act[o].pc = "sent", Becomes(o, v), page \notin Updating,
           page \notin {"dispute", "slots"}, act[o].kind # "create",
           page = "profile" => v = act[o].val, Immediate => v = Written(act[o]),
           Sole => v = Nil \/ (act[o].kind = "update" /\ v = act[o].val),
           page = "searches" => v = Nil \/ kept[act[o].id] # Nil
    PROVE WorkInv'
<1>1. Serves(o, TRUE) /\ kept' = [kept EXCEPT ![act[o].id] = v] /\ UNCHANGED <<next, review, mixed>>
  BY DEF Becomes
<1>2. kept \in Sheets /\ next \in Nat /\ review.status \in Statuses /\ WorkTypes
  BY ActIs
<1>3. kept' \in Sheets /\ \A i \in Rows : kept'[i] = kept[i] \/ (i = act[o].id /\ kept'[i] = v)
  BY <1>1, <1>2 DEF Sheets
<1>4. page = "searches" => Count' <= Count
  <2> SUFFICES ASSUME page = "searches" PROVE Count' <= Count
    OBVIOUS
  <2>1. Present(kept)' \subseteq Present(kept)
    BY <1>3 DEF Present
  <2> QED BY <1>2, <2>1, CountShrinks
<1>ok. PICK ok \in BOOLEAN : ok /\ Serves(o, ok)
  BY <1>1, ServesOne
<1>5. (page = "profile" => kept' = [kept EXCEPT ![act[o].id] = act[o].val])
      /\ (Immediate => kept' = [kept EXCEPT ![act[o].id] = Written(act[o])])
  BY <1>1
<1>6. Sole => \A i \in Rows : \/ kept'[i] \in {kept[i], Nil}
                              \/ act[o].kind = "update" /\ act[o].id = i /\ kept'[i] = act[o].val
  BY <1>3
<1> QED
  BY <1>1, <1>2, <1>3, <1>4, <1>5, <1>6, <1>ok, RouteKeeps

LEMMA WritesKeep ==
    ASSUME WorkInv, NEW o \in Acts,
           \/ ServeUpdate(o) \/ ServeDelete(o) \/ ServeCounter(o) \/ ServeFavorite(o) \/ ServeUnfavorite(o)
    PROVE WorkInv'
<1>1. act[o].pc = "sent"
  BY DEF ServeUpdate, ServeDelete, ServeCounter, ServeFavorite, ServeUnfavorite, Asks
<1>2. act[o] \in Command /\ act[o].kind \in Sent /\ Fitting(act[o]) /\ act[o].val \in Val /\ Nil \in Val
  BY <1>1, ActIs DEF Command, Val
<1>3. CASE ServeUpdate(o)
  <2>1. act[o].kind = "update" /\ kept[act[o].id] # Nil /\ Becomes(o, act[o].val)
    BY <1>3 DEF ServeUpdate, Asks
  <2>2. (Lists \/ page = "profile") /\ ~Immediate /\ page \notin Updating /\ page \notin {"dispute", "slots"}
    BY <1>2, <2>1, SentFrom DEF Lists, Immediate, Updating
  <2> QED BY <1>1, <1>2, <2>1, <2>2, BecomesKeeps
<1>4. CASE ServeDelete(o)
  <2>1. act[o].kind = "delete" /\ (Lists => kept[act[o].id] # Nil) /\ Becomes(o, Nil)
    BY <1>4 DEF ServeDelete, Asks
  <2>2. (Lists \/ page = "blocked") /\ ~Immediate /\ page \notin Updating /\ page \notin {"dispute", "slots", "profile"}
    BY <1>2, <2>1, SentFrom DEF Lists, Immediate, Updating
  <2> QED BY <1>1, <1>2, <2>1, <2>2, BecomesKeeps
<1>5. CASE ServeCounter(o)
  <2>1. act[o].kind = "put" /\ Becomes(o, act[o].val)
    BY <1>5 DEF ServeCounter, Asks
  <2>2. page = "counter"
    BY <1>2, <2>1, SentFrom
  <2>3. ~Immediate /\ page \notin Updating /\ page \notin {"dispute", "slots", "profile", "searches"} /\ ~Sole
    BY <2>2 DEF Immediate, Updating, Sole, Lists, Inserting
  <2> QED BY <1>1, <1>2, <2>1, <2>3, BecomesKeeps
<1>6. CASE ServeFavorite(o)
  <2>1. act[o].kind = "add" /\ Becomes(o, act[o].val)
    BY <1>6 DEF ServeFavorite, Asks
  <2>2. Immediate /\ act[o].val = Written(act[o])
    BY <1>2, <2>1, SentFrom DEF Fitting, Written
  <2>3. page \notin Updating /\ page \notin {"dispute", "slots", "profile", "searches"} /\ ~Sole
    BY <2>2 DEF Immediate, Updating, Sole, Lists, Inserting
  <2> QED BY <1>1, <1>2, <2>1, <2>2, <2>3, BecomesKeeps
<1>7. CASE ServeUnfavorite(o)
  <2>1. act[o].kind = "remove" /\ Becomes(o, Nil)
    BY <1>7 DEF ServeUnfavorite, Asks
  <2>2. Immediate /\ Nil = Written(act[o])
    BY <1>2, <2>1, SentFrom DEF Written
  <2>3. page \notin Updating /\ page \notin {"dispute", "slots", "profile", "searches"} /\ ~Sole
    BY <2>2 DEF Immediate, Updating, Sole, Lists, Inserting
  <2> QED BY <1>1, <1>2, <2>1, <2>2, <2>3, BecomesKeeps
<1> QED
  BY <1>3, <1>4, <1>5, <1>6, <1>7

LEMMA ServeSubmitKeeps ==
    ASSUME WorkInv, NEW o \in Acts, ServeSubmit(o)
    PROVE WorkInv'
<1>1. /\ act[o].pc = "sent" /\ act[o].kind = "submit"
      /\ review'.status = "PENDING" /\ Serves(o, TRUE) /\ UNCHANGED <<kept, next, mixed>>
  BY DEF ServeSubmit
<1>2. /\ act[o].kind \in Sent
      /\ kept \in Sheets /\ next \in Nat
  BY <1>1, ActIs
<1>3. page = "docs" /\ "PENDING" \in Statuses
  BY <1>1, <1>2, SentFrom DEF Statuses
<1>4. ~Immediate /\ page \notin Updating
  BY <1>3 DEF Immediate, Updating
<1>ok. PICK ok \in BOOLEAN : ok /\ Serves(o, ok)
  BY <1>1, ServesOne
<1> QED
  BY <1>1, <1>2, <1>3, <1>4, <1>ok, RouteKeeps

LEMMA RefusedKeeps ==
    ASSUME WorkInv, NEW o \in Acts, AnswerRefused(o) \/ Vanish(o)
    PROVE WorkInv'
<1> USE DEF WorkInv
<1>t. act \in [Acts -> Command] /\ Fitting(act[o])
  BY DEF WorkTypes, ActsFit
<1>1. /\ act' = [act EXCEPT ![o] = NoAct] /\ ~Served(act[o]) /\ (Immediate => ~Active(o))
      /\ act[o].pc # "ok"
      /\ UNCHANGED <<visit, kept, next, review, mixed, view, seen, busy, broken, gets, asked, form, off, typed, lost, faults>>
  BY <1>t DEF AnswerRefused, PutBack, Immediate, Vanish, Idle, Served, Active, Fitting, server, shownVars
<1>2. act' \in [Acts -> Command] /\ act'[o] = NoAct /\ \A p \in Acts \ {o} : act'[p] = act[p]
  BY <1>t, <1>1, Nothings
<1>3. WorkTypes' /\ LoadsFit' /\ PageFits'
  <2>1. Calm /\ typed' \subseteq Entries /\ mixed' \in BOOLEAN /\ form' \in [id : Rows \cup {Nil}, val : Val]
        /\ (page = "profile" /\ form'.val # Nil => form'.id # Nil)
    BY <1>1 DEF Calm, WorkTypes
  <2> QED BY <1>2, <2>1, CalmKeeps
<1>4. ActsFit' /\ OneSave'
  BY <1>1, <1>2, ActsKept
<1>5. OneRow'
  <2>1. \A p \in Acts : Comes(act[p], act'[p]) /\ Stays(act[p], act'[p])
    BY <1>1, <1>2, Nothings DEF Comes, Stays, Brings, Wrote
  <2> QED BY <1>1, <2>1, SoleKept
<1>6. Counts'
  BY <1>1, <1>2, Nothings, CountsSame
<1>7. ShownCurrent' /\ FieldsCurrent' /\ HeartsCurrent'
  <2>1. \A p \in Acts : Served(act[p]) => act'[p] = act[p]
    BY <1>1, <1>2
  <2>2. Immediate => \A p \in Acts : act'[p] = act[p] \/ (~Active(p) /\ ~Active(p)')
    BY <1>1, <1>2, Nothings DEF Active
  <2> QED BY <1>1, <2>1, <2>2, CurrentSame
<1> QED
  BY <1>3, <1>4, <1>5, <1>6, <1>7

(* The page puts the row back; the server may write it yet. *)
LEMMA GiveUpKeeps ==
    ASSUME WorkInv, NEW o \in Acts, GiveUp(o)
    PROVE WorkInv'
<1> USE DEF WorkInv
<1>t. /\ act \in [Acts -> Command] /\ Fitting(act[o]) /\ view \in Sheets
      /\ act[o].was \in Sheets /\ act[o].val \in Val /\ WorkTypes
  BY DEF WorkTypes, ActsFit, Command
<1>1. /\ Active(o) /\ act[o].pc # "loading" /\ view' = PutBack(o)
      /\ act' = [act EXCEPT ![o] = IF act[o].pc \in {"sent", "between"} THEN [act[o] EXCEPT !.gone = TRUE] ELSE NoAct]
      /\ lost' = lost \cup {act[o].val} /\ off' = TRUE /\ gets' = AllOld
      /\ UNCHANGED <<visit, kept, next, review, mixed, seen, busy, broken, asked, form, typed>>
  BY <1>t DEF GiveUp, server
<1>2. PICK c \in Command :
        /\ act' = [act EXCEPT ![o] = c]
        /\ \/ c = NoAct
           \/ /\ act[o].pc \in {"sent", "between"} /\ c.pc = act[o].pc /\ c.kind = act[o].kind /\ c.id = act[o].id
              /\ c.val = act[o].val /\ c.was = act[o].was /\ c.edit = act[o].edit /\ c.gone
  <2>1. CASE act[o].pc \in {"sent", "between"}
    <3>1. PICK c : c = [act[o] EXCEPT !.gone = TRUE]
      OBVIOUS
    <3>2. /\ c \in Command /\ c.pc = act[o].pc /\ c.kind = act[o].kind /\ c.id = act[o].id
          /\ c.val = act[o].val /\ c.was = act[o].was /\ c.edit = act[o].edit /\ c.gone
      BY <1>t, <3>1 DEF Command
    <3>3. (IF act[o].pc \in {"sent", "between"} THEN [act[o] EXCEPT !.gone = TRUE] ELSE NoAct) = c
      BY <2>1, <3>1
    <3>4. act' = [act EXCEPT ![o] = c]
      BY <1>1, <3>3
    <3> QED BY <2>1, <3>2, <3>4
  <2>2. CASE act[o].pc \notin {"sent", "between"}
    BY <1>1, <2>2, Nothings
  <2> QED BY <2>1, <2>2
<1>3. act' \in [Acts -> Command] /\ act'[o] = c /\ \A p \in Acts \ {o} : act'[p] = act[p]
  BY <1>t, <1>2
<1>4. /\ view' \in Sheets
      /\ Immediate => \A i \in Rows : view'[i] \in {Exists, Nil}
      /\ ~Immediate => view' = view
  <2>1. CASE page = "saved"
    BY <1>1, <1>t, <2>1 DEF PutBack, Fitting, Immediate
  <2>2. CASE page = "stars"
    <3>1. view' \in Sheets /\ \A i \in Rows : view'[i] \in {view[i], Exists, Nil}
      BY <1>1, <1>t, <2>2 DEF PutBack, Flipped, Sheets, Val, Words
    <3>2. Immediate
      BY <2>2 DEF Immediate
    <3> QED BY <3>1, <3>2 DEF PageFits
  <2>3. CASE page \notin {"saved", "stars"}
    <3>1. view' = view
      BY <1>1, <2>3 DEF PutBack
    <3> QED BY <1>t, <3>1 DEF PageFits
  <2> QED BY <2>1, <2>2, <2>3
<1>5. /\ gets' \in [Gets -> LoadOf]
      /\ \A g \in Gets : gets'[g].pc = gets[g].pc /\ gets'[g].rows = gets[g].rows
                         /\ gets'[g].status = gets[g].status /\ gets'[g].old = TRUE
  BY <1>1, <1>t, AllOldIs
<1>6. WorkTypes' /\ LoadsFit' /\ PageFits'
  <2>1. WorkTypes'
    BY <1>1, <1>3, <1>4, <1>5, <1>t, PageSame DEF WorkTypes
  <2>2. LoadsFit'
    BY <1>1, <1>5, LoadsKept
  <2>3. PageFits'
    BY <1>1, <1>4, <1>5, PageSame DEF PageFits
  <2> QED BY <2>1, <2>2, <2>3
<1>7. ActsFit' /\ OneSave'
  <2>1. Fitting(c)
    BY <1>1, <1>2, <1>t, Nothings DEF Fitting
  <2>2. ~Busies(c)
    BY <1>2, Nothings DEF Busies
  <2> QED BY <1>1, <1>2, <1>t, <2>1, <2>2, ActsStep
<1>8. OneRow'
  <2> SUFFICES ASSUME Sole PROVE OneRow'
    BY <1>1, PageSame DEF OneRow
  <2>1. ~Immediate
    BY DEF Sole, Lists, Inserting, Immediate
  <2>2. Comes(act[o], c) /\ Stays(act[o], c)
    BY <1>1, <1>2, Nothings DEF Comes, Stays, Brings, Wrote
  <2>3. \A p \in Acts : Comes(act[p], act'[p]) /\ Stays(act[p], act'[p])
    BY <1>3, <2>2 DEF Comes, Stays
  <2> QED BY <1>1, <1>4, <1>5, <2>1, <2>3, SoleKept
<1>9. Counts'
  BY <1>1, <1>2, <1>3, Nothings, CountsSame
<1>10. ShownCurrent' /\ FieldsCurrent' /\ HeartsCurrent'
  BY <1>1, <1>5, OffIs
<1> QED
  BY <1>6, <1>7, <1>8, <1>9, <1>10

(* Somebody else decides. *)
LEMMA DecidesKeep ==
    ASSUME WorkInv, NEW s \in {"VERIFIED", "REJECTED"}, Decides(s)
    PROVE WorkInv'
<1> USE DEF WorkInv
<1>1. /\ page = "docs" /\ review'.status = s /\ gets' = AllOld /\ off' = TRUE
      /\ UNCHANGED <<visit, kept, next, mixed, view, seen, busy, broken, asked, form, act, typed, lost, faults>>
  BY DEF Decides, shownVars
<1>t. WorkTypes
  OBVIOUS
<1>2. /\ gets' \in [Gets -> LoadOf]
      /\ \A g \in Gets : gets'[g].pc = gets[g].pc /\ gets'[g].rows = gets[g].rows
                         /\ gets'[g].status = gets[g].status /\ gets'[g].old = TRUE
  BY <1>1, <1>t, AllOldIs
<1>3. WorkTypes'
  BY <1>1, <1>2, PageSame DEF WorkTypes, Statuses, Command
<1>4. LoadsFit' /\ PageFits'
  BY <1>1, <1>2, LoadsKept, PageSame DEF PageFits, Immediate
<1>5. ActsFit' /\ OneSave'
  BY <1>1, ActsKept
<1>6. OneRow'
  BY <1>1, <1>2, SoleKept DEF Comes, Stays
<1>7. Counts'
  BY <1>1, CountsSame
<1>8. ShownCurrent' /\ FieldsCurrent' /\ HeartsCurrent'
  BY <1>1, <1>2, OffIs
<1> QED
  BY <1>3, <1>4, <1>5, <1>6, <1>7, <1>8

(* A favourite is shown, or taken away, before the server knows. *)
LEMMA ToggleKeeps ==
    ASSUME WorkInv, Immediate, NEW o \in Acts, NEW i \in Rows, NEW shown,
           Toggles(o, i, shown), shown = IF page = "hearts" THEN view ELSE Flipped(i)
    PROVE WorkInv'
<1> USE DEF WorkInv
<1>t. WorkTypes /\ view \in Sheets /\ view[i] \in {Exists, Nil}
  BY DEF WorkTypes, PageFits
<1>1. /\ Send(o, IF view[i] = Nil THEN "add" ELSE "remove", i, Exists)
      /\ view' = (IF page = "hearts" THEN view ELSE Flipped(i)) /\ gets' = AllOld
      /\ off' = (off \/ \E p \in Acts : Active(p) /\ act[p].id = i)
      /\ UNCHANGED <<visit, kept, next, review, mixed, seen, busy, broken, asked, form, typed, lost, faults>>
  BY DEF Toggles, server
<1>2. PICK k \in Verbs : k = (IF view[i] = Nil THEN "add" ELSE "remove") /\ Send(o, k, i, Exists)
  BY <1>1 DEF Verbs
<1>3. act[o].pc = "idle" /\ \E c \in Command : /\ act' = [act EXCEPT ![o] = c]
                                               /\ c.pc = "sent" /\ c.kind = k /\ c.id = i /\ c.val = Exists /\ ~c.gone
  <2>1. i \in Rows \cup {1, Nil} /\ Exists \in Val
    BY DEF Val, Words
  <2> QED BY <1>2, <1>t, <2>1, SendIs
<1>4. PICK c \in Command : /\ act' = [act EXCEPT ![o] = c]
                           /\ c.pc = "sent" /\ c.kind = k /\ c.id = i /\ c.val = Exists /\ ~c.gone
  BY <1>3
<1>5. act' \in [Acts -> Command] /\ act'[o] = c /\ \A p \in Acts \ {o} : act'[p] = act[p]
  BY <1>4 DEF WorkTypes
<1>w. \A j \in Rows : c.was[j] \in {Exists, Nil}
  <2>1. act'[o].was = IF page \in {"saved", "docs"} THEN view ELSE NoAct.was
    BY <1>2 DEF Send, NoAct, WorkTypes
  <2>2. \A j \in Rows : NoAct.was[j] = Nil
    BY DEF NoAct, Nothing
  <2> QED BY <1>5, <2>1, <2>2 DEF PageFits
<1>6. k \in {"add", "remove"} /\ Sent = {"add", "remove"} /\ page \notin Forms /\ ~Sole /\ page \notin {"profile", "docs"} /\ ~Reloading
  BY <1>2, SentIs DEF Immediate, Forms, Inserting, Sole, Lists, Reloading
<1>7. /\ gets' \in [Gets -> LoadOf]
      /\ \A g \in Gets : gets'[g].pc = gets[g].pc /\ gets'[g].rows = gets[g].rows
                         /\ gets'[g].status = gets[g].status /\ gets'[g].old = TRUE
  BY <1>1, <1>t, AllOldIs
<1>8. /\ view' \in Sheets
      /\ \A j \in Rows : j # i => view'[j] = view[j]
      /\ page = "hearts" => view'[i] = view[i]
      /\ page # "hearts" => view'[i] = IF view[i] = Nil THEN Exists ELSE Nil
  BY <1>1, <1>t DEF Flipped, Sheets, Val, Words
<1>9. WorkTypes' /\ LoadsFit' /\ PageFits'
  <2>1. off' \in BOOLEAN
    BY <1>1 DEF WorkTypes
  <2>2. WorkTypes'
    BY <1>1, <1>5, <1>7, <1>8, <2>1, PageSame DEF WorkTypes
  <2>3. LoadsFit'
    BY <1>1, <1>7, LoadsKept
  <2>4. \A j \in Rows : view'[j] \in {Exists, Nil}
    BY <1>8, <1>t DEF PageFits
  <2>5. PageFits'
    BY <1>1, <1>7, <2>4, PageSame DEF PageFits
  <2> QED BY <2>2, <2>3, <2>5
<1>10. ActsFit' /\ OneSave'
  <2>1. Fitting(c)
    BY <1>4, <1>6, <1>w DEF Fitting, Saves
  <2>2. ~Busies(c)
    BY <1>4, <1>6 DEF Busies, Saves
  <2> QED BY <1>1, <1>4, <1>t, <2>1, <2>2, ActsStep
<1>11. OneRow'
  BY <1>1, <1>6, PageSame DEF OneRow
<1>12. Counts'
  BY <1>1, <1>4, <1>5, CountsSame
<1>13. ShownCurrent' /\ FieldsCurrent'
  BY <1>1, <1>6, PageSame DEF ShownCurrent, FieldsCurrent
<1>14. HeartsCurrent'
  <2>1. (\A g \in Gets : gets[g].pc # "idle" /\ ~gets[g].old =>
            /\ \A p \in Acts : ~Active(p)
            /\ gets[g].pc = "answered" => gets[g].rows = kept)'
    BY <1>7
  <2>2. (Settled => \A j \in Rows :
            /\ \A p, q \in Acts : OnRow(act[p], j) /\ OnRow(act[q], j) => p = q
            /\ (\A p \in Acts : ~OnRow(act[p], j)) => view[j] = kept[j]
            /\ \A p \in Acts : OnRow(act[p], j) => /\ view[j] = Written(act[p]) <=> page # "hearts"
                                                   /\ act[p].pc = "ok" => kept[j] = Written(act[p]))'
    <3> SUFFICES ASSUME Settled', NEW j \in Rows
                 PROVE (/\ \A p, q \in Acts : OnRow(act[p], j) /\ OnRow(act[q], j) => p = q
                        /\ (\A p \in Acts : ~OnRow(act[p], j)) => view[j] = kept[j]
                        /\ \A p \in Acts : OnRow(act[p], j) => /\ view[j] = Written(act[p]) <=> page # "hearts"
                                                               /\ act[p].pc = "ok" => kept[j] = Written(act[p]))'
      OBVIOUS
    <3>1. Settled /\ \A p \in Acts : ~OnRow(act[p], i)
      BY <1>1 DEF Settled, OnRow, Active, WorkTypes
    <3>2. /\ \A p, q \in Acts : OnRow(act[p], j) /\ OnRow(act[q], j) => p = q
          /\ (\A p \in Acts : ~OnRow(act[p], j)) => view[j] = kept[j]
          /\ \A p \in Acts : OnRow(act[p], j) => /\ view[j] = Written(act[p]) <=> page # "hearts"
                                                 /\ act[p].pc = "ok" => kept[j] = Written(act[p])
      BY <3>1 DEF HeartsCurrent
    <3>3. \A p \in Acts : /\ Written(act[p])' = Written(act'[p])
                          /\ OnRow(act[p], j)' <=> OnRow(act'[p], j)
      BY DEF Written, OnRow
    <3>4. page' = page /\ kept' = kept
      BY <1>1, PageSame
    <3>5. CASE j # i
      <4>1. ~OnRow(act'[o], j) /\ ~OnRow(act[o], j)
        BY <1>3, <1>4, <1>5, <3>5 DEF OnRow
      <4>2. \A p \in Acts : (OnRow(act'[p], j) <=> OnRow(act[p], j)) /\ (OnRow(act'[p], j) => act'[p] = act[p])
        BY <1>5, <4>1
      <4>3. view'[j] = view[j]
        BY <1>8, <3>5
      <4> QED BY <3>2, <3>3, <3>4, <4>2, <4>3
    <3>6. CASE j = i
      <4>1. OnRow(act'[o], i) /\ \A p \in Acts : OnRow(act'[p], i) => p = o
        BY <1>4, <1>5, <3>1 DEF OnRow
      <4>2. (view'[i] = Written(c)) <=> page # "hearts"
        BY <1>2, <1>4, <1>8, <1>t, Nothings DEF Written, Words
      <4> QED BY <1>4, <1>5, <3>3, <3>4, <3>6, <4>1, <4>2
    <3> QED BY <3>5, <3>6
  <2> QED BY <2>1, <2>2 DEF HeartsCurrent
<1> QED
  BY <1>9, <1>10, <1>11, <1>12, <1>13, <1>14

LEMMA TogglesKeep ==
    ASSUME WorkInv, NEW o \in Acts, NEW i \in Rows, Unfavorite(o, i) \/ Star(o, i) \/ Heart(o, i)
    PROVE WorkInv'
<1>1. CASE Unfavorite(o, i)
  <2>1. page = "saved" /\ Toggles(o, i, Flipped(i))
    BY <1>1 DEF Unfavorite
  <2>2. Immediate
    BY <2>1 DEF Immediate
  <2> QED BY <2>1, <2>2, ToggleKeeps
<1>2. CASE Star(o, i)
  <2>1. page = "stars" /\ Toggles(o, i, Flipped(i))
    BY <1>2 DEF Star
  <2>2. Immediate
    BY <2>1 DEF Immediate
  <2> QED BY <2>1, <2>2, ToggleKeeps
<1>3. CASE Heart(o, i)
  <2>1. page = "hearts" /\ Toggles(o, i, view)
    BY <1>3 DEF Heart
  <2>2. Immediate
    BY <2>1 DEF Immediate
  <2> QED BY <2>1, <2>2, ToggleKeeps
<1> QED
  BY <1>1, <1>2, <1>3

(* One field is saved at a time: what was served is there until it is answered, *)
(* unless a request was given up.                                               *)
OneField ==
    lost = {} => \A o \in Acts : /\ ~act[o].gone
                                 /\ page = "profile" /\ act[o].pc = "ok" => kept[act[o].id] = act[o].val

LEMMA DoneKeeps ==
    ASSUME WorkInv, OneField, NEW o \in Acts, Done(o)
    PROVE WorkInv'
<1> USE DEF WorkInv
<1>t. WorkTypes /\ act[o] \in Command /\ Fitting(act[o]) /\ view \in Sheets /\ act[o].val \in Val
  BY DEF WorkTypes, ActsFit, Command
<1>1. /\ act[o].pc = "ok" /\ ~Reloading /\ form' \in {form, NoForm}
      /\ act[o].kind \in Saves /\ page \in Forms => form' = NoForm
      /\ view' = CASE page = "profile" -> [view EXCEPT ![act[o].id] = act[o].val]
                   [] page = "hearts"  -> Flipped(act[o].id)
                   [] OTHER            -> view
      /\ gets' = AllOld /\ off' = (off \/ lost # {}) /\ act' = [act EXCEPT ![o] = NoAct]
      /\ UNCHANGED <<visit, kept, next, review, mixed, seen, busy, broken, asked, typed, lost, faults>>
  BY DEF Done, Reloads, Reloading, Emptied, Idle, server
<1>2. act' \in [Acts -> Command] /\ act'[o] = NoAct /\ \A p \in Acts \ {o} : act'[p] = act[p]
  BY <1>1, Nothings DEF WorkTypes
<1>3. /\ view' \in Sheets
      /\ page \notin {"profile", "hearts"} => view' = view
      /\ page = "profile" => \A i \in Rows : view'[i] = IF i = act[o].id THEN act[o].val ELSE view[i]
      /\ page = "hearts" => \A i \in Rows : view'[i] = IF i = act[o].id THEN IF view[i] = Nil THEN Exists ELSE Nil
                                                      ELSE view[i]
  BY <1>1, <1>t DEF Flipped, Sheets, Val, Words
<1>4. /\ gets' \in [Gets -> LoadOf]
      /\ \A g \in Gets : gets'[g].pc = gets[g].pc /\ gets'[g].rows = gets[g].rows
                         /\ gets'[g].status = gets[g].status /\ gets'[g].old = TRUE
  BY <1>1, <1>t, AllOldIs
<1>5. WorkTypes' /\ LoadsFit' /\ PageFits'
  <2>1. off' \in BOOLEAN /\ form' \in [id : Rows \cup {Nil}, val : Val]
        /\ (page = "profile" /\ form'.val # Nil => form'.id # Nil)
    BY <1>1, Nothings DEF WorkTypes
  <2>2. WorkTypes'
    BY <1>1, <1>2, <1>3, <1>4, <2>1, PageSame DEF WorkTypes
  <2>3. LoadsFit'
    BY <1>1, <1>4, LoadsKept
  <2>4. Immediate => \A i \in Rows : view'[i] \in {Exists, Nil}
    BY <1>3 DEF PageFits, Immediate
  <2>5. PageFits'
    BY <1>1, <1>4, <2>4, PageSame DEF PageFits
  <2> QED BY <2>2, <2>3, <2>5
<1>6. ActsFit' /\ OneSave'
  BY <1>1, <1>2, ActsKept
<1>7. OneRow'
  <2> SUFFICES ASSUME Sole PROVE OneRow'
    BY <1>1, PageSame DEF OneRow
  <2>1. page \in Inserting /\ page \in Forms /\ page \notin {"profile", "hearts", "counter"}
    BY <1>1 DEF Sole, Lists, Reloading, Inserting, Forms
  <2>2. act[o].kind = "create"
    BY <1>1, <1>t, <2>1, SentIs DEF Fitting
  <2>3. form' = NoForm
    BY <1>1, <2>1, <2>2 DEF Saves
  <2>4. \A p \in Acts : Comes(act[p], act'[p])
    BY <1>2, Nothings DEF Comes, Brings
  <2>5. form' = form => form.val = Nil
    BY <2>3, Nothings
  <2> QED BY <1>1, <1>3, <1>4, <2>1, <2>3, <2>4, <2>5, SoleKept
<1>8. Counts'
  BY <1>1, <1>2, Nothings, CountsSame
<1>9. ShownCurrent'
  BY <1>1, PageSame DEF ShownCurrent
<1>10. FieldsCurrent'
  <2> SUFFICES ASSUME page = "profile", Still' PROVE Near(view)'
    <3>1. \A g \in Gets : ~Newest(g)'
      BY <1>4 DEF Newest
    <3> QED BY <1>1, <3>1, PageSame DEF FieldsCurrent
  <2>1. Still /\ lost = {}
    BY <1>1 DEF Still, WorkTypes
  <2>2. kept[act[o].id] = act[o].val
    BY <1>1, <2>1 DEF OneField
  <2>3. Near(view)
    BY <2>1 DEF FieldsCurrent
  <2>4. \A p \in Acts : p # o => act'[p] = act[p] /\ (Served(act[p])' <=> Served(act[p]))
    BY <1>2 DEF Served
  <2>5. ASSUME NEW i \in Rows
        PROVE \/ view'[i] = kept'[i]
              \/ \E p \in Acts : Served(act[p])' /\ act'[p].id = i /\ kept'[i] = act'[p].val
    <3>1. CASE i = act[o].id
      BY <1>1, <1>3, <2>2, <3>1
    <3>2. CASE i # act[o].id
      <4>1. view'[i] = view[i] /\ kept'[i] = kept[i]
        BY <1>1, <1>3, <3>2
      <4>2. view[i] = kept[i] \/ \E p \in Acts : Served(act[p]) /\ act[p].id = i /\ kept[i] = act[p].val
        BY <2>3 DEF Near
      <4> QED BY <2>4, <3>2, <4>1, <4>2
    <3> QED BY <3>1, <3>2
  <2> QED BY <2>5 DEF Near
<1>11. HeartsCurrent'
  <2> SUFFICES ASSUME Immediate PROVE HeartsCurrent'
    BY <1>1, PageSame DEF HeartsCurrent
  <2>1. (\A g \in Gets : gets[g].pc # "idle" /\ ~gets[g].old =>
            /\ \A p \in Acts : ~Active(p)
            /\ gets[g].pc = "answered" => gets[g].rows = kept)'
    BY <1>4
  <2>2. (Settled => \A j \in Rows :
            /\ \A p, q \in Acts : OnRow(act[p], j) /\ OnRow(act[q], j) => p = q
            /\ (\A p \in Acts : ~OnRow(act[p], j)) => view[j] = kept[j]
            /\ \A p \in Acts : OnRow(act[p], j) => /\ view[j] = Written(act[p]) <=> page # "hearts"
                                                   /\ act[p].pc = "ok" => kept[j] = Written(act[p]))'
    <3> SUFFICES ASSUME Settled', NEW j \in Rows
                 PROVE (/\ \A p, q \in Acts : OnRow(act[p], j) /\ OnRow(act[q], j) => p = q
                        /\ (\A p \in Acts : ~OnRow(act[p], j)) => view[j] = kept[j]
                        /\ \A p \in Acts : OnRow(act[p], j) => /\ view[j] = Written(act[p]) <=> page # "hearts"
                                                               /\ act[p].pc = "ok" => kept[j] = Written(act[p]))'
      OBVIOUS
    <3>1. Settled
      BY <1>1 DEF Settled, WorkTypes
    <3>2. /\ \A p, q \in Acts : OnRow(act[p], j) /\ OnRow(act[q], j) => p = q
          /\ (\A p \in Acts : ~OnRow(act[p], j)) => view[j] = kept[j]
          /\ \A p \in Acts : OnRow(act[p], j) => /\ view[j] = Written(act[p]) <=> page # "hearts"
                                                 /\ act[p].pc = "ok" => kept[j] = Written(act[p])
      BY <3>1 DEF HeartsCurrent
    <3>3. \A p \in Acts : /\ Written(act[p])' = Written(act'[p])
                          /\ OnRow(act[p], j)' <=> OnRow(act'[p], j)
      BY DEF Written, OnRow
    <3>4. page' = page /\ kept' = kept /\ ~OnRow(act'[o], j)
      BY <1>1, <1>2, PageSame, Nothings DEF OnRow
    <3>5. ~act[o].gone
      BY <1>1, <1>t DEF Fitting
    <3>6. CASE j # act[o].id
      <4>1. ~OnRow(act[o], j) /\ view'[j] = view[j]
        BY <1>3, <3>6 DEF OnRow, Immediate
      <4>2. \A p \in Acts : (OnRow(act'[p], j) <=> OnRow(act[p], j)) /\ (OnRow(act'[p], j) => act'[p] = act[p])
        BY <1>2, <3>4, <4>1
      <4> QED BY <3>2, <3>3, <3>4, <4>1, <4>2
    <3>7. CASE j = act[o].id
      <4>1. OnRow(act[o], j)
        BY <1>1, <3>5, <3>7 DEF OnRow
      <4>2. \A p \in Acts : ~OnRow(act'[p], j)
        BY <1>2, <3>2, <3>4, <4>1
      <4>3. view[j] \in {Exists, Nil} /\ Written(act[o]) \in {Exists, Nil}
        BY DEF PageFits, Written
      <4>4. kept[j] = Written(act[o]) /\ (view[j] = Written(act[o]) <=> page # "hearts")
        BY <1>1, <3>2, <4>1
      <4>5. view'[j] = kept[j]
        BY <1>3, <3>7, <4>3, <4>4, Nothings DEF Immediate, Words
      <4> QED BY <3>3, <3>4, <4>2, <4>5
    <3> QED BY <3>6, <3>7
  <2> QED BY <2>1, <2>2 DEF HeartsCurrent
<1> QED
  BY <1>5, <1>6, <1>7, <1>8, <1>9, <1>10, <1>11

LEMMA FieldStays ==
    ASSUME OneField, visit' = visit, lost \subseteq lost', kept' = kept,
           \A o \in Acts : act'[o] = act[o] \/ (~act'[o].gone /\ act'[o].pc # "ok")
    PROVE OneField'
<1> SUFFICES ASSUME lost' = {}, NEW o \in Acts
             PROVE ~act'[o].gone /\ (page = "profile" /\ act'[o].pc = "ok" => kept'[act'[o].id] = act'[o].val)
  BY PageSame DEF OneField
<1>1. lost = {}
  OBVIOUS
<1> QED
  BY <1>1 DEF OneField

LEMMA SendStays ==
    ASSUME WorkInv, NEW o \in Acts, NEW k, NEW i, NEW v, Send(o, k, i, v)
    PROVE \A p \in Acts : act'[p] = act[p] \/ (~act'[p].gone /\ act'[p].pc # "ok")
<1>1. act' \in [Acts -> {act'[p] : p \in Acts}] /\ \A p \in Acts \ {o} : act'[p] = act[p]
  BY DEF Send, WorkInv, WorkTypes
<1>2. act'[o].pc = "sent" /\ ~act'[o].gone
  BY DEF Send, NoAct, WorkInv, WorkTypes
<1> QED
  BY <1>1, <1>2

(* Of the routes, only that of a field has to do with the profile. *)
LEMMA RouteStays ==
    ASSUME WorkInv, OneField, NEW o \in Acts,
           \/ ServeRefusal(o) \/ ServeCreate(o) \/ ServeReplace(o) \/ ServeRewrite(o) \/ ServeCounter(o)
           \/ ServeUpdate(o) \/ ServeDelete(o) \/ ServeFavorite(o) \/ ServeUnfavorite(o) \/ ServeSubmit(o)
    PROVE OneField'
<1> SUFFICES ASSUME lost' = {}, NEW p \in Acts
             PROVE ~act'[p].gone /\ (page' = "profile" /\ act'[p].pc = "ok" => kept'[act'[p].id] = act'[p].val)
  BY DEF OneField
<1>t. WorkTypes /\ act \in [Acts -> Command]
  BY DEF WorkInv, WorkTypes
<1>1. \E ok \in BOOLEAN : Serves(o, ok)
  <2>1. Serves(o, TRUE) \/ Serves(o, FALSE)
    BY DEF ServeRefusal, ServeCreate, ServeReplace, ServeRewrite, ServeCounter, ServeUpdate, ServeDelete,
           ServeFavorite, ServeUnfavorite, ServeSubmit, Becomes
  <2> QED BY <2>1, ServesOne
<1>2. PICK ok \in BOOLEAN : Serves(o, ok)
  BY <1>1
<1>3. visit' = visit /\ lost' = lost
  BY <1>2, <1>t, ServesIs
<1>4. lost = {} /\ page' = page
  BY <1>3, PageSame
<1>5. ~act[o].gone
  BY <1>4 DEF OneField
<1>6. \E c \in Command : /\ act' = [act EXCEPT ![o] = c]
                         /\ c.id = act[o].id /\ c.val = act[o].val /\ ~c.gone
  BY <1>2, <1>5, <1>t, ServesIs
<1>7. /\ act'[o].id = act[o].id /\ act'[o].val = act[o].val /\ ~act'[o].gone
      /\ \A q \in Acts \ {o} : act'[q] = act[q]
  BY <1>6, <1>t
<1>8. ~act'[p].gone
  BY <1>4, <1>7 DEF OneField
<1>9. ASSUME page = "profile", act'[p].pc = "ok" PROVE kept'[act'[p].id] = act'[p].val
  <2>1. act[o].pc \in {"sent", "between"}
    BY DEF ServeRefusal, ServeCreate, ServeReplace, ServeRewrite, ServeCounter, ServeUpdate, ServeDelete,
           ServeFavorite, ServeUnfavorite, ServeSubmit, Asks
  <2>2. act[o].kind \in Sent /\ Fitting(act[o]) /\ kept \in Sheets /\ act[o].edit = Nil
    BY <1>9, <2>1, ActIs, SentIs DEF Fitting, Saves, Forms, Inserting
  <2>3. act[o].kind = "update" /\ act[o].id \in Rows
    BY <1>9, <2>2, SentIs DEF Fitting
  <2>4. ServeUpdate(o)
    BY <1>9, <2>1, <2>2, <2>3 DEF ServeRefusal, ServeCreate, ServeReplace, ServeRewrite, ServeCounter, ServeUpdate, ServeDelete,
           ServeFavorite, ServeUnfavorite, ServeSubmit, Asks, Lists, Fitting, Updating
  <2>5. kept' = [kept EXCEPT ![act[o].id] = act[o].val]
    BY <2>4 DEF ServeUpdate, Becomes
  <2>6. Busies(act[o])
    BY <1>5, <2>1, <2>2, <2>3, WorkspaceAssumption DEF Busies, Saves
  <2>7. p = o
    <3> SUFFICES ASSUME p # o PROVE FALSE
      OBVIOUS
    <3>1. act[p].pc = "ok" /\ ~act[p].gone
      BY <1>4, <1>7, <1>9 DEF OneField
    <3>2. act[p].kind = "update" /\ act[p].edit = Nil
      BY <1>9, <3>1, ActIs, SentIs DEF Fitting, Saves, Forms, Inserting
    <3>3. Busies(act[p])
      BY <3>1, <3>2, WorkspaceAssumption DEF Busies, Saves
    <3> QED BY <2>6, <3>3 DEF WorkInv, OneSave
  <2> QED BY <1>7, <2>2, <2>3, <2>5, <2>7 DEF Sheets
<1> QED
  BY <1>4, <1>8, <1>9

LEMMA FieldNext ==
    ASSUME WorkInv, OneField, [WorkNext]_workVars
    PROVE OneField'
<1>t. act \in [Acts -> Command] /\ WorkTypes /\ LoadsFit
  BY DEF WorkInv, WorkTypes
<1>0. CASE UNCHANGED workVars
  BY <1>0, FieldStays DEF workVars
<1>1. ASSUME NEW g \in Gets, Reopen(g) \/ ServeLoad(g) PROVE OneField'
  BY <1>1, FieldStays DEF Reopen, ServeLoad, server
<1>2. ASSUME NEW g \in Gets, LoadAnswer(g) \/ LoadFails(g) PROVE OneField'
  <2>1. Awaited(g) /\ UNCHANGED <<visit, kept, lost>>
    BY <1>2 DEF LoadAnswer, LoadFails, Ended, server
  <2>2. \A o \in Acts : act'[o] = act[o] \/ act'[o] = NoAct
    BY <2>1 DEF Awaited
  <2> QED BY <2>1, <2>2, Nothings, FieldStays
<1>3. ASSUME NEW g \in Gets, NEW o \in Acts, AnswerReload(o, g) PROVE OneField'
  <2>1. /\ act[o].pc = "ok" /\ act' = [act EXCEPT ![o].pc = "loading", ![o].get = g] /\ UNCHANGED <<visit, kept, lost>>
    BY <1>3 DEF AnswerReload, server
  <2>2. \A p \in Acts : act'[p] = act[p] \/ (p = o /\ act'[p].pc = "loading" /\ act'[p].gone = act[p].gone)
    BY <1>t, <2>1 DEF Command
  <2>3. ~act[o].gone
    BY <2>1, ActIs DEF Fitting
  <2> QED BY <2>1, <2>2, <2>3, FieldStays
<1>4. ASSUME NEW e \in Entries, TypeRow(e) \/ TypeSlots(e) \/ TypeField(e) \/ Compose(e) \/ PickMedia(e) PROVE OneField'
  BY <1>4, FieldStays DEF TypeRow, TypeSlots, TypeField, Compose, PickMedia, Enter, server
<1>5. CASE Clear
  BY <1>5, FieldStays DEF Clear, server
<1>6. CASE Leave
  <2>1. page \in Forms /\ UNCHANGED <<visit, kept, lost>>
        /\ act' = [o \in Acts |-> IF Active(o) THEN [act[o] EXCEPT !.edit = Left] ELSE act[o]]
    BY <1>6 DEF Leave, server
  <2>2. \A o \in Acts : act'[o].gone = act[o].gone
    BY <1>t, <2>1 DEF Command
  <2>3. page' # "profile"
    BY <2>1, PageSame DEF Forms, Inserting
  <2> QED BY <2>1, <2>2, <2>3 DEF OneField
<1>7. ASSUME NEW i \in Rows, BeginEdit(i) \/ EditField(i) PROVE OneField'
  BY <1>7, FieldStays DEF BeginEdit, EditField, Edits, server
<1>8. ASSUME NEW i \in Rows, NEW o \in Acts, \/ DeleteRow(o, i) \/ Unblock(o, i)
                                             \/ Unfavorite(o, i) \/ Star(o, i) \/ Heart(o, i)
      PROVE OneField'
  <2>1. (\E k, v : Send(o, k, i, v)) /\ UNCHANGED <<visit, kept, lost>>
    BY <1>8 DEF DeleteRow, Unblock, Deletes, Unfavorite, Star, Heart, Toggles, server
  <2> QED BY <2>1, SendStays, FieldStays
<1>9. ASSUME NEW o \in Acts, \/ SaveRow(o) \/ SaveSlots(o) \/ SaveField(o) \/ Upload(o) \/ Submit(o)
                             \/ PostJob(o) \/ AddMedia(o) \/ Report(o) \/ Review(o) \/ OpenDispute(o)
                             \/ CancelJob(o) \/ PlaceBid(o) \/ CounterBid(o)
      PROVE OneField'
  <2>1. (\E k, i, v : Send(o, k, i, v)) /\ UNCHANGED <<visit, kept, lost>>
    BY <1>9 DEF SaveRow, SaveSlots, SaveField, Upload, Submit, PostJob, AddMedia, Report, Review, OpenDispute,
                CancelJob, PlaceBid, CounterBid, Sends, server
  <2> QED BY <2>1, SendStays, FieldStays
<1>10. ASSUME NEW o \in Acts, Steps(o) PROVE OneField'
  <2>1. act[o].pc = "sent" /\ UNCHANGED <<visit, kept, lost>>
        /\ act' = [act EXCEPT ![o].pc = "between",
                              ![o].was = IF page \in Updating \cup {"slots"} THEN kept ELSE @]
    BY <1>10 DEF Steps
  <2>2. \A p \in Acts : act'[p] = act[p] \/ (act'[p].pc = "between" /\ act'[p].gone = act[p].gone)
    BY <1>t, <2>1 DEF Command
  <2>3. lost' = {} => \A p \in Acts : act'[p] = act[p] \/ (act'[p].pc # "ok" /\ ~act'[p].gone)
    BY <2>1, <2>2 DEF OneField
  <2>4. page' = page
    BY <2>1, PageSame
  <2> QED BY <2>1, <2>3, <2>4 DEF OneField
<1>11. ASSUME NEW o \in Acts,
           \/ ServeRefusal(o) \/ ServeCreate(o) \/ ServeReplace(o) \/ ServeRewrite(o) \/ ServeCounter(o)
           \/ ServeUpdate(o) \/ ServeDelete(o) \/ ServeFavorite(o) \/ ServeUnfavorite(o) \/ ServeSubmit(o)
       PROVE OneField'
  BY <1>11, RouteStays
<1>12. ASSUME NEW o \in Acts, Done(o) \/ AnswerRefused(o) \/ Vanish(o) PROVE OneField'
  <2>1. act' = [act EXCEPT ![o] = NoAct] /\ UNCHANGED <<visit, kept, lost>>
    BY <1>12 DEF Done, AnswerRefused, Vanish, Idle, server
  <2>2. \A p \in Acts : act'[p] = act[p] \/ act'[p] = NoAct
    BY <1>t, <2>1
  <2> QED BY <2>1, <2>2, Nothings, FieldStays
<1>13. ASSUME NEW o \in Acts, GiveUp(o) PROVE OneField'
  <2>1. lost' # {}
    BY <1>13 DEF GiveUp
  <2> QED BY <2>1 DEF OneField
<1>14. CASE Approve \/ Reject
  BY <1>14, FieldStays DEF Approve, Reject, Decides
<1> QED
  BY <1>0, <1>1, <1>2, <1>3, <1>4, <1>5, <1>6, <1>7, <1>8, <1>9, <1>10, <1>11, <1>12, <1>13, <1>14 DEF WorkNext

LEMMA InitWork ==
    ASSUME WorkInit
    PROVE WorkInv /\ OneField
<1>1. PICK g \in Gets :
        /\ visit \in Visits
        /\ kept = [i \in Rows |-> IF Fixed THEN Exists ELSE Nil]
        /\ next = IF Fixed THEN Cardinality(Rows) + 1 ELSE 1
        /\ review = [status |-> "NONE", names |-> {}]
        /\ view = Nothing /\ seen = "NONE"
        /\ busy = (page \notin Forms) /\ broken = FALSE
        /\ asked = (IF busy THEN <<g>> ELSE <<>>)
        /\ gets = [h \in Gets |-> [NoGet EXCEPT !.pc = IF busy /\ h = g THEN "asked" ELSE "idle"]]
        /\ form = NoForm
        /\ act = [o \in Acts |-> NoAct]
        /\ off = FALSE /\ typed = {} /\ lost = {} /\ mixed = FALSE
  BY DEF WorkInit
<1>2. kept \in Sheets /\ (~Fixed => \A i \in Rows : kept[i] = Nil) /\ \A i \in Rows : kept[i] \in {Exists, Nil}
  BY <1>1 DEF Sheets, Val, Words
<1>3. /\ gets \in [Gets -> LoadOf]
      /\ \A h \in Gets : /\ gets[h].rows = Nothing /\ gets[h].status = "NONE"
                         /\ gets[h].pc = (IF busy /\ h = g THEN "asked" ELSE "idle")
  <2>1. \A s \in {"asked", "idle"} : LET r == [NoGet EXCEPT !.pc = s]
                                     IN  r \in LoadOf /\ r.rows = Nothing /\ r.status = "NONE" /\ r.pc = s
    BY Nothings DEF LoadOf
  <2>2. ASSUME NEW h \in Gets
        PROVE /\ gets[h] \in LoadOf /\ gets[h].rows = Nothing /\ gets[h].status = "NONE"
              /\ gets[h].pc = (IF busy /\ h = g THEN "asked" ELSE "idle")
    <3>1. PICK s \in {"asked", "idle"} : s = IF busy /\ h = g THEN "asked" ELSE "idle"
      OBVIOUS
    <3>2. gets[h] = [NoGet EXCEPT !.pc = s]
      BY <1>1, <3>1
    <3> QED BY <2>1, <3>1, <3>2
  <2>3. gets = [h \in Gets |-> gets[h]]
    BY <1>1
  <2> QED BY <2>2, <2>3
<1>4. \A o \in Acts : act[o] = NoAct
  BY <1>1
<1>5. \A i \in Rows : Nothing[i] = Nil
  BY DEF Nothing
<1>6. WorkTypes
  <2>1. next \in Nat
    BY <1>1, WorkspaceAssumption, FS_CardinalityType
  <2>2. asked \in Seq(Gets)
    BY <1>1
  <2>3. act \in [Acts -> Command] /\ form \in [id : Rows \cup {Nil}, val : Val] /\ form.val = Nil /\ view \in Sheets
    BY <1>1, Nothings
  <2> QED BY <1>1, <1>2, <1>3, <2>1, <2>2, <2>3 DEF WorkTypes, Statuses
<1>7. ActsFit /\ OneSave
  BY <1>4, Nothings DEF ActsFit, OneSave, Busies
<1>8. LoadsFit
  <2>1. CASE busy
    <3>1. DOMAIN asked = {1} /\ asked[1] = g /\ asked # <<>>
      BY <1>1, <2>1
    <3>2. page \notin Forms /\ \A h \in Gets : gets[h].pc # "idle" <=> h = g
      <4>1. page \notin Forms
        BY <1>1, <2>1
      <4>2. \A h \in Gets : gets[h].pc # "idle" <=> h = g
        BY <1>3, <2>1
      <4> QED BY <4>1, <4>2
    <3>3. \A h \in Gets : (\E k \in DOMAIN asked : asked[k] = h) <=> h = g
      BY <3>1
    <3>4. \A j, k \in DOMAIN asked : j = k
      BY <3>1
    <3> QED BY <3>1, <3>2, <3>3, <3>4 DEF LoadsFit
  <2>2. CASE ~busy
    <3>1. asked = <<>> /\ DOMAIN asked = {}
      BY <1>1, <2>2
    <3> QED BY <1>1, <1>3, <2>2, <3>1 DEF LoadsFit
  <2> QED BY <1>1, <2>1, <2>2
<1>9. PageFits
  BY <1>1, <1>2, <1>3, <1>5 DEF PageFits
<1>10. OneRow
  <2> SUFFICES ASSUME Sole, NEW e \in Words PROVE InOneRow(e)
    BY <1>1, Nothings DEF OneRow
  <2>1. ~Fixed /\ e # Nil
    BY Nothings DEF Sole, Lists, Inserting, Fixed
  <2>2. \A i \in Rows : ~Has(i, e)
    BY <1>1, <1>2, <1>3, <1>4, <1>5, <2>1, Nothings DEF Has
  <2>3. \A o \in Acts : ~Brings(act[o], e)
    BY <1>4, Nothings DEF Brings
  <2>4. form.val # e
    BY <1>1, <2>1, Nothings
  <2> QED BY <2>2, <2>3, <2>4 DEF InOneRow, NewForm
<1>11. Counts
  <2>1. ~Fixed => Present(kept) = {}
    BY <1>2 DEF Present
  <2>2. ~Fixed => Count = 0
    BY <2>1, FS_EmptySet DEF Count
  <2>3. page \in Updating \cup {"dispute", "slots", "searches"} => ~Fixed
    BY DEF Updating, Fixed
  <2> QED BY <1>4, <2>2, <2>3, Nothings, WorkspaceAssumption DEF Counts
<1>12. ShownCurrent /\ FieldsCurrent /\ HeartsCurrent
  <2>1. \A h \in Gets : gets[h].pc # "answered" /\ ~Newest(h)
    BY <1>3 DEF Newest
  <2>2. page \notin Forms => ~Still /\ ~Settled
    BY <1>1 DEF Still, Settled
  <2>3. Reloading \/ page = "profile" \/ Immediate => page \notin Forms
    BY DEF Reloading, Immediate, Forms, Inserting
  <2>4. \A o \in Acts : ~Active(o)
    BY <1>4, Nothings DEF Active
  <2> QED BY <2>1, <2>2, <2>3, <2>4 DEF ShownCurrent, FieldsCurrent, HeartsCurrent
<1>13. OneField
  BY <1>4, Nothings DEF OneField
<1> QED
  BY <1>6, <1>7, <1>8, <1>9, <1>10, <1>11, <1>12, <1>13 DEF WorkInv

LEMMA WorkStutter ==
    ASSUME WorkInv, UNCHANGED workVars
    PROVE WorkInv'
<1> USE DEF WorkInv
<1>1. UNCHANGED <<visit, kept, next, review, view, seen, gets, asked, busy, broken, form, act, off, typed, lost, mixed>>
  BY DEF workVars
<1>2. WorkTypes' /\ LoadsFit' /\ PageFits'
  <2>1. Calm /\ typed' \subseteq Entries /\ mixed' \in BOOLEAN /\ form' \in [id : Rows \cup {Nil}, val : Val]
        /\ act' \in [Acts -> Command] /\ (page = "profile" /\ form'.val # Nil => form'.id # Nil)
    BY <1>1 DEF Calm, WorkTypes
  <2> QED BY <2>1, CalmKeeps
<1>3. ActsFit' /\ OneSave'
  BY <1>1, ActsKept
<1>4. OneRow'
  BY <1>1, SoleKept DEF Comes, Stays
<1>5. Counts'
  BY <1>1, CountsSame
<1>6. ShownCurrent' /\ FieldsCurrent' /\ HeartsCurrent'
  BY <1>1, CurrentSame
<1> QED
  BY <1>2, <1>3, <1>4, <1>5, <1>6

LEMMA FormKeeps ==
    ASSUME WorkInv,
           \/ \E e \in Entries : TypeRow(e) \/ TypeSlots(e) \/ TypeField(e) \/ Compose(e) \/ PickMedia(e)
           \/ \E i \in Rows : BeginEdit(i) \/ EditField(i)
    PROVE WorkInv'
<1>1. ASSUME NEW e \in Entries, TypeRow(e) \/ TypeSlots(e) \/ TypeField(e) \/ Compose(e) \/ PickMedia(e) PROVE WorkInv'
  <2>1. Enter(e) /\ (page = "profile" => form.id # Nil)
    BY <1>1 DEF TypeRow, TypeSlots, TypeField, Compose, PickMedia, Lists, Forms, Inserting
  <2> QED BY <2>1, EnterKeeps
<1>2. ASSUME NEW i \in Rows, BeginEdit(i) \/ EditField(i) PROVE WorkInv'
  <2>1. Edits(i) /\ page \notin Forms
    BY <1>2 DEF BeginEdit, EditField, Lists, Forms, Inserting
  <2> QED BY <2>1, EditsKeep
<1> QED
  BY <1>1, <1>2

LEMMA NextWork ==
    ASSUME WorkInv, OneField, [WorkNext]_workVars
    PROVE WorkInv'
<1>0. CASE UNCHANGED workVars
  BY <1>0, WorkStutter
<1>1. ASSUME NEW g \in Gets, \/ Reopen(g) \/ ServeLoad(g) \/ LoadAnswer(g) \/ LoadFails(g)
                             \/ \E o \in Acts : AnswerReload(o, g)
      PROVE WorkInv'
  BY <1>1, ReopenKeeps, ServeLoadKeeps, LoadAnswerKeeps, LoadFailsKeeps, AnswerReloadKeeps
<1>2. CASE Clear \/ Leave
  BY <1>2, ClearKeeps, LeaveKeeps
<1>3. ASSUME NEW i \in Rows, NEW o \in Acts, DeleteRow(o, i) \/ Unblock(o, i) PROVE WorkInv'
  BY <1>3, OthersKeep
<1>4. ASSUME NEW i \in Rows, NEW o \in Acts, Unfavorite(o, i) \/ Star(o, i) \/ Heart(o, i) PROVE WorkInv'
  BY <1>4, TogglesKeep
<1>5. ASSUME NEW o \in Acts, \/ SaveRow(o) \/ SaveSlots(o) \/ SaveField(o)
                             \/ PostJob(o) \/ AddMedia(o) \/ Report(o) \/ Review(o) \/ OpenDispute(o)
                             \/ CancelJob(o) \/ PlaceBid(o) \/ CounterBid(o)
      PROVE WorkInv'
  BY <1>5, SavesKeep
<1>6. ASSUME NEW o \in Acts, Upload(o) \/ Submit(o) PROVE WorkInv'
  BY <1>6, OthersKeep
<1>7. ASSUME NEW o \in Acts, Steps(o) \/ ServeRefusal(o) \/ ServeCreate(o) \/ ServeReplace(o) \/ ServeRewrite(o) PROVE WorkInv'
  BY <1>7, StepsKeep, ServeRefusalKeeps, ServeCreateKeeps, ServeReplaceKeeps, ServeRewriteKeeps
<1>8. ASSUME NEW o \in Acts,
             \/ ServeCounter(o) \/ ServeUpdate(o) \/ ServeDelete(o) \/ ServeFavorite(o) \/ ServeUnfavorite(o) \/ ServeSubmit(o)
      PROVE WorkInv'
  BY <1>8, WritesKeep, ServeSubmitKeeps
<1>9. ASSUME NEW o \in Acts, Done(o) \/ AnswerRefused(o) \/ GiveUp(o) \/ Vanish(o) PROVE WorkInv'
  BY <1>9, DoneKeeps, RefusedKeeps, GiveUpKeeps
<1>10. CASE Approve \/ Reject
  BY <1>10, DecidesKeep DEF Approve, Reject
<1> QED
  BY <1>0, <1>1, <1>2, <1>3, <1>4, <1>5, <1>6, <1>7, <1>8, <1>9, <1>10, FormKeeps DEF WorkNext

LEMMA WorkAlways == WorkSpec => [](WorkInv /\ OneField)
<1>1. WorkInv /\ OneField /\ [WorkNext]_workVars => (WorkInv /\ OneField)'
  BY NextWork, FieldNext
<1> QED
  BY <1>1, InitWork, PTL DEF WorkSpec

(* What is saved is what was entered, once: no entry of a list or of a form is *)
(* in two rows unless its command was given up; a bid or a review is there     *)
(* once; disputes, slots and saved searches are as many as allowed unless two  *)
(* requests were between their two steps at once (src/server.ts, and the       *)
(* screens that disable their button while they save).                         *)
THEOREM SavesAreEntered == WorkSpec => []SavedAsEntered
<1>1. ASSUME WorkInv PROVE SavedAsEntered
  <2>t. WorkTypes
    BY <1>1 DEF WorkInv
  <2>1. ASSUME Sole, NEW i \in Rows, NEW j \in Rows, i # j, kept[i] # Nil, kept[i] = kept[j]
        PROVE kept[i] \in lost
    <3> SUFFICES ASSUME kept[i] \notin lost PROVE FALSE
      OBVIOUS
    <3>1. kept[i] \in Words \ lost
      BY <2>t, <2>1 DEF WorkTypes, Sheets, Val
    <3>2. PICK e \in Words \ lost : e = kept[i]
      BY <3>1
    <3>3. InOneRow(e)
      BY <1>1, <2>1 DEF WorkInv, OneRow
    <3>4. Has(i, e) /\ Has(j, e)
      BY <2>1, <3>2 DEF Has
    <3> QED BY <2>1, <3>3, <3>4 DEF InOneRow
  <2>2. Count = Cardinality(Present(kept)) /\ Counts
    BY <1>1 DEF Count, WorkInv
  <2> QED BY <2>1, <2>2 DEF SavedAsEntered, Sole, Counts
<1> QED
  BY <1>1, WorkAlways, PTL

(* A page on which nothing is under way shows what the server has, however     *)
(* its commands and loads were interleaved, unless an error is shown or what   *)
(* it shows is known to be older (load() in the screens, which shows whatever  *)
(* answer comes last).                                                         *)
THEOREM PagesAreCurrent == WorkSpec => []PageCurrent
<1>1. ASSUME WorkInv PROVE PageCurrent
  <2> SUFFICES ASSUME page \notin Forms, \A g \in Gets : gets[g].pc = "idle", \A o \in Acts : ~Active(o), ~broken, ~off
               PROVE view = kept /\ seen = review.status
    BY DEF PageCurrent
  <2>t. WorkTypes /\ view \in Sheets /\ kept \in Sheets
    BY <1>1 DEF WorkInv, WorkTypes
  <2>1. asked = <<>> /\ ~busy
    <3> SUFFICES ASSUME asked # <<>> PROVE FALSE
      BY <1>1 DEF WorkInv, LoadsFit
    <3>1. asked \in Seq(Gets)
      BY <2>t DEF WorkTypes
    <3>2. 1 \in DOMAIN asked /\ asked[1] \in Gets
      BY <3>1
    <3> QED BY <1>1, <3>2 DEF WorkInv, LoadsFit
  <2>2. Still /\ Settled
    BY <2>1 DEF Still, Settled
  <2>3. \A o \in Acts : ~Served(act[o]) /\ \A i : ~OnRow(act[o], i)
    BY DEF Served, OnRow, Active
  <2>4. (\A i \in Rows : view[i] = kept[i]) => view = kept
    BY <2>t DEF Sheets
  <2>5. page # "docs" => seen = "NONE" /\ review.status = "NONE"
    BY <1>1 DEF WorkInv, PageFits
  <2>6. CASE Reloading
    BY <1>1, <2>2, <2>3, <2>6 DEF WorkInv, ShownCurrent
  <2>7. CASE page = "profile"
    <3>1. Near(view)
      BY <1>1, <2>2, <2>7 DEF WorkInv, FieldsCurrent
    <3> QED BY <2>3, <2>4, <2>5, <2>7, <3>1 DEF Near
  <2>8. CASE Immediate
    <3>1. \A i \in Rows : view[i] = kept[i]
      BY <1>1, <2>2, <2>3, <2>8 DEF WorkInv, HeartsCurrent
    <3>2. page # "docs"
      BY <2>8 DEF Immediate
    <3> QED BY <2>4, <2>5, <3>1, <3>2
  <2>9. page \in Pages
    <3>1. visit \in Visits
      BY <2>t DEF WorkTypes
    <3> QED BY <3>1, WorkspaceAssumption DEF page
  <2> QED BY <2>6, <2>7, <2>8, <2>9 DEF Pages, Reloading, Immediate
<1> QED
  BY <1>1, WorkAlways, PTL
=============================================================================
