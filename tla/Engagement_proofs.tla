-------------------------- MODULE Engagement_proofs --------------------------
(***************************************************************************)
(* Types of Engagement, and its two safety invariants, for any number of   *)
(* requests, jobs, appointments and slots.                                 *)
(*                                                                         *)
(* BoundedByRequests counts: whatever was checked and then written is      *)
(* charged to the request that checked it, and one request is charged once *)
(* at a time.  RatingCurrent follows a recomputation that is alone from    *)
(* its aggregate to its write.                                             *)
(***************************************************************************)
EXTENDS Engagement, FiniteSetTheorems, SequenceTheorems, TLAPS

N == Cardinality(Requests)

LEMMA CardinalityOfRequests ==
  /\ N \in Nat
  /\ \A S \in SUBSET Requests : IsFiniteSet(S) /\ Cardinality(S) \in Nat /\ Cardinality(S) <= N
BY EngagementAssumption, FS_Subset, FS_CardinalityType DEF N

----------------------------------------------------------------------------
(* Types *)

PCs == {"idle", "job", "hours", "conflict", "book", "cancel", "event", "cooldown", "ask",
        "APPROVED", "REJECTED", "find", "create", "update", "aggregate", "upsert"}
Averages == Nat \X Nat

Request == [pc : PCs, op : {"", "propose", "confirm", "contact"}, job : Jobs \cup {None},
            row : Appts \cup {None}, slot : Slots, user : Users, n : Nat, seen : Averages,
            alone : BOOLEAN]
Appointment == [status : ApptStatus, job : Jobs \cup {None}, slot : Slots, event : BOOLEAN]
Contact == [by : Users, status : ContactStatus, decisions : Nat]

(* What a request at each point carries *)
Carries(s) ==
    /\ s.pc \in {"job", "hours", "conflict", "book"} =>
          s.op \in {"propose", "confirm"} /\ s.row \in Appts
    /\ s.pc = "job" => s.op = "confirm"
    /\ s.op \in {"propose", "confirm"} => s.pc \in {"job", "hours", "conflict", "book"}
    /\ s.pc \in {"cancel", "event"} => s.row \in Appts
    /\ s.op = "contact" <=> s.pc \in {"cooldown", "ask"}
    /\ s.op = "contact" => s.job \in Jobs
    /\ s.pc \in {"APPROVED", "REJECTED"} => s.job \in Jobs
    /\ s.pc \in {"find", "create", "update"} => s.job \in Jobs /\ s.user \in Sides

PlacesOK == stage \in [Jobs -> Stages] /\ awarded \subseteq Jobs
BookingOK == hours \subseteq Slots /\ appt \in [Appts -> Appointment]
ExchangeOK == contact \in [Jobs -> Seq(Contact)] /\ cooling \subseteq Jobs \X Users
RatingOK == review \in [Jobs -> [Sides -> Nat]] /\ profile \in Averages /\ raced \in BOOLEAN
RequestsOK == req \in [Requests -> Request] /\ \A r \in Requests : Carries(req[r])
BoundsOK == failures \in 0..MaxFailures /\ mix \in Mixes

TypeOK == PlacesOK /\ BookingOK /\ ExchangeOK /\ RatingOK /\ RequestsOK /\ BoundsOK

LEMMA IdleType == Idle \in Request /\ Carries(Idle) /\ Idle.pc = "idle" /\ Idle.op = "" /\ Idle.row = None
<1>1. Idle.slot \in Slots
  BY EngagementAssumption DEF Idle
<1> QED
  BY <1>1 DEF Idle, Request, PCs, Averages, Users, Carries

LEMMA NoApptType == NoAppt \in Appointment
BY IdleType DEF NoAppt, Appointment, ApptStatus, Request

LEMMA AggregateType == Aggregate \in Averages
<1>1. ASSUME NEW S, S \subseteq Jobs PROVE Cardinality(S) \in Nat
  BY <1>1, EngagementAssumption, FS_Subset, FS_CardinalityType
<1>2. ASSUME NEW s PROVE AggregateOf(s) \in Averages
  <2>1. /\ Cardinality({j \in Jobs : s[j] # 0}) \in Nat
        /\ \A n \in 1..5 : Cardinality({j \in Jobs : s[j] = n}) \in Nat
    BY <1>1
  <2> DEFINE given(n) == Cardinality({j \in Jobs : s[j] = n})
  <2>2. given(1) \in Nat /\ given(2) \in Nat /\ given(3) \in Nat /\ given(4) \in Nat /\ given(5) \in Nat
    BY <2>1
  <2>3. AggregateOf(s) = <<Cardinality({j \in Jobs : s[j] # 0}),
                           given(1) + 2 * given(2) + 3 * given(3) + 4 * given(4) + 5 * given(5)>>
    BY DEF AggregateOf
  <2> HIDE DEF given
  <2> QED
    BY <2>1, <2>2, <2>3 DEF Averages
<1> QED
  BY <1>2 DEF Aggregate

LEMMA BecomeType ==
  ASSUME RequestsOK, NEW r \in Requests, NEW s \in Request, Carries(s), Become(r, s)
  PROVE  RequestsOK'
<1>1. req' \in [Requests -> Request] /\ \A q \in Requests : req'[q] = IF q = r THEN s ELSE req[q]
  BY DEF RequestsOK, Become
<1> QED
  BY <1>1 DEF RequestsOK

LEMMA EndType ==
  ASSUME RequestsOK, NEW r \in Requests, End(r)
  PROVE  RequestsOK'
BY IdleType, BecomeType DEF End

LEMMA GotoType ==
  ASSUME RequestsOK, NEW r \in Requests, NEW pc \in PCs, Goto(r, pc),
         Carries([req[r] EXCEPT !.pc = pc])
  PROVE  RequestsOK'
<1>1. [req[r] EXCEPT !.pc = pc] \in Request
  BY DEF RequestsOK, Request
<1> QED
  BY <1>1, BecomeType DEF Goto

LEMMA ReplaceType ==
  ASSUME NEW S, NEW s \in Seq(S), NEW i, NEW e, i \in 1..Len(s) => e \in S
  PROVE  [s EXCEPT ![i] = e] \in Seq(S)
<1>1. CASE i \in 1..Len(s)
  BY <1>1, ExceptSeq
<1>2. CASE i \notin 1..Len(s)
  <2>1. s \in [1..Len(s) -> S] /\ DOMAIN s = 1..Len(s)
    BY LenProperties
  <2>2. [s EXCEPT ![i] = e] = s
    BY <1>2, <2>1, Zenon
  <2> QED
    BY <2>2
<1> QED
  BY <1>1, <1>2

LEMMA DecidedType ==
  ASSUME NEW c \in Contact, NEW d \in ContactStatus
  PROVE  /\ Decided(c, d) \in Contact
         /\ Decided(c, d).status = d /\ Decided(c, d).decisions = c.decisions + 1
BY DEF Decided, Contact

LEMMA InitType == Init => TypeOK
<1> SUFFICES ASSUME Init PROVE TypeOK
  OBVIOUS
<1>1. PlacesOK
  BY DEF Init, PlacesOK, Stages
<1>2. BookingOK
  BY NoApptType DEF Init, BookingOK
<1>3. ExchangeOK
  BY DEF Init, ExchangeOK
<1>4. RatingOK
  BY DEF Init, RatingOK, Averages, Sides
<1>5. RequestsOK
  BY IdleType DEF Init, RequestsOK
<1>6. BoundsOK
  BY EngagementAssumption DEF Init, BoundsOK
<1> QED
  BY <1>1, <1>2, <1>3, <1>4, <1>5, <1>6 DEF TypeOK

LEMMA NextType == TypeOK /\ [Next]_vars => TypeOK'
<1> SUFFICES ASSUME TypeOK, [Next]_vars PROVE TypeOK'
  OBVIOUS
<1>t. PlacesOK /\ BookingOK /\ ExchangeOK /\ RatingOK /\ RequestsOK /\ BoundsOK
  BY DEF TypeOK
<1>r. \A r \in Requests : req[r] \in Request /\ Carries(req[r])
  BY <1>t DEF RequestsOK
<1> USE DEF vars, places, booking, exchange, rating
(* A step that writes nothing but its request *)
<1>only. ASSUME RequestsOK', UNCHANGED <<places, booking, exchange, rating, failures, mix>> PROVE TypeOK'
  BY <1>t, <1>only DEF TypeOK, PlacesOK, BookingOK, ExchangeOK, RatingOK, BoundsOK
<1>u. ASSUME UNCHANGED vars PROVE TypeOK'
  BY <1>u DEF TypeOK, PlacesOK, BookingOK, ExchangeOK, RatingOK, RequestsOK, BoundsOK
<1>1. ASSUME NEW j \in Jobs, JobMoves(j) PROVE TypeOK'
  <2>1. PlacesOK'
    <3>1. PICK s \in NextStages(stage[j]) : stage' = [stage EXCEPT ![j] = s]
      BY <1>1 DEF JobMoves
    <3>2. s \in Stages
      BY <1>t, <3>1 DEF NextStages, Stages, PlacesOK
    <3>3. awarded' \in {awarded, awarded \cup {j}}
      BY <1>1 DEF JobMoves
    <3> QED
      BY <1>t, <3>1, <3>2, <3>3 DEF PlacesOK
  <2> QED
    BY <1>t, <1>1, <2>1 DEF JobMoves, TypeOK, BookingOK, ExchangeOK, RatingOK, RequestsOK, BoundsOK
<1>2. ASSUME NEW j \in Jobs, NEW u \in Users, CooldownPasses(j, u) PROVE TypeOK'
  BY <1>t, <1>2 DEF CooldownPasses, TypeOK, PlacesOK, BookingOK, ExchangeOK, RatingOK, RequestsOK, BoundsOK
<1>3. ASSUME NEW S \in {{}, Slots}, PutAvailability(S) PROVE TypeOK'
  BY <1>t, <1>3 DEF PutAvailability, TypeOK, PlacesOK, BookingOK, ExchangeOK, RatingOK, RequestsOK, BoundsOK
<1>4. ASSUME NEW r \in Requests, NEW j \in Jobs, NEW a \in Appts, NEW s \in Slots, ProposeRead(r, j, a, s)
      PROVE  TypeOK'
  <2> DEFINE i == [Idle EXCEPT !.pc = "hours", !.op = "propose", !.job = j, !.row = a, !.slot = s]
  <2>1. i \in Request /\ Carries(i)
    BY IdleType DEF Request, PCs, Carries
  <2> QED
    BY <1>t, <1>4, <2>1, <1>only, BecomeType DEF ProposeRead
<1>5. ASSUME NEW r \in Requests, NEW a \in Appts, ConfirmRead(r, a) PROVE TypeOK'
  <2> DEFINE i == [Idle EXCEPT !.pc = "job", !.op = "confirm", !.job = appt[a].job, !.row = a,
                               !.slot = appt[a].slot]
  <2>1. appt[a] \in Appointment
    BY <1>t DEF BookingOK
  <2>2. i \in Request /\ Carries(i)
    BY <2>1, IdleType DEF Request, PCs, Appointment, Carries
  <2> QED
    BY <1>t, <1>5, <2>2, <1>only, BecomeType DEF ConfirmRead
(* A request that goes on to pc if a condition holds, or ends *)
<1>on. ASSUME NEW r \in Requests, NEW pc \in PCs, NEW cond, GoOnIf(r, cond, pc),
              Carries([req[r] EXCEPT !.pc = pc]),
              UNCHANGED <<places, booking, exchange, rating, failures, mix>>
       PROVE  TypeOK'
  <2>1. CASE cond
    BY <1>t, <1>on, <2>1, <1>only, GotoType DEF GoOnIf
  <2>2. CASE ~cond
    BY <1>t, <1>on, <2>2, <1>only, EndType DEF GoOnIf
  <2> QED
    BY <2>1, <2>2
<1>6. ASSUME NEW r \in Requests, ConfirmJob(r) PROVE TypeOK'
  <2>1. "hours" \in PCs /\ Carries([req[r] EXCEPT !.pc = "hours"])
    BY <1>r, <1>6 DEF ConfirmJob, At, Request, PCs, Carries
  <2> QED
    BY <1>6, <2>1, <1>on DEF ConfirmJob
<1>7. ASSUME NEW r \in Requests, HoursRead(r) PROVE TypeOK'
  <2>1. "conflict" \in PCs /\ Carries([req[r] EXCEPT !.pc = "conflict"])
    BY <1>r, <1>7 DEF HoursRead, At, Request, PCs, Carries
  <2> QED
    BY <1>7, <2>1, <1>on DEF HoursRead
<1>8. ASSUME NEW r \in Requests, ConflictRead(r) PROVE TypeOK'
  <2>1. "book" \in PCs /\ Carries([req[r] EXCEPT !.pc = "book"])
    BY <1>r, <1>8 DEF ConflictRead, At, Request, PCs, Carries
  <2> QED
    BY <1>8, <2>1, <1>on DEF ConflictRead
(* A step that ends its request and writes an appointment *)
<1>appt. ASSUME NEW r \in Requests, End(r), BookingOK',
                UNCHANGED <<places, exchange, rating, failures, mix>>
         PROVE  TypeOK'
  BY <1>t, <1>appt, EndType DEF TypeOK, PlacesOK, ExchangeOK, RatingOK, BoundsOK
<1>9. ASSUME NEW r \in Requests, Book(r) PROVE TypeOK'
  <2> DEFINE a == req[r].row
             new == [NoAppt EXCEPT !.status = "PROPOSED", !.job = req[r].job, !.slot = req[r].slot]
             same == [appt[a] EXCEPT !.status = "CONFIRMED"]
  <2>1. a \in Appts /\ req[r] \in Request
    BY <1>r, <1>9 DEF Book, At, Carries
  <2>2. new \in Appointment
    BY <2>1, NoApptType DEF Appointment, ApptStatus, Request
  <2>3. same \in Appointment
    BY <1>t, <2>1 DEF BookingOK, Appointment, ApptStatus
  <2>4. appt' \in {[appt EXCEPT ![a] = new], [appt EXCEPT ![a] = same]}
    BY <1>9 DEF Book
  <2> HIDE DEF a, new, same
  <2>5. BookingOK'
    BY <1>t, <1>9, <2>1, <2>2, <2>3, <2>4 DEF BookingOK, Book
  <2> QED
    BY <1>9, <2>5, <1>appt DEF Book
<1>10. ASSUME NEW r \in Requests, NEW a \in Appts, CancelRead(r, a) PROVE TypeOK'
  <2> DEFINE i == [Idle EXCEPT !.pc = "cancel", !.row = a]
  <2>1. i \in Request /\ Carries(i)
    BY IdleType DEF Request, PCs, Carries
  <2> QED
    BY <1>t, <1>10, <2>1, <1>only, BecomeType DEF CancelRead
<1>11. ASSUME NEW r \in Requests, CancelWrite(r) PROVE TypeOK'
  <2>1. BookingOK'
    BY <1>t, <1>11 DEF CancelWrite, BookingOK, Appointment, ApptStatus
  <2> QED
    BY <1>11, <2>1, <1>appt DEF CancelWrite
<1>12. ASSUME NEW r \in Requests, NEW a \in Appts, EventRead(r, a) PROVE TypeOK'
  <2> DEFINE i == [Idle EXCEPT !.pc = "event", !.row = a]
  <2>1. i \in Request /\ Carries(i)
    BY IdleType DEF Request, PCs, Carries
  <2> QED
    BY <1>t, <1>12, <2>1, <1>only, BecomeType DEF EventRead
<1>13. ASSUME NEW r \in Requests, EventWrite(r) PROVE TypeOK'
  <2>1. BookingOK'
    BY <1>t, <1>13 DEF EventWrite, BookingOK, Appointment
  <2> QED
    BY <1>13, <2>1, <1>appt DEF EventWrite
<1>14. ASSUME NEW r \in Requests, NEW j \in Jobs, NEW u \in Users, ContactFind(r, j, u) PROVE TypeOK'
  <2> DEFINE i == [Idle EXCEPT !.pc = "cooldown", !.op = "contact", !.job = j, !.user = u]
  <2>1. i \in Request /\ Carries(i)
    BY IdleType DEF Request, PCs, Carries
  <2> QED
    BY <1>t, <1>14, <2>1, <1>only, BecomeType DEF ContactFind
<1>15. ASSUME NEW r \in Requests, ContactCooldown(r) PROVE TypeOK'
  <2>1. "ask" \in PCs /\ Carries([req[r] EXCEPT !.pc = "ask"])
    BY <1>r, <1>15 DEF ContactCooldown, At, Request, PCs, Carries
  <2> QED
    BY <1>15, <2>1, <1>on DEF ContactCooldown
(* A step that ends its request and writes the exchange *)
<1>exch. ASSUME NEW r \in Requests, End(r), ExchangeOK',
                UNCHANGED <<places, booking, rating, failures, mix>>
         PROVE  TypeOK'
  BY <1>t, <1>exch, EndType DEF TypeOK, PlacesOK, BookingOK, RatingOK, BoundsOK
<1>16. ASSUME NEW r \in Requests, ContactCreate(r) PROVE TypeOK'
  <2> DEFINE new == [by |-> req[r].user, status |-> "PENDING", decisions |-> 0]
             j == req[r].job
  <2>1. j \in Jobs /\ new \in Contact /\ req[r].user \in Users
    BY <1>r, <1>16 DEF ContactCreate, At, Carries, Request, Contact, ContactStatus
  <2>2. contact' = [contact EXCEPT ![j] = Append(@, new)] /\ cooling' = cooling \cup {<<j, req[r].user>>}
    BY <1>16 DEF ContactCreate
  <2> HIDE DEF new, j
  <2>3. contact[j] \in Seq(Contact)
    BY <1>t, <2>1 DEF ExchangeOK
  <2>4. Append(contact[j], new) \in Seq(Contact)
    BY <2>1, <2>3
  <2>5. ExchangeOK'
    BY <1>t, <2>1, <2>2, <2>4 DEF ExchangeOK
  <2> QED
    BY <1>16, <2>5, <1>exch DEF ContactCreate
<1>17. ASSUME NEW r \in Requests, NEW j \in Jobs, NEW u \in Users, NEW d \in {"APPROVED", "REJECTED"},
              DecideFind(r, j, u, d)
       PROVE  TypeOK'
  <2>1. PICK i \in Decidable(j, u) : Become(r, [Idle EXCEPT !.pc = d, !.job = j, !.n = i])
    BY <1>17 DEF DecideFind
  <2>2. i \in Nat
    BY <1>t, <2>1 DEF Decidable, Pending, ExchangeOK
  <2> DEFINE s == [Idle EXCEPT !.pc = d, !.job = j, !.n = i]
  <2>3. s \in Request /\ Carries(s)
    BY <2>2, IdleType DEF Request, PCs, Carries
  <2> QED
    BY <1>t, <1>17, <2>1, <2>3, <1>only, BecomeType DEF DecideFind
<1>18. ASSUME NEW r \in Requests, DecideWrite(r) PROVE TypeOK'
  <2> DEFINE j == req[r].job
             i == req[r].n
  <2>1. j \in Jobs /\ contact[j] \in Seq(Contact) /\ req[r].pc \in {"APPROVED", "REJECTED"}
    BY <1>t, <1>r, <1>18 DEF DecideWrite, Carries, ExchangeOK
  <2>2. contact' = [contact EXCEPT ![j][i] = Decided(@, req[r].pc)]
    BY <1>18 DEF DecideWrite
  <2>3. ASSUME i \in 1..Len(contact[j]) PROVE Decided(contact[j][i], req[r].pc) \in Contact
    <3> HIDE DEF j, i
    <3>1. contact[j][i] \in Contact
      BY <2>1, <2>3
    <3>2. req[r].pc \in ContactStatus
      BY <2>1 DEF ContactStatus
    <3> QED
      BY <3>1, <3>2, DecidedType
  <2> HIDE DEF j, i
  <2>4. [contact[j] EXCEPT ![i] = Decided(contact[j][i], req[r].pc)] \in Seq(Contact)
    BY <2>1, <2>3, ReplaceType
  <2>5. contact' = [contact EXCEPT ![j] = [contact[j] EXCEPT ![i] = Decided(contact[j][i], req[r].pc)]]
    BY <2>2
  <2>6. ExchangeOK'
    BY <1>t, <1>18, <2>1, <2>4, <2>5 DEF ExchangeOK, DecideWrite
  <2> QED
    BY <1>18, <2>6, <1>exch DEF DecideWrite
<1>19. ASSUME NEW r \in Requests, NEW j \in Jobs, NEW side \in Sides, NEW n \in Ratings,
              ReviewRead(r, j, side, n)
       PROVE  TypeOK'
  <2> DEFINE i == [Idle EXCEPT !.pc = "find", !.job = j, !.user = side, !.n = n]
  <2>1. n \in Nat /\ side \in Users
    BY EngagementAssumption DEF Users
  <2>2. i \in Request /\ Carries(i)
    BY <2>1, IdleType DEF Request, PCs, Carries
  <2> QED
    BY <1>t, <1>19, <2>2, <1>only, BecomeType DEF ReviewRead
<1>20. ASSUME NEW r \in Requests, ReviewFind(r) PROVE TypeOK'
  <2>1. \A pc \in {"create", "update"} : pc \in PCs /\ Carries([req[r] EXCEPT !.pc = pc])
    BY <1>r, <1>20 DEF ReviewFind, At, Request, PCs, Carries
  <2>2. \E pc \in {"create", "update"} : Goto(r, pc)
    BY <1>20 DEF ReviewFind
  <2> QED
    BY <1>t, <1>20, <2>1, <2>2, <1>only, GotoType DEF ReviewFind
<1>21. ASSUME NEW r \in Requests, ReviewWrite(r) PROVE TypeOK'
  <2> DEFINE j == req[r].job
             side == req[r].user
  <2>1. j \in Jobs /\ side \in Sides /\ req[r].n \in Nat /\ req[r].pc \in {"create", "update"}
    BY <1>r, <1>21 DEF ReviewWrite, Carries, Request
  <2>2. review' \in {review, [review EXCEPT ![j][side] = req[r].n]}
    BY <1>21 DEF ReviewWrite
  <2>3. review' \in [Jobs -> [Sides -> Nat]]
    <3> HIDE DEF j, side
    <3> QED
      BY <1>t, <2>1, <2>2 DEF RatingOK
  <2>4. RequestsOK'
    <3>1. CASE End(r)
      BY <1>t, <3>1, EndType
    <3>2. CASE ~End(r)
      <4>1. PICK alone \in BOOLEAN : req' = [q \in Requests |->
                             IF q = r THEN [req[r] EXCEPT !.pc = "aggregate", !.alone = alone]
                             ELSE IF InWindow(q) THEN [req[q] EXCEPT !.alone = FALSE]
                             ELSE req[q]]
        BY <1>21, <3>2 DEF ReviewWrite
      <4>2. \A q \in Requests : [req[q] EXCEPT !.alone = FALSE] \in Request /\ Carries([req[q] EXCEPT !.alone = FALSE])
        BY <1>r DEF Request, Carries
      <4>3. /\ [req[r] EXCEPT !.pc = "aggregate", !.alone = alone] \in Request
            /\ Carries([req[r] EXCEPT !.pc = "aggregate", !.alone = alone])
        BY <1>r, <2>1 DEF Request, Carries, PCs
      <4> QED
        BY <1>r, <4>1, <4>2, <4>3 DEF RequestsOK
    <3> QED
      BY <3>1, <3>2
  <2> QED
    BY <1>t, <1>21, <2>3, <2>4 DEF ReviewWrite, TypeOK, PlacesOK, BookingOK, ExchangeOK, RatingOK, BoundsOK
<1>22. ASSUME NEW r \in Requests, AggregateRead(r) PROVE TypeOK'
  <2> DEFINE s == [req[r] EXCEPT !.pc = "upsert", !.seen = Aggregate]
  <2>1. s \in Request /\ Carries(s)
    BY <1>r, <1>22, AggregateType DEF AggregateRead, At, Request, Carries, PCs
  <2> QED
    BY <1>t, <1>22, <2>1, <1>only, BecomeType DEF AggregateRead
<1>23. ASSUME NEW r \in Requests, ProfileUpsert(r) PROVE TypeOK'
  <2>1. RatingOK'
    BY <1>t, <1>r, <1>23 DEF ProfileUpsert, RatingOK, Request
  <2> QED
    BY <1>t, <1>23, <2>1, EndType DEF ProfileUpsert, TypeOK, PlacesOK, BookingOK, ExchangeOK, BoundsOK
<1>24. ASSUME NEW r \in Requests, Fail(r) PROVE TypeOK'
  <2>1. failures' \in 0..MaxFailures
    BY <1>t, <1>24, EngagementAssumption DEF Fail, BoundsOK
  <2>2. raced' \in BOOLEAN
    BY <1>t, <1>24 DEF Fail, RatingOK, InWindow
  <2> QED
    BY <1>t, <1>24, <2>1, <2>2, EndType DEF Fail, TypeOK, PlacesOK, BookingOK, ExchangeOK, RatingOK, BoundsOK
<1> QED
  BY <1>u, <1>1, <1>2, <1>3, <1>4, <1>5, <1>6, <1>7, <1>8, <1>9, <1>10, <1>11, <1>12, <1>13, <1>14,
     <1>15, <1>16, <1>17, <1>18, <1>19, <1>20, <1>21, <1>22, <1>23, <1>24 DEF Next

(* Whatever the three kinds of requests do to each other, the rows of      *)
(* appointments, exchanges and reviews and what a request carries over its *)
(* awaits keep their types.                                                *)
THEOREM TypeCorrect == Spec => []TypeOK
BY InitType, NextType, PTL DEF Spec

----------------------------------------------------------------------------
(* Appointments *)

(* What a request over an appointment may count on: a row to be proposed   *)
(* is its own, any other is proposed already and keeps its slot.           *)
Standing(r) ==
    /\ req[r].op = "propose" => /\ appt[req[r].row].status = "NONE"
                                /\ \A q \in Requests \ {r} : req[q].row # req[r].row
    /\ req[r].op = "confirm" => /\ appt[req[r].row].status # "NONE"
                                /\ req[r].slot = appt[req[r].row].slot
    /\ req[r].pc \in {"cancel", "event"} => appt[req[r].row].status # "NONE"

Confirms(r, a) == req[r].pc = "book" /\ req[r].op = "confirm" /\ req[r].row = a

(* Confirmed, or about to be: the conflicts were checked *)
Holding == {a \in Appts : appt[a].status = "CONFIRMED" \/ \E r \in Requests : Confirms(r, a)}
Crowd(S) == \A a, b \in S : Overlap(appt[a].slot, appt[b].slot)

(* When one more is about to be confirmed, those that overlap it are not   *)
(* confirmed, so each of them has a request of its own.                    *)
Crowds == \A S \in SUBSET Holding : Crowd(S) => IsFiniteSet(S) /\ Cardinality(S) <= N

BookInv == (\A r \in Requests : Standing(r)) /\ Crowds

LEMMA CrowdsStay ==
  ASSUME Crowds, Holding' \subseteq Holding, \A a \in Holding' : appt'[a].slot = appt[a].slot
  PROVE  Crowds'
<1> SUFFICES ASSUME NEW S \in SUBSET Holding', Crowd(S)'
             PROVE  IsFiniteSet(S) /\ Cardinality(S) <= N
  BY DEF Crowds, N
<1>1. S \in SUBSET Holding /\ Crowd(S)
  BY DEF Crowd
<1> QED
  BY <1>1 DEF Crowds

(* From s to t: the request keeps its row, or has none. *)
Keeps(s, t) == /\ t.row = s.row /\ t.op = s.op /\ t.slot = s.slot
               /\ t.pc \in {"cancel", "event"} => t.pc = s.pc
               /\ t.pc = "book" /\ t.op = "confirm" => t.pc = s.pc
Drops(t) == t.row = None /\ t.op \notin {"propose", "confirm"} /\ t.pc \notin {"cancel", "event"}

LEMMA IdleDrops == Drops(Idle)
BY IdleType DEF Drops

LEMMA RowsApart ==
  ASSUME TypeOK, NEW r \in Requests, req[r].op \in {"propose", "confirm"} \/ req[r].pc \in {"cancel", "event"}
  PROVE  req[r].row \in Appts /\ req[r].row # None
BY EngagementAssumption DEF TypeOK, RequestsOK, Carries

(* Appointments stand still, and so do the requests about them. *)
LEMMA BookQuiet ==
  ASSUME TypeOK, BookInv, appt' = appt,
         \A q \in Requests : Keeps(req[q], req'[q]) \/ Drops(req'[q])
  PROVE  BookInv'
<1>1. ASSUME NEW r \in Requests PROVE Standing(r)'
  <2>1. CASE Drops(req'[r])
    BY <2>1 DEF Drops, Standing
  <2>2. CASE Keeps(req[r], req'[r])
    <3>1. Standing(r)
      BY DEF BookInv
    <3>2. ASSUME req'[r].op = "propose", NEW q \in Requests \ {r} PROVE req'[q].row # req'[r].row
      <4>1. req[r].row # None /\ req[q].row # req[r].row
        BY <2>2, <3>1, <3>2, RowsApart DEF Keeps, Standing
      <4> QED
        BY <2>2, <4>1 DEF Keeps, Drops
    <3> QED
      BY <2>2, <3>1, <3>2 DEF Keeps, Standing
  <2> QED
    BY <2>1, <2>2
<1>2. Holding' \subseteq Holding
  BY DEF Holding, Confirms, Keeps, Drops
<1>3. Crowds'
  BY <1>2, CrowdsStay DEF BookInv
<1> QED
  BY <1>1, <1>3 DEF BookInv

(* A request takes up row a, without being about to confirm it. *)
LEMMA BookStarts ==
  ASSUME TypeOK, BookInv, NEW r \in Requests, NEW s, NEW a \in Appts, At(r, "idle"), Become(r, s),
         s.row = a, s.pc # "book", appt' = appt,
         \A q \in Requests : req[q].op = "propose" => req[q].row # a,
         s.op = "propose" => appt[a].status = "NONE" /\ \A q \in Requests : req[q].row # a,
         s.op = "confirm" => appt[a].status # "NONE" /\ s.slot = appt[a].slot,
         s.pc \in {"cancel", "event"} => appt[a].status # "NONE"
  PROVE  BookInv'
<1>t. req \in [Requests -> Request]
  BY DEF TypeOK, RequestsOK
<1>1. req'[r] = s /\ \A q \in Requests \ {r} : req'[q] = req[q]
  BY <1>t DEF Become
<1>2. Standing(r)'
  BY <1>1 DEF Standing
<1>3. ASSUME NEW q \in Requests \ {r} PROVE Standing(q)'
  <2>1. Standing(q)
    BY DEF BookInv
  <2> QED
    BY <1>1, <2>1 DEF Standing
<1>4. Holding' \subseteq Holding
  BY <1>1 DEF Holding, Confirms
<1>5. Crowds'
  BY <1>4, CrowdsStay DEF BookInv
<1> QED
  BY <1>2, <1>3, <1>5 DEF BookInv

(* The request ends with a write to its row, which keeps its slot, and is  *)
(* not confirmed unless the conflicts were checked.                        *)
LEMMA BookWrites ==
  ASSUME TypeOK, BookInv, NEW r \in Requests, End(r), NEW a \in Appts, req[r].row = a,
         req[r].op # "propose", appt[a].status # "NONE",
         \A b \in Appts \ {a} : appt'[b] = appt[b],
         appt'[a].slot = appt[a].slot, appt'[a].status # "NONE",
         appt'[a].status = "CONFIRMED" => a \in Holding
  PROVE  BookInv'
<1>t. req \in [Requests -> Request]
  BY DEF TypeOK, RequestsOK
<1>1. req'[r] = Idle /\ \A q \in Requests \ {r} : req'[q] = req[q]
  BY <1>t DEF End, Become
<1>2. Standing(r)'
  BY <1>1, IdleType DEF Standing
<1>3. ASSUME NEW q \in Requests \ {r} PROVE Standing(q)'
  <2>1. Standing(q) /\ Standing(r)
    BY DEF BookInv
  <2>2. req[q].op = "propose" => req[q].row # a /\ req[q].row \in Appts /\ Idle.row # req[q].row
    BY <2>1, RowsApart, IdleType DEF Standing
  <2>3. req[q].op = "confirm" \/ req[q].pc \in {"cancel", "event"} => req[q].row \in Appts
    BY RowsApart
  <2> QED
    BY <1>1, <2>1, <2>2, <2>3 DEF Standing
<1>4. Holding' \subseteq Holding
  BY <1>1, IdleType DEF Holding, Confirms
<1>5. \A b \in Holding' : appt'[b].slot = appt[b].slot
  BY DEF Holding
<1>6. Crowds'
  BY <1>4, <1>5, CrowdsStay DEF BookInv
<1> QED
  BY <1>2, <1>3, <1>6 DEF BookInv

LEMMA OverlapSymmetric ==
  ASSUME NEW s \in Slots, NEW t \in Slots, Overlap(s, t)
  PROVE  Overlap(t, s)
<1>1. s \in Nat \X Nat /\ t \in Nat \X Nat
  BY EngagementAssumption
<1> QED
  BY <1>1 DEF Overlap

(* The check for conflicts passes. *)
LEMMA BookChecked ==
  ASSUME TypeOK, BookInv, NEW r \in Requests, At(r, "conflict"), Goto(r, "book"), appt' = appt,
         ~Conflict(req[r].row, req[r].slot)
  PROVE  BookInv'
<1>t. req \in [Requests -> Request] /\ appt \in [Appts -> Appointment]
  BY DEF TypeOK, RequestsOK, BookingOK
<1> DEFINE a == req[r].row
<1>1. /\ req'[r].pc = "book" /\ req'[r].op = req[r].op /\ req'[r].row = req[r].row
      /\ req'[r].slot = req[r].slot
      /\ \A q \in Requests \ {r} : req'[q] = req[q]
  BY <1>t DEF Goto, Become, Request
<1>2. \A q \in Requests : Standing(q)
  BY DEF BookInv
<1>3. ASSUME NEW q \in Requests PROVE Standing(q)'
  BY <1>1, <1>2 DEF Standing
<1>4. CASE req[r].op # "confirm"
  <2>1. Holding' \subseteq Holding
    BY <1>1, <1>4 DEF Holding, Confirms
  <2> QED
    BY <1>3, <2>1, CrowdsStay DEF BookInv
<1>5. CASE req[r].op = "confirm"
  <2>1. a \in Appts /\ req[r].slot = appt[a].slot
    BY <1>2, <1>5, RowsApart DEF Standing
  <2>2. Holding' \subseteq Holding \cup {a}
    BY <1>1 DEF Holding, Confirms
  <2>3. ASSUME NEW S \in SUBSET Holding', Crowd(S)' PROVE IsFiniteSet(S) /\ Cardinality(S) <= N
    <3>1. Crowd(S) /\ S \subseteq Appts
      BY <2>3 DEF Crowd, Holding
    <3>2. CASE a \notin S
      BY <2>2, <3>1, <3>2 DEF BookInv, Crowds
    <3>3. CASE a \in S
      <4>1. ASSUME NEW b \in S \ {a} PROVE \E q \in Requests \ {r} : Confirms(q, b)
        <5>1. b \in Appts /\ Overlap(appt[b].slot, appt[a].slot)
          BY <3>1, <3>3 DEF Crowd
        <5>2. appt[b].status # "CONFIRMED"
          BY <2>1, <5>1 DEF Conflict
        <5>3. PICK q \in Requests : Confirms(q, b)
          BY <2>2, <5>2 DEF Holding
        <5>4. q # r
          BY <5>3 DEF Confirms
        <5> QED
          BY <5>3, <5>4
      <4> DEFINE f == [b \in S |-> IF b = a THEN r ELSE CHOOSE q \in Requests \ {r} : Confirms(q, b)]
      <4>2. \A b \in S \ {a} : f[b] \in Requests \ {r} /\ Confirms(f[b], b)
        BY <4>1
      <4>3. f[a] = r
        BY <3>3
      <4>4. f \in [S -> Requests]
        BY <4>2
      <4> HIDE DEF f
      <4>5. ASSUME NEW b \in S, NEW c \in S, f[b] = f[c] PROVE b = c
        BY <4>2, <4>3, <4>5 DEF Confirms
      <4>6. f \in Injection(S, Requests)
        BY <4>4, <4>5 DEF Injection, IsInjective
      <4> QED
        BY <4>6, EngagementAssumption, FS_Injection DEF N
    <3> QED
      BY <3>2, <3>3
  <2>4. Crowds'
    BY <2>3 DEF Crowds, N
  <2> QED
    BY <1>3, <2>4 DEF BookInv
<1> QED
  BY <1>4, <1>5

LEMMA InitBook == Init => BookInv
<1> SUFFICES ASSUME Init PROVE BookInv
  OBVIOUS
<1>1. \A r \in Requests : req[r] = Idle
  BY DEF Init
<1>2. \A r \in Requests : Standing(r)
  BY <1>1, IdleType DEF Standing
<1>3. Holding = {}
  BY <1>1, IdleType DEF Init, Holding, Confirms, NoAppt
<1>4. Crowds
  <2>1. Cardinality({}) <= N
    BY CardinalityOfRequests, FS_EmptySet
  <2> QED
    BY <1>3, <2>1, FS_EmptySet DEF Crowds
<1> QED
  BY <1>2, <1>4 DEF BookInv

LEMMA NextBook == TypeOK /\ BookInv /\ [Next]_vars => BookInv'
<1> SUFFICES ASSUME TypeOK, BookInv, [Next]_vars PROVE BookInv'
  OBVIOUS
<1>t. req \in [Requests -> Request] /\ appt \in [Appts -> Appointment] /\ \A r \in Requests : Carries(req[r])
  BY DEF TypeOK, RequestsOK, BookingOK
<1>s. \A r \in Requests : Standing(r)
  BY DEF BookInv
<1> USE DEF vars, places, booking, exchange, rating
<1>same. ASSUME UNCHANGED <<appt, req>> PROVE BookInv'
  <2>1. \A q \in Requests : Keeps(req[q], req'[q])
    BY <1>same DEF Keeps
  <2> QED
    BY <1>same, <2>1, BookQuiet
<1>one. ASSUME NEW r \in Requests, NEW s, Become(r, s), appt' = appt, Keeps(req[r], s) \/ Drops(s)
        PROVE  BookInv'
  <2>1. \A q \in Requests : Keeps(req[q], req'[q]) \/ Drops(req'[q])
    BY <1>t, <1>one DEF Become, Keeps
  <2> QED
    BY <1>one, <2>1, BookQuiet
<1>end. ASSUME NEW r \in Requests, End(r), appt' = appt PROVE BookInv'
  BY <1>end, <1>one, IdleDrops DEF End
<1>goto. ASSUME NEW r \in Requests, NEW pc, Goto(r, pc), appt' = appt, pc \notin {"cancel", "event", "book"}
         PROVE  BookInv'
  <2>1. Keeps(req[r], [req[r] EXCEPT !.pc = pc])
    BY <1>t, <1>goto DEF Keeps, Request
  <2> QED
    BY <1>goto, <2>1, <1>one DEF Goto
<1>u. ASSUME UNCHANGED vars PROVE BookInv'
  BY <1>u, <1>same
<1>1. ASSUME NEW j \in Jobs, JobMoves(j) PROVE BookInv'
  BY <1>1, <1>same DEF JobMoves
<1>2. ASSUME NEW j \in Jobs, NEW u \in Users, CooldownPasses(j, u) PROVE BookInv'
  BY <1>2, <1>same DEF CooldownPasses
<1>3. ASSUME NEW S \in {{}, Slots}, PutAvailability(S) PROVE BookInv'
  BY <1>3, <1>same DEF PutAvailability
<1>4. ASSUME NEW r \in Requests, NEW j \in Jobs, NEW a \in Appts, NEW s \in Slots, ProposeRead(r, j, a, s)
      PROVE  BookInv'
  <2> DEFINE i == [Idle EXCEPT !.pc = "hours", !.op = "propose", !.job = j, !.row = a, !.slot = s]
  <2>1. i.row = a /\ i.pc = "hours" /\ i.op = "propose"
    BY DEF Idle
  <2> QED
    BY <1>4, <2>1, BookStarts DEF ProposeRead
<1>5. ASSUME NEW r \in Requests, NEW a \in Appts, ConfirmRead(r, a) PROVE BookInv'
  <2> DEFINE i == [Idle EXCEPT !.pc = "job", !.op = "confirm", !.job = appt[a].job, !.row = a,
                               !.slot = appt[a].slot]
  <2>1. i.row = a /\ i.pc = "job" /\ i.op = "confirm" /\ i.slot = appt[a].slot
    BY DEF Idle
  <2>2. \A q \in Requests : req[q].op = "propose" => req[q].row # a
    BY <1>5, <1>s DEF ConfirmRead, Standing
  <2> QED
    BY <1>5, <2>1, <2>2, BookStarts DEF ConfirmRead
<1>6. ASSUME NEW r \in Requests, ConfirmJob(r) PROVE BookInv'
  BY <1>6, <1>goto, <1>end DEF ConfirmJob, GoOnIf
<1>7. ASSUME NEW r \in Requests, HoursRead(r) PROVE BookInv'
  BY <1>7, <1>goto, <1>end DEF HoursRead, GoOnIf
<1>8. ASSUME NEW r \in Requests, ConflictRead(r) PROVE BookInv'
  BY <1>8, BookChecked, <1>end DEF ConflictRead, GoOnIf
<1>9. ASSUME NEW r \in Requests, Book(r) PROVE BookInv'
  <2>0. req[r].row \in Appts /\ req[r].op \in {"propose", "confirm"}
    BY <1>t, <1>9 DEF Book, At, Carries
  <2>1. PICK a \in Appts : req[r].row = a
    BY <2>0
  <2>2. CASE req[r].op = "confirm"
    <3>1. appt' = [appt EXCEPT ![a] = [appt[a] EXCEPT !.status = "CONFIRMED"]]
      BY <1>9, <2>1, <2>2 DEF Book
    <3>2. appt[a].status # "NONE" /\ a \in Holding
      BY <1>9, <1>s, <2>1, <2>2 DEF Book, At, Standing, Holding, Confirms
    <3>3. appt'[a].slot = appt[a].slot /\ appt'[a].status = "CONFIRMED" /\ \A b \in Appts \ {a} : appt'[b] = appt[b]
      BY <1>t, <2>1, <3>1 DEF Appointment
    <3>4. End(r)
      BY <1>9 DEF Book
    <3> QED
      BY <2>1, <2>2, <3>2, <3>3, <3>4, BookWrites
  <2>3. CASE req[r].op = "propose"
    <3>1. appt' = [appt EXCEPT ![a] = [NoAppt EXCEPT !.status = "PROPOSED", !.job = req[r].job, !.slot = req[r].slot]]
      BY <1>9, <2>1, <2>3 DEF Book
    <3>2. appt[a].status = "NONE" /\ \A q \in Requests \ {r} : req[q].row # a
      BY <1>s, <2>1, <2>3 DEF Standing
    <3>3. appt'[a].status = "PROPOSED" /\ \A b \in Appts \ {a} : appt'[b] = appt[b]
      BY <1>t, <2>1, <3>1 DEF NoAppt
    <3>4. req'[r] = Idle /\ \A q \in Requests \ {r} : req'[q] = req[q]
      BY <1>t, <1>9 DEF Book, End, Become
    <3>5. ASSUME NEW q \in Requests PROVE Standing(q)'
      <4>1. CASE q = r
        BY <3>4, <4>1, IdleType DEF Standing
      <4>2. CASE q # r
        <5>1. Standing(q) /\ req[q].row # a
          BY <1>s, <3>2, <4>2
        <5>2. req[q].op \in {"propose", "confirm"} \/ req[q].pc \in {"cancel", "event"}
                => req[q].row \in Appts /\ req[q].row # None
          BY RowsApart
        <5> QED
          BY <3>3, <3>4, <4>2, <5>1, <5>2, IdleType DEF Standing
      <4> QED
        BY <4>1, <4>2
    <3>6. Holding' \subseteq Holding
      BY <3>3, <3>4, IdleType DEF Holding, Confirms
    <3>7. a \notin Holding'
      <4>1. \A q \in Requests : ~Confirms(q, a)'
        BY <3>2, <3>4, IdleType DEF Confirms
      <4> QED
        BY <3>3, <4>1 DEF Holding
    <3>8. Crowds'
      BY <3>3, <3>6, <3>7, CrowdsStay DEF BookInv, Holding
    <3> QED
      BY <3>5, <3>8 DEF BookInv
  <2> QED
    BY <2>0, <2>2, <2>3
<1>10. ASSUME NEW r \in Requests, NEW a \in Appts, CancelRead(r, a) PROVE BookInv'
  <2> DEFINE i == [Idle EXCEPT !.pc = "cancel", !.row = a]
  <2>1. i.row = a /\ i.pc = "cancel" /\ i.op = ""
    BY DEF Idle
  <2>2. \A q \in Requests : req[q].op = "propose" => req[q].row # a
    BY <1>10, <1>s DEF CancelRead, Standing
  <2> QED
    BY <1>10, <2>1, <2>2, BookStarts DEF CancelRead
<1>write. ASSUME NEW r \in Requests, req[r].pc \in {"cancel", "event"}
          PROVE  req[r].row \in Appts /\ req[r].op # "propose" /\ appt[req[r].row].status # "NONE"
  BY <1>t, <1>s, <1>write DEF Carries, Standing
<1>11. ASSUME NEW r \in Requests, CancelWrite(r) PROVE BookInv'
  <2> DEFINE a == req[r].row
  <2>1. a \in Appts /\ req[r].op # "propose" /\ appt[a].status # "NONE"
    BY <1>11, <1>write DEF CancelWrite, At
  <2>2. appt' = [appt EXCEPT ![a].status = "CANCELLED"] /\ End(r)
    BY <1>11 DEF CancelWrite
  <2> HIDE DEF a
  <2>3. appt'[a].slot = appt[a].slot /\ appt'[a].status = "CANCELLED" /\ \A b \in Appts \ {a} : appt'[b] = appt[b]
    BY <1>t, <2>1, <2>2 DEF Appointment
  <2> QED
    BY <2>1, <2>2, <2>3, BookWrites DEF a
<1>12. ASSUME NEW r \in Requests, NEW a \in Appts, EventRead(r, a) PROVE BookInv'
  <2> DEFINE i == [Idle EXCEPT !.pc = "event", !.row = a]
  <2>1. i.row = a /\ i.pc = "event" /\ i.op = ""
    BY DEF Idle
  <2>2. \A q \in Requests : req[q].op = "propose" => req[q].row # a
    BY <1>12, <1>s DEF EventRead, Standing
  <2> QED
    BY <1>12, <2>1, <2>2, BookStarts DEF EventRead
<1>13. ASSUME NEW r \in Requests, EventWrite(r) PROVE BookInv'
  <2> DEFINE a == req[r].row
  <2>1. a \in Appts /\ req[r].op # "propose" /\ appt[a].status # "NONE"
    BY <1>13, <1>write DEF EventWrite, At
  <2>2. appt' = [appt EXCEPT ![a].event = TRUE] /\ End(r)
    BY <1>13 DEF EventWrite
  <2> HIDE DEF a
  <2>3. appt'[a].slot = appt[a].slot /\ appt'[a].status = appt[a].status /\ \A b \in Appts \ {a} : appt'[b] = appt[b]
    BY <1>t, <2>1, <2>2 DEF Appointment
  <2>4. appt'[a].status = "CONFIRMED" => a \in Holding
    BY <2>1, <2>3 DEF Holding
  <2> QED
    BY <2>1, <2>2, <2>3, <2>4, BookWrites DEF a
<1>14. ASSUME NEW r \in Requests, NEW j \in Jobs, NEW u \in Users, ContactFind(r, j, u) PROVE BookInv'
  <2>1. Drops([Idle EXCEPT !.pc = "cooldown", !.op = "contact", !.job = j, !.user = u])
    BY DEF Idle, Drops
  <2> QED
    BY <1>14, <2>1, <1>one DEF ContactFind
<1>15. ASSUME NEW r \in Requests, ContactCooldown(r) PROVE BookInv'
  BY <1>15, <1>goto, <1>end DEF ContactCooldown, GoOnIf
<1>16. ASSUME NEW r \in Requests, ContactCreate(r) PROVE BookInv'
  BY <1>16, <1>end DEF ContactCreate
<1>17. ASSUME NEW r \in Requests, NEW j \in Jobs, NEW u \in Users, NEW d \in {"APPROVED", "REJECTED"},
              DecideFind(r, j, u, d)
       PROVE  BookInv'
  <2>1. PICK n : Become(r, [Idle EXCEPT !.pc = d, !.job = j, !.n = n])
    BY <1>17 DEF DecideFind
  <2>2. Drops([Idle EXCEPT !.pc = d, !.job = j, !.n = n])
    BY DEF Idle, Drops
  <2> QED
    BY <1>17, <2>1, <2>2, <1>one DEF DecideFind
<1>18. ASSUME NEW r \in Requests, DecideWrite(r) PROVE BookInv'
  BY <1>18, <1>end DEF DecideWrite
<1>19. ASSUME NEW r \in Requests, NEW j \in Jobs, NEW side \in Sides, NEW n \in Ratings,
              ReviewRead(r, j, side, n)
       PROVE  BookInv'
  <2>1. Drops([Idle EXCEPT !.pc = "find", !.job = j, !.user = side, !.n = n])
    BY DEF Idle, Drops
  <2> QED
    BY <1>19, <2>1, <1>one DEF ReviewRead
<1>20. ASSUME NEW r \in Requests, ReviewFind(r) PROVE BookInv'
  BY <1>20, <1>goto DEF ReviewFind
<1>21. ASSUME NEW r \in Requests, ReviewWrite(r) PROVE BookInv'
  <2>1. CASE End(r)
    BY <1>21, <2>1, <1>end DEF ReviewWrite
  <2>2. CASE ~End(r)
    <3>1. PICK alone \in BOOLEAN : req' = [q \in Requests |->
                             IF q = r THEN [req[r] EXCEPT !.pc = "aggregate", !.alone = alone]
                             ELSE IF InWindow(q) THEN [req[q] EXCEPT !.alone = FALSE]
                             ELSE req[q]]
      BY <1>21, <2>2 DEF ReviewWrite
    <3>2. \A q \in Requests : Keeps(req[q], req'[q])
      BY <1>t, <3>1 DEF Keeps, Request
    <3> QED
      BY <1>21, <3>2, BookQuiet DEF ReviewWrite
  <2> QED
    BY <2>1, <2>2
<1>22. ASSUME NEW r \in Requests, AggregateRead(r) PROVE BookInv'
  <2>1. Keeps(req[r], [req[r] EXCEPT !.pc = "upsert", !.seen = Aggregate])
    BY <1>t DEF Keeps, Request
  <2> QED
    BY <1>22, <2>1, <1>one DEF AggregateRead
<1>23. ASSUME NEW r \in Requests, ProfileUpsert(r) PROVE BookInv'
  BY <1>23, <1>end DEF ProfileUpsert
<1>24. ASSUME NEW r \in Requests, Fail(r) PROVE BookInv'
  BY <1>24, <1>end DEF Fail
<1> QED
  BY <1>u, <1>1, <1>2, <1>3, <1>4, <1>5, <1>6, <1>7, <1>8, <1>9, <1>10, <1>11, <1>12, <1>13, <1>14,
     <1>15, <1>16, <1>17, <1>18, <1>19, <1>20, <1>21, <1>22, <1>23, <1>24 DEF Next

----------------------------------------------------------------------------
(* Exchange of contact data *)

Decisions == {"APPROVED", "REJECTED"}
Deciding(j, i) == {r \in Requests : req[r].pc \in Decisions /\ req[r].job = j /\ req[r].n = i}

(* Whoever asks has found nothing pending, and whoever decides has found   *)
(* the row pending, that is undecided; both are counted until they write.  *)
Asked(j) == Cardinality(Pending(j)) + Cardinality(Creating(j)) <= N
Decidedly(j, i) == /\ contact[j][i].decisions + Cardinality(Deciding(j, i)) <= N
                   /\ contact[j][i].status = "PENDING" => contact[j][i].decisions = 0

ContactInv == \A j \in Jobs : Asked(j) /\ \A i \in 1..Len(contact[j]) : Decidedly(j, i)

LEMMA ContactTypes ==
  ASSUME TypeOK, NEW j \in Jobs
  PROVE  /\ contact[j] \in Seq(Contact) /\ DOMAIN contact[j] = 1..Len(contact[j]) /\ Len(contact[j]) \in Nat
         /\ \A i \in 1..Len(contact[j]) : contact[j][i] \in Contact /\ contact[j][i].decisions \in Nat
         /\ Pending(j) \subseteq 1..Len(contact[j])
         /\ IsFiniteSet(Pending(j)) /\ Cardinality(Pending(j)) \in Nat
<1>1. contact[j] \in Seq(Contact)
  BY DEF TypeOK, ExchangeOK
<1>2. DOMAIN contact[j] = 1..Len(contact[j]) /\ Len(contact[j]) \in Nat
  BY <1>1
<1>3. ASSUME NEW i \in 1..Len(contact[j]) PROVE contact[j][i] \in Contact /\ contact[j][i].decisions \in Nat
  <2>1. contact[j][i] \in Contact
    BY <1>1, ElementOfSeq
  <2> QED
    BY <2>1 DEF Contact
<1>4. Pending(j) \subseteq 1..Len(contact[j])
  BY <1>2 DEF Pending
<1>5. IsFiniteSet(1..Len(contact[j]))
  BY <1>2, FS_Interval
<1> QED
  BY <1>1, <1>2, <1>3, <1>4, <1>5, FS_Subset, FS_CardinalityType

LEMMA ContactTypesNext ==
  ASSUME TypeOK', NEW j \in Jobs
  PROVE  IsFiniteSet(Pending(j)') /\ Cardinality(Pending(j)') \in Nat
<1>1. contact'[j] \in Seq(Contact)
  BY DEF TypeOK, ExchangeOK
<1>2. DOMAIN contact'[j] = 1..Len(contact'[j]) /\ Len(contact'[j]) \in Nat
  BY <1>1
<1>3. Pending(j)' \subseteq 1..Len(contact'[j]) /\ IsFiniteSet(1..Len(contact'[j]))
  BY <1>2, FS_Interval DEF Pending
<1> QED
  BY <1>3, FS_Subset, FS_CardinalityType

LEMMA RequestSets ==
  ASSUME NEW j, NEW i
  PROVE  /\ Creating(j) \subseteq Requests /\ Deciding(j, i) \subseteq Requests
         /\ Creating(j)' \subseteq Requests /\ Deciding(j, i)' \subseteq Requests
         /\ \A S \in SUBSET Requests : \A T \in SUBSET S :
               IsFiniteSet(S) /\ IsFiniteSet(T) /\ Cardinality(S) \in Nat /\ Cardinality(T) \in Nat
               /\ Cardinality(T) <= Cardinality(S) /\ Cardinality(S) <= N
<1>1. ASSUME NEW S \in SUBSET Requests, NEW T \in SUBSET S
      PROVE  IsFiniteSet(S) /\ IsFiniteSet(T) /\ Cardinality(S) \in Nat /\ Cardinality(T) \in Nat
             /\ Cardinality(T) <= Cardinality(S) /\ Cardinality(S) <= N
  <2>1. T \in SUBSET Requests
    OBVIOUS
  <2> QED
    BY <2>1, CardinalityOfRequests, FS_Subset
<1> QED
  BY <1>1 DEF Creating, Deciding

(* From s to t: the request neither comes to ask nor to decide. *)
Narrows(s, t) == /\ t.op = "contact" => s.op = "contact" /\ t.job = s.job
                 /\ t.pc \in Decisions => s.pc \in Decisions /\ t.job = s.job /\ t.n = s.n

LEMMA IdleNarrows == \A s : Narrows(s, Idle)
BY DEF Narrows, Idle, Decisions

LEMMA AskedStays ==
  ASSUME NEW j \in Jobs, TypeOK, TypeOK', Asked(j), Pending(j)' \subseteq Pending(j),
         Creating(j)' \subseteq Creating(j)
  PROVE  Asked(j)'
<1>1. Cardinality(Pending(j)') <= Cardinality(Pending(j)) /\ Cardinality(Pending(j)') \in Nat
  BY ContactTypes, ContactTypesNext, FS_Subset
<1>2. Cardinality(Creating(j)') <= Cardinality(Creating(j)) /\ Cardinality(Creating(j)') \in Nat
  BY RequestSets
<1>3. N \in Nat /\ Cardinality(Pending(j)) \in Nat /\ Cardinality(Creating(j)) \in Nat
  BY ContactTypes, RequestSets, CardinalityOfRequests
<1> HIDE DEF N
<1> QED
  BY <1>1, <1>2, <1>3 DEF Asked, N

LEMMA DecidedlyStays ==
  ASSUME NEW j \in Jobs, NEW i \in 1..Len(contact[j]), TypeOK, Decidedly(j, i),
         contact'[j][i] = contact[j][i], Deciding(j, i)' \subseteq Deciding(j, i)
  PROVE  Decidedly(j, i)'
<1>1. Cardinality(Deciding(j, i)') <= Cardinality(Deciding(j, i)) /\ Cardinality(Deciding(j, i)') \in Nat
  BY RequestSets
<1>2. N \in Nat /\ contact[j][i].decisions \in Nat /\ Cardinality(Deciding(j, i)) \in Nat
  BY ContactTypes, RequestSets, CardinalityOfRequests
<1> QED
  BY <1>1, <1>2 DEF Decidedly, N

LEMMA ContactQuiet ==
  ASSUME TypeOK, TypeOK', ContactInv, contact' = contact, \A q \in Requests : Narrows(req[q], req'[q])
  PROVE  ContactInv'
<1> SUFFICES ASSUME NEW j \in Jobs PROVE Asked(j)' /\ \A i \in 1..Len(contact[j]) : Decidedly(j, i)'
  BY DEF ContactInv
<1>1. Asked(j)'
  <2>1. Pending(j)' = Pending(j) /\ Creating(j)' \subseteq Creating(j)
    BY DEF Pending, Creating, Narrows
  <2> QED
    BY <2>1, AskedStays DEF ContactInv
<1>2. ASSUME NEW i \in 1..Len(contact[j]) PROVE Decidedly(j, i)'
  <2>1. Deciding(j, i)' \subseteq Deciding(j, i)
    BY DEF Deciding, Narrows
  <2> QED
    BY <2>1, DecidedlyStays DEF ContactInv
<1> QED
  BY <1>1, <1>2

LEMMA InitContact == Init => ContactInv
<1> SUFFICES ASSUME Init, NEW j \in Jobs PROVE Asked(j) /\ \A i \in 1..Len(contact[j]) : Decidedly(j, i)
  BY DEF ContactInv
<1>1. Len(contact[j]) = 0 /\ Pending(j) = {}
  BY DEF Init, Pending
<1>2. Creating(j) = {}
  BY IdleType DEF Init, Creating
<1>3. Cardinality({}) = 0 /\ N \in Nat
  BY FS_EmptySet, CardinalityOfRequests
<1> HIDE DEF N
<1> QED
  BY <1>1, <1>2, <1>3 DEF Asked

LEMMA ContactAsks ==
  ASSUME TypeOK, TypeOK', ContactInv, NEW r \in Requests, NEW j \in Jobs, NEW u \in Users,
         ContactFind(r, j, u)
  PROVE  ContactInv'
<1> USE DEF places, booking, exchange, rating
<1>t. req \in [Requests -> Request]
  BY DEF TypeOK, RequestsOK
<1> DEFINE s == [Idle EXCEPT !.pc = "cooldown", !.op = "contact", !.job = j, !.user = u]
<1>1. s.pc = "cooldown" /\ s.op = "contact" /\ s.job = j /\ Become(r, s) /\ contact' = contact
  BY DEF ContactFind, Idle
<1> HIDE DEF s
<1>2. req'[r] = s /\ \A q \in Requests \ {r} : req'[q] = req[q]
  BY <1>t, <1>1 DEF Become
<1> SUFFICES ASSUME NEW k \in Jobs PROVE Asked(k)' /\ \A i \in 1..Len(contact[k]) : Decidedly(k, i)'
  BY <1>1 DEF ContactInv
<1>3. ASSUME NEW i \in 1..Len(contact[k]) PROVE Decidedly(k, i)'
  <2>1. Deciding(k, i)' \subseteq Deciding(k, i)
    BY <1>1, <1>2 DEF Deciding, Decisions
  <2> QED
    BY <1>1, <2>1, DecidedlyStays DEF ContactInv
<1>4. CASE k # j
  <2>1. Pending(k)' = Pending(k) /\ Creating(k)' \subseteq Creating(k)
    BY <1>1, <1>2, <1>4 DEF Pending, Creating
  <2> QED
    BY <1>3, <2>1, AskedStays DEF ContactInv
<1>5. CASE k = j
  <2>1. Pending(k)' = {}
    BY <1>1, <1>5 DEF ContactFind, Free, Pending
  <2>2. Cardinality(Creating(k)') \in Nat /\ Cardinality(Creating(k)') <= N /\ N \in Nat
    BY RequestSets, CardinalityOfRequests
  <2>3. Cardinality(Pending(k)') = 0
    BY <2>1, FS_EmptySet
  <2> QED
    BY <1>3, <2>2, <2>3 DEF Asked, N
<1> QED
  BY <1>4, <1>5

LEMMA ContactCreates ==
  ASSUME TypeOK, TypeOK', ContactInv, NEW r \in Requests, ContactCreate(r)
  PROVE  ContactInv'
<1>t. req \in [Requests -> Request] /\ contact \in [Jobs -> Seq(Contact)] /\ Carries(req[r])
  BY DEF TypeOK, RequestsOK, ExchangeOK
<1> DEFINE new == [by |-> req[r].user, status |-> "PENDING", decisions |-> 0]
<1>0. req[r].op = "contact" /\ req[r].job \in Jobs /\ new \in Contact
  BY <1>t DEF ContactCreate, At, Carries, Request, Contact, ContactStatus
<1>1. PICK j \in Jobs : req[r].job = j
  BY <1>0
<1>2. contact' = [contact EXCEPT ![j] = Append(@, new)] /\ End(r)
  BY <1>1 DEF ContactCreate
<1>3. req'[r] = Idle /\ \A q \in Requests \ {r} : req'[q] = req[q]
  BY <1>t, <1>2 DEF End, Become
<1>4. new.status = "PENDING" /\ new.decisions = 0
  OBVIOUS
<1>len. PICK len : len = Len(contact[j]) + 1
  OBVIOUS
<1>5. /\ contact[j] \in Seq(Contact) /\ contact'[j] = Append(contact[j], new)
      /\ \A k \in Jobs \ {j} : contact'[k] = contact[k]
  BY <1>t, <1>2
<1> HIDE DEF new
<1>6. /\ DOMAIN contact'[j] = 1..len /\ Len(contact'[j]) = len /\ contact'[j][len] = new
      /\ \A i \in 1..Len(contact[j]) : contact'[j][i] = contact[j][i]
      /\ 1..len = 1..Len(contact[j]) \cup {len} /\ len \notin 1..Len(contact[j])
  BY <1>0, <1>5, <1>len
<1> SUFFICES ASSUME NEW k \in Jobs PROVE Asked(k)' /\ \A i \in 1..Len(contact'[k]) : Decidedly(k, i)'
  BY DEF ContactInv
<1>7. ASSUME NEW i \in 1..Len(contact[k]), contact'[k][i] = contact[k][i] PROVE Decidedly(k, i)'
  <2>1. Deciding(k, i)' \subseteq Deciding(k, i)
    BY <1>3, IdleType DEF Deciding, Decisions
  <2> QED
    BY <1>7, <2>1, DecidedlyStays DEF ContactInv
<1>8. CASE k # j
  <2>1. Pending(k)' = Pending(k) /\ Creating(k)' \subseteq Creating(k)
    BY <1>3, <1>5, <1>8, IdleType DEF Pending, Creating
  <2>2. Asked(k)'
    BY <2>1, AskedStays DEF ContactInv
  <2> QED
    BY <1>5, <1>7, <1>8, <2>2
<1>9. CASE k = j
  <2>1. Pending(k)' = Pending(k) \cup {len} /\ len \notin Pending(k)
    BY <1>4, <1>6, <1>9, ContactTypes DEF Pending
  <2>2. Creating(k)' = Creating(k) \ {r} /\ r \in Creating(k)
    BY <1>0, <1>1, <1>3, <1>9, IdleType DEF Creating
  <2>3. Cardinality(Pending(k)') = Cardinality(Pending(k)) + 1
    BY <2>1, ContactTypes, FS_AddElement
  <2>4. Cardinality(Creating(k)') = Cardinality(Creating(k)) - 1
    BY <2>2, RequestSets, FS_RemoveElement
  <2>5. Cardinality(Pending(k)) \in Nat /\ Cardinality(Creating(k)) \in Nat /\ N \in Nat
    BY ContactTypes, RequestSets, CardinalityOfRequests
  <2>6. Asked(k)'
    BY <2>3, <2>4, <2>5 DEF ContactInv, Asked, N
  <2>7. Decidedly(k, len)'
    <3>1. Cardinality(Deciding(k, len)') \in Nat /\ Cardinality(Deciding(k, len)') <= N
      BY RequestSets
    <3>2. contact'[k][len].decisions = 0 /\ contact'[k][len].status = "PENDING"
      BY <1>4, <1>6, <1>9
    <3> QED
      BY <3>1, <3>2 DEF Decidedly, N
  <2> QED
    BY <1>6, <1>7, <1>9, <2>6, <2>7
<1> QED
  BY <1>8, <1>9

LEMMA ContactFound ==
  ASSUME TypeOK, TypeOK', ContactInv, NEW r \in Requests, NEW j \in Jobs, NEW u \in Users,
         NEW d \in Decisions, DecideFind(r, j, u, d)
  PROVE  ContactInv'
<1> USE DEF places, booking, exchange, rating
<1>t. req \in [Requests -> Request]
  BY DEF TypeOK, RequestsOK
<1>0. PICK n \in Pending(j) : Become(r, [Idle EXCEPT !.pc = d, !.job = j, !.n = n])
  BY DEF DecideFind, Decidable
<1> DEFINE s == [Idle EXCEPT !.pc = d, !.job = j, !.n = n]
<1>1. s.op = "" /\ s.job = j /\ s.n = n /\ Become(r, s) /\ contact' = contact
  BY <1>0 DEF DecideFind, Idle
<1> HIDE DEF s
<1>2. req'[r] = s /\ \A q \in Requests \ {r} : req'[q] = req[q]
  BY <1>t, <1>1 DEF Become
<1> SUFFICES ASSUME NEW k \in Jobs PROVE Asked(k)' /\ \A i \in 1..Len(contact[k]) : Decidedly(k, i)'
  BY <1>1 DEF ContactInv
<1>3. Asked(k)'
  <2>1. Pending(k)' = Pending(k) /\ Creating(k)' \subseteq Creating(k)
    BY <1>1, <1>2 DEF Pending, Creating
  <2> QED
    BY <2>1, AskedStays DEF ContactInv
<1>4. ASSUME NEW i \in 1..Len(contact[k]) PROVE Decidedly(k, i)'
  <2>1. CASE k = j /\ i = n
    <3>1. contact[k][i].decisions = 0
      BY <2>1 DEF ContactInv, Decidedly, Pending
    <3>2. Cardinality(Deciding(k, i)') \in Nat /\ Cardinality(Deciding(k, i)') <= N
      BY RequestSets
    <3>3. contact'[k][i].decisions = 0
      BY <1>1, <3>1
    <3>4. contact'[k][i].decisions + Cardinality(Deciding(k, i)') <= N
      BY <3>2, <3>3
    <3> QED
      BY <3>3, <3>4 DEF Decidedly, N
  <2>2. CASE ~(k = j /\ i = n)
    <3>1. Deciding(k, i)' \subseteq Deciding(k, i)
      BY <1>1, <1>2, <2>2 DEF Deciding
    <3> QED
      BY <1>1, <3>1, DecidedlyStays DEF ContactInv
  <2> QED
    BY <2>1, <2>2
<1> QED
  BY <1>3, <1>4

LEMMA ContactDecides ==
  ASSUME TypeOK, TypeOK', ContactInv, NEW r \in Requests, DecideWrite(r)
  PROVE  ContactInv'
<1>t. req \in [Requests -> Request] /\ contact \in [Jobs -> Seq(Contact)] /\ Carries(req[r])
  BY DEF TypeOK, RequestsOK, ExchangeOK
<1>0. PICK n : req[r].n = n
  OBVIOUS
<1>1. PICK j \in Jobs, d \in Decisions : req[r].job = j /\ req[r].n = n /\ req[r].pc = d
  BY <1>t, <1>0 DEF DecideWrite, Carries, Decisions
<1>2. contact' = [contact EXCEPT ![j] = [contact[j] EXCEPT ![n] = Decided(contact[j][n], d)]] /\ End(r)
  BY <1>1 DEF DecideWrite
<1>3. req'[r] = Idle /\ \A q \in Requests \ {r} : req'[q] = req[q]
  BY <1>t, <1>2 DEF End, Become
<1>4. /\ contact[j] \in Seq(Contact) /\ contact'[j] = [contact[j] EXCEPT ![n] = Decided(contact[j][n], d)]
      /\ \A k \in Jobs \ {j} : contact'[k] = contact[k]
  BY <1>t, <1>2
<1>5. /\ DOMAIN contact'[j] = DOMAIN contact[j] /\ Len(contact'[j]) = Len(contact[j])
      /\ \A i \in 1..Len(contact[j]) :
            contact'[j][i] = IF i = n THEN Decided(contact[j][n], d) ELSE contact[j][i]
  <2>1. DOMAIN contact[j] = 1..Len(contact[j]) /\ Len(contact[j]) \in Nat
    BY <1>4, LenProperties
  <2>2. DOMAIN contact'[j] = DOMAIN contact[j]
    BY <1>4
  <2>3. contact'[j] \in Seq(Contact)
    BY DEF TypeOK, ExchangeOK
  <2>4. Len(contact'[j]) = Len(contact[j])
    BY <2>1, <2>2, <2>3, LenProperties
  <2> QED
    BY <1>4, <2>1, <2>2, <2>4
<1>6. n \in 1..Len(contact[j]) => /\ Decided(contact[j][n], d).status # "PENDING"
                                  /\ Decided(contact[j][n], d).decisions = contact[j][n].decisions + 1
  BY DEF Decided, Decisions
<1> SUFFICES ASSUME NEW k \in Jobs PROVE Asked(k)' /\ \A i \in 1..Len(contact[k]) : Decidedly(k, i)'
  BY <1>4, <1>5 DEF ContactInv
<1>7. Asked(k)'
  <2>1. Creating(k)' \subseteq Creating(k)
    BY <1>3, IdleType DEF Creating
  <2>2. Pending(k)' \subseteq Pending(k)
    <3>1. CASE k = j
      BY <1>5, <1>6, <3>1, ContactTypes DEF Pending
    <3>2. CASE k # j
      BY <1>4, <3>2 DEF Pending
    <3> QED
      BY <3>1, <3>2
  <2> QED
    BY <2>1, <2>2, AskedStays DEF ContactInv
<1>8. ASSUME NEW i \in 1..Len(contact[k]) PROVE Decidedly(k, i)'
  <2>1. CASE k = j /\ i = n
    <3>1. Deciding(k, i)' = Deciding(k, i) \ {r} /\ r \in Deciding(k, i)
      BY <1>1, <1>3, <2>1, IdleType DEF Deciding, Decisions
    <3>2. Cardinality(Deciding(k, i)') = Cardinality(Deciding(k, i)) - 1
      BY <3>1, RequestSets, FS_RemoveElement
    <3>3. Cardinality(Deciding(k, i)) \in Nat /\ N \in Nat /\ contact[k][i].decisions \in Nat
      BY RequestSets, CardinalityOfRequests, ContactTypes
    <3>4. contact'[k][i].decisions = contact[k][i].decisions + 1 /\ contact'[k][i].status # "PENDING"
      BY <1>5, <1>6, <2>1
    <3>5. contact[k][i].decisions + Cardinality(Deciding(k, i)) <= N
      BY DEF ContactInv, Decidedly
    <3> QED
      BY <3>2, <3>3, <3>4, <3>5 DEF Decidedly, N
  <2>2. CASE ~(k = j /\ i = n)
    <3>1. Deciding(k, i)' \subseteq Deciding(k, i)
      BY <1>3, IdleType DEF Deciding, Decisions
    <3>2. contact'[k][i] = contact[k][i]
      BY <1>4, <1>5, <2>2
    <3> QED
      BY <3>1, <3>2, DecidedlyStays DEF ContactInv
  <2> QED
    BY <2>1, <2>2
<1> QED
  BY <1>7, <1>8

LEMMA NextContact == TypeOK /\ TypeOK' /\ ContactInv /\ [Next]_vars => ContactInv'
<1> SUFFICES ASSUME TypeOK, TypeOK', ContactInv, [Next]_vars PROVE ContactInv'
  OBVIOUS
<1>t. req \in [Requests -> Request]
  BY DEF TypeOK, RequestsOK
<1> USE DEF vars, places, booking, exchange, rating
<1>same. ASSUME UNCHANGED <<contact, req>> PROVE ContactInv'
  <2>1. \A q \in Requests : Narrows(req[q], req'[q])
    BY <1>same DEF Narrows
  <2> QED
    BY <1>same, <2>1, ContactQuiet
<1>one. ASSUME NEW r \in Requests, NEW s, Become(r, s), contact' = contact, Narrows(req[r], s)
        PROVE  ContactInv'
  <2>1. \A q \in Requests : Narrows(req[q], req'[q])
    BY <1>t, <1>one DEF Become, Narrows
  <2> QED
    BY <1>one, <2>1, ContactQuiet
<1>end. ASSUME NEW r \in Requests, End(r), contact' = contact PROVE ContactInv'
  BY <1>end, <1>one, IdleNarrows DEF End
<1>goto. ASSUME NEW r \in Requests, NEW pc, Goto(r, pc), contact' = contact, pc \notin Decisions
         PROVE  ContactInv'
  <2>1. Narrows(req[r], [req[r] EXCEPT !.pc = pc])
    BY <1>t, <1>goto DEF Narrows, Request
  <2> QED
    BY <1>goto, <2>1, <1>one DEF Goto
<1>u. ASSUME UNCHANGED vars PROVE ContactInv'
  BY <1>u, <1>same
<1>1. ASSUME NEW j \in Jobs, JobMoves(j) PROVE ContactInv'
  BY <1>1, <1>same DEF JobMoves
<1>2. ASSUME NEW j \in Jobs, NEW u \in Users, CooldownPasses(j, u) PROVE ContactInv'
  BY <1>2, <1>same DEF CooldownPasses
<1>3. ASSUME NEW S \in {{}, Slots}, PutAvailability(S) PROVE ContactInv'
  BY <1>3, <1>same DEF PutAvailability
<1>4. ASSUME NEW r \in Requests, NEW j \in Jobs, NEW a \in Appts, NEW s \in Slots, ProposeRead(r, j, a, s)
      PROVE  ContactInv'
  <2>1. Narrows(req[r], [Idle EXCEPT !.pc = "hours", !.op = "propose", !.job = j, !.row = a, !.slot = s])
    BY DEF Narrows, Decisions, Idle
  <2> QED
    BY <1>4, <2>1, <1>one DEF ProposeRead
<1>5. ASSUME NEW r \in Requests, NEW a \in Appts, ConfirmRead(r, a) PROVE ContactInv'
  <2>1. Narrows(req[r], [Idle EXCEPT !.pc = "job", !.op = "confirm", !.job = appt[a].job, !.row = a,
                                     !.slot = appt[a].slot])
    BY DEF Narrows, Decisions, Idle
  <2> QED
    BY <1>5, <2>1, <1>one DEF ConfirmRead
<1>6. ASSUME NEW r \in Requests, ConfirmJob(r) PROVE ContactInv'
  BY <1>6, <1>goto, <1>end DEF ConfirmJob, GoOnIf, Decisions
<1>7. ASSUME NEW r \in Requests, HoursRead(r) PROVE ContactInv'
  BY <1>7, <1>goto, <1>end DEF HoursRead, GoOnIf, Decisions
<1>8. ASSUME NEW r \in Requests, ConflictRead(r) PROVE ContactInv'
  BY <1>8, <1>goto, <1>end DEF ConflictRead, GoOnIf, Decisions
<1>9. ASSUME NEW r \in Requests, Book(r) PROVE ContactInv'
  BY <1>9, <1>end DEF Book
<1>10. ASSUME NEW r \in Requests, NEW a \in Appts, CancelRead(r, a) PROVE ContactInv'
  <2>1. Narrows(req[r], [Idle EXCEPT !.pc = "cancel", !.row = a])
    BY DEF Narrows, Decisions, Idle
  <2> QED
    BY <1>10, <2>1, <1>one DEF CancelRead
<1>11. ASSUME NEW r \in Requests, CancelWrite(r) PROVE ContactInv'
  BY <1>11, <1>end DEF CancelWrite
<1>12. ASSUME NEW r \in Requests, NEW a \in Appts, EventRead(r, a) PROVE ContactInv'
  <2>1. Narrows(req[r], [Idle EXCEPT !.pc = "event", !.row = a])
    BY DEF Narrows, Decisions, Idle
  <2> QED
    BY <1>12, <2>1, <1>one DEF EventRead
<1>13. ASSUME NEW r \in Requests, EventWrite(r) PROVE ContactInv'
  BY <1>13, <1>end DEF EventWrite
<1>14. ASSUME NEW r \in Requests, NEW j \in Jobs, NEW u \in Users, ContactFind(r, j, u) PROVE ContactInv'
  BY <1>14, ContactAsks
<1>15. ASSUME NEW r \in Requests, ContactCooldown(r) PROVE ContactInv'
  BY <1>15, <1>goto, <1>end DEF ContactCooldown, GoOnIf, Decisions
<1>16. ASSUME NEW r \in Requests, ContactCreate(r) PROVE ContactInv'
  BY <1>16, ContactCreates
<1>17. ASSUME NEW r \in Requests, NEW j \in Jobs, NEW u \in Users, NEW d \in {"APPROVED", "REJECTED"},
              DecideFind(r, j, u, d)
       PROVE  ContactInv'
  BY <1>17, ContactFound DEF Decisions
<1>18. ASSUME NEW r \in Requests, DecideWrite(r) PROVE ContactInv'
  BY <1>18, ContactDecides
<1>19. ASSUME NEW r \in Requests, NEW j \in Jobs, NEW side \in Sides, NEW n \in Ratings,
              ReviewRead(r, j, side, n)
       PROVE  ContactInv'
  <2>1. Narrows(req[r], [Idle EXCEPT !.pc = "find", !.job = j, !.user = side, !.n = n])
    BY DEF Narrows, Decisions, Idle
  <2> QED
    BY <1>19, <2>1, <1>one DEF ReviewRead
<1>20. ASSUME NEW r \in Requests, ReviewFind(r) PROVE ContactInv'
  BY <1>20, <1>goto DEF ReviewFind, Decisions
<1>21. ASSUME NEW r \in Requests, ReviewWrite(r) PROVE ContactInv'
  <2>1. CASE End(r)
    BY <1>21, <2>1, <1>end DEF ReviewWrite
  <2>2. CASE ~End(r)
    <3>1. PICK alone \in BOOLEAN : req' = [q \in Requests |->
                             IF q = r THEN [req[r] EXCEPT !.pc = "aggregate", !.alone = alone]
                             ELSE IF InWindow(q) THEN [req[q] EXCEPT !.alone = FALSE]
                             ELSE req[q]]
      BY <1>21, <2>2 DEF ReviewWrite
    <3>2. \A q \in Requests : Narrows(req[q], req'[q])
      BY <1>t, <3>1 DEF Narrows, Request, Decisions
    <3> QED
      BY <1>21, <3>2, ContactQuiet DEF ReviewWrite
  <2> QED
    BY <2>1, <2>2
<1>22. ASSUME NEW r \in Requests, AggregateRead(r) PROVE ContactInv'
  <2>1. Narrows(req[r], [req[r] EXCEPT !.pc = "upsert", !.seen = Aggregate])
    BY <1>t DEF Narrows, Request, Decisions
  <2> QED
    BY <1>22, <2>1, <1>one DEF AggregateRead
<1>23. ASSUME NEW r \in Requests, ProfileUpsert(r) PROVE ContactInv'
  BY <1>23, <1>end DEF ProfileUpsert
<1>24. ASSUME NEW r \in Requests, Fail(r) PROVE ContactInv'
  BY <1>24, <1>end DEF Fail
<1> QED
  BY <1>u, <1>1, <1>2, <1>3, <1>4, <1>5, <1>6, <1>7, <1>8, <1>9, <1>10, <1>11, <1>12, <1>13, <1>14,
     <1>15, <1>16, <1>17, <1>18, <1>19, <1>20, <1>21, <1>22, <1>23, <1>24 DEF Next

(* For any number of requests, slots and appointments: of the appointments *)
(* confirmed for a provider as many overlap each other as requests were in *)
(* flight at once, and as many requests for contact data are pending for a *)
(* job, or decide the same one (confirm in src/server.ts,                  *)
(* routes/contactExchange.ts).                                             *)
THEOREM RacesAreBounded == Spec => []BoundedByRequests
<1>1. TypeOK /\ BookInv /\ ContactInv => BoundedByRequests
  <2> SUFFICES ASSUME TypeOK, BookInv, ContactInv PROVE BookingsBounded /\ ContactBounded
    BY DEF BoundedByRequests
  <2>1. BookingsBounded
    <3>1. {a \in Appts : appt[a].status = "CONFIRMED"} \subseteq Holding
      BY DEF Holding
    <3> QED
      BY <3>1 DEF BookInv, Crowds, Crowd, BookingsBounded, N
  <2>2. ContactBounded
    <3> SUFFICES ASSUME NEW j \in Jobs
                 PROVE  /\ Cardinality(Pending(j)) <= N
                        /\ \A i \in 1..Len(contact[j]) : contact[j][i].decisions <= N
      BY ContactTypes DEF ContactBounded, N
    <3>1. Cardinality(Pending(j)) \in Nat /\ Cardinality(Creating(j)) \in Nat /\ N \in Nat
      BY ContactTypes, RequestSets, CardinalityOfRequests
    <3>2. Cardinality(Pending(j)) <= N
      BY <3>1 DEF ContactInv, Asked
    <3>3. ASSUME NEW i \in 1..Len(contact[j]) PROVE contact[j][i].decisions <= N
      <4>1. contact[j][i].decisions \in Nat /\ Cardinality(Deciding(j, i)) \in Nat
        BY ContactTypes, RequestSets
      <4> QED
        BY <3>1, <4>1 DEF ContactInv, Decidedly
    <3> QED
      BY <3>2, <3>3
  <2> QED
    BY <2>1, <2>2
<1> QED
  BY InitType, NextType, InitBook, NextBook, InitContact, NextContact, <1>1, PTL DEF Spec

----------------------------------------------------------------------------
(* The rating *)

(* A recomputation that is alone has seen the reviews as they are, for     *)
(* whoever writes another one joins it and takes that mark away.           *)
Alone(r) == InWindow(r) /\ req[r].alone

RatingInv ==
    /\ \A r \in Requests : Alone(r) => /\ \A q \in Requests \ {r} : ~InWindow(q)
                                       /\ At(r, "upsert") => req[r].seen = Aggregate
    /\ RatingCurrent

(* Nothing about the rating and its recomputations changes. *)
LEMMA RatingQuiet ==
  ASSUME RatingInv, UNCHANGED <<profile, raced, Aggregate>>,
         \A q \in Requests : req'[q] = req[q] \/ (~InWindow(q) /\ ~InWindow(q)')
  PROVE  RatingInv'
<1>1. \A q \in Requests : InWindow(q)' <=> InWindow(q)
  BY DEF InWindow
<1>2. \A q \in Requests : Alone(q)' => Alone(q) /\ req'[q] = req[q]
  BY <1>1 DEF Alone
<1>3. RatingCurrent'
  BY <1>1 DEF RatingInv, RatingCurrent
<1> QED
  BY <1>1, <1>2, <1>3 DEF RatingInv, At

LEMMA InitRating == Init => RatingInv
<1> SUFFICES ASSUME Init PROVE RatingInv
  OBVIOUS
<1>1. \A r \in Requests : ~InWindow(r)
  BY IdleType DEF Init, InWindow
<1>2. profile = Aggregate
  <2> DEFINE stars == [j \in Jobs |-> review[j]["consumer"]]
             given(n) == Cardinality({j \in Jobs : stars[j] = n})
  <2>1. \A j \in Jobs : stars[j] = 0
    BY DEF Init, Sides
  <2>2. ASSUME NEW n \in 1..5 PROVE given(n) = 0
    <3>1. {j \in Jobs : stars[j] = n} = {}
      BY <2>1
    <3> QED
      BY <3>1, FS_EmptySet
  <2>3. Cardinality({j \in Jobs : stars[j] # 0}) = 0
    BY <2>1, FS_EmptySet
  <2>4. Aggregate = <<Cardinality({j \in Jobs : stars[j] # 0}),
                      given(1) + 2 * given(2) + 3 * given(3) + 4 * given(4) + 5 * given(5)>>
    BY DEF Aggregate, AggregateOf
  <2>5. given(1) = 0 /\ given(2) = 0 /\ given(3) = 0 /\ given(4) = 0 /\ given(5) = 0
    BY <2>2
  <2> HIDE DEF given, stars
  <2> QED
    BY <2>3, <2>4, <2>5 DEF Init
<1> QED
  BY <1>1, <1>2 DEF RatingInv, Alone, RatingCurrent

LEMMA NextRating == TypeOK /\ RatingInv /\ [Next]_vars => RatingInv'
<1> SUFFICES ASSUME TypeOK, RatingInv, [Next]_vars PROVE RatingInv'
  OBVIOUS
<1>t. req \in [Requests -> Request] /\ review \in [Jobs -> [Sides -> Nat]] /\ \A r \in Requests : Carries(req[r])
  BY DEF TypeOK, RequestsOK, RatingOK
<1> USE DEF vars, places, booking, exchange, rating
<1>same. ASSUME UNCHANGED <<review, profile, raced, req>> PROVE RatingInv'
  BY <1>same, RatingQuiet DEF Aggregate
<1>one. ASSUME NEW r \in Requests, NEW s, Become(r, s), UNCHANGED <<review, profile, raced>>,
               ~InWindow(r), s.pc \notin {"aggregate", "upsert"}
        PROVE  RatingInv'
  BY <1>t, <1>one, RatingQuiet DEF Become, InWindow, Aggregate
<1>end. ASSUME NEW r \in Requests, End(r), UNCHANGED <<review, profile, raced>>, ~InWindow(r)
        PROVE  RatingInv'
  BY <1>end, <1>one, IdleType DEF End
<1>goto. ASSUME NEW r \in Requests, NEW pc, Goto(r, pc), UNCHANGED <<review, profile, raced>>,
                ~InWindow(r), pc \notin {"aggregate", "upsert"}
         PROVE  RatingInv'
  <2>1. [req[r] EXCEPT !.pc = pc].pc = pc
    BY <1>t DEF Request
  <2> QED
    BY <1>goto, <2>1, <1>one DEF Goto
<1>u. ASSUME UNCHANGED vars PROVE RatingInv'
  BY <1>u, <1>same
<1>1. ASSUME NEW j \in Jobs, JobMoves(j) PROVE RatingInv'
  BY <1>1, <1>same DEF JobMoves
<1>2. ASSUME NEW j \in Jobs, NEW u \in Users, CooldownPasses(j, u) PROVE RatingInv'
  BY <1>2, <1>same DEF CooldownPasses
<1>3. ASSUME NEW S \in {{}, Slots}, PutAvailability(S) PROVE RatingInv'
  BY <1>3, <1>same DEF PutAvailability
<1>4. ASSUME NEW r \in Requests, NEW j \in Jobs, NEW a \in Appts, NEW s \in Slots, ProposeRead(r, j, a, s)
      PROVE  RatingInv'
  BY <1>4, <1>one DEF ProposeRead, At, InWindow, Idle
<1>5. ASSUME NEW r \in Requests, NEW a \in Appts, ConfirmRead(r, a) PROVE RatingInv'
  BY <1>5, <1>one DEF ConfirmRead, At, InWindow, Idle
<1>6. ASSUME NEW r \in Requests, ConfirmJob(r) PROVE RatingInv'
  BY <1>6, <1>goto, <1>end DEF ConfirmJob, GoOnIf, At, InWindow
<1>7. ASSUME NEW r \in Requests, HoursRead(r) PROVE RatingInv'
  BY <1>7, <1>goto, <1>end DEF HoursRead, GoOnIf, At, InWindow
<1>8. ASSUME NEW r \in Requests, ConflictRead(r) PROVE RatingInv'
  BY <1>8, <1>goto, <1>end DEF ConflictRead, GoOnIf, At, InWindow
<1>9. ASSUME NEW r \in Requests, Book(r) PROVE RatingInv'
  BY <1>9, <1>end DEF Book, At, InWindow
<1>10. ASSUME NEW r \in Requests, NEW a \in Appts, CancelRead(r, a) PROVE RatingInv'
  BY <1>10, <1>one DEF CancelRead, At, InWindow, Idle
<1>11. ASSUME NEW r \in Requests, CancelWrite(r) PROVE RatingInv'
  BY <1>11, <1>end DEF CancelWrite, At, InWindow
<1>12. ASSUME NEW r \in Requests, NEW a \in Appts, EventRead(r, a) PROVE RatingInv'
  BY <1>12, <1>one DEF EventRead, At, InWindow, Idle
<1>13. ASSUME NEW r \in Requests, EventWrite(r) PROVE RatingInv'
  BY <1>13, <1>end DEF EventWrite, At, InWindow
<1>14. ASSUME NEW r \in Requests, NEW j \in Jobs, NEW u \in Users, ContactFind(r, j, u) PROVE RatingInv'
  BY <1>14, <1>one DEF ContactFind, At, InWindow, Idle
<1>15. ASSUME NEW r \in Requests, ContactCooldown(r) PROVE RatingInv'
  BY <1>15, <1>goto, <1>end DEF ContactCooldown, GoOnIf, At, InWindow
<1>16. ASSUME NEW r \in Requests, ContactCreate(r) PROVE RatingInv'
  BY <1>16, <1>end DEF ContactCreate, At, InWindow
<1>17. ASSUME NEW r \in Requests, NEW j \in Jobs, NEW u \in Users, NEW d \in {"APPROVED", "REJECTED"},
              DecideFind(r, j, u, d)
       PROVE  RatingInv'
  <2>1. PICK n : Become(r, [Idle EXCEPT !.pc = d, !.job = j, !.n = n])
    BY <1>17 DEF DecideFind
  <2> QED
    BY <1>17, <2>1, <1>one DEF DecideFind, At, InWindow, Idle
<1>18. ASSUME NEW r \in Requests, DecideWrite(r) PROVE RatingInv'
  BY <1>18, <1>end DEF DecideWrite, InWindow
<1>19. ASSUME NEW r \in Requests, NEW j \in Jobs, NEW side \in Sides, NEW n \in Ratings,
              ReviewRead(r, j, side, n)
       PROVE  RatingInv'
  BY <1>19, <1>one DEF ReviewRead, At, InWindow, Idle
<1>20. ASSUME NEW r \in Requests, ReviewFind(r) PROVE RatingInv'
  BY <1>20, <1>goto DEF ReviewFind, At, InWindow
<1>21. ASSUME NEW r \in Requests, ReviewWrite(r) PROVE RatingInv'
  <2> DEFINE refused == At(r, "create") /\ review[req[r].job][req[r].user] # 0
  <2>0. ~InWindow(r) /\ UNCHANGED <<profile, raced>>
    BY <1>21 DEF ReviewWrite, InWindow
  <2>1. CASE refused
    BY <1>21, <2>0, <2>1, <1>end DEF ReviewWrite
  <2>2. CASE ~refused /\ req[r].user # "consumer"
    <3>1. End(r) /\ review' = [review EXCEPT ![req[r].job][req[r].user] = req[r].n]
      BY <1>21, <2>2 DEF ReviewWrite, Recomputes
    <3>2. \A j \in Jobs : review'[j]["consumer"] = review[j]["consumer"]
      BY <1>t, <2>2, <3>1
    <3>3. Aggregate' = Aggregate
      BY <3>2 DEF Aggregate
    <3>4. \A q \in Requests : req'[q] = req[q] \/ (~InWindow(q) /\ ~InWindow(q)')
      BY <1>t, <2>0, <3>1, IdleType DEF End, Become, InWindow
    <3> QED
      BY <2>0, <3>3, <3>4, RatingQuiet
  <2>3. CASE ~refused /\ req[r].user = "consumer"
    <3>1. req' = [q \in Requests |->
                     IF q = r THEN [req[r] EXCEPT !.pc = "aggregate",
                                                  !.alone = ~\E p \in Requests \ {r} : InWindow(p)]
                     ELSE IF InWindow(q) THEN [req[q] EXCEPT !.alone = FALSE]
                     ELSE req[q]]
      BY <1>21, <2>3 DEF ReviewWrite, Recomputes
    <3>2. /\ InWindow(r)' /\ ~At(r, "upsert")'
          /\ Alone(r)' => \A q \in Requests \ {r} : ~InWindow(q)
      BY <1>t, <3>1 DEF InWindow, Alone, At, Request
    <3>3. \A q \in Requests \ {r} : (InWindow(q)' <=> InWindow(q)) /\ ~Alone(q)'
      BY <1>t, <3>1 DEF InWindow, Alone, Request
    <3> QED
      BY <3>2, <3>3 DEF RatingInv, RatingCurrent
  <2> QED
    BY <2>1, <2>2, <2>3
<1>22. ASSUME NEW r \in Requests, AggregateRead(r) PROVE RatingInv'
  <2>1. /\ req'[r] = [req[r] EXCEPT !.pc = "upsert", !.seen = Aggregate]
        /\ \A q \in Requests \ {r} : req'[q] = req[q]
        /\ UNCHANGED <<review, profile, raced>>
    BY <1>t, <1>22 DEF AggregateRead, Become
  <2>2. /\ InWindow(r) /\ InWindow(r)' /\ (Alone(r)' => Alone(r)) /\ req'[r].seen = Aggregate
        /\ \A q \in Requests \ {r} : (InWindow(q)' <=> InWindow(q)) /\ (Alone(q)' => Alone(q))
    <3>1. /\ req[r].pc = "aggregate" /\ req'[r].pc = "upsert"
          /\ req'[r].alone = req[r].alone /\ req'[r].seen = Aggregate
      <4>1. PICK g : g = Aggregate
        OBVIOUS
      <4>s. PICK s \in Request : s = req[r]
        BY <1>t
      <4>2. DOMAIN s = {"pc", "op", "job", "row", "slot", "user", "n", "seen", "alone"}
        BY DEF Request
      <4>3. req'[r] = [s EXCEPT !.pc = "upsert", !.seen = g]
        BY <2>1, <4>1, <4>s
      <4>4. req'[r].pc = "upsert" /\ req'[r].alone = s.alone /\ req'[r].seen = g
        BY <4>2, <4>3
      <4> QED
        BY <1>22, <4>1, <4>s, <4>4 DEF AggregateRead, At
    <3> QED
      BY <2>1, <3>1 DEF InWindow, Alone
  <2>3. Aggregate' = Aggregate
    BY <2>1 DEF Aggregate
  <2> QED
    BY <2>1, <2>2, <2>3 DEF RatingInv, RatingCurrent, At
<1>23. ASSUME NEW r \in Requests, ProfileUpsert(r) PROVE RatingInv'
  <2>1. /\ req'[r] = Idle /\ \A q \in Requests \ {r} : req'[q] = req[q]
        /\ profile' = req[r].seen /\ raced' = ~req[r].alone /\ UNCHANGED review
    BY <1>t, <1>23 DEF ProfileUpsert, End, Become
  <2>2. /\ InWindow(r) /\ ~InWindow(r)' /\ At(r, "upsert")
        /\ \A q \in Requests \ {r} : (InWindow(q)' <=> InWindow(q)) /\ (Alone(q)' => Alone(q))
    BY <1>23, <2>1, IdleType DEF ProfileUpsert, At, InWindow, Alone
  <2>3. Aggregate' = Aggregate
    BY <2>1 DEF Aggregate
  <2>4. RatingCurrent'
    BY <2>1, <2>2, <2>3 DEF RatingInv, RatingCurrent, Alone
  <2>5. \A q \in Requests : ~Alone(q)'
    BY <2>2 DEF RatingInv, Alone
  <2> QED
    BY <2>4, <2>5 DEF RatingInv
<1>24. ASSUME NEW r \in Requests, Fail(r) PROVE RatingInv'
  <2>1. /\ req'[r] = Idle /\ \A q \in Requests \ {r} : req'[q] = req[q]
        /\ raced' = (raced \/ InWindow(r)) /\ UNCHANGED <<review, profile>>
    BY <1>t, <1>24 DEF Fail, End, Become
  <2>2. /\ ~InWindow(r)'
        /\ \A q \in Requests \ {r} : (InWindow(q)' <=> InWindow(q)) /\ (Alone(q)' => Alone(q))
    BY <2>1, IdleType DEF InWindow, Alone
  <2>3. Aggregate' = Aggregate
    BY <2>1 DEF Aggregate
  <2> QED
    BY <2>1, <2>2, <2>3 DEF RatingInv, RatingCurrent, Alone, At
<1> QED
  BY <1>u, <1>1, <1>2, <1>3, <1>4, <1>5, <1>6, <1>7, <1>8, <1>9, <1>10, <1>11, <1>12, <1>13, <1>14,
     <1>15, <1>16, <1>17, <1>18, <1>19, <1>20, <1>21, <1>22, <1>23, <1>24 DEF Next

(* However reviews of a provider interleave and fail: once no              *)
(* recomputation is under way, the rating of his profile is that of his    *)
(* reviews, unless the last one to write it overlapped another or one died *)
(* (recomputeProviderRating).                                              *)
THEOREM RatingIsCurrent == Spec => []RatingCurrent
<1>1. RatingInv => RatingCurrent
  BY DEF RatingInv
<1> QED
  BY InitType, NextType, InitRating, NextRating, <1>1, PTL DEF Spec
=============================================================================
