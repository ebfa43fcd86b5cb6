------------------------ MODULE JobLifecycle_proofs ------------------------
(* Proofs about JobLifecycle and JobScreens, for any number of providers,  *)
(* requests, loads and presses.                                            *)
EXTENDS JobScreens, TLAPS

(* What a request carries at each of its awaits. *)
AtProvider == {"bid.find", "bid.create", "counter.upsert", "counter.accept",
               "counter.decline", "award.commit"}
AtUser == {"mark.commit", "confirm.commit", "dispute.find", "dispute.create", "dispute.flag"}
AtRuling == {"resolve.job", "resolve.commit", "resolve.flag"}

CarriesItsValues(q) ==
    /\ q.pc \in AtProvider => q.provider \in Providers
    /\ q.pc \in AtUser => q.user \in Users
    /\ q.pc = "mark.commit" => q.pendingFor \in Users
    /\ q.pc \in AtRuling => q.status \in Rulings /\ q.dispute \in Disputes
    /\ q.pc = "patch.commit" => q.status \in DisputeStatus \ {"NONE"} /\ q.dispute \in Disputes

RequestsCarryValues == \A r \in Requests : CarriesItsValues(req[r])

TypeInv == TypeOK /\ RequestsCarryValues

ReqType == [pc : PCs, user : Users \cup {Admin, None}, provider : Providers \cup {None},
            pendingFor : Users \cup {None}, dispute : Disputes \cup {None},
            status : Rulings \cup DisputeStatus \cup {None}]

(* A request that has ended carries well-formed (empty) values. *)
LEMMA BlankType == Blank \in ReqType /\ CarriesItsValues(Blank)
  BY DEF Blank, ReqType, CarriesItsValues, PCs, AtProvider, AtUser, AtRuling

(* A request that moves to a well-formed state keeps the others well formed. *)
LEMMA RequestMoves ==
    ASSUME req \in [Requests -> ReqType], RequestsCarryValues,
           NEW r \in Requests, NEW q \in ReqType, CarriesItsValues(q),
           req' = [req EXCEPT ![r] = q]
    PROVE  req' \in [Requests -> ReqType] /\ RequestsCarryValues'
  BY DEF RequestsCarryValues, CarriesItsValues

(* A step that only moves a request to a well-formed state. *)
LEMMA OnlyRequestMoves ==
    ASSUME TypeInv, NEW r \in Requests, NEW q \in ReqType, CarriesItsValues(q),
           req' = [req EXCEPT ![r] = q], UNCHANGED rows
    PROVE  TypeInv'
  BY RequestMoves DEF TypeInv, TypeOK, ReqType, rows

(* The reads that resolve the participants first: what they let through. *)
LEMMA MarkCompleteReads ==
    ASSUME NEW r \in Requests, NEW u \in Users, MarkCompleteRead(r, u), TypeOK
    PROVE  /\ CanMarkComplete(job.status)
           /\ UNCHANGED rows
           /\ \E p \in Providers :
                 /\ job.awarded # None => p = job.awarded
                 /\ u \in {Consumer, p}
                 /\ Begin(r, [Blank EXCEPT !.pc = "mark.commit", !.user = u,
                                 !.pendingFor = OtherParticipant(u, p)])
<1>1. PICK p \in ResolvedProviders \ {None} :
          /\ u \in {Consumer, p}
          /\ Begin(r, [Blank EXCEPT !.pc = "mark.commit", !.user = u,
                           !.pendingFor = OtherParticipant(u, p)])
  BY DEF MarkCompleteRead, PartnersOf
<1>2. CanMarkComplete(job.status) /\ UNCHANGED rows
  BY DEF MarkCompleteRead, PartnersOf
<1>3. (job.awarded # None => p = job.awarded) /\ p \in Providers
  BY DEF ResolvedProviders, TypeOK
<1> QED BY <1>1, <1>2, <1>3

(* What ConfirmCompleteRead lets through: see MarkCompleteReads. *)
LEMMA ConfirmCompleteReads ==
    ASSUME NEW r \in Requests, NEW u \in Users, ConfirmCompleteRead(r, u)
    PROVE  /\ CanConfirmComplete(job.status)
           /\ MayConfirm(u)
           /\ Begin(r, [Blank EXCEPT !.pc = "confirm.commit", !.user = u])
           /\ UNCHANGED rows
  BY DEF ConfirmCompleteRead, MayConfirmComplete

(* What CancelRead lets through. *)
LEMMA CancelReads ==
    ASSUME NEW r \in Requests, NEW u \in Users \cup {Admin}, CancelRead(r, u)
    PROVE  /\ CanCancelJob(job.status)
           /\ Begin(r, [Blank EXCEPT !.pc = "cancel.commit", !.user = u])
           /\ UNCHANGED rows
  BY DEF CancelRead, MayCancel

(* What OpenDisputeRead lets through. *)
LEMMA OpenDisputeReads ==
    ASSUME NEW r \in Requests, NEW u \in Users, OpenDisputeRead(r, u)
    PROVE  /\ CanOpenDispute(job.status)
           /\ Begin(r, [Blank EXCEPT !.pc = "dispute.find", !.user = u])
           /\ UNCHANGED rows
  BY DEF OpenDisputeRead, MayDispute

(* Every step leaves well-formed rows and requests. *)
LEMMA TypeStep == TypeInv /\ [Next]_vars => TypeInv'
<1> SUFFICES ASSUME TypeInv, [Next]_vars PROVE TypeInv'
  OBVIOUS
<1> USE BlankType, RequestMoves, UsersAssumption
    DEF Rulings, Users, TypeInv, TypeOK, ReqType, Blank, CarriesItsValues, PCs,
        AtProvider, AtUser, AtRuling
<1>0. CASE UNCHANGED vars
  BY <1>0 DEF RequestsCarryValues, vars
<1>1. ASSUME NEW r \in Requests, Bidding(r) PROVE TypeInv'
  <2>1. ASSUME NEW p \in Providers, PlaceBidRead(r, p) PROVE TypeInv'
    <3> DEFINE q == [Blank EXCEPT !.pc = "bid.find", !.provider = p]
    <3>1. q \in ReqType /\ CarriesItsValues(q)
      OBVIOUS
    <3>2. req' = [req EXCEPT ![r] = q] /\ UNCHANGED rows
      BY <2>1 DEF PlaceBidRead, MayPlaceBid, Begin
    <3> QED BY ONLY TypeInv, <3>1, <3>2, OnlyRequestMoves
  <2>2. ASSUME NEW p \in Providers, CounterRead(r, p) PROVE TypeInv'
    BY <2>2 DEF CounterRead, MayCounter, Begin, rows
  <2>3. ASSUME NEW p \in Providers, AcceptCounterRead(r, p) PROVE TypeInv'
    BY <2>3 DEF AcceptCounterRead, MayAcceptCounter, Begin, rows
  <2>4. ASSUME NEW p \in Providers, DeclineCounterRead(r, p) PROVE TypeInv'
    BY <2>4 DEF DeclineCounterRead, MayDeclineCounter, Begin, rows
  <2>5. CASE PlaceBidFind(r)
    <3>1. req' = [req EXCEPT ![r] = Blank] \/ req' = [req EXCEPT ![r] = [req[r] EXCEPT !.pc = "bid.create"]]
      BY <2>5 DEF PlaceBidFind, Finish, Continue
    <3>2. req[r].pc = "bid.find" /\ UNCHANGED rows
      BY <2>5 DEF PlaceBidFind, At
    <3> QED BY <3>1, <3>2 DEF rows, RequestsCarryValues
  <2>6. CASE PlaceBidCommit(r)
    BY <2>6 DEF PlaceBidCommit, At, Finish, Continue, RequestsCarryValues, CreateBid, OfferStatus
  <2>7. CASE CounterUpsert(r)
    BY <2>7 DEF CounterUpsert, At, Finish, Continue, RequestsCarryValues, OfferStatus
  <2>8. CASE AcceptCounterCommit(r)
    BY <2>8 DEF AcceptCounterCommit, At, Finish, Continue, RequestsCarryValues, OfferStatus
  <2>9. CASE DeclineCounterCommit(r)
    BY <2>9 DEF DeclineCounterCommit, At, Finish, Continue, RequestsCarryValues, OfferStatus
  <2> HIDE DEF TypeInv
  <2> QED BY <1>1, <2>1, <2>2, <2>3, <2>4, <2>5, <2>6, <2>7, <2>8, <2>9 DEF Bidding
<1>2. ASSUME NEW r \in Requests, Working(r) PROVE TypeInv'
  <2>1. ASSUME NEW p \in Providers, AwardRead(r, p) PROVE TypeInv'
    <3> DEFINE q == [Blank EXCEPT !.pc = "award.commit", !.provider = p]
    <3>1. q \in ReqType /\ CarriesItsValues(q)
      OBVIOUS
    <3>2. req' = [req EXCEPT ![r] = q] /\ UNCHANGED rows
      BY <2>1 DEF AwardRead, MayAward, Begin
    <3> QED BY ONLY TypeInv, <3>1, <3>2, OnlyRequestMoves
  <2>2. ASSUME NEW p \in Providers, StartRead(r, p) PROVE TypeInv'
    BY <2>2 DEF StartRead, MayStart, Begin, rows
  <2>3. ASSUME NEW u \in Users, MarkCompleteRead(r, u) PROVE TypeInv'
    <3>1. PICK p \in Providers :
              /\ job.awarded # None => p = job.awarded
              /\ u \in {Consumer, p}
              /\ Begin(r, [Blank EXCEPT !.pc = "mark.commit", !.user = u,
                               !.pendingFor = OtherParticipant(u, p)])
      BY <2>3, MarkCompleteReads
    <3> DEFINE q == [Blank EXCEPT !.pc = "mark.commit", !.user = u,
                                  !.pendingFor = OtherParticipant(u, p)]
    <3>2. q \in ReqType /\ CarriesItsValues(q)
      BY ZenonT(60) DEF OtherParticipant
    <3>3. req' = [req EXCEPT ![r] = q] /\ UNCHANGED rows
      BY <2>3, <3>1, MarkCompleteReads DEF Begin
    <3> QED BY ONLY TypeInv, <3>2, <3>3, OnlyRequestMoves
  <2>14. CASE CompleteRead(r)
    BY <2>3, <2>14 DEF CompleteRead, Users
  <2>4. ASSUME NEW u \in Users, ConfirmCompleteRead(r, u) PROVE TypeInv'
    <3>1. /\ CanConfirmComplete(job.status) /\ MayConfirm(u)
          /\ Begin(r, [Blank EXCEPT !.pc = "confirm.commit", !.user = u])
          /\ UNCHANGED rows
      BY <2>4, ConfirmCompleteReads
    <3> QED BY <3>1 DEF Begin, rows
  <2>5. ASSUME NEW u \in Users \cup {Admin}, CancelRead(r, u) PROVE TypeInv'
    <3>1. /\ CanCancelJob(job.status)
          /\ Begin(r, [Blank EXCEPT !.pc = "cancel.commit", !.user = u])
          /\ UNCHANGED rows
      BY <2>5, CancelReads
    <3> QED BY <3>1 DEF Begin, rows
  <2>6. CASE AwardCommit(r)
    BY <2>6 DEF AwardCommit, At, Finish, Continue, RequestsCarryValues, AwardedBids, JobStatus, OfferStatus
  <2>7. CASE StartCommit(r)
    BY <2>7 DEF StartCommit, At, Finish, Continue, RequestsCarryValues, JobStatus
  <2>8. CASE MarkCompleteCommit(r)
    <3>1. req[r].user \in Users /\ req[r].pendingFor \in Users
      BY <2>8 DEF MarkCompleteCommit, At, RequestsCarryValues
    <3>2. agreed' \in SUBSET Users
      BY <2>8, <3>1 DEF MarkCompleteCommit
    <3>3. job' \in [status : JobStatus, awarded : Providers \cup {None},
                    pendingFor : Users \cup {None}, completedAt : BOOLEAN]
      BY <2>8, <3>1 DEF MarkCompleteCommit, JobStatus
    <3> QED BY <2>8, <3>2, <3>3 DEF MarkCompleteCommit, Finish, Continue
  <2>9. CASE ConfirmCompleteCommit(r)
    <3>1. req[r].user \in Users
      BY <2>9 DEF ConfirmCompleteCommit, At, RequestsCarryValues
    <3>2. agreed' \in SUBSET Users
      BY <2>9, <3>1 DEF ConfirmCompleteCommit
    <3>3. job' \in [status : JobStatus, awarded : Providers \cup {None},
                    pendingFor : Users \cup {None}, completedAt : BOOLEAN]
      BY <2>9 DEF ConfirmCompleteCommit, JobStatus
    <3> QED BY <2>9, <3>2, <3>3 DEF ConfirmCompleteCommit, Finish, Continue
  <2>10. CASE CancelCommit(r)
    BY <2>10 DEF CancelCommit, At, Finish, Continue, RequestsCarryValues, CancelledJob, JobStatus, OfferStatus
  <2> HIDE DEF TypeInv
  <2> QED BY <1>2, <2>1, <2>2, <2>3, <2>4, <2>5, <2>6, <2>7, <2>8, <2>9, <2>10, <2>14 DEF Working
<1>3. ASSUME NEW r \in Requests, Disputing(r) PROVE TypeInv'
  <2>1. ASSUME NEW u \in Users, OpenDisputeRead(r, u) PROVE TypeInv'
    <3>1. /\ CanOpenDispute(job.status)
          /\ Begin(r, [Blank EXCEPT !.pc = "dispute.find", !.user = u])
          /\ UNCHANGED rows
      BY <2>1, OpenDisputeReads
    <3> QED BY <3>1 DEF Begin, rows
  <2>2. ASSUME NEW d \in Disputes, NEW s \in Rulings, ResolveRead(r, d, s) PROVE TypeInv'
    BY <2>2 DEF ResolveRead, Begin, rows
  <2>3. ASSUME NEW d \in Disputes, NEW s \in DisputeStatus, PatchDisputeRead(r, d, s) PROVE TypeInv'
    <3> DEFINE q == [Blank EXCEPT !.pc = "patch.commit", !.dispute = d, !.status = s]
    <3>1. q \in ReqType
      OBVIOUS
    <3>2. CarriesItsValues(q)
      <4>1. q.pc = "patch.commit" /\ q.dispute = d /\ q.status = s
        OBVIOUS
      <4>2. s # "NONE"
        BY <2>3 DEF PatchDisputeRead, PatchStatuses
      <4> HIDE DEF q
      <4> QED BY <4>1, <4>2
    <3>3. req' = [req EXCEPT ![r] = q] /\ UNCHANGED rows
      BY <2>3 DEF PatchDisputeRead, Begin
    <3> QED BY ONLY TypeInv, <3>1, <3>2, <3>3, OnlyRequestMoves
  <2>4. CASE OpenDisputeFind(r)
    <3> DEFINE q == [req[r] EXCEPT !.pc = "dispute.create"]
    <3>1. req[r] \in ReqType /\ req[r].pc = "dispute.find" /\ CarriesItsValues(req[r])
      BY <2>4 DEF OpenDisputeFind, At, RequestsCarryValues
    <3>2. q \in ReqType
      BY <3>1
    <3>3. CarriesItsValues(q)
      BY <3>1
    <3>4. UNCHANGED rows /\ (req' = [req EXCEPT ![r] = Blank] \/ req' = [req EXCEPT ![r] = q])
      BY <2>4 DEF OpenDisputeFind, Finish, Continue
    <3> QED BY ONLY TypeInv, <3>2, <3>3, <3>4, BlankType, OnlyRequestMoves
  <2>5. CASE OpenDisputeCreate(r)
    <3>1. PICK d \in Disputes :
              /\ dispute' = [dispute EXCEPT ![d].status = "OPEN"]
              /\ req' = [req EXCEPT ![r] = [req[r] EXCEPT !.pc = "dispute.flag", !.dispute = d]]
      BY <2>5 DEF OpenDisputeCreate, Continue
    <3>2. req[r].pc = "dispute.create" /\ UNCHANGED <<job, bid, counter, agreed>>
      BY <2>5 DEF OpenDisputeCreate, At
    <3>3. dispute' \in [Disputes -> [status : DisputeStatus, ruling : Rulings \cup {None}]]
      BY <3>1 DEF DisputeStatus
    <3>4. RequestsCarryValues' /\ req' \in [Requests -> ReqType]
      <4> DEFINE q == [req[r] EXCEPT !.pc = "dispute.flag", !.dispute = d]
      <4>1. req[r].user \in Users /\ req[r] \in ReqType
        BY <3>2 DEF RequestsCarryValues
      <4>2. q \in ReqType
        BY <4>1
      <4>3. CarriesItsValues(q)
        BY <4>1
      <4> QED BY <3>1, <4>2, <4>3, RequestMoves DEF RequestsCarryValues
    <3> QED BY <3>2, <3>3, <3>4
  <2>6. CASE OpenDisputeFlag(r)
    BY <2>6 DEF OpenDisputeFlag, At, Finish, Continue, RequestsCarryValues, JobStatus
  <2>7. CASE ResolveReadJob(r)
    <3> DEFINE q == [req[r] EXCEPT !.pc = "resolve.commit"]
    <3>1. req[r] \in ReqType /\ req[r].pc = "resolve.job" /\ CarriesItsValues(req[r])
      BY <2>7 DEF ResolveReadJob, At, RequestsCarryValues
    <3>2. q \in ReqType
      BY <3>1
    <3>3. CarriesItsValues(q)
      BY <3>1
    <3>4. UNCHANGED rows /\ (req' = [req EXCEPT ![r] = Blank] \/ req' = [req EXCEPT ![r] = q])
      BY <2>7 DEF ResolveReadJob, Finish, Continue
    <3> QED BY ONLY TypeInv, <3>2, <3>3, <3>4, BlankType, OnlyRequestMoves
  <2>8. CASE ResolveCommit(r)
    <3> DEFINE q == [req[r] EXCEPT !.pc = "resolve.flag"]
    <3>1. req[r] \in ReqType /\ req[r].pc = "resolve.commit" /\ CarriesItsValues(req[r])
      BY <2>8 DEF ResolveCommit, At, RequestsCarryValues
    <3>2. q \in ReqType
      BY <3>1
    <3>3. CarriesItsValues(q)
      BY <3>1
    <3>4. RequestsCarryValues' /\ req' \in [Requests -> ReqType]
      BY <2>8, <3>2, <3>3, RequestMoves DEF ResolveCommit, Continue
    <3>5. dispute' \in [Disputes -> [status : DisputeStatus, ruling : Rulings \cup {None}]]
      BY <2>8, <3>1 DEF ResolveCommit, DisputeStatus
    <3>6. UNCHANGED <<job, bid, counter, agreed>>
      BY <2>8 DEF ResolveCommit
    <3> QED BY <3>4, <3>5, <3>6
  <2>9. CASE ResolveFlag(r)
    BY <2>9 DEF ResolveFlag, At, Finish, Continue, RequestsCarryValues, JobStatus
  <2>10. CASE PatchDisputeCommit(r)
    BY <2>10 DEF PatchDisputeCommit, At, Finish, Continue, RequestsCarryValues, DisputeStatus
  <2> HIDE DEF TypeInv
  <2> QED BY <1>3, <2>1, <2>2, <2>3, <2>4, <2>5, <2>6, <2>7, <2>8, <2>9, <2>10 DEF Disputing
<1>4. ASSUME NEW r \in Requests, Fail(r) PROVE TypeInv'
  BY <1>4 DEF Fail, Finish, Continue, rows
<1> HIDE DEF TypeInv
<1> QED BY <1>0, <1>1, <1>2, <1>3, <1>4 DEF Next

(* TypeOK holds in every reachable state. *)
THEOREM TypeCorrect == Spec => []TypeOK
<1>1. Init => TypeInv
  BY UsersAssumption, BlankType
     DEF Init, TypeInv, TypeOK, ReqType, RequestsCarryValues, JobStatus, OfferStatus, DisputeStatus
<1> QED BY <1>1, TypeStep, PTL DEF Spec, TypeInv

----------------------------------------------------------------------------
(* Requests that got past a guard which only an awarded job passes. *)
AfterAward == {"start.commit", "mark.commit", "confirm.commit", "dispute.find",
               "dispute.create", "dispute.flag", "resolve.commit", "resolve.flag"}

EngagedInv ==
    /\ EngagedHasAwardee
    /\ job.awarded # None => bid[job.awarded] # "NONE"
    /\ \A r \in Requests : req[r].pc \in AfterAward => job.awarded # None
    /\ \A r \in Requests : req[r].pc = "award.commit" => bid[req[r].provider] # "NONE"

(* Every step keeps EngagedInv: no handler writes awardedProviderId back
   to NULL, and no write that engages the job precedes an award. *)
LEMMA EngagedStep == TypeInv /\ EngagedInv /\ [Next]_vars => EngagedInv'
<1> SUFFICES ASSUME TypeInv, EngagedInv, [Next]_vars PROVE EngagedInv'
  OBVIOUS
<1> USE UsersAssumption DEF Users, Blank, TypeInv, TypeOK, RequestsCarryValues,
        CarriesItsValues, AtProvider, EngagedInv, EngagedHasAwardee, AfterAward
<1>0. CASE UNCHANGED vars
  BY <1>0 DEF vars
<1>1. ASSUME NEW r \in Requests, Bidding(r) PROVE EngagedInv'
  <2>1. ASSUME NEW p \in Providers, PlaceBidRead(r, p) PROVE EngagedInv'
    BY <2>1 DEF PlaceBidRead, MayPlaceBid, Begin, rows
  <2>2. ASSUME NEW p \in Providers, CounterRead(r, p) PROVE EngagedInv'
    BY <2>2 DEF CounterRead, MayCounter, Begin, rows
  <2>3. ASSUME NEW p \in Providers, AcceptCounterRead(r, p) PROVE EngagedInv'
    BY <2>3 DEF AcceptCounterRead, MayAcceptCounter, Begin, rows
  <2>4. ASSUME NEW p \in Providers, DeclineCounterRead(r, p) PROVE EngagedInv'
    BY <2>4 DEF DeclineCounterRead, MayDeclineCounter, Begin, rows
  <2>5. CASE PlaceBidFind(r)
    BY <2>5 DEF PlaceBidFind, At, Finish, Continue, rows
  <2>6. CASE PlaceBidCommit(r)
    BY <2>6 DEF PlaceBidCommit, At, Finish, Continue, CreateBid
  <2>7. CASE CounterUpsert(r)
    BY <2>7 DEF CounterUpsert, At, Finish, Continue
  <2>8. CASE AcceptCounterCommit(r)
    BY <2>8 DEF AcceptCounterCommit, At, Finish, Continue
  <2>9. CASE DeclineCounterCommit(r)
    BY <2>9 DEF DeclineCounterCommit, At, Finish, Continue
  <2> QED BY <1>1, <2>1, <2>2, <2>3, <2>4, <2>5, <2>6, <2>7, <2>8, <2>9 DEF Bidding
<1>2. ASSUME NEW r \in Requests, Working(r) PROVE EngagedInv'
  <2>1. ASSUME NEW p \in Providers, AwardRead(r, p) PROVE EngagedInv'
    BY <2>1 DEF AwardRead, MayAward, Begin, rows
  <2>2. ASSUME NEW p \in Providers, StartRead(r, p) PROVE EngagedInv'
    BY <2>2 DEF StartRead, MayStart, Begin, rows
  <2>3. ASSUME NEW u \in Users, MarkCompleteRead(r, u) PROVE EngagedInv'
    <3>1. PICK p \in Providers :
              /\ job.awarded # None => p = job.awarded
              /\ u \in {Consumer, p}
              /\ Begin(r, [Blank EXCEPT !.pc = "mark.commit", !.user = u,
                               !.pendingFor = OtherParticipant(u, p)])
      BY <2>3, MarkCompleteReads
    <3>2. CanMarkComplete(job.status) /\ UNCHANGED rows
      BY <2>3, MarkCompleteReads
    <3> QED BY <3>1, <3>2 DEF Begin, rows, CanMarkComplete
  <2>14. CASE CompleteRead(r)
    BY <2>3, <2>14 DEF CompleteRead, Users
  <2>4. ASSUME NEW u \in Users, ConfirmCompleteRead(r, u) PROVE EngagedInv'
    <3>1. /\ CanConfirmComplete(job.status) /\ MayConfirm(u)
          /\ Begin(r, [Blank EXCEPT !.pc = "confirm.commit", !.user = u])
          /\ UNCHANGED rows
      BY <2>4, ConfirmCompleteReads
    <3> QED BY <3>1 DEF Begin, rows, CanConfirmComplete
  <2>5. ASSUME NEW u \in Users \cup {Admin}, CancelRead(r, u) PROVE EngagedInv'
    <3>1. /\ CanCancelJob(job.status)
          /\ Begin(r, [Blank EXCEPT !.pc = "cancel.commit", !.user = u])
          /\ UNCHANGED rows
      BY <2>5, CancelReads
    <3> QED BY <3>1 DEF Begin, rows
  <2>6. CASE AwardCommit(r)
    BY <2>6 DEF AwardCommit, At, Finish, Continue, AwardedBids
  <2>7. CASE StartCommit(r)
    BY <2>7 DEF StartCommit, At, Finish, Continue
  <2>8. CASE MarkCompleteCommit(r)
    BY <2>8 DEF MarkCompleteCommit, At, Finish, Continue
  <2>9. CASE ConfirmCompleteCommit(r)
    BY <2>9 DEF ConfirmCompleteCommit, At, Finish, Continue
  <2>10. CASE CancelCommit(r)
    BY <2>10 DEF CancelCommit, At, Finish, Continue, CancelledJob
  <2> QED BY <1>2, <2>1, <2>2, <2>3, <2>4, <2>5, <2>6, <2>7, <2>8, <2>9, <2>10, <2>14 DEF Working
<1>3. ASSUME NEW r \in Requests, Disputing(r) PROVE EngagedInv'
  <2>1. ASSUME NEW u \in Users, OpenDisputeRead(r, u) PROVE EngagedInv'
    <3>1. /\ CanOpenDispute(job.status)
          /\ Begin(r, [Blank EXCEPT !.pc = "dispute.find", !.user = u])
          /\ UNCHANGED rows
      BY <2>1, OpenDisputeReads
    <3> QED BY <3>1 DEF Begin, rows, CanOpenDispute
  <2>2. ASSUME NEW d \in Disputes, NEW s \in Rulings, ResolveRead(r, d, s) PROVE EngagedInv'
    BY <2>2 DEF ResolveRead, Begin, rows
  <2>3. ASSUME NEW d \in Disputes, NEW s \in DisputeStatus, PatchDisputeRead(r, d, s) PROVE EngagedInv'
    BY <2>3 DEF PatchDisputeRead, Begin, rows
  <2>4. CASE OpenDisputeFind(r)
    BY <2>4 DEF OpenDisputeFind, At, Finish, Continue, rows
  <2>5. CASE OpenDisputeCreate(r)
    BY <2>5 DEF OpenDisputeCreate, At, Finish, Continue
  <2>6. CASE OpenDisputeFlag(r)
    BY <2>6 DEF OpenDisputeFlag, At, Finish, Continue
  <2>7. CASE ResolveReadJob(r)
    BY <2>7 DEF ResolveReadJob, At, Finish, Continue, rows
  <2>8. CASE ResolveCommit(r)
    BY <2>8 DEF ResolveCommit, At, Finish, Continue
  <2>9. CASE ResolveFlag(r)
    BY <2>9 DEF ResolveFlag, At, Finish, Continue
  <2>10. CASE PatchDisputeCommit(r)
    BY <2>10 DEF PatchDisputeCommit, At, Finish, Continue
  <2> QED BY <1>3, <2>1, <2>2, <2>3, <2>4, <2>5, <2>6, <2>7, <2>8, <2>9, <2>10 DEF Disputing
<1>4. ASSUME NEW r \in Requests, Fail(r) PROVE EngagedInv'
  BY <1>4 DEF Fail, Finish, Continue, rows
<1> QED BY <1>0, <1>1, <1>2, <1>3, <1>4 DEF Next

(***************************************************************************)
(* Whatever the interleaving and the failures, an engaged job has an       *)
(* awardee who bid on it.                                                  *)
(***************************************************************************)
THEOREM EngagedJobsHaveAwardee == Spec => []EngagedHasAwardee
<1>1. Init => TypeInv /\ EngagedInv
  BY UsersAssumption, BlankType
     DEF Init, TypeInv, TypeOK, ReqType, RequestsCarryValues, JobStatus, OfferStatus,
         DisputeStatus, EngagedInv, EngagedHasAwardee, AfterAward, Blank
<1>2. EngagedInv => EngagedHasAwardee
  BY DEF EngagedInv
<1> QED BY <1>1, <1>2, TypeStep, EngagedStep, PTL DEF Spec

----------------------------------------------------------------------------
ProviderAgreed == \E p \in Providers : p \in agreed

(* Who the job waits for, and who is about to confirm, is always the other *)
(* side of somebody who has already agreed.                                *)
JustifiedInv ==
    /\ JustifiedCompletion
    /\ job.pendingFor = Consumer => ProviderAgreed
    /\ job.pendingFor \in Providers => Consumer \in agreed
    /\ \A r \in Requests : req[r].pc = "mark.commit" =>
          \/ req[r].user = Consumer /\ req[r].pendingFor \in Providers
          \/ req[r].user \in Providers /\ req[r].pendingFor = Consumer
    /\ \A r \in Requests : req[r].pc = "confirm.commit" =>
          \/ req[r].user = Consumer /\ ProviderAgreed
          \/ req[r].user \in Providers /\ Consumer \in agreed
    /\ \A r \in Requests : req[r].pc = "resolve.flag" => SomeRuling

(* A step that only changes a request, and leaves it at none of the three
   points JustifiedInv speaks of, keeps it. *)
LEMMA OnlyReads ==
    ASSUME TypeInv, JustifiedInv, NEW r \in Requests, NEW q,
           req' = [req EXCEPT ![r] = q], UNCHANGED rows,
           q.pc \notin {"mark.commit", "confirm.commit", "resolve.flag"}
    PROVE  JustifiedInv'
<1>1. UNCHANGED <<job, dispute, agreed>>
  BY DEF rows
<1>2. \A s \in Requests : req'[s] = q \/ req'[s] = req[s]
  BY DEF TypeInv, TypeOK
<1>3. JustifiedCompletion' /\ (ProviderAgreed' <=> ProviderAgreed) /\ (SomeRuling' <=> SomeRuling)
  BY <1>1 DEF JustifiedInv, JustifiedCompletion, BothSidesAgreed, SomeRuling, ProviderAgreed
<1> QED BY <1>1, <1>2, <1>3 DEF JustifiedInv

(* Every step keeps JustifiedInv: a confirmation in flight was let through
   by a mark of the other side, and agreements are never taken back. *)
LEMMA JustifiedStep == TypeInv /\ JustifiedInv /\ [Next]_vars => JustifiedInv'
<1> SUFFICES ASSUME TypeInv, JustifiedInv, [Next]_vars PROVE JustifiedInv'
  OBVIOUS
<1> USE UsersAssumption DEF Users, Rulings, Blank, TypeInv, TypeOK, RequestsCarryValues,
        CarriesItsValues, AtRuling, AtUser, JustifiedInv, JustifiedCompletion, BothSidesAgreed,
        SomeRuling, ProviderAgreed
<1>0. CASE UNCHANGED vars
  BY <1>0 DEF vars
<1>1. ASSUME NEW r \in Requests, Bidding(r) PROVE JustifiedInv'
  <2>1. ASSUME NEW p \in Providers, PlaceBidRead(r, p) PROVE JustifiedInv'
    BY <2>1 DEF PlaceBidRead, MayPlaceBid, Begin, rows
  <2>2. ASSUME NEW p \in Providers, CounterRead(r, p) PROVE JustifiedInv'
    BY <2>2 DEF CounterRead, MayCounter, Begin, rows
  <2>3. ASSUME NEW p \in Providers, AcceptCounterRead(r, p) PROVE JustifiedInv'
    BY <2>3 DEF AcceptCounterRead, MayAcceptCounter, Begin, rows
  <2>4. ASSUME NEW p \in Providers, DeclineCounterRead(r, p) PROVE JustifiedInv'
    BY <2>4 DEF DeclineCounterRead, MayDeclineCounter, Begin, rows
  <2>5. CASE PlaceBidFind(r)
    <3>1. \/ req' = [req EXCEPT ![r] = Blank]
          \/ req' = [req EXCEPT ![r] = [req[r] EXCEPT !.pc = "bid.create"]]
      BY <2>5 DEF PlaceBidFind, Finish, Continue
    <3>2. UNCHANGED rows
      BY <2>5 DEF PlaceBidFind
    <3>3. Blank.pc = "idle" /\ [req[r] EXCEPT !.pc = "bid.create"].pc = "bid.create"
      BY DEF ReqType
    <3> QED BY ONLY TypeInv, JustifiedInv, <3>1, <3>2, <3>3, OnlyReads
  <2>6. CASE PlaceBidCommit(r)
    BY <2>6 DEF PlaceBidCommit, At, Finish, Continue
  <2>7. CASE CounterUpsert(r)
    BY <2>7 DEF CounterUpsert, At, Finish, Continue
  <2>8. CASE AcceptCounterCommit(r)
    BY <2>8 DEF AcceptCounterCommit, At, Finish, Continue
  <2>9. CASE DeclineCounterCommit(r)
    BY <2>9 DEF DeclineCounterCommit, At, Finish, Continue
  <2> QED BY <1>1, <2>1, <2>2, <2>3, <2>4, <2>5, <2>6, <2>7, <2>8, <2>9 DEF Bidding
<1>2. ASSUME NEW r \in Requests, Working(r) PROVE JustifiedInv'
  <2>1. ASSUME NEW p \in Providers, AwardRead(r, p) PROVE JustifiedInv'
    BY <2>1 DEF AwardRead, MayAward, Begin, rows
  <2>2. ASSUME NEW p \in Providers, StartRead(r, p) PROVE JustifiedInv'
    BY <2>2 DEF StartRead, MayStart, Begin, rows
  <2>3. ASSUME NEW u \in Users, MarkCompleteRead(r, u) PROVE JustifiedInv'
    <3>1. PICK p \in Providers :
              /\ job.awarded # None => p = job.awarded
              /\ u \in {Consumer, p}
              /\ Begin(r, [Blank EXCEPT !.pc = "mark.commit", !.user = u,
                               !.pendingFor = OtherParticipant(u, p)])
      BY <2>3, MarkCompleteReads
    <3>2. CanMarkComplete(job.status) /\ UNCHANGED rows
      BY <2>3, MarkCompleteReads
    <3> QED BY <3>1, <3>2 DEF Begin, rows, OtherParticipant
  <2>14. CASE CompleteRead(r)
    BY <2>3, <2>14 DEF CompleteRead, Users
  <2>4. ASSUME NEW u \in Users, ConfirmCompleteRead(r, u) PROVE JustifiedInv'
    <3>1. /\ CanConfirmComplete(job.status) /\ MayConfirm(u)
          /\ Begin(r, [Blank EXCEPT !.pc = "confirm.commit", !.user = u])
          /\ UNCHANGED rows
      BY <2>4, ConfirmCompleteReads
    <3> QED BY <3>1 DEF Begin, rows, MayConfirm
  <2>5. ASSUME NEW u \in Users \cup {Admin}, CancelRead(r, u) PROVE JustifiedInv'
    <3>1. /\ CanCancelJob(job.status)
          /\ Begin(r, [Blank EXCEPT !.pc = "cancel.commit", !.user = u])
          /\ UNCHANGED rows
      BY <2>5, CancelReads
    <3> QED BY <3>1 DEF Begin, rows
  <2>6. CASE AwardCommit(r)
    BY <2>6 DEF AwardCommit, At, Finish, Continue
  <2>7. CASE StartCommit(r)
    BY <2>7 DEF StartCommit, At, Finish, Continue
  <2>8. CASE MarkCompleteCommit(r)
    BY <2>8 DEF MarkCompleteCommit, At, Finish, Continue
  <2>9. CASE ConfirmCompleteCommit(r)
    BY <2>9 DEF ConfirmCompleteCommit, At, Finish, Continue
  <2>10. CASE CancelCommit(r)
    BY <2>10 DEF CancelCommit, At, Finish, Continue, CancelledJob
  <2> QED BY <1>2, <2>1, <2>2, <2>3, <2>4, <2>5, <2>6, <2>7, <2>8, <2>9, <2>10, <2>14 DEF Working
<1>3. ASSUME NEW r \in Requests, Disputing(r) PROVE JustifiedInv'
  <2>1. ASSUME NEW u \in Users, OpenDisputeRead(r, u) PROVE JustifiedInv'
    <3>1. /\ CanOpenDispute(job.status)
          /\ Begin(r, [Blank EXCEPT !.pc = "dispute.find", !.user = u])
          /\ UNCHANGED rows
      BY <2>1, OpenDisputeReads
    <3> QED BY <3>1 DEF Begin, rows
  <2>2. ASSUME NEW d \in Disputes, NEW s \in Rulings, ResolveRead(r, d, s) PROVE JustifiedInv'
    BY <2>2 DEF ResolveRead, Begin, rows
  <2>3. ASSUME NEW d \in Disputes, NEW s \in DisputeStatus, PatchDisputeRead(r, d, s) PROVE JustifiedInv'
    BY <2>3 DEF PatchDisputeRead, Begin, rows
  <2>4. CASE OpenDisputeFind(r)
    <3>1. \/ req' = [req EXCEPT ![r] = Blank]
          \/ req' = [req EXCEPT ![r] = [req[r] EXCEPT !.pc = "dispute.create"]]
      BY <2>4 DEF OpenDisputeFind, Finish, Continue
    <3>2. UNCHANGED rows
      BY <2>4 DEF OpenDisputeFind
    <3>3. Blank.pc = "idle" /\ [req[r] EXCEPT !.pc = "dispute.create"].pc = "dispute.create"
      BY DEF ReqType
    <3> QED BY ONLY TypeInv, JustifiedInv, <3>1, <3>2, <3>3, OnlyReads
  <2>5. CASE OpenDisputeCreate(r)
    BY <2>5 DEF OpenDisputeCreate, At, Finish, Continue
  <2>6. CASE OpenDisputeFlag(r)
    BY <2>6 DEF OpenDisputeFlag, At, Finish, Continue
  <2>7. CASE ResolveReadJob(r)
    <3>1. \/ req' = [req EXCEPT ![r] = Blank]
          \/ req' = [req EXCEPT ![r] = [req[r] EXCEPT !.pc = "resolve.commit"]]
      BY <2>7 DEF ResolveReadJob, Finish, Continue
    <3>2. UNCHANGED rows
      BY <2>7 DEF ResolveReadJob
    <3>3. Blank.pc = "idle" /\ [req[r] EXCEPT !.pc = "resolve.commit"].pc = "resolve.commit"
      BY DEF ReqType
    <3> QED BY ONLY TypeInv, JustifiedInv, <3>1, <3>2, <3>3, OnlyReads
  <2>8. CASE ResolveCommit(r)
    <3>1. req[r].dispute \in Disputes /\ req[r].status \in Rulings
      BY <2>8 DEF ResolveCommit, At
    <3>2. dispute'[req[r].dispute].ruling = req[r].status
      BY <2>8, <3>1 DEF ResolveCommit
    <3>3. SomeRuling'
      BY <3>1, <3>2
    <3>4. req' = [req EXCEPT ![r] = [req[r] EXCEPT !.pc = "resolve.flag"]]
      BY <2>8 DEF ResolveCommit, Continue
    <3>5. UNCHANGED <<job, bid, counter, agreed>>
      BY <2>8 DEF ResolveCommit
    <3> QED BY <3>3, <3>4, <3>5
  <2>9. CASE ResolveFlag(r)
    BY <2>9 DEF ResolveFlag, At, Finish, Continue
  <2>10. CASE PatchDisputeCommit(r)
    BY <2>10 DEF PatchDisputeCommit, At, Finish, Continue
  <2> QED BY <1>3, <2>1, <2>2, <2>3, <2>4, <2>5, <2>6, <2>7, <2>8, <2>9, <2>10 DEF Disputing
<1>4. ASSUME NEW r \in Requests, Fail(r) PROVE JustifiedInv'
  BY <1>4 DEF Fail, Finish, Continue, rows
<1> QED BY <1>0, <1>1, <1>2, <1>3, <1>4 DEF Next

(***************************************************************************)
(* Whatever the interleaving and the failures, nobody's job is COMPLETED   *)
(* behind the back of one side, unless an admin ruled.                     *)
(***************************************************************************)
THEOREM CompletionsAreJustified == Spec => []JustifiedCompletion
<1>1. Init => TypeInv /\ JustifiedInv
  BY UsersAssumption, BlankType
     DEF Init, TypeInv, TypeOK, ReqType, RequestsCarryValues, JobStatus, OfferStatus,
         DisputeStatus, JustifiedInv, JustifiedCompletion, Blank, Users
<1>2. JustifiedInv => JustifiedCompletion
  BY DEF JustifiedInv
<1> QED BY <1>1, <1>2, TypeStep, JustifiedStep, PTL DEF Spec

----------------------------------------------------------------------------
(* One request at a time: what a request saw still holds when it writes. *)
SerialRequests == \A r, s \in Requests : r = s

OneSideAgreed ==
    \/ job.pendingFor = Consumer /\ agreed = {job.awarded}
    \/ job.pendingFor = job.awarded /\ agreed = {Consumer}

StillTrue(q) ==
    /\ q.pc = "award.commit" => job.status = "OPEN"
    /\ q.pc = "start.commit" => job.status = "AWARDED"
    /\ q.pc = "mark.commit" =>
          /\ job.status = "IN_PROGRESS"
          /\ \/ q.user = Consumer /\ q.pendingFor = job.awarded
             \/ q.user = job.awarded /\ q.pendingFor = Consumer
    /\ q.pc = "confirm.commit" =>
          job.status = "COMPLETED_PENDING_CONFIRMATION" /\ q.user = job.pendingFor
    /\ q.pc = "cancel.commit" => CanCancelJob(job.status)
    /\ q.pc \in {"dispute.find", "dispute.create", "dispute.flag"} => CanOpenDispute(job.status)
    /\ q.pc \in {"resolve.commit", "resolve.flag"} => job.status = "DISPUTED"

SerialInv ==
    /\ job.status \in {"OPEN", "AWARDED", "IN_PROGRESS"} => agreed = {}
    /\ job.status = "COMPLETED_PENDING_CONFIRMATION" => OneSideAgreed
    /\ \A r \in Requests : StillTrue(req[r])

(* With one request at a time what a request has read is still true when it
   writes, and so every step is one of the contract or leaves it alone. *)
LEMMA SerialStep ==
    ASSUME SerialRequests, TypeInv, EngagedInv, SerialInv, [Next]_vars
    PROVE  SerialInv' /\ [Contract!Next]_(Contract!vars)
<1> DEFINE Goal == SerialInv' /\ [Contract!Next]_(Contract!vars)
<1> USE UsersAssumption DEF SerialRequests, Users, Rulings, Blank, TypeInv, TypeOK,
        RequestsCarryValues, CarriesItsValues, AtRuling, AtUser, AtProvider, SerialInv, StillTrue, OneSideAgreed,
        EngagedInv, EngagedHasAwardee, Contract!vars, Contract!Next
<1>0. CASE UNCHANGED vars
  BY <1>0 DEF vars, CanOpenDispute, CanCancelJob
<1>1. ASSUME NEW r \in Requests, Bidding(r) PROVE Goal
  <2>1. ASSUME NEW p \in Providers, PlaceBidRead(r, p) PROVE Goal
    BY <2>1 DEF PlaceBidRead, MayPlaceBid, Begin, rows
  <2>2. ASSUME NEW p \in Providers, CounterRead(r, p) PROVE Goal
    BY <2>2 DEF CounterRead, MayCounter, Begin, rows
  <2>3. ASSUME NEW p \in Providers, AcceptCounterRead(r, p) PROVE Goal
    BY <2>3 DEF AcceptCounterRead, MayAcceptCounter, Begin, rows
  <2>4. ASSUME NEW p \in Providers, DeclineCounterRead(r, p) PROVE Goal
    BY <2>4 DEF DeclineCounterRead, MayDeclineCounter, Begin, rows
  <2>5. CASE PlaceBidFind(r)
    BY <2>5 DEF PlaceBidFind, At, Finish, Continue, rows
  <2>6. CASE PlaceBidCommit(r)
    BY <2>6 DEF PlaceBidCommit, At, Finish, Continue, CreateBid
  <2>7. CASE CounterUpsert(r)
    BY <2>7 DEF CounterUpsert, At, Finish, Continue
  <2>8. CASE AcceptCounterCommit(r)
    BY <2>8 DEF AcceptCounterCommit, At, Finish, Continue
  <2>9. CASE DeclineCounterCommit(r)
    BY <2>9 DEF DeclineCounterCommit, At, Finish, Continue
  <2> QED BY <1>1, <2>1, <2>2, <2>3, <2>4, <2>5, <2>6, <2>7, <2>8, <2>9 DEF Bidding
<1>2. ASSUME NEW r \in Requests, Working(r) PROVE Goal
  <2>1. ASSUME NEW p \in Providers, AwardRead(r, p) PROVE Goal
    BY <2>1 DEF AwardRead, MayAward, Begin, rows
  <2>2. ASSUME NEW p \in Providers, StartRead(r, p) PROVE Goal
    BY <2>2 DEF StartRead, MayStart, Begin, rows
  <2>3. ASSUME NEW u \in Users, MarkCompleteRead(r, u) PROVE Goal
    <3>1. PICK p \in Providers :
              /\ job.awarded # None => p = job.awarded
              /\ u \in {Consumer, p}
              /\ Begin(r, [Blank EXCEPT !.pc = "mark.commit", !.user = u,
                               !.pendingFor = OtherParticipant(u, p)])
      BY <2>3, MarkCompleteReads
    <3>2. CanMarkComplete(job.status) /\ UNCHANGED rows
      BY <2>3, MarkCompleteReads
    <3> QED BY <3>1, <3>2 DEF Begin, rows, OtherParticipant, CanMarkComplete
  <2>14. CASE CompleteRead(r)
    BY <2>3, <2>14 DEF CompleteRead, Users
  <2>4. ASSUME NEW u \in Users, ConfirmCompleteRead(r, u) PROVE Goal
    <3>1. /\ CanConfirmComplete(job.status) /\ MayConfirm(u)
          /\ Begin(r, [Blank EXCEPT !.pc = "confirm.commit", !.user = u])
          /\ UNCHANGED rows
      BY <2>4, ConfirmCompleteReads
    <3> QED BY <3>1 DEF Begin, rows, MayConfirm, CanConfirmComplete
  <2>5. ASSUME NEW u \in Users \cup {Admin}, CancelRead(r, u) PROVE Goal
    <3>1. /\ CanCancelJob(job.status)
          /\ Begin(r, [Blank EXCEPT !.pc = "cancel.commit", !.user = u])
          /\ UNCHANGED rows
      BY <2>5, CancelReads
    <3> QED BY <3>1 DEF Begin, rows
  <2>6. CASE AwardCommit(r)
    <3>1. Contract!Award
      BY <2>6 DEF AwardCommit, At, Contract!Award
    <3>2. SerialInv'
      BY <2>6 DEF AwardCommit, At, Finish, Continue
    <3> QED BY <3>1, <3>2
  <2>7. CASE StartCommit(r)
    <3>1. Contract!Start
      BY <2>7 DEF StartCommit, At, Contract!Start
    <3>2. SerialInv'
      BY <2>7 DEF StartCommit, At, Finish, Continue
    <3> QED BY <3>1, <3>2
  <2>8. CASE MarkCompleteCommit(r)
    <3>1. Contract!MarkComplete
      BY <2>8 DEF MarkCompleteCommit, At, Contract!MarkComplete
    <3>2. SerialInv'
      BY <2>8 DEF MarkCompleteCommit, At, Finish, Continue
    <3> QED BY <3>1, <3>2
  <2>9. CASE ConfirmCompleteCommit(r)
    <3>1. Contract!ConfirmComplete
      <4>1. job.awarded \in Providers /\ OneSideAgreed /\ req[r].user = job.pendingFor
        BY <2>9 DEF ConfirmCompleteCommit, At
      <4>2. agreed' = {Consumer, job.awarded} /\ agreed # agreed'
        BY <2>9, <4>1 DEF ConfirmCompleteCommit
      <4> QED BY <2>9, <4>2 DEF ConfirmCompleteCommit, At, Contract!ConfirmComplete
    <3>2. SerialInv'
      BY <2>9 DEF ConfirmCompleteCommit, At, Finish, Continue
    <3> QED BY <3>1, <3>2
  <2>10. CASE CancelCommit(r)
    <3>1. Contract!Cancel
      BY <2>10 DEF CancelCommit, At, Contract!Cancel, CancelledJob, CanCancelJob
    <3>2. SerialInv'
      BY <2>10 DEF CancelCommit, At, Finish, Continue, CancelledJob
    <3> QED BY <3>1, <3>2
  <2> QED BY <1>2, <2>1, <2>2, <2>3, <2>4, <2>5, <2>6, <2>7, <2>8, <2>9, <2>10, <2>14 DEF Working
<1>3. ASSUME NEW r \in Requests, Disputing(r) PROVE Goal
  <2>1. ASSUME NEW u \in Users, OpenDisputeRead(r, u) PROVE Goal
    <3>1. /\ CanOpenDispute(job.status)
          /\ Begin(r, [Blank EXCEPT !.pc = "dispute.find", !.user = u])
          /\ UNCHANGED rows
      BY <2>1, OpenDisputeReads
    <3> QED BY <3>1 DEF Begin, rows
  <2>2. ASSUME NEW d \in Disputes, NEW s \in Rulings, ResolveRead(r, d, s) PROVE Goal
    BY <2>2 DEF ResolveRead, Begin, rows
  <2>3. ASSUME NEW d \in Disputes, NEW s \in DisputeStatus, PatchDisputeRead(r, d, s) PROVE Goal
    BY <2>3 DEF PatchDisputeRead, Begin, rows
  <2>4. CASE OpenDisputeFind(r)
    BY <2>4 DEF OpenDisputeFind, At, Finish, Continue, rows
  <2>5. CASE OpenDisputeCreate(r)
    BY <2>5 DEF OpenDisputeCreate, At, Finish, Continue
  <2>6. CASE OpenDisputeFlag(r)
    <3>1. Contract!Dispute
      BY <2>6 DEF OpenDisputeFlag, At, Contract!Dispute, CanOpenDispute
    <3>2. SerialInv'
      BY <2>6 DEF OpenDisputeFlag, At, Finish, Continue
    <3> QED BY <3>1, <3>2
  <2>7. CASE ResolveReadJob(r)
    BY <2>7 DEF ResolveReadJob, At, Finish, Continue, rows
  <2>8. CASE ResolveCommit(r)
    BY <2>8 DEF ResolveCommit, At, Finish, Continue
  <2>9. CASE ResolveFlag(r)
    <3>1. Contract!Resolve
      BY <2>9 DEF ResolveFlag, At, Contract!Resolve
    <3>2. SerialInv'
      BY <2>9 DEF ResolveFlag, At, Finish, Continue
    <3> QED BY <3>1, <3>2
  <2>10. CASE PatchDisputeCommit(r)
    BY <2>10 DEF PatchDisputeCommit, At, Finish, Continue
  <2> QED BY <1>3, <2>1, <2>2, <2>3, <2>4, <2>5, <2>6, <2>7, <2>8, <2>9, <2>10 DEF Disputing
<1>4. ASSUME NEW r \in Requests, Fail(r) PROVE Goal
  BY <1>4 DEF Fail, Finish, Continue, rows
<1> QED BY <1>0, <1>1, <1>2, <1>3, <1>4 DEF Next

(***************************************************************************)
(* If the server serves one request of the job at a time, the ten handlers *)
(* together enforce the strict transitions of JobContract, even when a     *)
(* request dies between two of its awaits.  (With two requests in flight   *)
(* an award overwrites a cancellation it has not seen.)                    *)
(***************************************************************************)
THEOREM SerialRequestsAreStrict ==
    ASSUME SerialRequests PROVE Spec => StrictTransitions
<1>1. Init => TypeInv /\ EngagedInv /\ SerialInv /\ Contract!Init
  BY UsersAssumption, BlankType
     DEF Init, TypeInv, TypeOK, ReqType, RequestsCarryValues, JobStatus, OfferStatus,
         DisputeStatus, EngagedInv, EngagedHasAwardee, AfterAward, SerialInv, StillTrue,
         Blank, Contract!Init
<1>2. TypeInv /\ EngagedInv /\ SerialInv /\ [Next]_vars
        => TypeInv' /\ EngagedInv' /\ SerialInv' /\ [Contract!Next]_(Contract!vars)
  BY TypeStep, EngagedStep, SerialStep
<1> QED BY <1>1, <1>2, PTL DEF Spec, StrictTransitions, Contract!Spec

----------------------------------------------------------------------------
(* Bids, one request at a time: an offer moves only while the job is OPEN, *)
(* and every way out of OPEN settles all of them at once.                  *)
Offering == {"bid.find", "bid.create", "counter.upsert", "counter.accept", "counter.decline"}
SettledInv ==
    /\ BidsSettled
    /\ \A r \in Requests : req[r].pc \in Offering => job.status = "OPEN"

(* A step that leaves the job and its bids alone, and makes no offer on a  *)
(* job that is not OPEN.                                                   *)
LEMMA SettledBeside ==
    ASSUME SerialRequests, TypeInv, SettledInv, NEW r \in Requests, NEW q,
           req' = [req EXCEPT ![r] = q], job' = job, bid' = bid,
           q.pc \in Offering => job.status = "OPEN"
    PROVE  SettledInv'
<1>1. \A s \in Requests : req'[s] = q
  BY DEF SerialRequests, TypeInv, TypeOK
<1> QED BY <1>1 DEF SettledInv, BidsSettled

(* A step that ends a request, having written a job and bids that agree. *)
LEMMA SettledAfter ==
    ASSUME SerialRequests, TypeInv, NEW r \in Requests, Finish(r), BidsSettled'
    PROVE  SettledInv'
<1>1. \A s \in Requests : req'[s].pc = "idle"
  BY DEF SerialRequests, TypeInv, TypeOK, Finish, Continue, Blank
<1> QED BY <1>1 DEF SettledInv, Offering

LEMMA SettledBidding ==
    ASSUME SerialRequests, TypeInv, SettledInv, NEW r \in Requests, Bidding(r)
    PROVE  SettledInv'
<1>1. ASSUME NEW p \in Providers, \/ PlaceBidRead(r, p) \/ CounterRead(r, p)
                                  \/ AcceptCounterRead(r, p) \/ DeclineCounterRead(r, p)
      PROVE  SettledInv'
  <2>1. job.status = "OPEN" /\ UNCHANGED rows /\ \E q : Begin(r, q)
    BY <1>1 DEF PlaceBidRead, MayPlaceBid, CounterRead, MayCounter, AcceptCounterRead, MayAcceptCounter,
               DeclineCounterRead, MayDeclineCounter
  <2> QED BY <2>1, SettledBeside DEF Begin, rows
<1>2. CASE PlaceBidFind(r)
  <2>1. job.status = "OPEN" /\ UNCHANGED rows /\ \E q : req' = [req EXCEPT ![r] = q]
    BY <1>2 DEF PlaceBidFind, At, Finish, Continue, SettledInv, Offering
  <2> QED BY <2>1, SettledBeside DEF rows
<1>3. CASE PlaceBidCommit(r) \/ CounterUpsert(r) \/ AcceptCounterCommit(r) \/ DeclineCounterCommit(r)
  <2>1. job.status = "OPEN" /\ job' = job /\ Finish(r)
    BY <1>3 DEF PlaceBidCommit, CounterUpsert, AcceptCounterCommit, DeclineCounterCommit, At,
                SettledInv, Offering
  <2> QED BY <2>1, SettledAfter DEF BidsSettled
<1> QED BY <1>1, <1>2, <1>3 DEF Bidding

LEMMA SettledWorking ==
    ASSUME SerialRequests, TypeInv, EngagedInv, SerialInv, SettledInv,
           NEW r \in Requests, Working(r)
    PROVE  SettledInv'
<1>0. job.status \in JobStatus
  BY DEF TypeInv, TypeOK
<1>b. ASSUME NEW q, Begin(r, q), UNCHANGED rows, q.pc \notin Offering PROVE SettledInv'
  BY <1>b, SettledBeside DEF Begin, rows
<1>1. ASSUME NEW p \in Providers, AwardRead(r, p) PROVE SettledInv'
  <2> DEFINE q == [Blank EXCEPT !.pc = "award.commit", !.provider = p]
  <2>1. q.pc = "award.commit" /\ Begin(r, q) /\ UNCHANGED rows
    BY <1>1 DEF AwardRead, MayAward, Blank
  <2> HIDE DEF q
  <2> QED BY <1>b, <2>1 DEF Offering
<1>2. ASSUME NEW p \in Providers, StartRead(r, p) PROVE SettledInv'
  <2> DEFINE q == [Blank EXCEPT !.pc = "start.commit", !.user = p]
  <2>1. q.pc = "start.commit" /\ Begin(r, q) /\ UNCHANGED rows
    BY <1>2 DEF StartRead, MayStart, Blank
  <2> HIDE DEF q
  <2> QED BY <1>b, <2>1 DEF Offering
<1>3. ASSUME NEW u \in Users, MarkCompleteRead(r, u) PROVE SettledInv'
  <2>1. PICK f : Begin(r, [Blank EXCEPT !.pc = "mark.commit", !.user = u, !.pendingFor = f])
    BY <1>3, MarkCompleteReads DEF TypeInv
  <2> DEFINE q == [Blank EXCEPT !.pc = "mark.commit", !.user = u, !.pendingFor = f]
  <2>2. q.pc = "mark.commit" /\ Begin(r, q) /\ UNCHANGED rows
    BY <1>3, <2>1, MarkCompleteReads DEF TypeInv, Blank
  <2> HIDE DEF q
  <2> QED BY <1>b, <2>2 DEF Offering
<1>4. CASE CompleteRead(r)
  BY <1>3, <1>4 DEF CompleteRead, Users
<1>5. ASSUME NEW u \in Users, ConfirmCompleteRead(r, u) PROVE SettledInv'
  <2> DEFINE q == [Blank EXCEPT !.pc = "confirm.commit", !.user = u]
  <2>1. q.pc = "confirm.commit" /\ Begin(r, q) /\ UNCHANGED rows
    BY <1>5, ConfirmCompleteReads DEF Blank
  <2> HIDE DEF q
  <2> QED BY <1>b, <2>1 DEF Offering
<1>6. ASSUME NEW u \in Users \cup {Admin}, CancelRead(r, u) PROVE SettledInv'
  <2> DEFINE q == [Blank EXCEPT !.pc = "cancel.commit", !.user = u]
  <2>1. q.pc = "cancel.commit" /\ Begin(r, q) /\ UNCHANGED rows
    BY <1>6, CancelReads DEF Blank
  <2> HIDE DEF q
  <2> QED BY <1>b, <2>1 DEF Offering
<1>7. CASE AwardCommit(r)
  <2>1. \A p \in Providers : bid'[p] # "PENDING"
    BY <1>7 DEF AwardCommit, AwardedBids
  <2>2. job'.awarded = req[r].provider /\ req[r].provider \in Providers
    BY <1>7 DEF AwardCommit, At, TypeInv, TypeOK, RequestsCarryValues, CarriesItsValues, AtProvider
  <2>3. bid'[job'.awarded] = "ACCEPTED"
    BY <1>7, <2>2 DEF AwardCommit, AwardedBids
  <2> QED BY <1>7, <2>1, <2>3, SettledAfter DEF AwardCommit, BidsSettled
<1>8. CASE StartCommit(r) \/ MarkCompleteCommit(r) \/ ConfirmCompleteCommit(r)
  <2>1. job.status \notin {"OPEN", "CANCELLED"} /\ bid' = bid /\ Finish(r)
    BY <1>8 DEF StartCommit, MarkCompleteCommit, ConfirmCompleteCommit, At, SerialInv, StillTrue
  <2>2. job'.awarded = job.awarded
    BY <1>8 DEF StartCommit, MarkCompleteCommit, ConfirmCompleteCommit, TypeInv, TypeOK
  <2> QED BY <2>1, <2>2, SettledAfter DEF SettledInv, BidsSettled
<1>9. CASE CancelCommit(r)
  <2>1. job'.status = "CANCELLED" /\ Finish(r) /\ \A p \in Providers : bid'[p] # "PENDING"
    BY <1>9 DEF CancelCommit, CancelledJob, TypeInv, TypeOK
  <2> QED BY <2>1, SettledAfter DEF BidsSettled
<1> QED BY <1>1, <1>2, <1>3, <1>4, <1>5, <1>6, <1>7, <1>8, <1>9 DEF Working

LEMMA SettledDisputing ==
    ASSUME SerialRequests, TypeInv, SerialInv, SettledInv, NEW r \in Requests, Disputing(r)
    PROVE  SettledInv'
<1>0. req[r] \in ReqType /\ job.status \in JobStatus
  BY DEF TypeInv, TypeOK, ReqType
<1>b. ASSUME NEW q, req' = [req EXCEPT ![r] = q], job' = job, bid' = bid, q.pc \notin Offering
      PROVE  SettledInv'
  BY <1>b, SettledBeside
<1>c. ASSUME Finish(r), job' = job, bid' = bid PROVE SettledInv'
  BY <1>c, SettledAfter DEF SettledInv, BidsSettled
<1>1. ASSUME NEW u \in Users, OpenDisputeRead(r, u) PROVE SettledInv'
  <2> DEFINE q == [Blank EXCEPT !.pc = "dispute.find", !.user = u]
  <2>1. q.pc = "dispute.find" /\ Begin(r, q) /\ UNCHANGED rows
    BY <1>1, OpenDisputeReads DEF Blank
  <2> HIDE DEF q
  <2> QED BY <1>b, <2>1 DEF Offering, Begin, rows
<1>2. ASSUME NEW d \in Disputes, NEW s \in Rulings, ResolveRead(r, d, s) PROVE SettledInv'
  <2> DEFINE q == [Blank EXCEPT !.pc = "resolve.job", !.dispute = d, !.status = s]
  <2>1. q.pc = "resolve.job" /\ Begin(r, q) /\ UNCHANGED rows
    BY <1>2 DEF ResolveRead, Blank
  <2> HIDE DEF q
  <2> QED BY <1>b, <2>1 DEF Offering, Begin, rows
<1>3. ASSUME NEW d \in Disputes, NEW s \in DisputeStatus, PatchDisputeRead(r, d, s)
      PROVE  SettledInv'
  <2> DEFINE q == [Blank EXCEPT !.pc = "patch.commit", !.dispute = d, !.status = s]
  <2>1. q.pc = "patch.commit" /\ Begin(r, q) /\ UNCHANGED rows
    BY <1>3 DEF PatchDisputeRead, Blank
  <2> HIDE DEF q
  <2> QED BY <1>b, <2>1 DEF Offering, Begin, rows
<1>4. CASE OpenDisputeFind(r)
  <2> DEFINE q == [req[r] EXCEPT !.pc = "dispute.create"]
  <2>1. q.pc = "dispute.create" /\ (Finish(r) \/ req' = [req EXCEPT ![r] = q])
    BY <1>0, <1>4 DEF OpenDisputeFind, Continue, ReqType
  <2> HIDE DEF q
  <2> QED BY <1>b, <1>c, <1>4, <2>1 DEF Offering, OpenDisputeFind, rows
<1>5. CASE OpenDisputeCreate(r)
  <2>1. PICK d \in Disputes : Continue(r, [req[r] EXCEPT !.pc = "dispute.flag", !.dispute = d])
    BY <1>5 DEF OpenDisputeCreate
  <2> DEFINE q == [req[r] EXCEPT !.pc = "dispute.flag", !.dispute = d]
  <2>2. q.pc = "dispute.flag" /\ req' = [req EXCEPT ![r] = q]
    BY <1>0, <2>1 DEF Continue, ReqType
  <2> HIDE DEF q
  <2> QED BY <1>b, <1>5, <2>2 DEF Offering, OpenDisputeCreate
<1>6. CASE ResolveReadJob(r)
  <2> DEFINE q == [req[r] EXCEPT !.pc = "resolve.commit"]
  <2>1. q.pc = "resolve.commit" /\ (Finish(r) \/ req' = [req EXCEPT ![r] = q])
    BY <1>0, <1>6 DEF ResolveReadJob, Continue, ReqType
  <2> HIDE DEF q
  <2> QED BY <1>b, <1>c, <1>6, <2>1 DEF Offering, ResolveReadJob, rows
<1>7. CASE ResolveCommit(r)
  <2> DEFINE q == [req[r] EXCEPT !.pc = "resolve.flag"]
  <2>1. q.pc = "resolve.flag" /\ req' = [req EXCEPT ![r] = q]
    BY <1>0, <1>7 DEF ResolveCommit, Continue, ReqType
  <2> HIDE DEF q
  <2> QED BY <1>b, <1>7, <2>1 DEF Offering, ResolveCommit
<1>8. CASE OpenDisputeFlag(r) \/ ResolveFlag(r)
  <2>1. job.status \notin {"OPEN", "CANCELLED"} /\ bid' = bid /\ Finish(r)
    BY <1>8 DEF OpenDisputeFlag, ResolveFlag, At, SerialInv, StillTrue, CanOpenDispute
  <2>2. job'.awarded = job.awarded
    BY <1>8 DEF OpenDisputeFlag, ResolveFlag, TypeInv, TypeOK
  <2> QED BY <2>1, <2>2, SettledAfter DEF SettledInv, BidsSettled
<1>9. CASE PatchDisputeCommit(r)
  BY <1>c, <1>9 DEF PatchDisputeCommit
<1> QED BY <1>1, <1>2, <1>3, <1>4, <1>5, <1>6, <1>7, <1>8, <1>9 DEF Disputing

LEMMA SettledStep ==
    ASSUME SerialRequests, TypeInv, EngagedInv, SerialInv, SettledInv, [Next]_vars
    PROVE  SettledInv'
<1>0. CASE UNCHANGED vars
  BY <1>0 DEF vars, SettledInv, BidsSettled
<1>1. ASSUME NEW r \in Requests, Fail(r) PROVE SettledInv'
  BY <1>1, SettledAfter DEF Fail, rows, SettledInv, BidsSettled
<1> QED BY <1>0, <1>1, SettledBidding, SettledWorking, SettledDisputing DEF Next

(***************************************************************************)
(* If the server serves one request of the job at a time, no bid is left   *)
(* waiting once the job has left OPEN, and the awardee of an engaged job   *)
(* holds an ACCEPTED bid, even when requests die half-way.  (With two      *)
(* requests a bid can arrive after the award.)                             *)
(***************************************************************************)
THEOREM SerialRequestsSettleBids ==
    ASSUME SerialRequests PROVE Spec => []BidsSettled
<1>1. Init => TypeInv /\ EngagedInv /\ SerialInv /\ SettledInv
  BY UsersAssumption, BlankType
     DEF Init, TypeInv, TypeOK, ReqType, RequestsCarryValues, JobStatus, OfferStatus,
         DisputeStatus, EngagedInv, EngagedHasAwardee, AfterAward, SerialInv, StillTrue,
         Blank, SettledInv, BidsSettled, Offering
<1>2. TypeInv /\ EngagedInv /\ SerialInv /\ SettledInv /\ [Next]_vars
        => TypeInv' /\ EngagedInv' /\ SerialInv' /\ SettledInv'
  BY TypeStep, EngagedStep, SerialStep, SettledStep
<1>3. SettledInv => BidsSettled
  BY DEF SettledInv
<1> QED BY <1>1, <1>2, <1>3, PTL DEF Spec

----------------------------------------------------------------------------
(* Two requests at a time, none of which dies half-way. *)
TwoRequests == \A q, r, s \in Requests : q = r \/ r = s \/ q = s

(* A dispute that lasts: unresolved, and no PATCH in flight is about to    *)
(* write back a RESOLVED that it read before the dispute was reopened.     *)
Reviving(d) == \E r \in Requests : /\ req[r].pc = "patch.commit"
                                   /\ req[r].status = "RESOLVED"
                                   /\ req[r].dispute = d
Lasting(d) == Unresolved(d) /\ ~Reviving(d)
OneLasts == \E d \in Disputes : Lasting(d)
LastsBeside(x) == \E d \in Disputes : d # x /\ Lasting(d)
TwoLast == OneLasts /\ \A x \in Disputes : LastsBeside(x)

(* While a request has a dispute to announce, one dispute lasts, and not   *)
(* only one that the other request, s, is about to resolve; and two last   *)
(* when s may still come to resolve one of them: the job is DISPUTED, or s *)
(* is about to make it so.                                                 *)
Leaves(s) ==
    /\ At(s, "resolve.commit") => LastsBeside(req[s].dispute)
    /\ At(s, "dispute.flag") => TwoLast
    /\ job.status = "DISPUTED" /\ req[s].pc \notin {"resolve.commit", "resolve.flag"} => TwoLast
Announceable(r) == OneLasts /\ \A s \in Requests \ {r} : Leaves(s)

Deciding == {"resolve.job", "resolve.commit", "patch.commit"}
DecidableInv ==
    /\ \A r \in Requests : req[r].pc \in Deciding => dispute[req[r].dispute].status # "NONE"
    /\ job.status = "DISPUTED" => OneLasts \/ \E r \in Requests : At(r, "resolve.flag")
    /\ \A r \in Requests : At(r, "dispute.flag") => Announceable(r)

(* Awaits at which a request decides or announces nothing. *)
Apart == PCs \ {"resolve.job", "resolve.commit", "resolve.flag", "patch.commit", "dispute.flag"}

LEMMA Moved ==
    ASSUME TypeOK, NEW r \in Requests, NEW q, req' = [req EXCEPT ![r] = q]
    PROVE  req'[r] = q /\ \A s \in Requests \ {r} : req'[s] = req[s]
  BY DEF TypeOK

(* A step of a request that comes to nothing of the kind, and writes no    *)
(* dispute, keeps the invariant.                                           *)
LEMMA ApartStep ==
    ASSUME TypeInv, DecidableInv, NEW r \in Requests, NEW q, req' = [req EXCEPT ![r] = q],
           dispute' = dispute, job'.status = "DISPUTED" => job.status = "DISPUTED",
           req[r].pc \in Apart \cup {"resolve.job"},
           \/ q.pc \in Apart
           \/ q.pc = "resolve.job" /\ dispute[q.dispute].status # "NONE"
    PROVE  DecidableInv'
<1>1. req'[r] = q /\ \A s \in Requests \ {r} : req'[s] = req[s]
  BY Moved DEF TypeInv
<1>2. /\ OneLasts' <=> OneLasts
      /\ TwoLast' <=> TwoLast
      /\ \A x : LastsBeside(x)' <=> LastsBeside(x)
  <2>1. ASSUME NEW d PROVE Reviving(d)' <=> Reviving(d)
    BY <1>1, Zenon DEF Reviving, Apart
  <2>2. \A d : Lasting(d)' <=> Lasting(d)
    BY <2>1 DEF Lasting, Unresolved
  <2> QED BY <2>2 DEF OneLasts, TwoLast, LastsBeside
<1>3. \A s \in Requests : req'[s].pc \in Deciding => dispute'[req'[s].dispute].status # "NONE"
  BY <1>1 DEF DecidableInv, Deciding, Apart
<1>4. job'.status = "DISPUTED" => OneLasts' \/ \E s \in Requests : At(s, "resolve.flag")'
  BY <1>1, <1>2 DEF DecidableInv, At, Apart
<1>5. ASSUME NEW s \in Requests, At(s, "dispute.flag")' PROVE Announceable(s)'
  <2>1. s # r /\ At(s, "dispute.flag") /\ Announceable(s)
    BY <1>1, <1>5 DEF At, Apart, DecidableInv
  <2>2. ASSUME NEW t \in Requests \ {s} PROVE Leaves(t)'
    <3>0. Leaves(t)
      BY <2>1 DEF Announceable
    <3>1. CASE t = r
      BY <1>1, <1>2, <3>0, <3>1 DEF At, Leaves, Apart
    <3>2. CASE t # r
      <4>1. req'[t] = req[t] /\ LastsBeside(req[t].dispute)' <=> LastsBeside(req[t].dispute)
        BY <1>1, <1>2, <3>2
      <4> QED BY <1>1, <1>2, <3>0, <3>2, <4>1 DEF At, Leaves
    <3> QED BY <3>1, <3>2
  <2> QED BY <1>2, <2>1, <2>2 DEF Announceable
<1> QED BY <1>3, <1>4, <1>5 DEF DecidableInv

LEMMA ApartFinishes ==
    ASSUME TypeInv, DecidableInv, NEW r \in Requests, Finish(r), dispute' = dispute,
           job'.status = "DISPUTED" => job.status = "DISPUTED",
           req[r].pc \in Apart \cup {"resolve.job"}
    PROVE  DecidableInv'
  BY ApartStep DEF Finish, Continue, Blank, Apart, PCs

(* The handlers that neither open nor decide disputes. *)
LEMMA WorkIsApart ==
    ASSUME TypeInv, DecidableInv, NEW r \in Requests, Bidding(r) \/ Working(r)
    PROVE  DecidableInv'
<1>0. req[r] \in ReqType /\ job.status \in JobStatus
  BY DEF TypeInv, TypeOK, ReqType
<1>a. ASSUME NEW q, req' = [req EXCEPT ![r] = q], UNCHANGED rows,
             req[r].pc \in Apart, q.pc \in Apart
      PROVE  DecidableInv'
  BY <1>a, ApartStep DEF rows
<1>b. ASSUME NEW q, Begin(r, q), UNCHANGED rows, q.pc \in Apart PROVE DecidableInv'
  <2>1. req' = [req EXCEPT ![r] = q] /\ req[r].pc \in Apart
    BY <1>b DEF Begin, Blank, Apart, PCs
  <2> QED BY <1>a, <1>b, <2>1
<1>1. ASSUME Bidding(r) PROVE DecidableInv'
  <2>1. ASSUME NEW p \in Providers, \/ PlaceBidRead(r, p) \/ CounterRead(r, p)
                                    \/ AcceptCounterRead(r, p) \/ DeclineCounterRead(r, p)
        PROVE  DecidableInv'
    <3> DEFINE q(pc) == [Blank EXCEPT !.pc = pc, !.provider = p]
    <3>1. \A pc : q(pc).pc = pc
      BY DEF Blank
    <3>2. /\ \E pc \in {"bid.find", "counter.upsert", "counter.accept", "counter.decline"} :
                Begin(r, q(pc))
          /\ UNCHANGED rows
      BY <2>1 DEF PlaceBidRead, MayPlaceBid, CounterRead, MayCounter, AcceptCounterRead, MayAcceptCounter,
                 DeclineCounterRead, MayDeclineCounter
    <3> HIDE DEF q
    <3> QED BY <1>b, <3>1, <3>2 DEF Apart, PCs
  <2>2. CASE PlaceBidFind(r)
    <3> DEFINE q == [req[r] EXCEPT !.pc = "bid.create"]
    <3>1. q.pc = "bid.create" /\ req[r].pc = "bid.find" /\ UNCHANGED rows
      BY <1>0, <2>2 DEF PlaceBidFind, At, ReqType
    <3>2. Finish(r) \/ req' = [req EXCEPT ![r] = q]
      BY <2>2 DEF PlaceBidFind, Continue
    <3> HIDE DEF q
    <3> QED BY <1>a, <3>1, <3>2, ApartFinishes DEF Apart, PCs, rows
  <2>3. CASE PlaceBidCommit(r) \/ CounterUpsert(r) \/ AcceptCounterCommit(r) \/ DeclineCounterCommit(r)
    <3>1. Finish(r) /\ dispute' = dispute /\ job' = job
      BY <2>3 DEF PlaceBidCommit, CounterUpsert, AcceptCounterCommit, DeclineCounterCommit
    <3>2. req[r].pc \in {"bid.create", "counter.upsert", "counter.accept", "counter.decline"}
      BY <2>3 DEF PlaceBidCommit, CounterUpsert, AcceptCounterCommit, DeclineCounterCommit, At
    <3> QED BY <3>1, <3>2, ApartFinishes DEF Apart, PCs
  <2> QED BY <1>1, <2>1, <2>2, <2>3 DEF Bidding
<1>2. ASSUME Working(r) PROVE DecidableInv'
  <2>1. ASSUME NEW p \in Providers, AwardRead(r, p) PROVE DecidableInv'
    <3> DEFINE q == [Blank EXCEPT !.pc = "award.commit", !.provider = p]
    <3>1. q.pc = "award.commit" /\ Begin(r, q) /\ UNCHANGED rows
      BY <2>1 DEF AwardRead, MayAward, Blank
    <3> HIDE DEF q
    <3> QED BY <1>b, <3>1 DEF Apart, PCs
  <2>2. ASSUME NEW p \in Providers, StartRead(r, p) PROVE DecidableInv'
    <3> DEFINE q == [Blank EXCEPT !.pc = "start.commit", !.user = p]
    <3>1. q.pc = "start.commit" /\ Begin(r, q) /\ UNCHANGED rows
      BY <2>2 DEF StartRead, MayStart, Blank
    <3> HIDE DEF q
    <3> QED BY <1>b, <3>1 DEF Apart, PCs
  <2>3. ASSUME NEW u \in Users, MarkCompleteRead(r, u) PROVE DecidableInv'
    <3>1. PICK f : Begin(r, [Blank EXCEPT !.pc = "mark.commit", !.user = u, !.pendingFor = f])
      BY <2>3, MarkCompleteReads DEF TypeInv
    <3> DEFINE q == [Blank EXCEPT !.pc = "mark.commit", !.user = u, !.pendingFor = f]
    <3>2. q.pc = "mark.commit" /\ Begin(r, q) /\ UNCHANGED rows
      BY <2>3, <3>1, MarkCompleteReads DEF TypeInv, Blank
    <3> HIDE DEF q
    <3> QED BY <1>b, <3>2 DEF Apart, PCs
  <2>4. CASE CompleteRead(r)
    BY <2>3, <2>4 DEF CompleteRead, Users
  <2>6. ASSUME NEW u \in Users, ConfirmCompleteRead(r, u) PROVE DecidableInv'
    <3> DEFINE q == [Blank EXCEPT !.pc = "confirm.commit", !.user = u]
    <3>1. q.pc = "confirm.commit" /\ Begin(r, q) /\ UNCHANGED rows
      BY <2>6, ConfirmCompleteReads DEF Blank
    <3> HIDE DEF q
    <3> QED BY <1>b, <3>1 DEF Apart, PCs
  <2>7. ASSUME NEW u \in Users \cup {Admin}, CancelRead(r, u) PROVE DecidableInv'
    <3> DEFINE q == [Blank EXCEPT !.pc = "cancel.commit", !.user = u]
    <3>1. q.pc = "cancel.commit" /\ Begin(r, q) /\ UNCHANGED rows
      BY <2>7, CancelReads DEF Blank
    <3> HIDE DEF q
    <3> QED BY <1>b, <3>1 DEF Apart, PCs
  <2>8. CASE AwardCommit(r) \/ StartCommit(r) \/ MarkCompleteCommit(r)
               \/ ConfirmCompleteCommit(r) \/ CancelCommit(r)
    <3>1. Finish(r) /\ dispute' = dispute
      BY <2>8 DEF AwardCommit, StartCommit, MarkCompleteCommit, ConfirmCompleteCommit, CancelCommit
    <3>2. req[r].pc \in {"award.commit", "start.commit", "mark.commit", "confirm.commit", "cancel.commit"}
      BY <2>8 DEF AwardCommit, StartCommit, MarkCompleteCommit, ConfirmCompleteCommit, CancelCommit, At
    <3>3. job'.status # "DISPUTED"
      BY <2>8 DEF AwardCommit, StartCommit, MarkCompleteCommit, ConfirmCompleteCommit, CancelCommit,
                  CancelledJob, TypeInv, TypeOK
    <3> QED BY <3>1, <3>2, <3>3, ApartFinishes DEF Apart, PCs
  <2> QED BY <1>2, <2>1, <2>2, <2>3, <2>4, <2>6, <2>7, <2>8 DEF Working
<1> QED BY <1>1, <1>2

(* Opening a dispute: its row lasts, and it is one more than before. *)
LEMMA CreateStep ==
    ASSUME TwoRequests, TypeInv, DecidableInv, NEW r \in Requests, OpenDisputeCreate(r)
    PROVE  DecidableInv'
<1>1. PICK d \in Disputes :
          /\ dispute[d].status = "NONE"
          /\ dispute' = [dispute EXCEPT ![d].status = "OPEN"]
          /\ req' = [req EXCEPT ![r] = [req[r] EXCEPT !.pc = "dispute.flag", !.dispute = d]]
  BY DEF OpenDisputeCreate, Continue
<1>2. job' = job /\ req[r].pc = "dispute.create"
  BY DEF OpenDisputeCreate, At
<1>3. req'[r].pc = "dispute.flag" /\ \A s \in Requests \ {r} : req'[s] = req[s]
  BY <1>1 DEF TypeInv, TypeOK
<1>4. \A e \in Disputes : dispute'[e].status = IF e = d THEN "OPEN" ELSE dispute[e].status
  BY <1>1 DEF TypeInv, TypeOK
<1>5. /\ \A e \in Disputes \ {d} : Lasting(e)' <=> Lasting(e)
      /\ Lasting(d)' /\ ~Lasting(d)
      /\ \A s \in Requests \ {r} : req[s].pc \in Deciding => req[s].dispute # d
  <2>1. \A s \in Requests \ {r} : req[s].pc \in Deciding => req[s].dispute # d
    BY <1>1 DEF DecidableInv
  <2>2. ASSUME NEW e PROVE Reviving(e)' <=> Reviving(e)
    BY <1>2, <1>3, Zenon DEF Reviving
  <2>3. ~Reviving(d)
    BY <1>2, <2>1 DEF Reviving, Deciding
  <2> QED BY <1>1, <1>4, <2>1, <2>2, <2>3 DEF Lasting, Unresolved
<1>6. OneLasts' /\ (OneLasts => TwoLast')
  BY <1>5 DEF OneLasts, TwoLast, LastsBeside
<1>7. \A s \in Requests : req'[s].pc \in Deciding => dispute'[req'[s].dispute].status # "NONE"
  <2>1. \A s \in Requests \ {r} : req'[s].pc \in Deciding => /\ dispute[req[s].dispute].status # "NONE"
                                                             /\ req[s].dispute \in Disputes
    BY <1>3 DEF DecidableInv, Deciding, TypeInv, RequestsCarryValues, CarriesItsValues, AtRuling
  <2> QED BY <1>3, <1>4, <2>1 DEF Deciding
<1>8. Announceable(r)'
  <2>1. ASSUME NEW s \in Requests \ {r} PROVE Leaves(s)'
    <3>1. req'[s] = req[s] /\ (At(s, "dispute.flag") => Announceable(s))
      BY <1>3 DEF DecidableInv
    <3>2. At(s, "resolve.commit")' => LastsBeside(req[s].dispute)'
      BY <1>5, <3>1 DEF At, Deciding, LastsBeside
    <3>3. At(s, "dispute.flag")' => TwoLast'
      BY <1>6, <3>1 DEF At, Announceable
    <3>4. job'.status = "DISPUTED" /\ req'[s].pc \notin {"resolve.commit", "resolve.flag"} => TwoLast'
      <4>1. CASE \E t \in Requests : At(t, "resolve.flag")
        BY <1>2, <3>1, <4>1 DEF At, TwoRequests
      <4>2. CASE OneLasts
        BY <1>6, <4>2
      <4> QED BY <1>2, <4>1, <4>2 DEF DecidableInv
    <3> QED BY <3>2, <3>3, <3>4 DEF Leaves
  <2> QED BY <1>6, <2>1 DEF Announceable
<1>9. ASSUME NEW s \in Requests \ {r}, At(s, "dispute.flag")' PROVE Announceable(s)'
  <2>1. At(s, "dispute.flag") /\ Announceable(s)
    BY <1>3, <1>9 DEF At, DecidableInv
  <2>2. TwoLast'
    BY <1>6, <2>1 DEF Announceable
  <2>3. ASSUME NEW t \in Requests \ {s} PROVE Leaves(t)'
    BY <1>3, <2>2, <2>3 DEF TwoRequests, Leaves, At
  <2> QED BY <1>6, <2>3 DEF Announceable
<1> QED BY <1>6, <1>7, <1>8, <1>9 DEF DecidableInv, At

(* A request that has announced its dispute leaves one that lasts. *)
LEMMA FlagStep ==
    ASSUME TwoRequests, TypeInv, DecidableInv, NEW r \in Requests, OpenDisputeFlag(r)
    PROVE  DecidableInv'
<1>1. /\ req' = [req EXCEPT ![r] = Blank] /\ dispute' = dispute
      /\ req[r].pc = "dispute.flag" /\ Announceable(r)
  BY DEF OpenDisputeFlag, Finish, Continue, At, DecidableInv
<1>2. req'[r].pc = "idle" /\ \A s \in Requests \ {r} : req'[s] = req[s]
  BY <1>1 DEF TypeInv, TypeOK, Blank
<1>3. \A d : Lasting(d)' <=> Lasting(d)
  <2>1. ASSUME NEW d PROVE Reviving(d)' <=> Reviving(d)
    BY <1>1, <1>2, Zenon DEF Reviving
  <2> QED BY <1>1, <2>1 DEF Lasting, Unresolved
<1>4. OneLasts' /\ (TwoLast' <=> TwoLast)
  BY <1>1, <1>3 DEF Announceable, OneLasts, TwoLast, LastsBeside
<1>5. \A s \in Requests : req'[s].pc \in Deciding => dispute'[req'[s].dispute].status # "NONE"
  BY <1>1, <1>2 DEF DecidableInv, Deciding
<1>6. ASSUME NEW s \in Requests, At(s, "dispute.flag")' PROVE Announceable(s)'
  <2>1. s # r /\ At(s, "dispute.flag")
    BY <1>2, <1>6 DEF At
  <2>2. TwoLast
    BY <1>1, <2>1 DEF Announceable, Leaves
  <2>3. ASSUME NEW t \in Requests \ {s} PROVE Leaves(t)'
    BY <1>2, <1>4, <2>1, <2>2 DEF TwoRequests, Leaves, At
  <2> QED BY <1>4, <2>3 DEF Announceable
<1> QED BY <1>4, <1>5, <1>6 DEF DecidableInv

(* A request turns to a dispute: one that is there, and lasts only if it   *)
(* is not about to be written RESOLVED.                                    *)
LEMMA DecideReads ==
    ASSUME TypeInv, DecidableInv, NEW r \in Requests, NEW q, Begin(r, q), UNCHANGED rows,
           q.pc \in {"resolve.job", "patch.commit"}, q.dispute \in Disputes,
           dispute[q.dispute].status # "NONE",
           q.pc = "patch.commit" /\ q.status = "RESOLVED" => ~Unresolved(q.dispute)
    PROVE  DecidableInv'
<1>1. req'[r] = q /\ req[r].pc = "idle" /\ \A s \in Requests \ {r} : req'[s] = req[s]
  BY DEF Begin, Blank, TypeInv, TypeOK
<1>2. job' = job /\ dispute' = dispute
  BY DEF rows
<1>3. \A d : Lasting(d)' <=> Lasting(d)
  <2> SUFFICES ASSUME NEW d PROVE Lasting(d)' <=> Lasting(d)
    OBVIOUS
  <2>1. Unresolved(d)' <=> Unresolved(d)
    BY <1>2 DEF Unresolved
  <2>2. ASSUME Reviving(d) PROVE Reviving(d)'
    <3>1. PICK s \in Requests :
              req[s].pc = "patch.commit" /\ req[s].status = "RESOLVED" /\ req[s].dispute = d
      BY <2>2 DEF Reviving
    <3>2. req'[s] = req[s]
      BY <1>1, <3>1
    <3> QED BY <3>1, <3>2 DEF Reviving
  <2>3. ASSUME Reviving(d)', ~Reviving(d) PROVE ~Unresolved(d)
    <3>1. PICK s \in Requests :
              req'[s].pc = "patch.commit" /\ req'[s].status = "RESOLVED" /\ req'[s].dispute = d
      BY <2>3 DEF Reviving
    <3>2. s = r
      BY <1>1, <2>3, <3>1 DEF Reviving
    <3> QED BY <1>1, <3>1, <3>2
  <2> QED BY <2>1, <2>2, <2>3 DEF Lasting
<1>4. /\ OneLasts' <=> OneLasts
      /\ TwoLast' <=> TwoLast
      /\ \A x : LastsBeside(x)' <=> LastsBeside(x)
  BY <1>3 DEF OneLasts, TwoLast, LastsBeside
<1>5. \A s \in Requests : req'[s].pc \in Deciding => dispute'[req'[s].dispute].status # "NONE"
  BY <1>1, <1>2 DEF DecidableInv
<1>6. job'.status = "DISPUTED" => OneLasts' \/ \E s \in Requests : At(s, "resolve.flag")'
  BY <1>1, <1>2, <1>4 DEF DecidableInv, At
<1>7. ASSUME NEW s \in Requests, At(s, "dispute.flag")' PROVE Announceable(s)'
  <2>1. s # r /\ At(s, "dispute.flag") /\ Announceable(s)
    BY <1>1, <1>7 DEF At, DecidableInv
  <2>2. ASSUME NEW t \in Requests \ {s} PROVE Leaves(t)'
    <3>0. Leaves(t)
      BY <2>1 DEF Announceable
    <3>1. CASE t = r
      BY <1>1, <1>2, <1>4, <3>0, <3>1 DEF At, Leaves
    <3>2. CASE t # r
      <4>1. req'[t] = req[t]
        BY <1>1, <3>2
      <4>2. LastsBeside(req[t].dispute)' <=> LastsBeside(req[t].dispute)
        BY <1>3, <4>1 DEF LastsBeside
      <4> QED BY <1>2, <1>4, <3>0, <4>1, <4>2 DEF At, Leaves
    <3> QED BY <3>1, <3>2
  <2> QED BY <1>4, <2>1, <2>2 DEF Announceable
<1> QED BY <1>5, <1>6, <1>7 DEF DecidableInv

(* POST resolve finds the job DISPUTED: if a dispute is still to be        *)
(* announced, then two last.                                               *)
LEMMA ResolveReadJobStep ==
    ASSUME TypeInv, DecidableInv, NEW r \in Requests, ResolveReadJob(r)
    PROVE  DecidableInv'
<1>1. CASE job.status # "DISPUTED"
  BY <1>1, ApartFinishes DEF ResolveReadJob, At, rows
<1>2. CASE job.status = "DISPUTED"
  <2>1. /\ req' = [req EXCEPT ![r] = [req[r] EXCEPT !.pc = "resolve.commit"]]
        /\ req[r].pc = "resolve.job" /\ job' = job /\ dispute' = dispute
    BY <1>2 DEF ResolveReadJob, At, Continue, rows
  <2>2. /\ req'[r].pc = "resolve.commit" /\ req'[r].dispute = req[r].dispute
        /\ \A s \in Requests \ {r} : req'[s] = req[s]
    BY <2>1 DEF TypeInv, TypeOK
  <2>3. \A d : Lasting(d)' <=> Lasting(d)
    <3>1. ASSUME NEW d PROVE Reviving(d)' <=> Reviving(d)
      BY <2>1, <2>2, Zenon DEF Reviving
    <3> QED BY <2>1, <3>1 DEF Lasting, Unresolved
  <2>4. /\ OneLasts' <=> OneLasts
        /\ TwoLast' <=> TwoLast
        /\ \A x : LastsBeside(x)' <=> LastsBeside(x)
    BY <2>3 DEF OneLasts, TwoLast, LastsBeside
  <2>5. \A s \in Requests : req'[s].pc \in Deciding => dispute'[req'[s].dispute].status # "NONE"
    BY <2>1, <2>2 DEF DecidableInv, Deciding
  <2>6. job'.status = "DISPUTED" => OneLasts' \/ \E s \in Requests : At(s, "resolve.flag")'
    BY <2>1, <2>2, <2>4 DEF DecidableInv, At
  <2>7. ASSUME NEW s \in Requests, At(s, "dispute.flag")' PROVE Announceable(s)'
    <3>1. s # r /\ At(s, "dispute.flag") /\ Announceable(s)
      BY <2>2, <2>7 DEF At, DecidableInv
    <3>2. ASSUME NEW t \in Requests \ {s} PROVE Leaves(t)'
      <4>0. Leaves(t)
        BY <3>1 DEF Announceable
      <4>1. CASE t = r
        <5>1. TwoLast /\ req[r].dispute \in Disputes
          BY <1>2, <2>1, <4>0, <4>1
             DEF Leaves, TypeInv, RequestsCarryValues, CarriesItsValues, AtRuling
        <5>2. LastsBeside(req[r].dispute)
          BY <5>1 DEF TwoLast
        <5>3. LastsBeside(req[r].dispute)' /\ TwoLast'
          <6>1. LastsBeside(req[r].dispute)' <=> LastsBeside(req[r].dispute)
            BY <2>2, <2>3 DEF LastsBeside
          <6> QED BY <2>4, <5>1, <5>2, <6>1
        <5> QED BY <4>1, <5>3 DEF At, Leaves
      <4>2. CASE t # r
        <5>1. req'[t] = req[t]
          BY <2>2, <4>2
        <5>2. LastsBeside(req[t].dispute)' <=> LastsBeside(req[t].dispute)
          BY <2>3, <5>1 DEF LastsBeside
        <5> QED BY <2>1, <2>4, <4>0, <5>1, <5>2 DEF At, Leaves
      <4> QED BY <4>1, <4>2
    <3> QED BY <2>4, <3>1, <3>2 DEF Announceable
  <2> QED BY <2>5, <2>6, <2>7 DEF DecidableInv
<1> QED BY <1>1, <1>2

(* The dispute that is resolved was not the only one that lasts, if one is *)
(* still to be announced.                                                  *)
LEMMA ResolveCommitStep ==
    ASSUME TwoRequests, TypeInv, DecidableInv, NEW r \in Requests, ResolveCommit(r)
    PROVE  DecidableInv'
<1> DEFINE x == req[r].dispute
<1>1. /\ req' = [req EXCEPT ![r] = [req[r] EXCEPT !.pc = "resolve.flag"]]
      /\ req[r].pc = "resolve.commit" /\ job' = job /\ x \in Disputes
      /\ dispute' = [dispute EXCEPT ![x] = [status |-> "RESOLVED", ruling |-> req[r].status]]
  BY DEF ResolveCommit, At, Continue, TypeInv, RequestsCarryValues, CarriesItsValues, AtRuling
<1>2. req'[r].pc = "resolve.flag" /\ \A s \in Requests \ {r} : req'[s] = req[s]
  BY <1>1 DEF TypeInv, TypeOK
<1>3. \A d \in Disputes : dispute'[d].status = IF d = x THEN "RESOLVED" ELSE dispute[d].status
  BY <1>1 DEF TypeInv, TypeOK
<1>4. \A d \in Disputes \ {x} : Lasting(d)' <=> Lasting(d)
  <2>1. ASSUME NEW d PROVE Reviving(d)' <=> Reviving(d)
    BY <1>1, <1>2, Zenon DEF Reviving
  <2> QED BY <1>3, <2>1 DEF Lasting, Unresolved
<1>5. \A s \in Requests : req'[s].pc \in Deciding => dispute'[req'[s].dispute].status # "NONE"
  <2>1. \A s \in Requests : req'[s].pc \in Deciding =>
            /\ s # r /\ req'[s] = req[s] /\ req[s].dispute \in Disputes
            /\ dispute[req[s].dispute].status # "NONE"
    BY <1>2 DEF DecidableInv, Deciding, TypeInv, RequestsCarryValues, CarriesItsValues, AtRuling
  <2> QED BY <1>3, <2>1
<1>6. ASSUME NEW s \in Requests, At(s, "dispute.flag")' PROVE Announceable(s)'
  <2>1. s # r /\ At(s, "dispute.flag") /\ Announceable(s)
    BY <1>2, <1>6 DEF At, DecidableInv
  <2>2. LastsBeside(x)
    BY <1>1, <2>1 DEF Announceable, Leaves, At
  <2>3. OneLasts'
    BY <1>4, <2>2 DEF OneLasts, LastsBeside
  <2>4. ASSUME NEW t \in Requests \ {s} PROVE Leaves(t)'
    BY <1>2, <2>1, <2>4 DEF TwoRequests, Leaves, At
  <2> QED BY <2>3, <2>4 DEF Announceable
<1> QED BY <1>2, <1>5, <1>6 DEF DecidableInv, At

(* The job is no longer DISPUTED, and as many disputes last as before. *)
LEMMA ResolveFlagStep ==
    ASSUME TwoRequests, TypeInv, DecidableInv, NEW r \in Requests, ResolveFlag(r)
    PROVE  DecidableInv'
<1>1. /\ req' = [req EXCEPT ![r] = Blank] /\ dispute' = dispute
      /\ req[r].pc = "resolve.flag" /\ job'.status # "DISPUTED"
  BY DEF ResolveFlag, Finish, Continue, At, TypeInv, TypeOK, RequestsCarryValues,
         CarriesItsValues, AtRuling, Rulings
<1>2. req'[r].pc = "idle" /\ \A s \in Requests \ {r} : req'[s] = req[s]
  BY <1>1 DEF TypeInv, TypeOK, Blank
<1>3. OneLasts' <=> OneLasts
  <2>1. ASSUME NEW d PROVE Reviving(d)' <=> Reviving(d)
    BY <1>1, <1>2, Zenon DEF Reviving
  <2> QED BY <1>1, <2>1 DEF Lasting, Unresolved, OneLasts
<1>4. \A s \in Requests : req'[s].pc \in Deciding => dispute'[req'[s].dispute].status # "NONE"
  BY <1>1, <1>2 DEF DecidableInv, Deciding
<1>5. ASSUME NEW s \in Requests, At(s, "dispute.flag")' PROVE Announceable(s)'
  <2>1. s # r /\ At(s, "dispute.flag") /\ Announceable(s)
    BY <1>2, <1>5 DEF At, DecidableInv
  <2>2. ASSUME NEW t \in Requests \ {s} PROVE Leaves(t)'
    BY <1>1, <1>2, <2>1, <2>2 DEF TwoRequests, Leaves, At
  <2> QED BY <1>3, <2>1, <2>2 DEF Announceable
<1> QED BY <1>1, <1>4, <1>5 DEF DecidableInv

(* A PATCH takes no lasting dispute away. *)
LEMMA PatchStep ==
    ASSUME TwoRequests, TypeInv, DecidableInv, NEW r \in Requests, PatchDisputeCommit(r)
    PROVE  DecidableInv'
<1> DEFINE x == req[r].dispute
<1>1. /\ req' = [req EXCEPT ![r] = Blank] /\ job' = job
      /\ req[r].pc = "patch.commit" /\ x \in Disputes
      /\ req[r].status \in DisputeStatus \ {"NONE"}
      /\ dispute' = [dispute EXCEPT ![x].status = req[r].status]
  BY DEF PatchDisputeCommit, Finish, Continue, At, TypeInv, RequestsCarryValues, CarriesItsValues
<1>2. req'[r].pc = "idle" /\ \A s \in Requests \ {r} : req'[s] = req[s]
  BY <1>1 DEF TypeInv, TypeOK, Blank
<1>3. \A d \in Disputes : dispute'[d].status = IF d = x THEN req[r].status ELSE dispute[d].status
  BY <1>1 DEF TypeInv, TypeOK
<1>4. \A d \in Disputes : Lasting(d) => Lasting(d)'
  <2>1. ASSUME NEW d PROVE Reviving(d)' => Reviving(d)
    BY <1>1, <1>2, Zenon DEF Reviving
  <2>2. Lasting(x) => req[r].status \in {"OPEN", "INVESTIGATING"}
    BY <1>1 DEF Lasting, Reviving, DisputeStatus
  <2> QED BY <1>3, <2>1, <2>2 DEF Lasting, Unresolved
<1>5. OneLasts => OneLasts'
  BY <1>4 DEF OneLasts
<1>6. TwoLast => TwoLast'
  BY <1>4, <1>5 DEF TwoLast, LastsBeside
<1>7. \A s \in Requests : req'[s].pc \in Deciding => dispute'[req'[s].dispute].status # "NONE"
  <2>1. \A s \in Requests : req'[s].pc \in Deciding =>
            /\ s # r /\ req'[s] = req[s] /\ req[s].dispute \in Disputes
            /\ dispute[req[s].dispute].status # "NONE"
    BY <1>2 DEF DecidableInv, Deciding, TypeInv, RequestsCarryValues, CarriesItsValues, AtRuling
  <2> QED BY <1>1, <1>3, <2>1
<1>8. job'.status = "DISPUTED" => OneLasts' \/ \E s \in Requests : At(s, "resolve.flag")'
  BY <1>1, <1>2, <1>5 DEF DecidableInv, At
<1>9. ASSUME NEW s \in Requests, At(s, "dispute.flag")' PROVE Announceable(s)'
  <2>1. s # r /\ At(s, "dispute.flag") /\ Announceable(s)
    BY <1>2, <1>9 DEF At, DecidableInv
  <2>2. ASSUME NEW t \in Requests \ {s} PROVE Leaves(t)'
    <3>1. t = r /\ Leaves(r)
      BY <2>1, <2>2 DEF TwoRequests, Announceable
    <3> QED BY <1>1, <1>2, <1>6, <3>1 DEF Leaves, At
  <2> QED BY <1>5, <2>1, <2>2 DEF Announceable
<1> QED BY <1>7, <1>8, <1>9 DEF DecidableInv

LEMMA DecidableStep ==
    ASSUME TwoRequests, ~MayFail, TypeInv, DecidableInv, [Next]_vars
    PROVE  DecidableInv'
<1>0. CASE UNCHANGED vars
  BY <1>0 DEF vars, DecidableInv, OneLasts, TwoLast, LastsBeside, Lasting, Reviving, Unresolved,
              Announceable, Leaves, At
<1>1. ASSUME NEW r \in Requests, Disputing(r) PROVE DecidableInv'
  <2>1. ASSUME NEW u \in Users, OpenDisputeRead(r, u) PROVE DecidableInv'
    <3> DEFINE q == [Blank EXCEPT !.pc = "dispute.find", !.user = u]
    <3>1. q.pc = "dispute.find" /\ Begin(r, q) /\ UNCHANGED rows
      BY <2>1, OpenDisputeReads DEF Blank
    <3> HIDE DEF q
    <3>2. req' = [req EXCEPT ![r] = q] /\ req[r].pc = "idle" /\ dispute' = dispute /\ job' = job
      BY <3>1 DEF Begin, Blank, rows
    <3> QED BY <3>1, <3>2, ApartStep DEF Apart, PCs
  <2>2. CASE OpenDisputeFind(r)
    <3> DEFINE q == [req[r] EXCEPT !.pc = "dispute.create"]
    <3>1. /\ q.pc = "dispute.create" /\ req[r].pc = "dispute.find"
          /\ dispute' = dispute /\ job' = job
      BY <2>2 DEF OpenDisputeFind, At, TypeInv, TypeOK, rows
    <3>2. Finish(r) \/ req' = [req EXCEPT ![r] = q]
      BY <2>2 DEF OpenDisputeFind, Continue
    <3> HIDE DEF q
    <3> QED BY <3>1, <3>2, ApartStep, ApartFinishes DEF Apart, PCs
  <2>3. ASSUME NEW d \in Disputes, NEW s \in Rulings, ResolveRead(r, d, s) PROVE DecidableInv'
    <3> DEFINE q == [Blank EXCEPT !.pc = "resolve.job", !.dispute = d, !.status = s]
    <3>1. q.pc = "resolve.job" /\ q.dispute = d /\ Begin(r, q) /\ UNCHANGED rows
      BY <2>3 DEF ResolveRead, Blank
    <3>2. dispute[d].status # "NONE"
      BY <2>3 DEF ResolveRead, Unresolved
    <3> HIDE DEF q
    <3> QED BY <3>1, <3>2, DecideReads
  <2>4. ASSUME NEW d \in Disputes, NEW s \in DisputeStatus, PatchDisputeRead(r, d, s)
        PROVE  DecidableInv'
    <3> DEFINE q == [Blank EXCEPT !.pc = "patch.commit", !.dispute = d, !.status = s]
    <3>1. /\ q.pc = "patch.commit" /\ q.dispute = d /\ q.status = s
          /\ Begin(r, q) /\ UNCHANGED rows
      BY <2>4 DEF PatchDisputeRead, Blank
    <3>2. dispute[d].status # "NONE" /\ (s = "RESOLVED" => ~Unresolved(d))
      BY <2>4 DEF PatchDisputeRead, PatchStatuses, Unresolved
    <3> HIDE DEF q
    <3> QED BY <3>1, <3>2, DecideReads
  <2> QED BY <1>1, <2>1, <2>2, <2>3, <2>4, CreateStep, FlagStep, ResolveReadJobStep,
             ResolveCommitStep, ResolveFlagStep, PatchStep DEF Disputing
<1> QED BY <1>0, <1>1, WorkIsApart DEF Next, Fail

(***************************************************************************)
(* With two requests at a time, each of which runs to its end, a DISPUTED  *)
(* job can always be decided: the checks before the writes are too old to  *)
(* be trusted, but one other request cannot do enough in between.  (With   *)
(* three requests it is not so.)                                           *)
(***************************************************************************)
THEOREM DisputesAreResolvable ==
    ASSUME TwoRequests, ~MayFail PROVE Spec => []DisputedIsResolvable
<1>1. Init => TypeInv /\ DecidableInv
  <2> SUFFICES ASSUME Init PROVE TypeInv /\ DecidableInv
    OBVIOUS
  <2>1. TypeInv
    BY UsersAssumption, BlankType
       DEF Init, TypeInv, TypeOK, ReqType, RequestsCarryValues, JobStatus, OfferStatus,
           DisputeStatus
  <2>2. job.status = "OPEN" /\ \A r \in Requests : req[r].pc = "idle"
    BY DEF Init, Blank
  <2> QED BY <2>1, <2>2 DEF DecidableInv, Deciding, At
<1>2. DecidableInv => DisputedIsResolvable
  BY DEF DecidableInv, DisputedIsResolvable, OneLasts, Lasting
<1> QED BY <1>1, <1>2, TypeStep, DecidableStep, PTL DEF Spec

----------------------------------------------------------------------------
(* The screens (JobScreens).  There is one request of the server, and what *)
(* the app sends begins one of its handlers, so the server moves as above. *)

LEMMA OneRequest == SerialRequests /\ r1 \in Requests
  BY JobScreensAssumption DEF SerialRequests, r1

PostMemory == [pc : {"idle", "asked", "serving", "served"},
               act : (Acts \X (Providers \cup {None})) \cup {None},
               ok : BOOLEAN, again : BOOLEAN, heard : {"none", "ok", "error"}]

(* A button that screens of the user Me have, about a provider they show   *)
Sendable(o) ==
    /\ o \in Acts \X (Providers \cup {None})
    /\ o[1] \in {"counter", "award"} \/ View = "bidsOfList" => o[2] \in Providers
    /\ o[1] \in {"bid", "acceptCounter", "declineCounter", "start"} => Me \in Providers

LoadOK(x, n, view) ==
    /\ x \in [pc : {"idle", "asked", "half", "read"}, id : Nat, data : {x.data}, fresh : BOOLEAN]
    /\ x.id <= n
    /\ x.pc = "half" => view = "bids"

(* Data of the list of bids has a status for each provider. *)
ListOK(d) == d \in [bid : [Providers -> OfferStatus], counter : [Providers -> OfferStatus]]

ScreenOK ==
    /\ scene \in Scenes
    /\ post \in PostMemory /\ (Posting => Sendable(post.act))
    /\ latest \in Nat
    /\ DOMAIN load = Loads /\ \A l \in Loads : LoadOK(load[l], latest, View)
    /\ shown # None => shown \in [data : {shown.data}, fresh : BOOLEAN, said : BOOLEAN]
    /\ View = "bidsOfList" => /\ shown # None => ListOK(shown.data)
                              /\ \A l \in Loads : load[l].pc = "read" => ListOK(load[l].data)
    /\ InAll => shown = None /\ ~Posting /\ \A l \in Loads : Free(l)

LEMMA UserOfScene == ASSUME scene \in Scenes
                     PROVE  Me \in Users /\ (View \in ProviderViews <=> Me \in Providers)
  BY JobScreensAssumption DEF Scene, Opened, Me, View

LEMMA NoPostIdle == NoPost \in PostMemory /\ NoPost.pc = "idle" /\ NoPost.heard = "none"
  BY DEF NoPost, PostMemory

(* What a screen enables is a button of its user. *)
LEMMA OfferedIsSendable ==
    ASSUME scene \in Scenes, NEW d, NEW o, o \in Offers(View, Me, d),
           o \in Acts \X (Providers \cup {None}), ~InAll
    PROVE  Sendable(o)
<1>0. View \in Views \cup {"all"}
  BY JobScreensAssumption DEF Scene, View
<1>1. CASE View \in ProviderViews
  <2>1. Me \in Providers
    BY <1>1, UserOfScene
  <2>2. o[1] \notin {"counter", "award"}
    BY <1>1 DEF ProviderViews, Offers, JobDetailOffers, JobDetailCounter, JobDetailWork,
                JobDetailSafety, JobDetailBid, JobBidsOffers, BidDetailEdit, BidDetailPlace,
                BidDetailCounter, When
  <2> QED BY <1>1, <2>1, <2>2 DEF Sendable, ProviderViews
<1>2. CASE View \in {"bids", "bidsOfList"}
  <2>1. o[1] \in {"award", "reject", "counter"} /\ o[2] \in Providers
    BY <1>2 DEF Offers, BidsOffers, BidCard, BidsOfListOffers, When
  <2> QED BY <2>1 DEF Sendable
<1>3. CASE View \in {"myJob", "myJobOld"}
  <2>1. o[1] \in {"cancel", "mark", "confirm", "dispute", "propose", "message", "review"}
    BY <1>3 DEF Offers, MyJobOffers, MyJobGates, MyJobDispute, MyJobSchedule, MyJobAwarded,
                MyJobReview, MyJobOldOffers, When
  <2> QED BY <1>3, <2>1 DEF Sendable
<1> QED BY <1>0, <1>1, <1>2, <1>3 DEF Views, ConsumerViews, ProviderViews, InAll

LEMMA InitScreen == JSInit => ScreenOK
<1>1. NoLoad.pc = "idle" /\ NoLoad.id = 0
      /\ NoLoad \in [pc : {"idle", "asked", "half", "read"}, id : Nat, data : {NoLoad.data},
                     fresh : BOOLEAN]
  BY DEF NoLoad
<1> SUFFICES ASSUME JSInit PROVE ScreenOK
  OBVIOUS
<1>2. post \in PostMemory /\ ~Posting
  BY NoPostIdle DEF JSInit, Posting
<1>3. DOMAIN load = Loads /\ \A l \in Loads : load[l] = NoLoad
  BY DEF JSInit
<1>4. latest = 0 /\ shown = None /\ scene \in Scenes
  BY DEF JSInit
<1> QED
  BY <1>1, <1>2, <1>3, <1>4 DEF ScreenOK, LoadOK, Free

(* The server moves by a step of JobLifecycle, whoever moves it. *)
LEMMA AppBegins ==
    ASSUME ScreenOK, Posting, Begins(Me, post.act[1], post.act[2]),
           Takes(Me, post.act[1], post.act[2])
    PROVE  Next
<1> DEFINE a == post.act[1]
           p == post.act[2]
<1>1. Me \in Users /\ Sendable(post.act) /\ r1 \in Requests
  BY UserOfScene, OneRequest DEF ScreenOK
<1>2. /\ a \in Acts
      /\ a \in {"counter", "award"} => p \in Providers
      /\ a \in {"bid", "acceptCounter", "declineCounter", "start"} => Me \in Providers
  BY <1>1 DEF Sendable
<1>3. a \in {"bid", "counter", "acceptCounter", "declineCounter", "award", "start", "mark",
             "confirm", "cancel", "dispute"}
  BY <1>2 DEF Takes, Acts
<1> HIDE DEF a, p
<1>4. Bidding(r1) \/ Working(r1) \/ Disputing(r1)
  <2>0. Begins(Me, a, p)
    BY DEF a, p
  <2>1. CASE a \in {"bid", "counter", "acceptCounter", "declineCounter"}
    BY <1>2, <2>0, <2>1 DEF Begins, Bidding
  <2>2. CASE a \in {"award", "start", "mark", "confirm", "cancel"}
    BY <1>1, <1>2, <2>0, <2>2 DEF Begins, Working
  <2>3. CASE a = "dispute"
    BY <1>1, <2>0, <2>3 DEF Begins, Disputing
  <2> QED BY <1>3, <2>1, <2>2, <2>3
<1> QED BY <1>1, <1>4 DEF Next

LEMMA ServerMoves == ScreenOK /\ [JSNext]_jsVars => [Next]_vars
<1> SUFFICES ASSUME ScreenOK, [JSNext]_jsVars PROVE [Next]_vars
  OBVIOUS
<1>1. CASE UNCHANGED jsVars
  BY <1>1 DEF jsVars
<1>2. ASSUME NEW l \in Loads, Open(l) \/ ReadJob(l) \/ ReadBids(l) \/ LoadAnswer(l) \/ LoadFailure(l)
      PROVE  UNCHANGED vars
  BY <1>2 DEF Open, ReadJob, ReadBids, LoadAnswer, LoadFailure
<1>3. ASSUME NEW o, Press(o) PROVE UNCHANGED vars
  BY <1>3 DEF Press
<1>4. CASE Take
  BY <1>4, AppBegins DEF Take, Posting
<1>5. CASE Serve \/ Others
  <2>1. Step(r1) \/ Fail(r1)
    BY <1>5 DEF Serve, Others
  <2> QED BY <2>1, OneRequest DEF Step, Next
<1>6. ASSUME NEW h, Hear(h) PROVE UNCHANGED vars
  BY <1>6 DEF Hear
<1> QED BY <1>1, <1>2, <1>3, <1>4, <1>5, <1>6 DEF JSNext

(* What the screen has loaded stays well formed when one of its loads goes *)
(* on to x, and the others stay where they are.                            *)
LEMMA LoadGoes ==
    ASSUME ScreenOK, NEW l \in Loads, NEW x, load' = [load EXCEPT ![l] = x],
           scene' = scene, latest' \in Nat, latest' >= latest, LoadOK(x, latest', View'), ~InAll,
           View = "bidsOfList" /\ x.pc = "read" => ListOK(x.data),
           post' \in PostMemory, Posting' => Sendable(post'.act),
           shown' = shown
    PROVE  ScreenOK'
<1>1. DOMAIN load' = Loads /\ load'[l] = x /\ \A k \in Loads \ {l} : load'[k] = load[k]
  BY DEF ScreenOK
<1>2. View' = View /\ InAll' = InAll /\ Me' = Me
  BY DEF View, InAll, Me
<1>3. \A k \in Loads : LoadOK(load'[k], latest', View')
  <2>1. ASSUME NEW k \in Loads, k # l PROVE LoadOK(load'[k], latest', View')
    <3>1. LoadOK(load[k], latest, View) /\ latest \in Nat /\ load'[k] = load[k]
      BY <1>1, <2>1 DEF ScreenOK
    <3>2. load[k].id <= latest'
      BY <3>1 DEF LoadOK
    <3> QED BY <1>2, <3>1, <3>2 DEF LoadOK
  <2> QED BY <1>1, <2>1
<1>4. Posting' => Sendable(post.act)'
  BY <1>2 DEF Sendable
<1> QED BY <1>1, <1>2, <1>3, <1>4 DEF ScreenOK

(* A step that changes what is shown, or the request, and no load *)
LEMMA ShowsOn ==
    ASSUME ScreenOK, scene' = scene, latest' = latest, load' = load, ~InAll,
           shown' # None => /\ shown' \in [data : {shown'.data}, fresh : BOOLEAN, said : BOOLEAN]
                            /\ View = "bidsOfList" => ListOK(shown'.data),
           post' \in PostMemory, Posting' => Sendable(post'.act)
    PROVE  ScreenOK'
<1>1. View' = View /\ InAll' = InAll /\ Me' = Me
  BY DEF View, InAll, Me
<1>2. \A k \in Loads : LoadOK(load[k], latest', View')
  BY <1>1 DEF ScreenOK, LoadOK
<1>3. Posting' => Sendable(post.act)'
  BY <1>1 DEF Sendable
<1> QED BY <1>1, <1>2, <1>3 DEF ScreenOK

LEMMA ScreenQuiet ==
    ASSUME ScreenOK, UNCHANGED <<scene, shown, load, latest, post>>
    PROVE  ScreenOK'
BY DEF ScreenOK, LoadOK, ListOK, Sendable, View, InAll, Me, Posting, Free

LEMMA NoLoadOK == ScreenOK => LoadOK(NoLoad, latest, View) /\ NoLoad.pc = "idle"
<1>1. NoLoad.pc = "idle" /\ NoLoad.id = 0
  BY DEF NoLoad
<1>2. NoLoad \in [pc : {"idle", "asked", "half", "read"}, id : Nat, data : {NoLoad.data},
                 fresh : BOOLEAN]
  BY DEF NoLoad
<1>3. ASSUME latest \in Nat PROVE LoadOK(NoLoad, latest, View)
  <2>1. NoLoad.id <= latest
    BY <1>1, <1>3
  <2> QED BY <1>1, <1>2, <2>1 DEF LoadOK
<1>4. ScreenOK => latest \in Nat
  BY DEF ScreenOK
<1> QED BY <1>1, <1>3, <1>4

LEMMA AskedRecord ==
    ASSUME NEW n \in Nat, NEW view
    PROVE  LET x == [pc |-> "asked", id |-> n, data |-> None, fresh |-> FALSE]
           IN  x.pc = "asked" /\ LoadOK(x, n, view)
BY DEF LoadOK

LEMMA AskedOK ==
    ASSUME NEW n \in Nat, NEW view
    PROVE  LET x == [NoLoad EXCEPT !.pc = "asked", !.id = n]
           IN  x.pc = "asked" /\ LoadOK(x, n, view)
<1> DEFINE x == [NoLoad EXCEPT !.pc = "asked", !.id = n]
           y == [pc |-> "asked", id |-> n, data |-> None, fresh |-> FALSE]
<1>1. x = y
  <2>1. ASSUME NEW z, z = x PROVE z = y
    BY <2>1 DEF NoLoad
  <2> QED BY <2>1
<1>2. y.pc = "asked" /\ LoadOK(y, n, view)
  BY AskedRecord
<1> HIDE DEF x, y
<1>3. x.pc = "asked" /\ LoadOK(x, n, view)
  BY <1>1, <1>2
<1> QED BY <1>3 DEF x

LEMMA OpenScreen == ASSUME ScreenOK, NEW l \in Loads, Open(l) PROVE ScreenOK'
<1> DEFINE n == latest + 1
           x == [NoLoad EXCEPT !.pc = "asked", !.id = n]
<1>1. latest \in Nat /\ latest' = n /\ n \in Nat /\ latest' >= latest
  BY DEF Open, ScreenOK
<1>3. load' = [load EXCEPT ![l] = x]
  BY DEF Open, Asked
<1> HIDE DEF n
<1>2. x.pc = "asked" /\ LoadOK(x, latest', View')
  BY <1>1, AskedOK
<1> HIDE DEF x
<1>4. latest' \in Nat /\ latest' >= latest
  BY <1>1
<1> QED BY <1>1, <1>2, <1>3, <1>4, LoadGoes DEF Open, ScreenOK, Posting, Sendable, Me

LEMMA ReadScreen ==
    ASSUME ScreenOK, TypeInv, NEW l \in Loads, ReadJob(l) \/ ReadBids(l)
    PROVE  ScreenOK'
<1>1. LoadOK(load[l], latest, View) /\ DOMAIN load = Loads /\ latest \in Nat
  BY DEF ScreenOK
<1>2. scene' = scene /\ latest' = latest /\ shown' = shown /\ post' = post
  BY DEF ReadJob, ReadBids
<1>3. ~InAll
  BY DEF ScreenOK, Free, ReadJob, ReadBids
<1>0. /\ post' \in PostMemory /\ (Posting' => Sendable(post'.act))
      /\ latest' \in Nat /\ latest' >= latest
  BY <1>1, <1>2 DEF ScreenOK, Posting
<1>4. CASE ReadJob(l)
  <2>1. PICK d \in Data(View, Me) :
            load' = [load EXCEPT ![l].pc = IF View = "bids" THEN "half" ELSE "read",
                                 ![l].data = d, ![l].fresh = TRUE]
    BY <1>4 DEF ReadJob
  <2> DEFINE x == [load[l] EXCEPT !.pc = IF View = "bids" THEN "half" ELSE "read",
                                  !.data = d, !.fresh = TRUE]
  <2>2. load' = [load EXCEPT ![l] = x]
    BY <1>1, <2>1
  <2>3. x.pc = (IF View = "bids" THEN "half" ELSE "read") /\ x.data = d /\ x.id = load[l].id
        /\ x \in [pc : {"idle", "asked", "half", "read"}, id : Nat, data : {d}, fresh : BOOLEAN]
    BY <1>1 DEF LoadOK
  <2> HIDE DEF x
  <2>4. LoadOK(x, latest', View')
    BY <1>1, <1>2, <2>3 DEF LoadOK, View
  <2>5. View = "bidsOfList" => ListOK(d)
    BY DEF Data, BidsData, ListOK, TypeInv, TypeOK
  <2> QED BY <1>0, <1>2, <1>3, <2>2, <2>3, <2>4, <2>5, LoadGoes
<1>5. CASE ReadBids(l)
  <2> DEFINE x == [load[l] EXCEPT !.pc = "read", !.data.bid = bid, !.data.counter = counter]
  <2>1. load' = [load EXCEPT ![l] = x]
    BY <1>1, <1>5 DEF ReadBids
  <2>2. x.pc = "read" /\ x.id = load[l].id
        /\ x \in [pc : {"idle", "asked", "half", "read"}, id : Nat, data : {x.data}, fresh : BOOLEAN]
    BY <1>1 DEF LoadOK
  <2> HIDE DEF x
  <2>3. LoadOK(x, latest', View')
    BY <1>1, <1>2, <2>2 DEF LoadOK
  <2>4. View = "bids"
    BY <1>1, <1>5 DEF ReadBids, LoadOK
  <2> QED BY <1>0, <1>2, <1>3, <2>1, <2>2, <2>3, <2>4, LoadGoes
<1> QED BY <1>4, <1>5

LEMMA AnswerScreen ==
    ASSUME ScreenOK, NEW l \in Loads, LoadAnswer(l) \/ LoadFailure(l)
    PROVE  ScreenOK'
<1>1. LoadOK(load[l], latest, View) /\ DOMAIN load = Loads /\ latest \in Nat
  BY DEF ScreenOK
<1>2. /\ scene' = scene /\ latest' = latest /\ post' = post
      /\ load' = [load EXCEPT ![l] = NoLoad]
  BY DEF LoadAnswer, LoadFailure
<1>3. ~InAll
  BY DEF ScreenOK, Free, LoadAnswer, LoadFailure
<1>4. shown' # None => /\ shown' \in [data : {shown'.data}, fresh : BOOLEAN, said : BOOLEAN]
                       /\ View = "bidsOfList" => ListOK(shown'.data)
  <2>1. CASE shown' = shown
    BY <2>1 DEF ScreenOK
  <2>2. CASE shown' = None
    BY <2>2
  <2>3. CASE load[l].pc = "read"
             /\ shown' = [data |-> load[l].data, fresh |-> load[l].fresh, said |-> TRUE]
    BY <1>1, <2>3 DEF ScreenOK, LoadOK
  <2> QED BY <2>1, <2>2, <2>3 DEF LoadAnswer, LoadFailure
<1>5. \A k \in Loads : LoadOK(load'[k], latest, View)
                       /\ (View = "bidsOfList" /\ load'[k].pc = "read" => ListOK(load'[k].data))
  BY <1>1, <1>2, NoLoadOK DEF ScreenOK
<1>6. \A k \in Loads : LoadOK(load'[k], latest', View')
  BY <1>2, <1>5 DEF LoadOK, View
<1> QED BY <1>1, <1>2, <1>3, <1>4, <1>5, <1>6 DEF ScreenOK, Posting, Sendable, Me, View, InAll

LEMMA PressScreen == ASSUME ScreenOK, NEW a \in Acts, NEW p \in Providers \cup {None}, Press(<<a, p>>)
                     PROVE  ScreenOK'
<1> DEFINE o == <<a, p>>
<1>1. o \in Acts \X (Providers \cup {None}) /\ o[1] = a /\ ~InAll
  BY DEF Press, ScreenOK
<1>2. Sendable(o)
  BY <1>1, OfferedIsSendable DEF Press, ScreenOK
<1>3. [NoPost EXCEPT !.pc = "asked", !.act = o] \in PostMemory
      /\ [NoPost EXCEPT !.pc = "asked", !.act = o].act = o
  BY <1>1 DEF NoPost, PostMemory
<1> DEFINE d == Expected(View, a, shown.data)
           e == (shown.said /\ d = shown.data)
<1>4. shown # None /\ shown \in [data : {shown.data}, fresh : BOOLEAN, said : BOOLEAN]
  BY DEF Press, ScreenOK
<1>5. shown' = [shown EXCEPT !.data = d, !.said = e]
  BY <1>1 DEF Press
<1>6. View = "bidsOfList" => d = shown.data
  BY DEF Expected
<1>7. e \in BOOLEAN
  OBVIOUS
<1> HIDE DEF d, e, o
<1>8. shown'.data = d /\ shown' \in [data : {d}, fresh : BOOLEAN, said : BOOLEAN]
  BY <1>4, <1>5, <1>7
<1>9. View = "bidsOfList" => ListOK(shown'.data)
  BY <1>4, <1>6, <1>8 DEF ScreenOK
<1>10. post' \in PostMemory /\ post'.act = o
  BY <1>3 DEF Press, o
<1>11. scene' = scene /\ latest' = latest /\ load' = load
  BY DEF Press
<1> QED BY <1>1, <1>2, <1>8, <1>9, <1>10, <1>11, ShowsOn

LEMMA ServedOK == ASSUME ScreenOK, NEW ok \in BOOLEAN, Served(ok)
                  PROVE  post' \in PostMemory /\ post'.act = post.act /\ Posting'
BY DEF ScreenOK, Served, PostMemory, Posting

(* A request that was sent: the server takes it up, or others go on. *)
LEMMA TakeScreen == ASSUME ScreenOK, Take \/ Others PROVE ScreenOK'
<1>1. CASE Others
  BY <1>1, ScreenQuiet DEF Others, screen
<1>2. CASE Take
  <2>1. post' \in PostMemory /\ post'.act = post.act /\ Posting
    <3>1. CASE Served(FALSE)
      BY <1>2, <3>1, ServedOK DEF Take, Posting
    <3>2. CASE post' = [post EXCEPT !.pc = "serving"]
      BY <1>2, <3>2 DEF Take, Posting, ScreenOK, PostMemory
    <3> QED BY <1>2, <3>1, <3>2 DEF Take
  <2>2. scene' = scene /\ shown' = shown /\ load' = load /\ latest' = latest
    BY <1>2 DEF Take
  <2>3. ~InAll /\ Sendable(post.act)
    BY <2>1 DEF ScreenOK
  <2> QED BY <2>1, <2>2, <2>3, ShowsOn DEF ScreenOK
<1> QED BY <1>1, <1>2

LEMMA ServeScreen == ASSUME ScreenOK, Serve PROVE ScreenOK'
<1>1. Posting /\ ~InAll /\ Sendable(post.act)
  BY DEF Serve, ScreenOK, Posting
<1>2. post' \in PostMemory /\ post'.act = post.act
  <2>1. ASSUME NEW ok \in BOOLEAN, Served(ok) PROVE post' \in PostMemory /\ post'.act = post.act
    BY <2>1, ServedOK
  <2>2. CASE post' = post
    BY <2>2 DEF ScreenOK
  <2>3. \/ post' = post \/ Served(FALSE) \/ Served(~At(r1, "dispute.find"))
    BY DEF Serve
  <2> QED BY <2>1, <2>2, <2>3 DEF At
<1>3. scene' = scene /\ latest' = latest
  BY DEF Serve
<1>4. CASE rows' = rows
  <2>1. shown' = shown /\ load' = load
    BY <1>4 DEF Serve
  <2> QED BY <1>1, <1>2, <1>3, <2>1, ShowsOn DEF ScreenOK
<1>5. CASE rows' # rows
  <2>1. shown' = Stale(shown) /\ load' = [l \in Loads |-> [load[l] EXCEPT !.fresh = FALSE]]
    BY <1>5 DEF Serve
  <2>2. View' = View /\ InAll' = InAll /\ Me' = Me
    BY <1>3 DEF View, InAll, Me
  <2>3. \A l \in Loads : /\ LoadOK(load'[l], latest', View')
                         /\ load'[l].pc = load[l].pc /\ load'[l].data = load[l].data
    BY <1>3, <2>1, <2>2 DEF ScreenOK, LoadOK
  <2>4. ASSUME shown # None
        PROVE  /\ shown' \in [data : {shown.data}, fresh : BOOLEAN, said : BOOLEAN]
               /\ shown'.data = shown.data
    BY <2>1, <2>4 DEF ScreenOK, Stale
  <2>5. shown = None => shown' = None
    BY <2>1 DEF Stale
  <2>6. Posting' => Sendable(post.act)'
    BY <1>1, <1>2, <2>2 DEF Sendable
  <2>7. DOMAIN load' = Loads
    BY <2>1
  <2> QED BY <1>1, <1>2, <1>3, <2>2, <2>3, <2>4, <2>5, <2>6, <2>7 DEF ScreenOK
<1> QED BY <1>4, <1>5

LEMMA HearScreen == ASSUME ScreenOK, NEW h \in {"ok", "error"}, Hear(h) PROVE ScreenOK'
<1>1. Posting /\ ~InAll /\ Sendable(post.act) /\ scene' = scene
  BY DEF Hear, ScreenOK, Posting
<1>2. CASE post' = [post EXCEPT !.pc = "asked", !.again = TRUE]
           /\ UNCHANGED <<shown, load, latest>>
  <2>1. post' \in PostMemory /\ post'.act = post.act
    BY <1>2 DEF ScreenOK, PostMemory
  <2> QED BY <1>1, <1>2, <2>1, ShowsOn DEF ScreenOK
<1>3. CASE post' = [NoPost EXCEPT !.act = post.act, !.heard = h]
  <2>1. post' \in PostMemory /\ ~Posting'
    BY <1>3 DEF ScreenOK, PostMemory, NoPost, Posting
  <2>2. ASSUME NEW l \in Loads, Free(l), load' = Asked(l), latest' = latest + 1, shown' = shown
        PROVE  ScreenOK'
    <3> DEFINE n == latest + 1
               x == [NoLoad EXCEPT !.pc = "asked", !.id = n]
    <3>1. latest' = n /\ n \in Nat /\ latest' >= latest
      BY <2>2 DEF ScreenOK
    <3>3. load' = [load EXCEPT ![l] = x]
      BY <2>2 DEF Asked
    <3> HIDE DEF n
    <3>2. x.pc = "asked" /\ LoadOK(x, latest', View')
      BY <3>1, AskedOK
    <3> HIDE DEF x
    <3> QED BY <1>1, <2>1, <2>2, <3>1, <3>2, <3>3, LoadGoes
  <2>3. CASE load' = load /\ latest' = latest /\ shown' = shown
    BY <1>1, <2>1, <2>3, ShowsOn DEF ScreenOK
  <2>4. CASE /\ load' = load /\ latest' = latest /\ View = "bidsOfList" /\ shown # None
             /\ shown' = [shown EXCEPT !.data = Patched(@, post.act[2])]
    <3>1. shown \in [data : {shown.data}, fresh : BOOLEAN, said : BOOLEAN] /\ ListOK(shown.data)
      BY <2>4 DEF ScreenOK
    <3> DEFINE d == Patched(shown.data, post.act[2])
    <3>2. ListOK(d)
      BY <3>1 DEF Patched, ListOK, OfferStatus
    <3>3. shown' = [shown EXCEPT !.data = d]
      BY <2>4
    <3> HIDE DEF d
    <3>4. shown' \in [data : {d}, fresh : BOOLEAN, said : BOOLEAN] /\ shown'.data = d
      BY <3>1, <3>3
    <3> QED BY <1>1, <2>1, <2>4, <3>2, <3>4, ShowsOn
  <2> QED BY <1>3, <2>2, <2>3, <2>4 DEF Hear
<1> QED BY <1>2, <1>3 DEF Hear

LEMMA ScreenStep == ScreenOK /\ TypeInv /\ [JSNext]_jsVars => ScreenOK'
<1>1. UNCHANGED jsVars /\ ScreenOK => ScreenOK'
  BY ScreenQuiet DEF jsVars, screen
<1> QED BY <1>1, OpenScreen, ReadScreen, AnswerScreen, PressScreen, TakeScreen, ServeScreen,
           HearScreen DEF JSNext

----------------------------------------------------------------------------
(* What the screen shows *)

(* The status the consumer's page expects, and that nobody has said, stays *)
(* only while the request for it, or a load after it, is under way.        *)
SaidInv == shown # None /\ ~shown.said => View = "myJob" /\ (Posting \/ \E l \in Loads : ~Free(l))

LEMMA SaidStep == ScreenOK /\ SaidInv /\ [JSNext]_jsVars => SaidInv'
<1> SUFFICES ASSUME ScreenOK, SaidInv, [JSNext]_jsVars PROVE SaidInv'
  OBVIOUS
<1>0. /\ View' = View
      /\ DOMAIN load = Loads
      /\ shown # None => shown \in [data : {shown.data}, fresh : BOOLEAN, said : BOOLEAN]
  BY DEF ScreenOK, View, JSNext, jsVars, screen, Open, ReadJob, ReadBids, LoadAnswer, LoadFailure,
         Press, Take, Serve, Others, Hear
<1>1. ASSUME UNCHANGED <<shown, load, post>> PROVE SaidInv'
  BY <1>0, <1>1 DEF SaidInv, Posting, Free
<1>2. ASSUME NEW l \in Loads, Open(l) \/ ReadJob(l) \/ ReadBids(l) PROVE SaidInv'
  <2>1. shown' = shown /\ post' = post
    BY <1>2 DEF Open, ReadJob, ReadBids
  <2>2. LoadOK(load[l], latest, View)
    BY DEF ScreenOK
  <2>3. load'[l].pc # "idle"
    <3>1. CASE Open(l)
      BY <1>0, <3>1 DEF Open, Asked, NoLoad
    <3>2. CASE ReadJob(l)
      BY <1>0, <2>2, <3>2 DEF ReadJob, LoadOK
    <3>3. CASE ReadBids(l)
      BY <1>0, <2>2, <3>3 DEF ReadBids, LoadOK
    <3> QED BY <1>2, <3>1, <3>2, <3>3
  <2> QED BY <1>0, <2>1, <2>3 DEF SaidInv, Posting, Free
<1>3. ASSUME NEW l \in Loads, LoadAnswer(l) \/ LoadFailure(l) PROVE SaidInv'
  <2>1. post' = post
    BY <1>3 DEF LoadAnswer, LoadFailure
  <2>2. \/ shown' = None
        \/ View # "myJob" /\ shown' = shown
        \/ shown' = [data |-> load[l].data, fresh |-> load[l].fresh, said |-> TRUE]
    BY <1>3 DEF LoadAnswer, LoadFailure, Dropped, GuardsLoads, KeepsOnError
  <2>3. CASE View # "myJob" /\ shown' = shown
    BY <1>0, <2>3 DEF SaidInv
  <2> QED BY <1>0, <2>1, <2>2, <2>3 DEF SaidInv
<1>4. ASSUME NEW a \in Acts, NEW p \in Providers \cup {None}, Press(<<a, p>>) PROVE SaidInv'
  <2> DEFINE d == Expected(View, a, shown.data)
             e == (shown.said /\ d = shown.data)
  <2>1. shown # None /\ shown' = [shown EXCEPT !.data = d, !.said = e]
    BY <1>4 DEF Press
  <2>2. View # "myJob" => d = shown.data
    BY DEF Expected
  <2>3. e \in BOOLEAN
    OBVIOUS
  <2>4. post'.pc = "asked"
    BY <1>4 DEF Press, NoPost
  <2>5. View # "myJob" => (e <=> shown.said)
    BY <2>2
  <2> HIDE DEF d, e
  <2>6. shown'.said = e
    BY <1>0, <2>1, <2>3
  <2> QED BY <1>0, <2>1, <2>4, <2>5, <2>6 DEF SaidInv, Posting
<1>5. CASE Take
  <2>1. shown' = shown /\ load' = load /\ Posting
    BY <1>5 DEF Take, Posting
  <2>2. Posting'
    <3>1. CASE Served(FALSE)
      BY <3>1, ServedOK
    <3>2. CASE post' = [post EXCEPT !.pc = "serving"]
      BY <3>2 DEF Posting, ScreenOK, PostMemory
    <3> QED BY <1>5, <3>1, <3>2 DEF Take
  <2> QED BY <1>0, <2>1, <2>2 DEF SaidInv
<1>6. CASE Serve
  <2>1. Posting'
    <3>1. ASSUME NEW ok \in BOOLEAN, Served(ok) PROVE Posting'
      BY <3>1, ServedOK
    <3>2. CASE post' = post
      BY <1>6, <3>2 DEF Serve, Posting
    <3> QED BY <1>6, <3>1, <3>2 DEF Serve, At
  <2>2. \/ shown' = shown \/ shown' = Stale(shown)
    BY <1>6 DEF Serve
  <2>3. shown' # None => shown # None /\ shown'.said = shown.said
    BY <1>0, <2>2 DEF Stale
  <2> QED BY <1>0, <2>1, <2>3 DEF SaidInv
<1>7. CASE Others
  BY <1>1, <1>7 DEF Others, screen
<1>8. ASSUME NEW h \in {"ok", "error"}, Hear(h) PROVE SaidInv'
  <2>1. CASE View = "myJob" /\ shown' = shown /\ \E l \in Loads : load' = Asked(l)
    BY <1>0, <2>1 DEF SaidInv, Asked, NoLoad, Free
  <2>2. CASE View # "myJob"
    <3>1. shown # None => shown.said
      BY <2>2 DEF SaidInv
    <3>2. \/ shown' = shown
          \/ shown # None /\ shown' = [shown EXCEPT !.data = Patched(@, post.act[2])]
      BY <1>8 DEF Hear
    <3> DEFINE d == Patched(shown.data, post.act[2])
    <3>3. \/ shown' = shown
          \/ shown # None /\ shown' = [shown EXCEPT !.data = d]
      BY <3>2
    <3> HIDE DEF d
    <3> QED BY <1>0, <3>1, <3>3 DEF SaidInv
  <2> QED BY <1>8, <2>1, <2>2 DEF Hear, Reloads, ReloadsOnOk, ReloadsOnError
<1>9. CASE UNCHANGED jsVars
  BY <1>1, <1>9 DEF jsVars, screen
<1> QED BY <1>2, <1>3, <1>4, <1>5, <1>6, <1>7, <1>8, <1>9 DEF JSNext

----------------------------------------------------------------------------
(* The job under the screens *)

(* From whatever the job is when a scene opens, and with the one request   *)
(* that the app or others make at a time, the server keeps what it keeps   *)
(* when it serves one request at a time.                                   *)
ServerInv == TypeInv /\ EngagedInv /\ SerialInv /\ SettledInv

LEMMA InitServer == JSInit => ServerInv /\ (InAll => Contract!Init)
<1> SUFFICES ASSUME JSInit PROVE ServerInv /\ (InAll => Contract!Init)
  OBVIOUS
<1>1. scene \in Scene /\ Opened(scene)
  BY JobScreensAssumption DEF JSInit
<1>2. /\ job = scene.job /\ bid = scene.bid /\ counter = scene.counter /\ agreed = scene.agreed
      /\ dispute = [d \in Disputes |-> [status |-> "NONE", ruling |-> None]]
      /\ req = [r \in Requests |-> Blank]
  BY DEF JSInit
<1>3. TypeInv
  BY <1>1, <1>2, BlankType
     DEF Scene, TypeInv, TypeOK, ReqType, RequestsCarryValues, DisputeStatus
<1>4. \A r \in Requests : req[r].pc = "idle"
  BY <1>2 DEF Blank
<1>5. /\ job.awarded # None => bid[job.awarded] # "NONE"
      /\ job.status \notin {"OPEN", "CANCELLED"} =>
            job.awarded # None /\ bid[job.awarded] = "ACCEPTED"
      /\ job.status # "OPEN" => \A p \in Providers : bid[p] # "PENDING"
      /\ job.status \in {"OPEN", "AWARDED", "IN_PROGRESS"} => agreed = {}
      /\ job.status = "COMPLETED_PENDING_CONFIRMATION" =>
            job.pendingFor \in {Consumer, job.awarded}
            /\ agreed = {Consumer, job.awarded} \ {job.pendingFor}
  BY <1>1, <1>2 DEF Opened
<1>6. EngagedInv
  BY <1>4, <1>5 DEF EngagedInv, EngagedHasAwardee, AfterAward
<1>7. SerialInv
  <2>1. job.status = "COMPLETED_PENDING_CONFIRMATION" => OneSideAgreed
    <3> SUFFICES ASSUME job.status = "COMPLETED_PENDING_CONFIRMATION" PROVE OneSideAgreed
      OBVIOUS
    <3>1. job.awarded # None
      BY <1>5
    <3>2. job.awarded # Consumer
      BY <1>3, <3>1, UsersAssumption DEF TypeInv, TypeOK
    <3> QED BY <1>5, <3>2 DEF OneSideAgreed
  <2> QED BY <1>4, <1>5, <2>1 DEF SerialInv, StillTrue
<1>8. SettledInv
  BY <1>4, <1>5 DEF SettledInv, BidsSettled, Offering
<1>9. InAll => Contract!Init
  BY <1>1, <1>2, <1>5 DEF InAll, View, Opened, Contract!Init
<1> QED BY <1>3, <1>6, <1>7, <1>8, <1>9 DEF ServerInv

LEMMA ServerStep ==
    ServerInv /\ ScreenOK /\ [JSNext]_jsVars
        => ServerInv' /\ [Contract!Next]_(Contract!vars)
  BY OneRequest, ServerMoves, TypeStep, EngagedStep, SerialStep, SettledStep DEF ServerInv

(***************************************************************************)
(* Whichever screens move a job, and whatever other people do meanwhile,   *)
(* one request at a time, the job moves as JobContract says.               *)
(***************************************************************************)
THEOREM ScreensMoveStrictly == JSSpec => StrictMoves
<1>1. JSInit => ServerInv /\ ScreenOK /\ (InAll => Contract!Init)
  BY InitServer, InitScreen
<1>2. ServerInv /\ ScreenOK /\ [JSNext]_jsVars
        => ServerInv' /\ ScreenOK' /\ [Contract!Next]_(Contract!vars)
  BY ServerStep, ScreenStep DEF ServerInv
<1> QED BY <1>1, <1>2, PTL DEF JSSpec, StrictMoves

(***************************************************************************)
(* Whichever screens move a job, one request at a time, no bid is left     *)
(* waiting once it has left OPEN, and its awardee's bid is ACCEPTED.       *)
(***************************************************************************)
THEOREM ScreensSettleBids == JSSpec => []BidsSettled
<1>1. JSInit => ServerInv /\ ScreenOK
  BY InitServer, InitScreen
<1>2. ServerInv /\ ScreenOK /\ [JSNext]_jsVars => ServerInv' /\ ScreenOK'
  BY ServerStep, ScreenStep DEF ServerInv
<1>3. ServerInv => BidsSettled
  BY DEF ServerInv, SettledInv
<1> QED BY <1>1, <1>2, <1>3, PTL DEF JSSpec

(***************************************************************************)
(* What a quiet screen shows, the server has said: the status that the     *)
(* consumer's page puts there before the answer does not outlive the       *)
(* request and the load after it, and the list of bids marks no bid but    *)
(* the one that was accepted.                                              *)
(***************************************************************************)
THEOREM ScreensInventNothing == JSSpec => []NothingInvented
<1>1. JSInit => ServerInv /\ ScreenOK /\ SaidInv
  BY InitServer, InitScreen DEF JSInit, SaidInv
<1>2. ServerInv /\ ScreenOK /\ SaidInv /\ [JSNext]_jsVars => ServerInv' /\ ScreenOK' /\ SaidInv'
  BY ServerStep, ScreenStep, SaidStep DEF ServerInv
<1>3. SaidInv => NothingInvented
  BY DEF SaidInv, NothingInvented, Quiet
<1> QED BY <1>1, <1>2, <1>3, PTL DEF JSSpec

----------------------------------------------------------------------------
(* The user's own request on his screen *)

(* His last request was answered, and the screen is to show what it did.   *)
Answered ==
    /\ ~Posting
    /\ \/ post.heard = "ok"
       \/ post.heard = "error" /\ ReloadsOnError(View, post.act[1])

Coming == \E l \in Loads : ~Free(l) /\ (View = "bids" => load[l].id = latest)

(* Either it does, or a load that will show it is under way: the bids      *)
(* screen waits for the latest, whose first read came after the answer.    *)
OwnInv ==
    Answered =>
        /\ shown # None /\ ~error =>
              \/ shown.fresh
              \/ overtaken /\ View # "bids"
              \/ View = "bidsOfList" /\ shown.data.bid[post.act[2]] = "ACCEPTED"
              \/ Coming
        /\ View = "bids" => \A l \in Loads :
              load[l].pc \in {"half", "read"} /\ load[l].id = latest => load[l].fresh

LEMMA OwnAsked ==
    ASSUME ScreenOK, NEW l \in Loads, load' = Asked(l), latest' = latest + 1, scene' = scene
    PROVE  Coming' /\ \A k \in Loads : load'[k].pc \in {"half", "read"} => load'[k].id # latest'
<1> DEFINE n == latest + 1
           x == [NoLoad EXCEPT !.pc = "asked", !.id = n]
<1>1. latest \in Nat /\ latest' = n /\ n \in Nat /\ n > latest /\ DOMAIN load = Loads
  BY DEF ScreenOK
<1>2. load' = [load EXCEPT ![l] = x]
  BY DEF Asked
<1>3. \A k \in Loads : load[k].id \in Nat /\ load[k].id <= latest
  BY DEF ScreenOK, LoadOK
<1>4. \A k \in Loads : load[k].id # n
  BY <1>1, <1>3
<1> HIDE DEF n
<1>5. x.pc = "asked" /\ x.id = n
  <2>1. ASSUME NEW z, z = x PROVE z.pc = "asked" /\ z.id = n
    BY <2>1 DEF NoLoad
  <2> QED BY <2>1
<1> HIDE DEF x
<1>6. load'[l] = x /\ \A k \in Loads \ {l} : load'[k] = load[k]
  BY <1>1, <1>2
<1> QED BY <1>1, <1>4, <1>5, <1>6 DEF Coming, Free

(* A load that ends, and is not what the screen waits for *)
LEMMA OwnDropped ==
    ASSUME ScreenOK, NEW l \in Loads, load' = [load EXCEPT ![l] = NoLoad], Dropped(l), Coming,
           latest' = latest, scene' = scene
    PROVE  Coming'
<1>1. View = "bids" /\ load[l].id # latest /\ DOMAIN load = Loads /\ View' = View
  BY DEF Dropped, GuardsLoads, ScreenOK, View
<1>2. PICK k \in Loads : ~Free(k) /\ load[k].id = latest
  BY <1>1 DEF Coming
<1>3. load'[k] = load[k]
  BY <1>1, <1>2
<1> QED BY <1>2, <1>3 DEF Coming, Free

LEMMA OwnStep == ScreenOK /\ OwnInv /\ [JSNext]_jsVars => OwnInv'
<1> SUFFICES ASSUME ScreenOK, OwnInv, [JSNext]_jsVars PROVE OwnInv'
  OBVIOUS
<1>0. /\ View' = View /\ DOMAIN load = Loads
      /\ shown # None => shown \in [data : {shown.data}, fresh : BOOLEAN, said : BOOLEAN]
      /\ \A l \in Loads : LoadOK(load[l], latest, View)
  BY DEF ScreenOK, View, JSNext, jsVars, screen, Open, ReadJob, ReadBids, LoadAnswer, LoadFailure,
         Press, Take, Serve, Others, Hear
<1>1. CASE UNCHANGED screen
  BY <1>0, <1>1 DEF screen, OwnInv, Answered, Coming, Posting, Free
<1>2. ASSUME Posting' PROVE OwnInv'
  BY <1>2 DEF OwnInv, Answered
<1>3. ASSUME NEW l \in Loads, Open(l) PROVE OwnInv'
  <2>1. Coming' /\ \A k \in Loads : load'[k].pc \in {"half", "read"} => load'[k].id # latest'
    BY <1>3, OwnAsked DEF Open
  <2> QED BY <2>1 DEF OwnInv
<1>4. ASSUME NEW l \in Loads, ReadJob(l) \/ ReadBids(l) PROVE OwnInv'
  <2>1. UNCHANGED <<shown, error, latest, post, overtaken>>
    BY <1>4 DEF ReadJob, ReadBids
  <2>2. /\ load'[l].id = load[l].id /\ load'[l].pc # "idle" /\ load[l].pc # "idle"
        /\ load'[l].fresh = TRUE \/ (load[l].pc = "half" /\ load'[l].fresh = load[l].fresh)
        /\ \A k \in Loads \ {l} : load'[k] = load[k]
    <3>1. CASE ReadJob(l)
      BY <1>0, <3>1 DEF ReadJob, LoadOK
    <3>2. CASE ReadBids(l)
      BY <1>0, <3>2 DEF ReadBids, LoadOK
    <3> QED BY <1>4, <3>1, <3>2
  <2>3. Answered' <=> Answered
    BY <1>0, <2>1 DEF Answered, Posting
  <2>4. Coming => Coming'
    BY <1>0, <2>1, <2>2 DEF Coming, Free
  <2> QED BY <1>0, <2>1, <2>2, <2>3, <2>4 DEF OwnInv
<1>5. ASSUME NEW l \in Loads, LoadAnswer(l) \/ LoadFailure(l) PROVE OwnInv'
  <2>1. /\ latest' = latest /\ post' = post /\ scene' = scene
        /\ load' = [load EXCEPT ![l] = NoLoad]
    BY <1>5 DEF LoadAnswer, LoadFailure, JSNext
  <2>2. Answered' <=> Answered
    BY <1>0, <2>1 DEF Answered, Posting
  <2>3. \A k \in Loads : load'[k].pc \in {"half", "read"} => load'[k] = load[k]
    BY <1>0, <2>1 DEF NoLoad
  <2>4. CASE Dropped(l)
    <3>1. UNCHANGED <<shown, overtaken, error>>
      BY <1>5, <2>4 DEF LoadAnswer, LoadFailure
    <3>2. Coming => Coming'
      BY <2>1, <2>4, OwnDropped
    <3> QED BY <1>0, <2>1, <2>2, <2>3, <3>1, <3>2 DEF OwnInv
  <2>5. CASE LoadFailure(l) /\ ~Dropped(l)
    <3>1. error'
      BY <2>5 DEF LoadFailure
    <3> QED BY <1>0, <2>1, <2>2, <2>3, <3>1 DEF OwnInv
  <2>6. CASE LoadAnswer(l) /\ ~Dropped(l)
    <3>1. /\ load[l].pc = "read"
          /\ shown' = [data |-> load[l].data, fresh |-> load[l].fresh, said |-> TRUE]
          /\ overtaken' = (post.heard # "none" /\ ~load[l].fresh)
      BY <2>6 DEF LoadAnswer
    <3>2. View = "bids" => load[l].id = latest
      BY <2>6 DEF Dropped, GuardsLoads
    <3>3. ASSUME Answered PROVE shown'.fresh \/ (overtaken' /\ View # "bids")
      <4>1. post.heard # "none" /\ shown'.fresh = load[l].fresh
        BY <3>1, <3>3 DEF Answered
      <4>2. View = "bids" => load[l].fresh
        BY <3>1, <3>2, <3>3 DEF OwnInv
      <4> QED BY <3>1, <4>1, <4>2
    <3> QED BY <1>0, <2>1, <2>2, <2>3, <3>3 DEF OwnInv
  <2> QED BY <1>5, <2>4, <2>5, <2>6
<1>6. ASSUME NEW a \in Acts, NEW p \in Providers \cup {None}, Press(<<a, p>>) PROVE OwnInv'
  <2>1. post'.pc = "asked"
    BY <1>6 DEF Press, NoPost
  <2> QED BY <1>2, <2>1 DEF Posting
<1>7. CASE Take \/ Serve
  <2>1. ASSUME NEW ok \in BOOLEAN, Served(ok) PROVE Posting'
    BY <2>1, ServedOK
  <2>2. \/ Served(FALSE) \/ Served(~At(r1, "dispute.find"))
        \/ post' = [post EXCEPT !.pc = "serving"]
        \/ (Serve /\ post' = post)
    BY <1>7 DEF Take, Serve
  <2>3. CASE post' = [post EXCEPT !.pc = "serving"]
    BY <1>2, <2>3 DEF Posting, ScreenOK, PostMemory
  <2>4. CASE Serve /\ post' = post
    BY <1>2, <2>4 DEF Serve, Posting
  <2> QED BY <1>2, <2>1, <2>2, <2>3, <2>4 DEF At
<1>8. ASSUME NEW h \in {"ok", "error"}, Hear(h) PROVE OwnInv'
  <2>1. CASE post' = [post EXCEPT !.pc = "asked", !.again = TRUE]
    BY <1>2, <2>1 DEF Posting, ScreenOK, PostMemory
  <2>2. CASE post' = [NoPost EXCEPT !.act = post.act, !.heard = h]
    <3>1. post'.act = post.act /\ post'.heard = h /\ scene' = scene
      BY <1>8, <2>2 DEF NoPost, Hear
    <3>2. ASSUME NEW l \in Loads, load' = Asked(l), latest' = latest + 1 PROVE OwnInv'
      <4>1. Coming' /\ \A k \in Loads : load'[k].pc \in {"half", "read"} => load'[k].id # latest'
        BY <3>1, <3>2, OwnAsked
      <4> QED BY <4>1 DEF OwnInv
    <3>3. CASE ~Reloads(h) /\ h = "error"
      BY <1>0, <3>1, <3>3 DEF Reloads, OwnInv, Answered
    <3>4. CASE ~Reloads(h) /\ h = "ok"
      <4>1. View = "bidsOfList"
        BY <3>4 DEF Reloads, ReloadsOnOk
      <4>2. post.act[2] \in Providers
        <5>1. Posting
          BY <1>8 DEF Hear, Posting
        <5> QED BY <4>1, <5>1 DEF ScreenOK, Sendable
      <4>3. shown # None =>
               /\ ListOK(shown.data) /\ shown' = [shown EXCEPT !.data = Patched(@, post.act[2])]
        BY <1>8, <2>2, <3>4, <4>1 DEF Hear, ScreenOK, NoPost
      <4>4. shown = None => shown' = None
        BY <1>8, <2>2, <3>4 DEF Hear, NoPost
      <4>5. ASSUME shown # None PROVE shown'.data.bid[post.act[2]] = "ACCEPTED"
        <5> DEFINE d == Patched(shown.data, post.act[2])
        <5>1. d.bid[post.act[2]] = "ACCEPTED"
          BY <4>2, <4>3, <4>5 DEF Patched, ListOK
        <5>2. shown' = [shown EXCEPT !.data = d]
          BY <4>3, <4>5
        <5> HIDE DEF d
        <5> QED BY <1>0, <4>5, <5>1, <5>2
      <4> QED BY <1>0, <3>1, <4>1, <4>4, <4>5 DEF OwnInv
    <3> QED BY <1>8, <2>2, <3>2, <3>3, <3>4 DEF Hear, NoPost
  <2> QED BY <1>8, <2>1, <2>2 DEF Hear
<1>9. CASE UNCHANGED jsVars
  BY <1>1, <1>9 DEF jsVars
<1>10. CASE Others
  BY <1>1, <1>10 DEF Others
<1> QED BY <1>3, <1>4, <1>5, <1>6, <1>7, <1>8, <1>9, <1>10 DEF JSNext

(***************************************************************************)
(* Once a screen is quiet it shows what the user's answered request did:   *)
(* what it shows was read after the request took effect, or is an older    *)
(* answer that came after the newer one, which the bids screen drops.      *)
(***************************************************************************)
THEOREM OwnDoingIsShown == JSSpec => []OwnDoingShown
<1>1. JSInit => ServerInv /\ ScreenOK /\ OwnInv
  <2>1. JSInit => OwnInv
    BY DEF JSInit, OwnInv, Answered, NoPost
  <2> QED BY <2>1, InitServer, InitScreen
<1>2. ServerInv /\ ScreenOK /\ OwnInv /\ [JSNext]_jsVars => ServerInv' /\ ScreenOK' /\ OwnInv'
  BY ServerStep, ScreenStep, OwnStep DEF ServerInv
<1>3. OwnInv => OwnDoingShown
  BY DEF OwnInv, OwnDoingShown, Answered, Coming, Quiet
<1> QED BY <1>1, <1>2, <1>3, PTL DEF JSSpec

----------------------------------------------------------------------------
(* What the screens offer, compared with what the handlers accept *)

(* One request at a time, from the beginning of a job: while it is OPEN    *)
(* nobody is declined, and a counter offer that waits, or was accepted, is *)
(* on a bid that waits, or was accepted.                                   *)
DealInv ==
    /\ job.status = "OPEN" => \A p \in Providers :
          /\ bid[p] # "DECLINED"
          /\ counter[p] = "ACCEPTED" => bid[p] = "ACCEPTED"
          /\ counter[p] = "PENDING" => bid[p] = "PENDING"
    /\ \A r \in Requests : At(r, "counter.upsert") => bid[req[r].provider] = "PENDING"

(* A step of the only request that leaves the offers alone, or the job     *)
(* not OPEN, and does not go on to a counter offer.                        *)
LEMMA DealBeside ==
    ASSUME SerialRequests, DealInv, NEW r \in Requests, req'[r].pc # "counter.upsert",
           \/ UNCHANGED <<job, bid, counter>>
           \/ job'.status # "OPEN"
    PROVE  DealInv'
BY DEF SerialRequests, DealInv, At

(* All requests but the offers are such steps. *)
LEMMA WorkBesideDeals ==
    ASSUME TypeInv, NEW r \in Requests, Working(r) \/ Disputing(r) \/ Fail(r)
    PROVE  /\ req'[r].pc # "counter.upsert"
           /\ \/ UNCHANGED <<job, bid, counter>>
              \/ job'.status # "OPEN"
<1> DEFINE Goal == /\ req'[r].pc # "counter.upsert"
                   /\ UNCHANGED <<job, bid, counter>> \/ job'.status # "OPEN"
<1>0. /\ req \in [Requests -> ReqType] /\ CarriesItsValues(req[r])
      /\ job \in [status : JobStatus, awarded : Providers \cup {None},
                  pendingFor : Users \cup {None}, completedAt : BOOLEAN]
  BY DEF TypeInv, TypeOK, ReqType, RequestsCarryValues
<1> USE <1>0 DEF ReqType, Blank, Begin, Finish, Continue, rows
<1>1. ASSUME NEW p \in Providers, AwardRead(r, p) PROVE Goal
  BY <1>1 DEF AwardRead
<1>2. ASSUME NEW p \in Providers, StartRead(r, p) PROVE Goal
  BY <1>2 DEF StartRead
<1>3. ASSUME NEW u \in Users, MarkCompleteRead(r, u) PROVE Goal
  BY <1>3 DEF MarkCompleteRead
<1>4. ASSUME NEW u \in Users, ConfirmCompleteRead(r, u) PROVE Goal
  BY <1>4 DEF ConfirmCompleteRead
<1>5. ASSUME NEW u \in Users \cup {Admin}, CancelRead(r, u) PROVE Goal
  BY <1>5 DEF CancelRead
<1>6. CASE AwardCommit(r)
  BY <1>6 DEF AwardCommit
<1>7. CASE StartCommit(r)
  BY <1>7 DEF StartCommit
<1>8. CASE MarkCompleteCommit(r)
  BY <1>8 DEF MarkCompleteCommit
<1>9. CASE ConfirmCompleteCommit(r)
  BY <1>9 DEF ConfirmCompleteCommit
<1>10. CASE CancelCommit(r)
  BY <1>10 DEF CancelCommit, CancelledJob
<1>11. CASE Working(r)
  BY <1>1, <1>2, <1>3, <1>4, <1>5, <1>6, <1>7, <1>8, <1>9, <1>10, <1>11
     DEF Working, CompleteRead, Users
<1>12. ASSUME NEW u \in Users, OpenDisputeRead(r, u) PROVE Goal
  BY <1>12 DEF OpenDisputeRead
<1>13. ASSUME NEW d \in Disputes, NEW s \in Rulings, ResolveRead(r, d, s) PROVE Goal
  BY <1>13 DEF ResolveRead
<1>14. ASSUME NEW d \in Disputes, NEW s \in DisputeStatus, PatchDisputeRead(r, d, s) PROVE Goal
  BY <1>14 DEF PatchDisputeRead
<1>15. CASE OpenDisputeFind(r)
  BY <1>15 DEF OpenDisputeFind
<1>16. CASE OpenDisputeCreate(r)
  BY <1>16 DEF OpenDisputeCreate
<1>17. CASE OpenDisputeFlag(r)
  BY <1>17 DEF OpenDisputeFlag
<1>18. CASE ResolveReadJob(r)
  BY <1>18 DEF ResolveReadJob
<1>19. CASE ResolveCommit(r)
  BY <1>19 DEF ResolveCommit
<1>20. CASE ResolveFlag(r)
  BY <1>20 DEF ResolveFlag, At, CarriesItsValues, AtRuling, Rulings
<1>21. CASE PatchDisputeCommit(r)
  BY <1>21 DEF PatchDisputeCommit
<1>22. CASE Disputing(r)
  BY <1>12, <1>13, <1>14, <1>15, <1>16, <1>17, <1>18, <1>19, <1>20, <1>21, <1>22 DEF Disputing
<1>23. CASE Fail(r)
  BY <1>23 DEF Fail
<1> QED BY <1>11, <1>22, <1>23

LEMMA DealStep ==
    ASSUME SerialRequests, TypeInv, SettledInv, DealInv, [Next]_vars
    PROVE  DealInv'
<1>0. CASE UNCHANGED vars
  BY <1>0 DEF vars, DealInv, At
<1>1. ASSUME NEW r \in Requests, Bidding(r) PROVE DealInv'
  <2> DEFINE p == req[r].provider
  <2>0. /\ bid \in [Providers -> OfferStatus] /\ counter \in [Providers -> OfferStatus]
        /\ req \in [Requests -> ReqType]
        /\ req[r].pc \in Offering => job.status = "OPEN"
        /\ req[r].pc \in AtProvider => p \in Providers
    BY DEF TypeInv, TypeOK, ReqType, RequestsCarryValues, CarriesItsValues, SettledInv
  <2> USE <2>0 DEF Blank, Begin, Finish, Continue, At, rows
  <2>1. ASSUME NEW o \in Providers, \/ PlaceBidRead(r, o) \/ AcceptCounterRead(r, o)
                                    \/ DeclineCounterRead(r, o)
        PROVE  DealInv'
    <3>1. req'[r].pc # "counter.upsert" /\ UNCHANGED <<job, bid, counter>>
      BY <2>1 DEF PlaceBidRead, AcceptCounterRead, DeclineCounterRead
    <3> QED BY <3>1, DealBeside
  <2>2. ASSUME NEW o \in Providers, CounterRead(r, o) PROVE DealInv'
    <3>1. bid[o] = "PENDING" /\ UNCHANGED <<job, bid, counter>>
      BY <2>2 DEF CounterRead, MayCounter
    <3>2. req'[r].provider = o
      BY <2>2 DEF CounterRead
    <3> QED BY <3>1, <3>2 DEF DealInv, SerialRequests
  <2>3. CASE PlaceBidFind(r)
    <3>1. req'[r].pc # "counter.upsert" /\ UNCHANGED <<job, bid, counter>>
      BY <2>3 DEF PlaceBidFind, ReqType
    <3> QED BY <3>1, DealBeside
  <2>4. ASSUME Finish(r) PROVE \A s \in Requests : req'[s].pc = "idle"
    BY <2>4 DEF SerialRequests
  <2>5. CASE PlaceBidCommit(r)
    <3>1. /\ Finish(r) /\ job' = job /\ counter' = counter /\ job.status = "OPEN" /\ p \in Providers
          /\ bid' = CreateBid(bid, p)
      BY <2>5 DEF PlaceBidCommit, Offering, AtProvider
    <3> QED BY ONLY <2>0, <2>4, <3>1, DealInv DEF CreateBid, DealInv, At
  <2>6. CASE CounterUpsert(r)
    <3>1. /\ Finish(r) /\ job' = job /\ bid' = bid /\ p \in Providers
          /\ counter' = [counter EXCEPT ![p] = "PENDING"] /\ bid[p] = "PENDING"
      BY <2>6 DEF CounterUpsert, Offering, AtProvider, DealInv
    <3> QED BY ONLY <2>0, <2>4, <3>1, DealInv DEF DealInv, At
  <2>7. CASE AcceptCounterCommit(r)
    <3>1. /\ Finish(r) /\ job' = job /\ p \in Providers
          /\ counter' = [counter EXCEPT ![p] = "ACCEPTED"]
          /\ bid' = [bid EXCEPT ![p] = "ACCEPTED"]
      BY <2>7 DEF AcceptCounterCommit, Offering, AtProvider
    <3> QED BY ONLY <2>0, <2>4, <3>1, DealInv DEF DealInv, At
  <2>8. CASE DeclineCounterCommit(r)
    <3>1. /\ Finish(r) /\ job' = job /\ bid' = bid /\ p \in Providers
          /\ counter' = [counter EXCEPT ![p] = "DECLINED"]
      BY <2>8 DEF DeclineCounterCommit, Offering, AtProvider
    <3> QED BY ONLY <2>0, <2>4, <3>1, DealInv DEF DealInv, At
  <2> QED BY <1>1, <2>1, <2>2, <2>3, <2>5, <2>6, <2>7, <2>8 DEF Bidding
<1>2. ASSUME NEW r \in Requests, Working(r) \/ Disputing(r) \/ Fail(r) PROVE DealInv'
  BY <1>2, WorkBesideDeals, DealBeside
<1> QED BY <1>0, <1>1, <1>2 DEF Next

(***************************************************************************)
(* What a turn or an offer depends on, one request at a time: the rows     *)
(* that the screens and the guards read.                                   *)
(***************************************************************************)
LEMMA EngagedAwardee ==
    ASSUME ServerInv
    PROVE  /\ job.status \in JobStatus
           /\ job.status \notin {"OPEN", "CANCELLED"} =>
                 /\ job.awarded \in Providers /\ bid[job.awarded] = "ACCEPTED"
                 /\ ResolvedProviders = {job.awarded} /\ job.awarded # None
                 /\ job.awarded # Consumer
  BY UsersAssumption
     DEF ServerInv, TypeInv, TypeOK, EngagedInv, EngagedHasAwardee, SettledInv, BidsSettled,
         ResolvedProviders

(* What the two reads of a job say *)
LEMMA ConsumerReads ==
    ASSUME NEW d \in ConsumerJobData
    PROVE  /\ d.status = job.status /\ (d.mine <=> job.pendingFor = Consumer)
           /\ d.named # None => \E p \in Providers : bid[p] = "ACCEPTED"
<1> DEFINE m == (job.pendingFor = Consumer)
<1>1. PICK q \in Named : d = [status |-> job.status, mine |-> m, named |-> q]
  BY DEF ConsumerJobData
<1>2. q # None => \E p \in Providers : bid[p] = "ACCEPTED"
  BY DEF Named
<1>3. m \in BOOLEAN
  OBVIOUS
<1> HIDE DEF m
<1>4. d.status = job.status /\ d.mine = m /\ d.named = q
  BY <1>1
<1> QED BY <1>2, <1>3, <1>4 DEF m

LEMMA ProviderReads ==
    ASSUME NEW me
    PROVE  LET d == ProviderJobData(me)
           IN  /\ d.status = job.status /\ d.bid = bid[me] /\ d.counter = counter[me]
               /\ d.mine <=> job.pendingFor = me
<1> DEFINE m == (job.pendingFor = me)
           d == ProviderJobData(me)
<1>1. d = [status |-> job.status, mine |-> m, bid |-> bid[me], counter |-> counter[me]]
  BY DEF ProviderJobData
<1>2. m \in BOOLEAN
  OBVIOUS
<1> HIDE DEF m, d
<1>3. d.status = job.status /\ d.mine = m /\ d.bid = bid[me] /\ d.counter = counter[me]
  BY <1>1
<1> QED BY <1>2, <1>3 DEF m, d

LEMMA TurnIsFound == ServerInv => TurnFound
<1> SUFFICES ASSUME ServerInv PROVE TurnFound
  OBVIOUS
<1>1. ASSUME job.status = "OPEN", NEW p \in Providers, bid[p] = "PENDING", counter[p] # "PENDING",
             NEW d \in Data("bids", Consumer)
      PROVE  <<"award", p>> \in BidsOffers(d)
  <2>1. d.status = "OPEN" /\ d.bid[p] = "PENDING" /\ d.counter[p] # "PENDING"
    BY <1>1 DEF Data
  <2>2. "award" \in BidCard(d, p)
    BY <2>1 DEF BidCard, When
  <2> QED BY <2>2 DEF BidsOffers
<1>2. ASSUME NEW p \in Providers, NEW act, act \in JobDetailOffers(ProviderJobData(p))
      PROVE  Shows("jobDetail", p, act)
  <2>1. <<act, p>> \in Offers("jobDetail", p, ProviderJobData(p)) /\ <<act, p>>[1] = act
    BY <1>2 DEF Offers
  <2>2. Data("jobDetail", p) = {ProviderJobData(p)}
    BY DEF Data
  <2> QED BY <2>1, <2>2 DEF Shows
<1>3. ASSUME NEW act, \A d \in ConsumerJobData : act \in MyJobGates(d)
      PROVE  Shows("myJob", Consumer, act)
  <2>1. ASSUME NEW d \in ConsumerJobData
        PROVE  <<act, None>> \in Offers("myJob", Consumer, d) /\ <<act, None>>[1] = act
    BY <1>3 DEF Offers, MyJobOffers
  <2>2. Data("myJob", Consumer) = ConsumerJobData
    BY DEF Data
  <2> QED BY <2>1, <2>2 DEF Shows
<1>4. \A d \in ConsumerJobData : d.status = job.status /\ (d.mine <=> job.pendingFor = Consumer)
  BY ConsumerReads
<1>5. \A p \in Providers :
          /\ ProviderJobData(p).status = job.status /\ ProviderJobData(p).bid = bid[p]
          /\ ProviderJobData(p).counter = counter[p]
          /\ (ProviderJobData(p).mine <=> job.pendingFor = p)
  BY ProviderReads
<1>6. ASSUME job.status = "OPEN", NEW p \in Providers, bid[p] = "PENDING"
      PROVE  \/ \A d \in Data("bids", Consumer) : <<"award", p>> \in BidsOffers(d)
             \/ Shows("jobDetail", p, "acceptCounter")
  <2>1. CASE counter[p] = "PENDING"
    BY <1>2, <1>5, <2>1 DEF JobDetailOffers, JobDetailCounter, When
  <2> QED BY <1>1, <1>6, <2>1
<1>7. job.status = "AWARDED" => Shows("jobDetail", job.awarded, "start")
  BY <1>2, <1>5, EngagedAwardee DEF JobDetailOffers, JobDetailWork, When
<1>8. job.status = "IN_PROGRESS" => /\ Shows("jobDetail", job.awarded, "mark")
                                    /\ Shows("myJob", Consumer, "mark")
  <2>1. job.status = "IN_PROGRESS" => Shows("jobDetail", job.awarded, "mark")
    BY <1>2, <1>5, EngagedAwardee DEF JobDetailOffers, JobDetailWork, When
  <2>2. job.status = "IN_PROGRESS" => Shows("myJob", Consumer, "mark")
    BY <1>3, <1>4 DEF MyJobGates, When
  <2> QED BY <2>1, <2>2
<1>9. job.status = "COMPLETED_PENDING_CONFIRMATION" =>
          /\ job.pendingFor \in {Consumer, job.awarded} \ agreed
          /\ job.pendingFor = Consumer => Shows("myJob", Consumer, "confirm")
          /\ job.pendingFor # Consumer => Shows("jobDetail", job.pendingFor, "confirm")
  <2> SUFFICES ASSUME job.status = "COMPLETED_PENDING_CONFIRMATION"
               PROVE  /\ job.pendingFor \in {Consumer, job.awarded} \ agreed
                      /\ job.pendingFor = Consumer => Shows("myJob", Consumer, "confirm")
                      /\ job.pendingFor # Consumer => Shows("jobDetail", job.pendingFor, "confirm")
    OBVIOUS
  <2>1. job.pendingFor \in {Consumer, job.awarded} \ agreed
    BY EngagedAwardee DEF ServerInv, SerialInv, OneSideAgreed
  <2>2. job.pendingFor = Consumer => Shows("myJob", Consumer, "confirm")
    BY <1>3, <1>4 DEF MyJobGates, When
  <2>3. job.pendingFor # Consumer => Shows("jobDetail", job.pendingFor, "confirm")
    BY <1>2, <1>5, <2>1, EngagedAwardee DEF JobDetailOffers, JobDetailWork, When
  <2> QED BY <2>1, <2>2, <2>3
<1> QED BY <1>6, <1>7, <1>8, <1>9 DEF TurnFound, SomeoneCanConfirm

(* The consumer's two pages of a job *)
LEMMA MyJobAccepted ==
    ASSUME ServerInv, NEW view \in {"myJob", "myJobOld"}, NEW d \in ConsumerJobData,
           NEW o \in Offers(view, Consumer, d)
    PROVE  Accepts(Consumer, o[1], o[2]) \/ KnownRefusal(view, Consumer, o[1], o[2])
<1>1. /\ d.status = job.status /\ (d.mine <=> job.pendingFor = Consumer)
      /\ d.named # None => \E p \in Providers : bid[p] = "ACCEPTED"
  BY ConsumerReads
<1>2. o[1] \in MyJobGates(d) \cup MyJobDispute(d) \cup MyJobSchedule(d) \cup MyJobAwarded(d)
                 \cup MyJobReview(d) \cup When(d.status \in Cancellable, {"cancel"})
                 \cup When(d.status \in Disputable, {"dispute"})
  BY DEF Offers, MyJobOffers, MyJobOldOffers
<1>3. Consumer \notin Providers
  BY UsersAssumption
<1> DEFINE a == o[1]
<1> HIDE DEF a
<1>4. PartnersOf(Consumer) = ResolvedProviders \ {None}
  BY DEF PartnersOf
<1>5. CASE a = "cancel" /\ job.status \in Cancellable
  BY <1>3, <1>5 DEF a, Accepts, Takes, MayCancel, CanCancelJob, Cancellable
<1>6. CASE a = "mark" /\ job.status = "IN_PROGRESS"
  BY <1>4, <1>6, EngagedAwardee DEF a, Accepts, Takes, MayMarkComplete, CanMarkComplete
<1>7. CASE a = "confirm" /\ job.status = "COMPLETED_PENDING_CONFIRMATION"
           /\ job.pendingFor = Consumer
  BY <1>4, <1>7, EngagedAwardee
     DEF a, Accepts, Takes, MayConfirmComplete, CanConfirmComplete, MayConfirm
<1>8. CASE a = "dispute" /\ job.status \in Disputable
  BY <1>8 DEF a, Accepts, KnownRefusal, MayDispute, CanOpenDispute, Disputable
<1>9. CASE a = "propose" /\ job.status \in Engaged /\ d.named # None
  BY <1>1, <1>9 DEF a, Accepts, MayPropose
<1>10. CASE a = "message"
  BY <1>10 DEF a, Accepts, MayMessage
<1>11. CASE a = "review" /\ job.status = "COMPLETED"
  BY <1>11, EngagedAwardee DEF a, Accepts, MayReview
<1> QED BY <1>1, <1>2, <1>5, <1>6, <1>7, <1>8, <1>9, <1>10, <1>11
        DEF a, MyJobGates, MyJobDispute, MyJobSchedule, MyJobAwarded, MyJobReview, When

(* The consumer's two lists of bids *)
LEMMA BidsAccepted ==
    ASSUME ServerInv, DealInv, NEW view \in {"bids", "bidsOfList"}, NEW d \in Data(view, Consumer),
           NEW o \in Offers(view, Consumer, d)
    PROVE  Accepts(Consumer, o[1], o[2]) \/ KnownRefusal(view, Consumer, o[1], o[2])
<1>1. d.bid = bid /\ d.counter = counter /\ (view = "bids" => d.status = job.status)
  BY DEF Data, BidsData
<1>2. PICK p \in Providers :
          \/ view = "bids" /\ o \in BidCard(d, p) \X {p}
          \/ view = "bidsOfList" /\ o \in When(d.bid[p] = "PENDING", {"award", "reject"}) \X {p}
  BY DEF Offers, BidsOffers, BidsOfListOffers
<1>3. o[2] = p
  BY <1>2
<1>4. bid[p] \in OfferStatus /\ counter[p] \in OfferStatus
  BY DEF ServerInv, TypeInv, TypeOK
<1>5. CASE o[1] = "award" /\ bid[p] = "PENDING"
  <2>1. MayAward(p)
    BY <1>5 DEF ServerInv, SettledInv, BidsSettled, MayAward
  <2> QED BY <1>3, <1>5, <2>1 DEF Accepts, Takes
<1>6. CASE o[1] = "reject"
  BY <1>6 DEF KnownRefusal
<1>7. CASE o[1] = "counter" /\ job.status = "OPEN" /\ bid[p] \notin {"NONE", "ACCEPTED"}
  <2>1. MayCounter(p)
    BY <1>4, <1>7 DEF DealInv, MayCounter, OfferStatus
  <2> QED BY <1>3, <1>7, <2>1 DEF Accepts, Takes
<1> QED BY <1>1, <1>2, <1>5, <1>6, <1>7 DEF BidCard, When

(* The provider's three pages *)
LEMMA ProviderAccepted ==
    ASSUME ServerInv, DealInv, NEW me \in Providers, NEW view \in ProviderViews,
           NEW d \in Data(view, me), NEW o \in Offers(view, me, d)
    PROVE  Accepts(me, o[1], o[2]) \/ KnownRefusal(view, me, o[1], o[2])
<1>1. /\ d.status = job.status /\ d.bid = bid[me] /\ d.counter = counter[me]
      /\ (d.mine <=> job.pendingFor = me)
  BY ProviderReads DEF ProviderViews, Data
<1>2. bid[me] \in OfferStatus /\ counter[me] \in OfferStatus
  BY DEF ServerInv, TypeInv, TypeOK
<1>3. me # Consumer /\ me # None
  BY UsersAssumption DEF Users
<1> DEFINE a == o[1]
<1>4. \/ view = "jobDetail" /\ a \in JobDetailOffers(d)
      \/ view = "jobBids" /\ a \in JobBidsOffers(d)
      \/ view = "bidDetail" /\ a \in BidDetailEdit(d) \cup BidDetailPlace(d) \cup BidDetailCounter(d)
  BY DEF ProviderViews, Offers
<1> HIDE DEF a
<1>5. CASE a \in {"acceptCounter", "declineCounter"} /\ counter[me] = "PENDING"
  <2>1. CASE job.status = "OPEN"
    <3>1. MayAcceptCounter(me) /\ MayDeclineCounter(me)
      BY <1>5, <2>1 DEF DealInv, MayAcceptCounter, MayDeclineCounter
    <3> QED BY <1>5, <3>1 DEF a, Accepts, Takes
  <2> QED BY <1>5, <2>1 DEF a, KnownRefusal
<1>6. CASE a = "bid" /\ (view = "jobBids" \/ bid[me] \in {"NONE", "PENDING"})
  <2>1. CASE view = "jobBids" \/ job.status # "OPEN"
    BY <1>6, <2>1 DEF a, KnownRefusal
  <2>2. CASE bid[me] \in {"NONE", "PENDING"} /\ job.status = "OPEN"
    <3>1. MayPlaceBid /\ MayBid(me)
      BY <2>2 DEF DealInv, MayPlaceBid, MayBid
    <3> QED BY <1>6, <3>1 DEF a, Accepts, Takes
  <2> QED BY <1>6, <2>1, <2>2
<1>7. CASE view = "jobDetail" /\ bid[me] = "ACCEPTED" /\ job.awarded # me
  BY <1>7 DEF KnownRefusal
<1>8. CASE view = "jobDetail" /\ a = "message"
  BY <1>8 DEF a, KnownRefusal
<1>9. CASE job.awarded = me /\ a \in JobDetailWork(d) \cup JobDetailSafety(d)
  <2>1. me \in PartnersOf(me) /\ ResolvedProviders = {me}
    BY <1>3, <1>9 DEF PartnersOf, ResolvedProviders
  <2>2. CASE a = "start" /\ job.status = "AWARDED"
    BY <1>9, <2>2 DEF a, Accepts, Takes, MayStart
  <2>3. CASE a = "mark" /\ job.status = "IN_PROGRESS"
    BY <2>1, <2>3 DEF a, Accepts, Takes, MayMarkComplete, CanMarkComplete
  <2>4. CASE a = "confirm" /\ job.status = "COMPLETED_PENDING_CONFIRMATION" /\ job.pendingFor = me
    BY <2>1, <2>4 DEF a, Accepts, Takes, MayConfirmComplete, CanConfirmComplete, MayConfirm
  <2>5. CASE a = "review" /\ job.status = "COMPLETED"
    BY <1>3, <2>1, <2>5 DEF a, Accepts, MayReview
  <2>6. CASE a = "dispute" /\ job.status \in Disputable
    BY <2>1, <2>6 DEF a, Accepts, KnownRefusal, MayDispute, CanOpenDispute, Disputable
  <2>7. CASE a = "cancel" /\ job.status \in Engaged
    BY <1>3, <2>1, <2>7 DEF a, Accepts, Takes, MayCancel, CanCancelJob, Engaged
  <2> QED BY <1>1, <1>9, <2>2, <2>3, <2>4, <2>5, <2>6, <2>7
          DEF JobDetailWork, JobDetailSafety, When
<1>10. CASE view = "jobDetail" /\ a \in JobDetailOffers(d)
  <2>1. CASE a \in JobDetailWork(d) \cup JobDetailSafety(d)
    <3>1. bid[me] = "ACCEPTED"
      BY <1>1, <2>1 DEF JobDetailWork, JobDetailSafety, When
    <3> QED BY <1>7, <1>9, <1>10, <2>1, <3>1
  <2>2. CASE a \in JobDetailCounter(d)
    BY <1>1, <1>5, <2>2 DEF JobDetailCounter, When
  <2>3. CASE a \in JobDetailBid(d)
    BY <1>1, <1>6, <1>8, <1>10, <2>3 DEF JobDetailBid, When
  <2> QED BY <1>10, <2>1, <2>2, <2>3 DEF JobDetailOffers
<1>11. CASE view = "jobBids" /\ a \in JobBidsOffers(d)
  BY <1>1, <1>5, <1>6, <1>11 DEF JobBidsOffers, When
<1>12. CASE a \in BidDetailEdit(d) \cup BidDetailPlace(d) \cup BidDetailCounter(d)
  BY <1>1, <1>5, <1>6, <1>12 DEF BidDetailEdit, BidDetailPlace, BidDetailCounter, When
<1> QED BY <1>4, <1>10, <1>11, <1>12

LEMMA OffersAreAccepted == ServerInv /\ DealInv => OffersAccepted
<1> SUFFICES ASSUME ServerInv, DealInv, NEW view \in Views, NEW me \in UsersOf(view),
                    NEW d \in Data(view, me), NEW o \in Offers(view, me, d)
             PROVE  Accepts(me, o[1], o[2]) \/ KnownRefusal(view, me, o[1], o[2])
  BY DEF OffersAccepted
<1>1. CASE view \in {"myJob", "myJobOld"}
  <2>1. me = Consumer /\ d \in ConsumerJobData
    BY <1>1 DEF UsersOf, ConsumerViews, Data
  <2> QED BY <1>1, <2>1, MyJobAccepted
<1>2. CASE view \in {"bids", "bidsOfList"}
  <2>1. me = Consumer
    BY <1>2 DEF UsersOf, ConsumerViews
  <2> QED BY <1>2, <2>1, BidsAccepted
<1>3. CASE view \in ProviderViews
  <2>1. me \in Providers
    BY <1>3 DEF UsersOf, ConsumerViews, ProviderViews
  <2> QED BY <1>3, <2>1, ProviderAccepted
<1> QED BY <1>1, <1>2, <1>3 DEF Views, ConsumerViews

(***************************************************************************)
(* Whatever has happened to a job, from its beginning and one request at a *)
(* time, an enabled button makes a request that the server accepts, but    *)
(* for the ones of KnownRefusal.                                           *)
(***************************************************************************)
THEOREM WhatIsOfferedIsAccepted == JSSpec => []OffersAccepted
<1> DEFINE IInv == ServerInv /\ ScreenOK /\ (InAll => DealInv)
<1>1. JSInit => IInv
  <2>1. JSInit /\ InAll => DealInv
    <3> SUFFICES ASSUME JSInit, InAll PROVE DealInv
      OBVIOUS
    <3>1. scene \in Scene /\ Opened(scene) /\ scene.view = "all"
      BY JobScreensAssumption DEF JSInit, InAll, View
    <3>2. bid = Unbid /\ counter = Unbid /\ \A r \in Requests : req[r] = Blank
      BY <3>1 DEF JSInit, Opened
    <3> QED BY <3>2 DEF Unbid, Blank, DealInv, At
  <2> QED BY <2>1, InitServer, InitScreen
<1>2. IInv /\ [JSNext]_jsVars => IInv'
  <2> SUFFICES ASSUME IInv, [JSNext]_jsVars PROVE IInv'
    OBVIOUS
  <2>1. scene' = scene
    BY DEF JSNext, jsVars, Open, ReadJob, ReadBids, LoadAnswer, LoadFailure, Press, Take, Serve,
           Others, Hear
  <2>2. [Next]_vars
    BY ServerMoves
  <2>3. InAll /\ DealInv => DealInv'
    BY <2>2, OneRequest, DealStep DEF ServerInv
  <2>4. InAll' => InAll
    BY <2>1 DEF InAll, View
  <2> QED BY <2>3, <2>4, ServerStep, ScreenStep DEF ServerInv
<1>3. IInv => OffersAccepted
  BY OffersAreAccepted DEF OffersAccepted
<1> QED BY <1>1, <1>2, <1>3, PTL DEF JSSpec

(***************************************************************************)
(* Whatever has happened to a job, one request at a time, the one it waits *)
(* for finds the button to go on.                                          *)
(***************************************************************************)
THEOREM TurnsAreFound == JSSpec => []TurnFound
<1>1. JSInit => ServerInv /\ ScreenOK
  BY InitServer, InitScreen
<1>2. ServerInv /\ ScreenOK /\ [JSNext]_jsVars => ServerInv' /\ ScreenOK'
  BY ServerStep, ScreenStep DEF ServerInv
<1> QED BY <1>1, <1>2, TurnIsFound, PTL DEF JSSpec
=============================================================================
