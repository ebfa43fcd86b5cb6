----------------------------- MODULE Workspace -----------------------------
(***************************************************************************)
(* The pages of the app on which a user keeps things of his own, with the  *)
(* routes behind them (src/server.ts):                                     *)
(*   "list"     quick replies and bid templates: rows below a form         *)
(*   "searches" saved searches, the same with at most SavedMax             *)
(*   "slots"    weekly availability, replaced as a whole                   *)
(*   "docs"     verification: documents, submitted for an admin to decide  *)
(*   "profile"  fields of the provider's profile, each saved by itself     *)
(*   "saved", "blocked"  favourite jobs and blocked users, to be removed   *)
(*   "stars", "hearts"   jobs and providers found, to be favourites or not *)
(* and the forms that send one thing and close: a new job, a file for it,  *)
(* a report, a review, a dispute, a cancellation, a bid, a counter offer.  *)
(*                                                                         *)
(* A page loads when it is opened, and sends the user's commands.  The     *)
(* app gives a request up after a time (lib/apiClient.ts), which the       *)
(* server may serve later all the same.  What is typed is an entry, typed  *)
(* once; the slots saved at once, with their time zone, are one entry.     *)
(***************************************************************************)
EXTENDS Naturals, FiniteSets, SequencesExt, Lists

CONSTANTS Visits,      \* bound: [page, entries, faults]: the page a behaviour is about, what is
                       \* typed there, and how many loads fail and requests are lost
          Rows,         \* of rows in the database; none is used again
          Entries,
          Gets, Acts,  \* requests of the page at once: loads, commands
          SavedMax,    \* PROVIDER_SAVED_SEARCH_MAX
          Nil

Inserting == {"job", "media", "report"}
Forms == Inserting \cup {"review", "dispute", "cancel", "bid", "counter"}
Pages == {"list", "searches", "slots", "docs", "profile", "saved", "blocked", "stars", "hearts"}
           \cup Forms

Exists == "on"                           \* the row, where only that it is there counts
Left == "left"                           \* of a command: the form that sent it is closed

ASSUME WorkspaceAssumption ==
    /\ Visits \subseteq [page : Pages, entries : SUBSET Entries, faults : Nat]
    /\ SavedMax \in Nat /\ Rows \subseteq Nat /\ IsFiniteSet(Rows)
    /\ Nil \notin Rows \cup Entries /\ Nil # Exists /\ Nil # Left

VARIABLES
    visit,
    kept,    \* kept[i]: the row with this id on the server, or Nil
    next,    \* the next id
    review,  \* the provider's verification: status, and the documents it names
    view,    \* view[i]: row i on the page, or Nil
    seen,    \* the status on the page
    gets,    \* gets[g]: a load
    asked,   \* the loads under way, oldest first
    busy,    \* the loading flag
    broken,  \* is an error shown instead of the rows
    form,    \* the row that is edited, or Nil; what is typed, or Nil
    act,     \* act[o]: a command
    off,     \* history: something newer than what is shown was shown or done
    typed,   \* history: entries typed so far
    lost,    \* history: entries whose command the app gave up
    mixed,   \* history: two commands were between their two steps at once
    faults

workVars == <<visit, kept, next, review, view, seen, gets, asked, busy, broken, form, act, off,
              typed, lost, mixed, faults>>
server == <<kept, next, review, mixed>>
shownVars == <<view, seen, busy, broken>>

page == visit.page
Fixed == page \in {"profile", "saved", "blocked", "stars", "hearts"}
Lists == page \in {"list", "searches"}
Nothing == [i \in Rows |-> Nil]
NoGet == [pc |-> "idle", rows |-> Nothing, status |-> "NONE", old |-> FALSE]
NoForm == [id |-> Nil, val |-> Nil]
NoAct == [pc |-> "idle", kind |-> "none", id |-> Nil, val |-> Nil, was |-> Nothing,
          edit |-> Nil, gone |-> FALSE, get |-> Nil]

WorkInit ==
    /\ visit \in Visits
    /\ kept = [i \in Rows |-> IF Fixed THEN Exists ELSE Nil]
    /\ next = IF Fixed THEN Cardinality(Rows) + 1 ELSE 1
    /\ review = [status |-> "NONE", names |-> {}]
    /\ view = Nothing /\ seen = "NONE"
    /\ busy = (page \notin Forms) /\ broken = FALSE
    /\ \E g \in Gets :
          /\ asked = IF busy THEN <<g>> ELSE <<>>
          /\ gets = [h \in Gets |-> [NoGet EXCEPT !.pc = IF busy /\ h = g THEN "asked" ELSE "idle"]]
    /\ form = NoForm
    /\ act = [o \in Acts |-> NoAct]
    /\ off = FALSE /\ typed = {} /\ lost = {} /\ mixed = FALSE /\ faults = 0

Faulty == faults < visit.faults /\ faults' = faults + 1
Active(o) == act[o].pc # "idle" /\ ~act[o].gone
Present(rows) == {i \in Rows : rows[i] # Nil}

----------------------------------------------------------------------------
(* Loads *)

(* A favourite is not loaded again: a load under way may not know of it. *)
Immediate == page \in {"saved", "stars", "hearts"}

Load(g) ==
    /\ page \notin Forms
    /\ gets[g].pc = "idle"
    /\ gets' = [gets EXCEPT ![g] = [NoGet EXCEPT !.pc = "asked",
                                                 !.old = Immediate /\ \E o \in Acts : Active(o)]]
    /\ asked' = Append(asked, g)
    /\ busy' = TRUE /\ broken' = FALSE

(* The page is opened again, Refresh, Retry, or pulled down.  The verification *)
(* page is opened once and shows Refresh with the rest.                        *)
Reopen(g) ==
    /\ page = "docs" => ~busy
    /\ Load(g)
    /\ UNCHANGED <<visit, server, view, seen, form, act, off, typed, lost, faults>>

ServeLoad(g) ==
    /\ gets[g].pc = "asked"
    /\ gets' = [gets EXCEPT ![g].pc = "answered", ![g].rows = kept, ![g].status = review.status]
    /\ UNCHANGED <<visit, server, shownVars, asked, form, act, off, typed, lost, faults>>

(* The command that awaits load g is done: saving or submitting ends. *)
Awaited(g) == act' = [o \in Acts |-> IF act[o].pc = "loading" /\ act[o].get = g THEN NoAct ELSE act[o]]

Ended(g) ==
    /\ LET older == {asked[k] : k \in 1 .. (CHOOSE k \in DOMAIN asked : asked[k] = g)}
       IN  gets' = [h \in Gets |-> IF h = g THEN NoGet
                                   ELSE [gets[h] EXCEPT !.old = @ \/ h \in older]]
    /\ asked' = Filter(asked, LAMBDA h : h # g)
    /\ busy' = FALSE
    /\ Awaited(g)

(* Whatever was answered since g was asked, its answer is shown.  What is *)
(* typed on the pages of slots and of the profile is overwritten.         *)
LoadAnswer(g) ==
    /\ gets[g].pc = "answered"
    /\ view' = gets[g].rows /\ seen' = gets[g].status
    /\ off' = gets[g].old
    /\ form' = IF page \in {"slots", "profile"} THEN NoForm ELSE form
    /\ Ended(g)
    /\ UNCHANGED <<visit, server, broken, typed, lost, faults>>

(* The verification and the profile keep showing what they have. *)
LoadFails(g) ==
    /\ gets[g].pc # "idle" /\ Faulty
    /\ view' = IF page = "blocked" THEN Nothing ELSE view
    /\ broken' = (page \notin {"docs", "profile"})
    /\ off' = (off \/ ~broken')
    /\ Ended(g)
    /\ UNCHANGED <<visit, server, seen, form, typed, lost>>

----------------------------------------------------------------------------
(* Forms and commands *)

Visible == ~busy /\ (page = "profile" \/ ~broken)
Saves == {"create", "update", "replace", "upload", "put"}
(* the flag of the form that is open *)
Saving == \E o \in Acts : Active(o) /\ act[o].kind \in Saves /\ act[o].edit # Left

MaySave_AtAnyTime == TRUE                                                  \* mutant
(* disabled={saving}; on the page of verification, uploading *)
MaySave == ~Saving

(* The text of most forms may be changed while it is sent; a file may not, and *)
(* the dialog that confirms a cancellation stays in front.                    *)
Locked == page \notin Forms \ {"media", "cancel"}

Enter(e) ==
    /\ Locked => ~Saving
    /\ e \in visit.entries \ typed /\ typed' = typed \cup {e}
    /\ form' = [form EXCEPT !.val = e]
    /\ UNCHANGED <<visit, server, shownVars, gets, asked, act, off, lost, faults>>

(* The form stands above the rows, whether they are in sight or not. *)
TypeRow(e) == Lists /\ Enter(e)

(* addSlot, removeSlot, and the time zone *)
TypeSlots(e) == page = "slots" /\ Visible /\ Enter(e)

(* editMode, or the choice of categories *)
TypeField(e) == page = "profile" /\ Visible /\ form.id # Nil /\ Enter(e)

(* The fields of a form; what is typed after it was sent is lost with it. *)
Compose(e) == page \in Forms \ {"media"} /\ Enter(e)
PickMedia(e) == page = "media" /\ Enter(e)

(* Back, and the form is opened again: nothing is in it, its flag is off. *)
Leave ==
    /\ page \in Forms /\ (form # NoForm \/ Saving)
    /\ page = "cancel" => ~Saving
    /\ form' = NoForm
    /\ act' = [o \in Acts |-> IF Active(o) THEN [act[o] EXCEPT !.edit = Left] ELSE act[o]]
    /\ UNCHANGED <<visit, server, shownVars, gets, asked, off, typed, lost, faults>>

Edits(i) ==
    /\ Visible /\ view[i] # Nil
    /\ form' = [id |-> i, val |-> view[i]]
    /\ UNCHANGED <<visit, server, shownVars, gets, asked, act, off, typed, lost, faults>>

(* beginEdit: a row in sight, even while something is saved *)
BeginEdit(i) == Lists /\ Edits(i)

EditField(i) == page = "profile" /\ Edits(i)

Clear ==
    /\ page \in {"list", "searches", "profile"} /\ ~Saving
    /\ form' = NoForm
    /\ UNCHANGED <<visit, server, shownVars, gets, asked, act, off, typed, lost, faults>>

Send(o, kind, id, val) ==
    /\ act[o].pc = "idle"
    /\ act' = [act EXCEPT ![o] = [NoAct EXCEPT !.pc = "sent", !.kind = kind, !.id = id, !.val = val,
                                               !.was = IF page \in {"saved", "docs"} THEN view ELSE @,
                                               !.edit = IF kind = "delete" THEN form.id ELSE @]]

Sends(o, kind, id) ==
    /\ form.val # Nil /\ MaySave
    /\ Send(o, kind, id, form.val)
    /\ UNCHANGED <<visit, server, shownVars, gets, asked, form, off, typed, lost, faults>>

(* onSave *)
SaveRow(o) == Lists /\ Sends(o, IF form.id = Nil THEN "create" ELSE "update", form.id)
SaveSlots(o) == page = "slots" /\ Visible /\ Sends(o, "replace", Nil)
(* handleSaveProfile, handleSaveCategories *)
SaveField(o) == page = "profile" /\ Visible /\ Sends(o, "update", form.id)

PostJob(o) == page = "job" /\ Sends(o, "create", Nil)
AddMedia(o) == page = "media" /\ Sends(o, "create", Nil)
Report(o) == page = "report" /\ Sends(o, "create", Nil)
Review(o) == page = "review" /\ Sends(o, "create", Nil)
OpenDispute(o) == page = "dispute" /\ Sends(o, "create", Nil)
CancelJob(o) == page = "cancel" /\ Sends(o, "create", 1)          \* the job's own columns
PlaceBid(o) == page = "bid" /\ Sends(o, "create", Nil)
CounterBid(o) == page = "counter" /\ Sends(o, "put", 1)           \* one counter offer of a bid

(* pickAndUpload *)
Upload(o) ==
    /\ page = "docs" /\ Visible /\ MaySave
    /\ Send(o, "upload", Nil, Exists)
    /\ UNCHANGED <<visit, server, shownVars, gets, asked, form, off, typed, lost, faults>>

(* submitVerification names the documents shown. *)
Submit(o) ==
    /\ page = "docs" /\ Visible /\ ~Saving
    /\ \A p \in Acts : ~(Active(p) /\ act[p].kind = "submit")
    /\ seen # "VERIFIED" /\ Present(view) # {}
    /\ Send(o, "submit", Nil, Nil)
    /\ UNCHANGED <<visit, server, shownVars, gets, asked, form, off, typed, lost, faults>>

(* Confirmed, and shown until the list is loaded again *)
Deletes(o, i) ==
    /\ Visible /\ view[i] # Nil
    /\ Send(o, "delete", i, Nil)
    /\ UNCHANGED <<visit, server, shownVars, gets, asked, form, off, typed, lost, faults>>

DeleteRow(o, i) == Lists /\ Deletes(o, i)                       \* onDelete
Unblock(o, i) == page = "blocked" /\ Deletes(o, i)              \* onUnblock

AllOld == [g \in Gets |-> [gets[g] EXCEPT !.old = TRUE]]
Flipped(i) == [view EXCEPT ![i] = IF @ = Nil THEN Exists ELSE Nil]

(* Shown at once, but for a provider; two commands of the same row at once *)
(* may be served in any order.                                             *)
Toggles(o, i, shown) ==
    /\ Visible
    /\ Send(o, IF view[i] = Nil THEN "add" ELSE "remove", i, Exists)
    /\ view' = shown
    /\ gets' = AllOld
    /\ off' = (off \/ \E p \in Acts : Active(p) /\ act[p].id = i)
    /\ UNCHANGED <<visit, server, seen, busy, broken, asked, form, typed, lost, faults>>

Unfavorite(o, i) == page = "saved" /\ view[i] # Nil /\ Toggles(o, i, Flipped(i))
(* toggleFavorite, of a job and of a provider *)
Star(o, i) == page = "stars" /\ Toggles(o, i, Flipped(i))
Heart(o, i) == page = "hearts" /\ Toggles(o, i, view)

----------------------------------------------------------------------------
(* The routes *)

(* What the app has given up changes what it has loaded before. *)
Serves(o, ok) ==
    /\ IF act[o].gone
         THEN act' = [act EXCEPT ![o] = NoAct] /\ gets' = AllOld /\ off' = TRUE
         ELSE act' = [act EXCEPT ![o].pc = IF ok THEN "ok" ELSE "refused"] /\ UNCHANGED <<gets, off>>
    /\ UNCHANGED <<visit, shownVars, asked, form, typed, lost, faults>>

Inserts(val) == /\ next \in Rows
                /\ kept' = [kept EXCEPT ![next] = val]
                /\ next' = next + 1

(* Of these pages, POST looks first whether there is one already, or too many, *)
(* of which it refuses another, or (bid, review) updates it.  PUT deletes the  *)
(* slots there are; in PUT the rest is of the same transaction, which does not *)
(* see what another inserts.                                                   *)
Refusing == {"searches", "dispute", "cancel"}
Updating == {"bid", "review"}
Full == Cardinality(Present(kept)) >= IF page = "searches" THEN SavedMax ELSE 1

Steps(o) ==
    /\ act[o].pc = "sent"
    /\ \/ act[o].kind = "create" /\ page \in Refusing /\ ~Full
       \/ act[o].kind = "create" /\ page \in Updating
       \/ act[o].kind = "replace"
    /\ act' = [act EXCEPT ![o].pc = "between",
                          ![o].was = IF page \in Updating \cup {"slots"} THEN kept ELSE @]
    /\ mixed' = (mixed \/ \E p \in Acts : act[p].pc = "between")
    /\ UNCHANGED <<visit, kept, next, review, shownVars, gets, asked, form, off, typed, lost, faults>>

ServeRefusal(o) ==
    /\ \/ act[o].pc = "sent" /\ act[o].kind = "create" /\ page \in Refusing /\ Full
       \/ act[o].pc = "sent" /\ act[o].kind \in {"update", "delete"} /\ Lists /\ kept[act[o].id] = Nil
       \/ act[o].pc = "between" /\ page \in Updating /\ Present(act[o].was) = {} /\ Full  \* @@unique
    /\ Serves(o, FALSE)
    /\ UNCHANGED server

ServeCreate(o) ==
    /\ act[o].kind \in {"create", "upload"}
    /\ \/ act[o].pc = "between" /\ page \in {"searches", "dispute"}
       \/ act[o].pc = "between" /\ page \in Updating /\ Present(act[o].was) = {} /\ ~Full
       \/ act[o].pc = "sent" /\ page \in Inserting \cup {"list", "docs"}
    /\ Inserts(act[o].val)
    /\ Serves(o, TRUE)
    /\ UNCHANGED <<review, mixed>>

(* The bid found, the review found, and the job are written whatever happened since. *)
ServeRewrite(o) ==
    /\ act[o].pc = "between"
    /\ \/ page = "cancel" /\ kept' = [kept EXCEPT ![act[o].id] = act[o].val]
       \/ /\ page \in Updating /\ Present(act[o].was) # {}
          /\ kept' = [kept EXCEPT ![Max(Present(act[o].was))] = act[o].val]
    /\ Serves(o, TRUE)
    /\ UNCHANGED <<next, review, mixed>>

Replaced_Added(o) == kept                                                  \* mutant
(* what PUT /provider/availability leaves of the rows there are *)
Replaced(o) == [i \in Rows |-> IF i \in Present(act[o].was) THEN Nil ELSE kept[i]]

ServeReplace(o) ==
    /\ act[o].pc = "between" /\ act[o].kind = "replace" /\ next \in Rows
    /\ kept' = [Replaced(o) EXCEPT ![next] = act[o].val]
    /\ next' = next + 1
    /\ Serves(o, TRUE)
    /\ UNCHANGED <<review, mixed>>

Becomes(o, val) ==
    /\ kept' = [kept EXCEPT ![act[o].id] = val]
    /\ Serves(o, TRUE)
    /\ UNCHANGED <<next, review, mixed>>

Asks(o, kind) == act[o].pc = "sent" /\ act[o].kind = kind

(* What is updated, or deleted, is there, but for a field of the profile, *)
(* which always is, and a block, which need not be.                       *)
ServeUpdate(o) == Asks(o, "update") /\ kept[act[o].id] # Nil /\ Becomes(o, act[o].val)
ServeDelete(o) == Asks(o, "delete") /\ (Lists => kept[act[o].id] # Nil) /\ Becomes(o, Nil)

(* POST /bids/:bidId/counter upserts it. *)
ServeCounter(o) == Asks(o, "put") /\ Becomes(o, act[o].val)

(* upsert, deleteMany *)
ServeFavorite(o) == Asks(o, "add") /\ Becomes(o, act[o].val)
ServeUnfavorite(o) == Asks(o, "remove") /\ Becomes(o, Nil)

(* POST /provider/verification/submit takes back what was decided. *)
ServeSubmit(o) ==
    /\ act[o].pc = "sent" /\ act[o].kind = "submit"
    /\ review' = [status |-> "PENDING", names |-> Present(act[o].was)]
    /\ Serves(o, TRUE)
    /\ UNCHANGED <<kept, next, mixed>>

(* The page of an admin lists who has a row, which an upload makes, of any status. *)
HasFile == Present(kept) # {}

(* What is decided is whatever has been submitted since that page was loaded; *)
(* the documents it names are overwritten by the admin's notes.               *)
Decides(status) ==
    /\ page = "docs" /\ HasFile
    /\ review' = [status |-> status, names |-> {}]
    /\ gets' = AllOld /\ off' = TRUE
    /\ UNCHANGED <<visit, kept, next, mixed, shownVars, asked, form, act, typed, lost, faults>>

Approve == Decides("VERIFIED")
Reject == Decides("REJECTED")

----------------------------------------------------------------------------
(* Answers *)

Reloads_NotOnDelete(kind) == kind # "delete"                               \* mutant
(* after await api.delete, .post, .put and .upload: await load() *)
Reloads(kind) == page \in {"list", "searches", "slots", "docs", "blocked"}

Idle(o) == act' = [act EXCEPT ![o] = NoAct]

(* The form is emptied by a save, and by the deletion of the row that was     *)
(* edited when its button was pressed; or closed, whichever form is open then. *)
Emptied(o) ==
    form' = IF \/ page \in {"list", "searches", "profile"} \cup Forms /\ act[o].kind \in Saves
               \/ act[o].kind = "delete" /\ act[o].edit = act[o].id
            THEN NoForm ELSE form

AnswerReload(o, g) ==
    /\ act[o].pc = "ok" /\ Reloads(act[o].kind)
    /\ Emptied(o)
    /\ Load(g)
    /\ act' = [act EXCEPT ![o].pc = "loading", ![o].get = g]
    /\ UNCHANGED <<visit, server, view, seen, off, typed, lost, faults>>

(* The profile shows what the answer, or the request, says; a provider's heart flips. *)
Done(o) ==
    /\ act[o].pc = "ok" /\ ~Reloads(act[o].kind)
    /\ Emptied(o)
    /\ view' = CASE page = "profile" -> [view EXCEPT ![act[o].id] = act[o].val]
                 [] page = "hearts"  -> Flipped(act[o].id)
                 [] OTHER            -> view
    /\ gets' = AllOld
    /\ off' = (off \/ lost # {})
    /\ Idle(o)
    /\ UNCHANGED <<visit, server, seen, busy, broken, asked, typed, lost, faults>>

(* catch: an alert; the form stays as it is; favourites are put back. *)
PutBack(o) ==
    CASE page = "saved" -> act[o].was
      [] page = "stars" -> Flipped(act[o].id)
      [] OTHER          -> view

AnswerRefused(o) ==
    /\ act[o].pc = "refused"
    /\ view' = PutBack(o)
    /\ Idle(o)
    /\ UNCHANGED <<visit, server, seen, busy, broken, gets, asked, form, off, typed, lost, faults>>

(* The request fails, or is given up: the server may serve it yet. *)
GiveUp(o) ==
    /\ Active(o) /\ act[o].pc # "loading" /\ Faulty
    /\ view' = PutBack(o)
    /\ act' = [act EXCEPT ![o] = IF act[o].pc \in {"sent", "between"} THEN [@ EXCEPT !.gone = TRUE]
                                 ELSE NoAct]
    /\ lost' = lost \cup {act[o].val}
    /\ off' = TRUE
    /\ gets' = AllOld
    /\ UNCHANGED <<visit, server, seen, busy, broken, asked, form, typed>>

(* A request that was given up has never arrived. *)
Vanish(o) ==
    /\ act[o].gone /\ act[o].pc = "sent"
    /\ Idle(o)
    /\ UNCHANGED <<visit, server, shownVars, gets, asked, form, off, typed, lost, faults>>

WorkNext ==
    \/ \E g \in Gets : \/ Reopen(g) \/ ServeLoad(g) \/ LoadAnswer(g) \/ LoadFails(g)
                       \/ \E o \in Acts : AnswerReload(o, g)
    \/ \E e \in Entries : TypeRow(e) \/ TypeSlots(e) \/ TypeField(e) \/ Compose(e) \/ PickMedia(e)
    \/ Clear \/ Leave
    \/ \E i \in Rows : \/ BeginEdit(i) \/ EditField(i)
                       \/ \E o \in Acts : \/ DeleteRow(o, i) \/ Unblock(o, i)
                                          \/ Unfavorite(o, i) \/ Star(o, i) \/ Heart(o, i)
    \/ \E o \in Acts : \/ SaveRow(o) \/ SaveSlots(o) \/ SaveField(o) \/ Upload(o) \/ Submit(o)
                       \/ PostJob(o) \/ AddMedia(o) \/ Report(o) \/ Review(o) \/ OpenDispute(o)
                       \/ CancelJob(o) \/ PlaceBid(o) \/ CounterBid(o)
                       \/ Steps(o) \/ ServeRefusal(o) \/ ServeCreate(o) \/ ServeReplace(o)
                       \/ ServeRewrite(o) \/ ServeCounter(o)
                       \/ ServeUpdate(o) \/ ServeDelete(o) \/ ServeFavorite(o)
                       \/ ServeUnfavorite(o) \/ ServeSubmit(o)
                       \/ Done(o) \/ AnswerRefused(o) \/ GiveUp(o) \/ Vanish(o)
    \/ Approve \/ Reject

WorkSpec == WorkInit /\ [][WorkNext]_workVars

----------------------------------------------------------------------------
(***************************************************************************)
(* A page on which nothing is under way shows what the server has, however *)
(* commands and loads were interleaved, unless an error is shown instead,  *)
(* or what it shows is known to be older: a load overtaken by a later one, *)
(* a failed one, a request given up, two taps on one row, somebody else.   *)
(***************************************************************************)
PageCurrent ==
    page \notin Forms /\ (\A g \in Gets : gets[g].pc = "idle") /\ (\A o \in Acts : ~Active(o)) /\ ~broken /\ ~off
        => view = kept /\ seen = review.status

(***************************************************************************)
(* What is saved is what was entered, once: no entry is in two rows unless *)
(* its command was given up (and sent again), however often a form was     *)
(* left and opened meanwhile; a job has one review of a user and one bid   *)
(* of a provider; it has one open dispute, a provider the availability of  *)
(* one save, in one time zone, and as many saved searches as allowed,      *)
(* unless two requests were half done at once.                             *)
(***************************************************************************)
SavedAsEntered ==
    /\ Lists \/ page \in Inserting =>
          \A i, j \in Rows : i # j /\ kept[i] # Nil /\ kept[i] = kept[j] => kept[i] \in lost
    /\ page \in Updating => Cardinality(Present(kept)) <= 1
    /\ page \in {"slots", "dispute"} /\ ~mixed => Cardinality(Present(kept)) <= 1
    /\ page = "searches" /\ ~mixed => Cardinality(Present(kept)) <= SavedMax
=============================================================================
