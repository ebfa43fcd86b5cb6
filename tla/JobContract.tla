---------------------------- MODULE JobContract ----------------------------
(***************************************************************************)
(* What docs/production-readiness.md ("Job lifecycle transition            *)
(* correctness") promises of one job, seen by the marketplace: its status, *)
(* the provider it was awarded to, and who has agreed that the work is     *)
(* done.  Every step below is atomic; JobLifecycle says how the handlers   *)
(* come close to it with separate reads and writes.                        *)
(***************************************************************************)
EXTENDS Naturals

CONSTANTS Consumer,   \* the user who posted the job
          Providers,  \* users who may bid on it
          None        \* no provider, no user

VARIABLES status,     \* JobStatus of schema.prisma
          provider,   \* the provider the job is awarded to, or None
          agreed      \* users who marked the job complete or confirmed it

vars == <<status, provider, agreed>>

Init == status = "OPEN" /\ provider = None /\ agreed = {}

Award == /\ status = "OPEN"
         /\ status' = "AWARDED"
         /\ provider' \in Providers
         /\ UNCHANGED agreed

Start == /\ status = "AWARDED"
         /\ status' = "IN_PROGRESS"
         /\ UNCHANGED <<provider, agreed>>

(* One of the two participants says the work is done. *)
MarkComplete == /\ status = "IN_PROGRESS"
                /\ status' = "COMPLETED_PENDING_CONFIRMATION"
                /\ \E u \in {Consumer, provider} : agreed' = {u}
                /\ UNCHANGED provider

(* The other one confirms: only then is the job COMPLETED. *)
ConfirmComplete == /\ status = "COMPLETED_PENDING_CONFIRMATION"
                   /\ status' = "COMPLETED"
                   /\ agreed' = {Consumer, provider}
                   /\ agreed # agreed'
                   /\ UNCHANGED provider

Cancel == /\ status \in {"OPEN", "AWARDED", "IN_PROGRESS"}
          /\ status' = "CANCELLED"
          /\ UNCHANGED <<provider, agreed>>

Dispute == /\ status \in {"IN_PROGRESS", "COMPLETED_PENDING_CONFIRMATION", "COMPLETED"}
           /\ status' = "DISPUTED"
           /\ UNCHANGED <<provider, agreed>>

Resolve == /\ status = "DISPUTED"
           /\ status' \in {"COMPLETED", "CANCELLED"}
           /\ UNCHANGED <<provider, agreed>>

Next == Award \/ Start \/ MarkComplete \/ ConfirmComplete
          \/ Cancel \/ Dispute \/ Resolve

Spec == Init /\ [][Next]_vars
=============================================================================
