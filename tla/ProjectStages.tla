---------------------------- MODULE ProjectStages ----------------------------
(***************************************************************************)
(* What the registry promises about the life of one project: its proposal  *)
(* stage only moves along the edges of the review procedure, and an        *)
(* authorised project takes up activities one report at a time, each of    *)
(* which issues credits at most once.  ProjectLifecycle.tla implements it. *)
(***************************************************************************)
EXTENDS Naturals

CONSTANTS
    ActivityIds,
    StartStages     \* stages the project may be in when it is first looked at

VARIABLES
    stage,      \* project.projectProposalStage, "None" before the project exists
    progress    \* activity id -> "Verified" or "Issued", for those in the project row

pvars == <<stage, progress>>

Stage == {"None", "Pending", "Approved", "Rejected", "PddSubmitted",
          "PddRejectedByCertifier", "PddApprovedByCertifier",
          "PddRejectedByDna", "PddApprovedByDna",
          "ValidationReportSubmitted", "ValidationDnaRejected", "Authorised"}

\* Where each stage may be entered from.
EnteredFrom ==
    [Pending                   |-> {"None"},
     Approved                  |-> {"Pending"},
     Rejected                  |-> {"Pending"},
     PddSubmitted              |-> {"Approved", "PddRejectedByCertifier",
                                    "PddRejectedByDna"},
     PddApprovedByCertifier    |-> {"PddSubmitted"},
     PddRejectedByCertifier    |-> {"PddSubmitted"},
     PddApprovedByDna          |-> {"PddApprovedByCertifier"},
     PddRejectedByDna          |-> {"PddApprovedByCertifier"},
     ValidationReportSubmitted |-> {"PddApprovedByDna", "ValidationDnaRejected"},
     Authorised                |-> {"ValidationReportSubmitted"},
     ValidationDnaRejected     |-> {"ValidationReportSubmitted"}]

PInit == stage \in StartStages /\ progress = <<>>

Advance ==
    /\ stage' \in DOMAIN EnteredFrom
    /\ stage \in EnteredFrom[stage']
    /\ UNCHANGED progress

AdmitActivity(a) ==
    /\ stage = "Authorised"
    /\ a \notin DOMAIN progress
    /\ progress' = [b \in DOMAIN progress \cup {a} |->
                      IF b = a THEN "Verified" ELSE progress[b]]
    /\ UNCHANGED stage

IssueForActivity(a) ==
    /\ stage = "Authorised"
    /\ a \in DOMAIN progress
    /\ progress[a] = "Verified"
    /\ progress' = [progress EXCEPT ![a] = "Issued"]
    /\ UNCHANGED stage

PNext == Advance \/ \E a \in ActivityIds : AdmitActivity(a) \/ IssueForActivity(a)

PSpec == PInit /\ [][PNext]_pvars
=============================================================================
