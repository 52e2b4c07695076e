------------------------------ MODULE MCLoopRun ------------------------------
(* Small instance of LoopRun: a machine message and the bait, every ticket   *)
(* policy and every kind of sink, two messages out of the pipeline and a     *)
(* listing that reaches both of them or only the first.                      *)
EXTENDS LoopRun

TicketPolicies == {"none", "allowed"}
SinkKinds == {"none", "lookup", "list"}
ListingReaches == {1, MailLimit}
=============================================================================
