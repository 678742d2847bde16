--------------------------- MODULE MCScheduledJobs ---------------------------
(* The service and one schedule-run-due, which may be given a later time,  *)
(* or the service alone.                                                   *)
EXTENDS ScheduledJobs

CONSTANTS service, operator

Service == {service}
Operator == {operator}
Nobody == {}
Future == {4}
=============================================================================
