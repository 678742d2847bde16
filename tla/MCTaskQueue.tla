----------------------------- MODULE MCTaskQueue -----------------------------
(* Three items, two of them with one dedupe key, and two workers.          *)
EXTENDS TaskQueue

CONSTANTS v, w

MCItems == 1..3
MCKey == <<"a", "a", "b">>
MCPriority == <<1, 1, 2>>
MCWorkers == {v, w}
=============================================================================
