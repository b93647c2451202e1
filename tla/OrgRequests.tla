---------------------------- MODULE OrgRequests ----------------------------
(***************************************************************************)
(* What the administration of an organisation (Workspaces, Teams) has in    *)
(* common: users, and HTTP requests with a database session each.  A         *)
(* request goes from statement to statement until its session is closed,     *)
(* by its response or by an exception (backend/app/db/engine.py).           *)
(***************************************************************************)
CONSTANTS Users,
          Requests   \* HTTP requests that can be in progress at once

VARIABLE req         \* what each request is doing: a record with a field pc

IdleRequest == [pc |-> "idle"]
Idle(r) == req[r].pc = "idle"
Goto(r, state) == req' = [req EXCEPT ![r] = state]
Finish(r) == Goto(r, IdleRequest)
=============================================================================
