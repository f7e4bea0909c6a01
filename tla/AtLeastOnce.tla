------------------------------ MODULE AtLeastOnce ------------------------------
(***************************************************************************)
(* What one call through KSeFClient._request promises about the operation  *)
(* it asks the server for: the call ends; the server performs the          *)
(* operation at most Budget times; and a normal return means that it       *)
(* performed it at least once.  Nothing is promised when the call fails:   *)
(* the operation may have been performed all the same.                     *)
(***************************************************************************)
EXTENDS Naturals

CONSTANT Budget            \* how often one call may reach the server

VARIABLES pending,         \* a call is in progress
          performed,       \* how often the server performed the latest call
          result           \* how the latest call ended

vars == <<pending, performed, result>>

Results == {"none", "ok", "raised"}

Init == pending = FALSE /\ performed = 0 /\ result = "none"

Begin == /\ ~pending
         /\ pending' = TRUE /\ performed' = 0 /\ result' = "none"

\* The server performs the operation, the client does not learn of it.
Perform == /\ pending /\ performed < Budget
           /\ performed' = performed + 1
           /\ UNCHANGED <<pending, result>>

\* The call ends; its last request may have been performed (h = 1) or not.
Finish(r, h) == /\ pending
                /\ performed + h <= Budget
                /\ r = "ok" => performed + h >= 1
                /\ pending' = FALSE /\ performed' = performed + h /\ result' = r

\* A call that cannot be made at all ends before it begins.
Refuse == /\ ~pending
          /\ performed' = 0 /\ result' = "raised" /\ UNCHANGED pending

End == \E r \in {"ok", "raised"}, h \in {0, 1} : Finish(r, h)

Next == Begin \/ Perform \/ End \/ Refuse

Spec == Init /\ [][Next]_vars /\ WF_vars(End)
================================================================================
