----------------------------- MODULE Authentication -----------------------------
(***************************************************************************)
(* What authenticate_with_token, authenticate_with_certificate and         *)
(* refresh_access_token promise a caller: a call that succeeds makes the   *)
(* client act for the taxpayer it named, a call that fails leaves the      *)
(* client acting for whom it acted before, and every call ends.            *)
(***************************************************************************)
CONSTANTS Nips, NoNip

VARIABLES holder,          \* the taxpayer the client's tokens belong to
          goal             \* the taxpayer of the call in progress, or NoNip

vars == <<holder, goal>>

Init == holder = NoNip /\ goal = NoNip

Begin(n) == goal = NoNip /\ goal' = n /\ UNCHANGED holder

Succeed == goal # NoNip /\ holder' = goal /\ goal' = NoNip

Fail == goal # NoNip /\ goal' = NoNip /\ UNCHANGED holder

Next == (\E n \in Nips : Begin(n)) \/ Succeed \/ Fail

Spec == Init /\ [][Next]_vars /\ WF_vars(Succeed \/ Fail)
================================================================================
