---------------------------- MODULE InvoiceDelivery ----------------------------
(***************************************************************************)
(* What sending an invoice and waiting for it promise: the caller is told  *)
(* that an invoice is accepted only when the Ministry has accepted that    *)
(* very invoice, and acceptance is never taken back.                       *)
(***************************************************************************)
CONSTANT Contents

VARIABLES accepted,        \* invoices the Ministry has given a KSeF number
          confirmed        \* invoices the caller has been told about

vars == <<accepted, confirmed>>

Init == accepted = {} /\ confirmed = {}

Accept == \E c \in Contents : accepted' = accepted \cup {c} /\ UNCHANGED confirmed

Confirm == \E c \in accepted : confirmed' = confirmed \cup {c} /\ UNCHANGED accepted

Next == Accept \/ Confirm

Spec == Init /\ [][Next]_vars
================================================================================
