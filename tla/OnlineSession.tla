------------------------------ MODULE OnlineSession ------------------------------
(***************************************************************************)
(* Online sessions: open_online_session, send_invoice_xml,                 *)
(* wait_for_invoice, close_online_session and                              *)
(* get_invoice_upo_by_reference, called one after another by a caller that *)
(* keeps what they return, over an unreliable transport.  The Ministry     *)
(* decides about invoices in its own time; there may be no access token    *)
(* yet, or it may expire under any call.  Time is counted in poll intervals.                     *)
(*                                                                         *)
(* A definition named Faulty... is the code with one plausible mistake in  *)
(* it: no action uses it; it shows that a property can be violated.        *)
(***************************************************************************)
EXTENDS KSeFRequest, Sequences, FiniteSets

CONSTANTS Contents,        \* invoices the caller has to send
          Failures,        \* the error statuses a response may carry
          Timeout,         \* PollOptions.timeout_seconds / interval_seconds
          MaxCalls         \* bound: calls the caller makes

ASSUME FailuresAssumption == Failures \subseteq Nat /\ \A s \in Failures : IsError(s)
ASSUME BoundsAssumption   == Timeout \in Nat /\ MaxCalls \in Nat

VARIABLES pc,              \* the request or decision the call in progress is at
          args,            \* its arguments
          attempt,         \* the loop counter of _request
          seen,            \* the invoice code of the latest poll
          elapsed,         \* intervals since the deadline was set, capped
          outcome,         \* how the latest call ended
          handles,         \* what open_online_session returned, in order
          receipts,        \* what send_invoice_xml returned, in order
          confirmed,       \* ghost: invoices wait_for_invoice reported accepted
          calls,           \* ghost: calls begun
          access,          \* the access token: none yet, or what the server makes of it
          sessions,        \* server: sessions opened
          invoices         \* server: invoices received

local  == <<pc, args, attempt, seen, elapsed, outcome>>
caller == <<handles, receipts, confirmed, calls>>
server == <<access, sessions, invoices>>
vars   == <<local, caller, server>>

Requests == {"key", "open", "send", "status", "close", "upo"}
Outcomes == {"none", "ok", "http_error", "timeout", "client_error", "foreign",
             "stand_in", "auth_error"}

InProgress == {100, 150}   \* wait_for_invoice goes on
Accepted   == 200
Refused    == 440          \* stands for every other code

NoArgs == [sess |-> 0, key |-> 0, content |-> "none", inv |-> 0]

Init == /\ pc = "idle" /\ args = NoArgs /\ attempt = 0 /\ seen = 0
        /\ elapsed = 0 /\ outcome = "none"
        /\ handles = <<>> /\ receipts = <<>> /\ confirmed = {} /\ calls = 0
        /\ access = "none" /\ sessions = <<>> /\ invoices = <<>>
--------------------------------------------------------------------------------
(* The server. *)

OpenSession == /\ sessions' = Append(sessions, [key |-> args.key, open |-> TRUE, call |-> calls])
               /\ UNCHANGED <<access, invoices>>

ReceiveInvoice ==
  /\ sessions[args.sess].open
  /\ invoices' = Append(invoices, [sess |-> args.sess, key |-> args.key, call |-> calls,
                                   content |-> args.content, code |-> 100])
  /\ UNCHANGED <<access, sessions>>

CloseSession == /\ sessions' = [sessions EXCEPT ![args.sess].open = FALSE]
                /\ UNCHANGED <<access, invoices>>

\* What carrying out the current request does; nothing is carried out for a
\* bearer that has expired, nor in a closed session.
Handle == /\ access = "valid"
          /\ CASE pc = "open"  -> OpenSession
               [] pc = "send"  -> ReceiveInvoice
               [] pc = "close" -> CloseSession
               [] OTHER        -> UNCHANGED server

MayHandle(h) == IF h THEN Handle ELSE UNCHANGED server

\* The server moves an invoice along; it accepts none it cannot decrypt.
Process(i, code) ==
  /\ invoices[i].code \in InProgress /\ code > invoices[i].code
  /\ code = Accepted => invoices[i].key = sessions[invoices[i].sess].key
  /\ invoices' = [invoices EXCEPT ![i].code = code]
  /\ UNCHANGED <<local, caller, access, sessions>>

Expire == /\ access = "valid" /\ access' = "expired"
          /\ UNCHANGED <<local, caller, sessions, invoices>>

\* The caller authenticates, or refreshes, between two calls.
Renew == /\ pc = "idle" /\ access # "valid"
         /\ access' = "valid" /\ UNCHANGED <<local, caller, sessions, invoices>>
--------------------------------------------------------------------------------
(* Beginning and ending a call. *)

Start(step, a) ==
  /\ pc = "idle" /\ calls < MaxCalls
  /\ calls' = calls + 1
  /\ pc' = step /\ args' = a /\ attempt' = 0 /\ seen' = 0 /\ elapsed' = 0
  /\ outcome' = "none"
  /\ UNCHANGED <<handles, receipts, confirmed, server>>

\* With the encryption of an earlier session, or with a fresh key, which the
\* number of the call names and for which the Ministry's key is fetched first.
BeginOpen(key) == Start(IF key = calls' THEN "key" ELSE "open", [NoArgs EXCEPT !.key = key])

\* The session reference and the encryption are two arguments: nothing ties them.
BeginSend(h, k, c) ==
  Start("send", [NoArgs EXCEPT !.sess = handles[h].ref, !.key = handles[k].key,
                               !.content = c])

BeginWait(r)  == Start("status", [NoArgs EXCEPT !.inv = receipts[r].ref,
                                                !.content = receipts[r].content])
BeginClose(h) == Start("close", [NoArgs EXCEPT !.sess = handles[h].ref])
BeginUpo(r)   == Start("upo", [NoArgs EXCEPT !.inv = receipts[r].ref])

Begin == \/ BeginOpen(calls + 1)
         \/ \E k \in DOMAIN handles : BeginOpen(handles[k].key)
         \/ \E h, k \in DOMAIN handles, c \in Contents : BeginSend(h, k, c)
         \/ \E h \in DOMAIN handles : BeginClose(h)
         \/ \E r \in DOMAIN receipts : BeginWait(r) \/ BeginUpo(r)

Finish(how) == /\ pc' = "idle" /\ outcome' = how /\ args' = NoArgs
               /\ attempt' = 0 /\ seen' = 0 /\ elapsed' = 0

\* Only the Ministry's key is asked for without a token.
HasBearer == pc = "key" \/ access # "none"

\* A client that never authenticated raises before it sends anything.
Unauthenticated == /\ pc \in Requests /\ ~HasBearer
                   /\ Finish("auth_error")
                   /\ UNCHANGED <<caller, server>>

\* Takes a close for done whatever the answer.
FaultyRaised == IF pc = "close" THEN "ok" ELSE "http_error"

Raised == "http_error"

\* An error answer: tried again, or raised.  An expired bearer is a 401: not
\* tried again, and the token is not refreshed.
Fail(s, h) ==
  /\ pc \in Requests /\ HasBearer
  /\ h \in MayHavePerformed(s)
  /\ MayHandle(h)
  /\ IF RetryAgain(s, attempt)
       THEN attempt' = attempt + 1 /\ UNCHANGED <<pc, args, seen, elapsed, outcome>>
       ELSE Finish(Raised)
  /\ UNCHANGED caller

\* The transport raises, or a 2xx lacks what the client reads from it.
Escape(h) == /\ pc \in Requests /\ HasBearer
             /\ MayHandle(h)
             /\ Finish("foreign")
             /\ UNCHANGED caller
--------------------------------------------------------------------------------
(* The requests that are answered, and what the client makes of the answer. *)

\* The Ministry's key is there, or there is none (EnvelopeKeys).
FetchKey == /\ pc = "key"
            /\ pc' = "open" /\ attempt' = 0
            /\ UNCHANGED <<args, seen, elapsed, outcome, caller, server>>

NoKey == pc = "key" /\ Finish("client_error") /\ UNCHANGED <<caller, server>>

\* Hands back a fresh key in place of the one it was given.
FaultyNewHandle == [ref |-> Len(sessions'), key |-> calls]

\* The handle pairs the session of the last answer with the key of the call.
NewHandle == [ref |-> Len(sessions'), key |-> args.key]

Opened == /\ pc = "open" /\ Handle
          /\ handles' = Append(handles, NewHandle)
          /\ Finish("ok")
          /\ UNCHANGED <<receipts, confirmed, calls>>

\* Counts the invoices from zero; keeps the reference of the first attempt.
FaultyReference     == Len(invoices)
FaultyReferenceOnce == Len(invoices') - attempt

Reference == Len(invoices')

Sent == /\ pc = "send" /\ Handle
        /\ receipts' = Append(receipts, [ref |-> Reference, content |-> args.content,
                                         call |-> calls])
        /\ Finish("ok")
        /\ UNCHANGED <<handles, confirmed, calls>>

\* get_invoice_status inside wait_for_invoice: read now, judged later.  An answer
\* that leaves the status out counts as 100.
Polled == /\ pc = "status" /\ Handle
          /\ seen' \in {invoices[args.inv].code, 100}
          /\ elapsed' \in elapsed .. (Timeout + 1)
          /\ pc' = "judge" /\ attempt' = 0
          /\ UNCHANGED <<args, outcome, caller>>

Judge(how) == /\ pc = "judge" /\ Finish(how)
              /\ UNCHANGED <<handles, receipts, calls, server>>

\* Takes every code but 100 for the end.
FaultyIsDelivered == seen # 100

IsDelivered == seen = Accepted

Delivered == /\ IsDelivered
             /\ confirmed' = confirmed \cup {args.content}
             /\ Judge("ok")

Failed == seen \notin InProgress \cup {Accepted} /\ UNCHANGED confirmed /\ Judge("client_error")

\* Looks at the clock before the code.
FaultyGivesUp == elapsed > Timeout

GivesUp == seen \in InProgress /\ elapsed > Timeout

TimedOut == /\ GivesUp
            /\ UNCHANGED confirmed /\ Judge("timeout")

\* Sets the deadline anew in every round.
FaultyAfterPause == {0}

AfterPause == (elapsed + 1) .. (Timeout + 1)

Pause == /\ pc = "judge" /\ seen \in InProgress /\ elapsed <= Timeout
         /\ elapsed' \in AfterPause
         /\ pc' = "status"
         /\ UNCHANGED <<args, attempt, seen, outcome, caller, server>>

\* An empty or undecodable body is taken for a close; one of another type is not.
Closed(body) == /\ pc = "close" /\ Handle
                /\ Finish(IF Payload(body) = "bytes" THEN "foreign" ELSE "ok")
                /\ UNCHANGED caller

\* Whatever the body is, the caller gets bytes: those of the document, or the
\* text of whatever else the payload is, b"None" for an empty body.
UpoFetched(body) ==
  /\ pc = "upo" /\ Handle
  /\ invoices[args.inv].code = Accepted
  /\ Finish(IF Payload(body) = "bytes" THEN "ok" ELSE "stand_in")
  /\ UNCHANGED caller

Progress == \/ Unauthenticated \/ FetchKey \/ NoKey \/ Opened \/ Sent
            \/ Polled \/ Delivered \/ Failed \/ TimedOut \/ Pause
            \/ \E body \in BodyKinds : Closed(body) \/ UpoFetched(body)

Trouble == \E h \in BOOLEAN : (\E s \in Failures : Fail(s, h)) \/ Escape(h)

Client == Progress \/ Trouble

Next == \/ Begin \/ Client \/ Expire \/ Renew
        \/ \E i \in DOMAIN invoices, code \in InProgress \cup {Accepted, Refused} :
             Process(i, code)

\* A call under way goes on; nothing makes the server decide.
Spec == Init /\ [][Next]_vars /\ WF_vars(Client)
--------------------------------------------------------------------------------
Arguments == [sess : Nat, key : Nat, content : Contents \cup {"none"}, inv : Nat]
HandleType == [ref : Nat, key : Nat]
ReceiptType == [ref : Nat, content : Contents, call : Nat]
Session == [key : Nat, open : BOOLEAN, call : Nat]
Invoice == [sess : Nat, key : Nat, call : Nat, content : Contents,
            code : InProgress \cup {Accepted, Refused}]

TypeOK ==
  /\ pc \in Requests \cup {"idle", "judge"}
  /\ args \in Arguments
  /\ attempt \in Nat
  /\ seen \in InProgress \cup {0, Accepted, Refused}
  /\ elapsed \in 0 .. (Timeout + 1)
  /\ outcome \in Outcomes
  /\ handles \in Seq(HandleType)
  /\ \A h \in DOMAIN handles : handles[h].ref \in DOMAIN sessions
  /\ receipts \in Seq(ReceiptType)
  /\ \A r \in DOMAIN receipts : receipts[r].ref \in DOMAIN invoices
  /\ confirmed \subseteq Contents
  /\ calls \in Nat /\ access \in {"none", "valid", "expired"}
  /\ sessions \in Seq(Session)
  /\ invoices \in Seq(Invoice)

\* The key of a handle is the one its session was opened with, although an answer
\* may have been lost and the request repeated (client.py:507-528).
HandleOpensItsSession == \A h \in DOMAIN handles : sessions[handles[h].ref].key = handles[h].key

\* What the server holds of one call.
CopiesOf(c)   == {i \in DOMAIN invoices : invoices[i].call = c}
SessionsOf(c) == {i \in DOMAIN sessions : sessions[i].call = c}

\* A receipt names an invoice the server holds, with the content sent, and the
\* last copy of it: copies made by retries before it are known to nobody
\* (client.py:556-559).
ReceiptNamesLastCopy ==
  \A r \in DOMAIN receipts :
    /\ receipts[r].ref \in CopiesOf(receipts[r].call)
    /\ invoices[receipts[r].ref].content = receipts[r].content
    /\ \A i \in CopiesOf(receipts[r].call) : i <= receipts[r].ref

\* One send leaves at most MaxRetries + 1 copies of the invoice, one open as many
\* sessions (client.py:145-155, 521, 556).
CopiesPerCall ==
  \A c \in 1 .. calls : /\ Cardinality(CopiesOf(c)) <= MaxRetries + 1
                        /\ Cardinality(SessionsOf(c)) <= MaxRetries + 1

\* The wait gives up only past its deadline with the invoice last seen in
\* progress, reports a failure only of an invoice that failed, and a success only
\* of one accepted (client.py:619-628).
WaitIsHonest ==
  [][pc = "judge" /\ pc' = "idle" =>
       LET code == invoices[args.inv].code
       IN  /\ outcome' = "timeout" => seen \in InProgress /\ elapsed > Timeout
           /\ outcome' = "client_error" => code = Refused
           /\ outcome' = "ok" => code = Accepted]_vars

\* A close that returns normally has closed the session, even if the answer was
\* empty and the status is unknown (client.py:601-608).
CloseClosed ==
  [][pc = "close" /\ outcome' = "ok" => ~sessions'[args.sess].open]_vars

\* Every call ends, even if the server never decides (client.py:618-628).
CallEnds == (pc # "idle") ~> (pc = "idle")

\* Sending and waiting keep the promise of InvoiceDelivery.
AcceptedContents == {invoices[i].content : i \in {j \in DOMAIN invoices : invoices[j].code = Accepted}}

Abstract == INSTANCE InvoiceDelivery
              WITH accepted <- AcceptedContents, confirmed <- confirmed

ImplementsInvoiceDelivery == Abstract!Spec
================================================================================
