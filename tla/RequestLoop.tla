------------------------------ MODULE RequestLoop ------------------------------
(***************************************************************************)
(* One caller of KSeFClient._request over an unreliable transport: the     *)
(* token check, the retry loop with its growing pause, and the verdict.    *)
(* The network may lose a request or an answer, answer for the server, or  *)
(* fail inside the transport; the caller sees only a status or an          *)
(* exception, the ghost variables count what the server really did.        *)
(*                                                                         *)
(* A definition named Faulty... is the code with one plausible mistake in  *)
(* it: no action uses it; it shows that a property can be violated.        *)
(***************************************************************************)
EXTENDS KSeFRequest

CONSTANTS Statuses,        \* the status codes responses may carry
          Tokens,          \* access tokens
          NoToken          \* self._tokens is None

ASSUME StatusesAssumption == Statuses \subseteq Nat
ASSUME TokensAssumption == NoToken \notin Tokens

VARIABLES tokens,          \* self._tokens.access_token
          phase,           \* idle, send (in transport.request), sleep (in time.sleep)
          auth,            \* the parameter auth of the latest call
          bearer,          \* the Authorization header built before the loop
          attempt,         \* the loop counter
          status,          \* the status of the latest response, 0 before one
          outcome,         \* how the latest call ended, "none" while it runs
          waited,          \* ghost: half seconds slept in the latest call
          broken,          \* ghost: the transport has raised in it
          sends,           \* ghost: requests handed to the transport in it
          performed        \* ghost: of those, how many the server carried out

call  == <<auth, bearer, attempt, status, outcome>>
ghost == <<waited, broken, sends, performed>>
vars  == <<tokens, phase, call, ghost>>

Outcomes == {"none", "ok", "auth_error", "http_error", "transport_error"}

Init == /\ tokens = NoToken /\ phase = "idle"
        /\ auth = FALSE /\ bearer = NoToken
        /\ attempt = 0 /\ status = 0 /\ outcome = "none"
        /\ waited = 0 /\ broken = FALSE /\ sends = 0 /\ performed = 0

\* An authentication or refresh, complete in itself, stores tokens.
StoreTokens == /\ phase = "idle"
               /\ tokens' \in Tokens
               /\ UNCHANGED <<phase, call, ghost>>

\* _request up to the loop: the header is fixed here for every attempt.
Invoke(a) ==
  /\ phase = "idle"
  /\ auth' = a /\ attempt' = 0 /\ status' = 0
  /\ waited' = 0 /\ broken' = FALSE /\ sends' = 0 /\ performed' = 0
  /\ bearer' = IF a THEN tokens ELSE NoToken
  /\ IF a /\ tokens = NoToken
       THEN phase' = "idle" /\ outcome' = "auth_error"
       ELSE phase' = "send" /\ outcome' = "none"
  /\ UNCHANGED tokens

Verdict(s) == IF IsError(s) THEN "http_error" ELSE "ok"

\* The bound of the ghost counters: one more than a call may send is enough to
\* tell that it sent too much.
Overrun == MaxRetries + 2
Counted(n) == IF n < Overrun THEN n + 1 ELSE n

\* Counts the attempts down; does not count them.
FaultyNextAttempt == attempt - 1
FaultyUncounted   == attempt

NextAttempt == attempt + 1

\* One more request has gone out; the server carried it out iff h.
Sent(h) == /\ sends' = Counted(sends)
           /\ performed' = IF h THEN Counted(performed) ELSE performed

\* transport.request returns s.
Exchange(s, h) ==
  /\ phase = "send"
  /\ h \in MayHavePerformed(s)
  /\ status' = s
  /\ Sent(h)
  /\ IF RetryAgain(s, attempt)
       THEN phase' = "sleep" /\ attempt' = NextAttempt /\ outcome' = outcome
       ELSE phase' = "idle" /\ attempt' = attempt /\ outcome' = Verdict(s)
  /\ UNCHANGED <<tokens, auth, bearer, waited, broken>>

\* Catches what the transport raises and tries again.
FaultyBreak(h) ==
  /\ phase = "send" /\ Sent(h) /\ broken' = TRUE
  /\ IF attempt < MaxRetries
       THEN phase' = "sleep" /\ attempt' = NextAttempt /\ outcome' = outcome
       ELSE phase' = "idle" /\ attempt' = attempt /\ outcome' = "transport_error"
  /\ UNCHANGED <<tokens, auth, bearer, status, waited>>

\* transport.request raises (URLError, timeout): nothing catches it.
Break(h) ==
  /\ phase = "send" /\ Sent(h) /\ broken' = TRUE
  /\ phase' = "idle" /\ outcome' = "transport_error"
  /\ UNCHANGED <<tokens, auth, bearer, attempt, status, waited>>

\* Pauses equally long every time.
FaultyHalfSeconds == 1

HalfSeconds == attempt

\* time.sleep(0.5 * attempt) ends.
WakeUp == /\ phase = "sleep"
          /\ waited' = waited + HalfSeconds
          /\ phase' = "send"
          /\ UNCHANGED <<tokens, call, broken, sends, performed>>

Attempt == \/ \E s \in Statuses, h \in BOOLEAN : Exchange(s, h)
           \/ \E h \in BOOLEAN : Break(h)

Next == StoreTokens \/ (\E a \in BOOLEAN : Invoke(a)) \/ Attempt \/ WakeUp

\* The transport has a timeout, so every attempt ends; so does every pause.
Spec == Init /\ [][Next]_vars /\ WF_vars(Attempt) /\ WF_vars(WakeUp)
--------------------------------------------------------------------------------
TypeOK == /\ tokens \in Tokens \cup {NoToken}
          /\ phase \in {"idle", "send", "sleep"}
          /\ auth \in BOOLEAN
          /\ bearer \in Tokens \cup {NoToken}
          /\ attempt \in Nat
          /\ status \in Statuses \cup {0}
          /\ outcome \in Outcomes
          /\ waited \in Nat /\ broken \in BOOLEAN /\ sends \in Nat /\ performed \in Nat

\* One call reaches the server at most MaxRetries + 1 times (client.py:151):
\* that bounds how often a non-idempotent POST can be carried out.
SendBudget == performed <= sends /\ sends <= MaxRetries + 1

\* A call that returns normally was carried out by the server (client.py:169):
\* what the caller believes agrees with what the server did.
SuccessWasPerformed == outcome = "ok" => performed >= 1

\* One of the statuses the code retries (_RETRYABLE, client.py:57) reaches the
\* caller only when every retry has been spent on it (client.py:151), and a call
\* the client refuses sends nothing.  Any other 5xx is raised at once, although
\* config.py:65 says "Retries on transient failures (429 / 5xx)".
RaisesOnlyAfterBudget ==
  /\ outcome = "http_error" /\ status \in RetryableStatus => sends = MaxRetries + 1
  /\ outcome = "auth_error" => sends = 0

\* Every request of an authenticated call carries a token that was stored
\* before the call (client.py:140-143); proved, and too near the code to check.
NeverAnonymous == auth /\ sends > 0 => bearer \in Tokens

\* The pauses grow by half a second (client.py:153): the time a call sleeps is
\* fixed by the number of its attempts and bounded by the configuration.
BackoffIsTriangular ==
  2 * waited = IF phase = "sleep" THEN attempt * (attempt - 1)
                                  ELSE attempt * (attempt + 1)

\* A request goes out only as the first of its call or after a retryable
\* answer: neither a definite answer (client.py:151-155) nor an exception of the
\* transport (client.py:148) is followed by another request of the same call.
NoSendAfterVerdict ==
  [][sends' > sends => ~broken /\ status \in RetryableStatus \cup {0}]_vars

\* Every call ends (client.py:147-155).
CallEnds == (phase # "idle") ~> (phase = "idle")

\* A call keeps the promise of AtLeastOnce.
Abstract == INSTANCE AtLeastOnce
              WITH Budget    <- MaxRetries + 1,
                   pending   <- phase # "idle",
                   performed <- performed,
                   result    <- IF outcome \in {"none", "ok"} THEN outcome ELSE "raised"

ImplementsAtLeastOnce == Abstract!Spec
================================================================================
