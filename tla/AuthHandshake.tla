----------------------------- MODULE AuthHandshake -----------------------------
(***************************************************************************)
(* The authentication calls of KSeFClient: authenticate_with_token,        *)
(* authenticate_with_certificate and refresh_access_token, one caller      *)
(* making one call after another over an unreliable transport against a    *)
(* server that decides about an authentication session in its own time.    *)
(* Time is counted in poll intervals; a retry stands for the pause and the *)
(* next attempt, which RequestLoop shows step by step.                     *)
(*                                                                         *)
(* A definition named Faulty... is the code with one plausible mistake in  *)
(* it: no action uses it; it shows that a property can be violated.        *)
(***************************************************************************)
EXTENDS KSeFRequest, CertBinding, Sequences, FiniteSets

CONSTANTS ConfigNip,       \* KSeFConfig.nip
          Signers,         \* TaxNumber of each certificate there is
          Failures,        \* the error statuses a response may carry
          Timeout,         \* PollOptions.timeout_seconds / interval_seconds
          MaxCalls         \* bound: calls the caller makes

ASSUME NipsAssumption     == /\ NoNip \notin Nips
                             /\ {ConfigNip} \cup Signers \subseteq Nips \cup {NoNip}
ASSUME FailuresAssumption == Failures \subseteq Nat /\ \A s \in Failures : IsError(s)
ASSUME BoundsAssumption   == Timeout \in Nat /\ MaxCalls \in Nat

VARIABLES tokens,          \* self._tokens: an index into issued, 0 for None
          pc,              \* the statement the call in progress has reached
          hs,              \* locals of the call in progress
          attempt,         \* the loop counter of _request
          seen,            \* the status code of the latest poll
          elapsed,         \* intervals since the deadline was set, capped
          outcome,         \* how the latest call ended
          failure,         \* ghost: the latest error status, 0 before one
          polls,           \* ghost: polls of the call in progress, capped
          owner,           \* ghost: who the latest successful call was for
          calls,           \* ghost: calls begun
          challenges,      \* server: challenges handed out
          auths,           \* server: authentication sessions
          issued           \* server: the taxpayer each token pair was issued to

server == <<challenges, auths, issued>>
poller == <<seen, elapsed, polls>>
vars   == <<tokens, pc, hs, attempt, poller, outcome, failure, owner, calls, server>>

Pending  == 100
Accepted == 200
Denied   == 450            \* stands for every code the poll treats as final
Steps    == {"challenge", "key", "submit", "poll", "redeem", "refresh"}
Outcomes == {"none", "ok", "auth_error", "http_error", "timeout", "client_error",
             "foreign"}
Kinds    == {"token", "certificate", "refresh"}
NoCall   == [kind |-> "refresh", nip |-> NoNip, signer |-> NoNip, chal |-> 0, ref |-> 0]

Init == /\ tokens = 0 /\ pc = "idle" /\ hs = NoCall /\ attempt = 0
        /\ seen = 0 /\ elapsed = 0 /\ polls = 0
        /\ outcome = "none" /\ failure = 0 /\ owner = NoNip /\ calls = 0
        /\ challenges = 0 /\ auths = <<>> /\ issued = <<>>
--------------------------------------------------------------------------------
(* The server, as the client's requests and the mock of the tests show it. *)

IssueChallenge == challenges' = challenges + 1 /\ UNCHANGED <<auths, issued>>

\* What is encrypted together with the token of authenticate_with_token.
Sealed == IF hs.kind = "token" THEN "challenge" ELSE "nothing"

NewSession == [nip |-> hs.nip, signer |-> hs.signer, chal |-> hs.chal,
               sealed |-> Sealed, call |-> calls, status |-> Pending]

CreateSession ==
  /\ auths' = Append(auths, NewSession)
  /\ UNCHANGED <<challenges, issued>>

IssueTokens(nip) == issued' = Append(issued, nip) /\ UNCHANGED <<challenges, auths>>

\* What carrying out the request of the current step does to the server.
Handle == CASE pc = "challenge" -> IssueChallenge
            [] pc = "submit"    -> CreateSession
            [] pc = "redeem"    -> IssueTokens(auths[hs.ref].nip)
            [] pc = "refresh"   -> IssueTokens(issued[tokens])
            [] OTHER            -> UNCHANGED server

MayHandle(h) == IF h THEN Handle ELSE UNCHANGED server

\* The server decides about a session whenever it likes, and once.
Decide(i, code) ==
  /\ auths[i].status = Pending
  /\ auths' = [auths EXCEPT ![i].status = code]
  /\ UNCHANGED <<tokens, pc, hs, attempt, poller, outcome, failure, owner, calls,
                 challenges, issued>>
--------------------------------------------------------------------------------
(* Beginning a call. *)

EffectiveNip(arg) == IF arg = NoNip THEN ConfigNip ELSE arg

Start(step, local) ==
  /\ pc = "idle" /\ calls < MaxCalls
  /\ calls' = calls + 1 /\ attempt' = 0 /\ failure' = 0
  /\ pc' = step /\ hs' = local /\ outcome' = "none"
  /\ UNCHANGED <<tokens, poller, owner, server>>

\* A call refused before anything is sent.
Refuse == /\ pc = "idle" /\ calls < MaxCalls
          /\ calls' = calls + 1 /\ outcome' = "auth_error"
          /\ attempt' = 0 /\ failure' = 0
          /\ UNCHANGED <<tokens, pc, hs, poller, owner, server>>

\* Takes the argument as it is, and does not look whether there is one.
FaultyBeginToken(arg) ==
  Start("challenge", [NoCall EXCEPT !.kind = "token", !.nip = arg])

BeginToken(arg) ==
  LET nip == EffectiveNip(arg)
  IN  IF nip = NoNip
        THEN Refuse
        ELSE Start("challenge", [NoCall EXCEPT !.kind = "token", !.nip = nip])

BeginCertificate(arg, signer, bySubject) ==
  LET nip == EffectiveNip(arg)
  IN  IF nip = NoNip \/ CertRefused(nip, signer, bySubject)
        THEN Refuse
        ELSE Start("challenge", [NoCall EXCEPT !.kind = "certificate", !.nip = nip,
                                   !.signer = signer])

BeginRefresh == IF tokens = 0 THEN Refuse ELSE Start("refresh", NoCall)

Begin == \/ \E arg \in Nips \cup {NoNip} : BeginToken(arg)
         \/ \E arg \in Nips \cup {NoNip}, signer \in Signers, bySubject \in BOOLEAN :
              BeginCertificate(arg, signer, bySubject)
         \/ BeginRefresh
--------------------------------------------------------------------------------
(* Ending one, and the ways a request goes wrong. *)

Finish(how) == /\ pc' = "idle" /\ outcome' = how /\ hs' = NoCall
               /\ seen' = 0 /\ elapsed' = 0 /\ polls' = 0

\* The signed XML is posted to the transport itself, not through _request.
Direct == pc = "submit" /\ hs.kind = "certificate"

\* Tries the direct post again too.
FaultyRetriesStep(s) == RetryAgain(s, attempt)

RetriesStep(s) == ~Direct /\ RetryAgain(s, attempt)

\* An error answer: tried again, or raised.  The direct post decodes the body
\* before it looks at the status, and lets a body that is no JSON escape.
Fail(s, h) ==
  /\ pc \in Steps
  /\ h \in MayHavePerformed(s)
  /\ MayHandle(h)
  /\ failure' = s
  /\ IF RetriesStep(s)
       THEN /\ attempt' = attempt + 1
            /\ UNCHANGED <<pc, hs, poller, outcome>>
       ELSE /\ \/ Finish("http_error")
               \/ Direct /\ Finish("foreign")
            /\ UNCHANGED attempt
  /\ UNCHANGED <<tokens, owner, calls>>

\* The transport raises, or a 2xx lacks what the client reads from it (a
\* KeyError, TypeError or ValueError): nothing catches either.
Escape(h) ==
  /\ pc \in Steps
  /\ MayHandle(h)
  /\ Finish("foreign")
  /\ UNCHANGED <<tokens, attempt, failure, owner, calls>>
--------------------------------------------------------------------------------
(* The steps of a call that go well. *)

Advance(step) == pc' = step /\ attempt' = 0
                 /\ UNCHANGED <<tokens, outcome, failure, owner, calls>>

\* Keeps using the first challenge it was given.
FaultyTakenChallenge == 1

TakenChallenge == challenges'

\* The token flow goes on to fetch the public key unless it was given one.
GetChallenge(step) ==
  /\ pc = "challenge"
  /\ step = "key" => hs.kind = "token"
  /\ IssueChallenge
  /\ hs' = [hs EXCEPT !.chal = TakenChallenge]
  /\ Advance(step)
  /\ UNCHANGED poller

FetchKey == /\ pc = "key"
            /\ Advance("submit")
            /\ UNCHANGED <<hs, poller, server>>

NoKey == /\ pc = "key"
         /\ Finish("client_error")
         /\ UNCHANGED <<tokens, attempt, failure, owner, calls, server>>

\* Takes the reference of the session before.
FaultyReference == IF Len(auths) = 0 THEN 1 ELSE Len(auths)

Reference == Len(auths')

\* The reply names the session; the deadline is set on its arrival.
Submit == /\ pc = "submit"
          /\ CreateSession
          /\ hs' = [hs EXCEPT !.ref = Reference]
          /\ elapsed' = 0
          /\ Advance("poll")
          /\ UNCHANGED <<seen, polls>>

\* The status is read now and judged later; time passes in between.
Poll == /\ pc = "poll"
        /\ seen' = auths[hs.ref].status
        /\ elapsed' \in elapsed .. (Timeout + 1)
        /\ polls' = IF polls > Timeout + 2 THEN polls ELSE polls + 1
        /\ Advance("judge")
        /\ UNCHANGED <<hs, server>>

\* Leaves the loop on every final code.
FaultyConfirmed == /\ pc = "judge" /\ seen # Pending
                   /\ Advance("redeem")
                   /\ UNCHANGED <<hs, poller, server>>

Confirmed == /\ pc = "judge" /\ seen = Accepted
             /\ Advance("redeem")
             /\ UNCHANGED <<hs, poller, server>>

Rejected == /\ pc = "judge" /\ seen \notin {Accepted, Pending}
            /\ Finish("auth_error")
            /\ UNCHANGED <<tokens, attempt, failure, owner, calls, server>>

\* Looks at the clock before the code.
FaultyGivesUp == elapsed > Timeout

GivesUp == seen = Pending /\ elapsed > Timeout

TimeOut == /\ pc = "judge" /\ GivesUp
           /\ Finish("timeout")
           /\ UNCHANGED <<tokens, attempt, failure, owner, calls, server>>

\* Sets the deadline anew in every round.
FaultyAfterPause == {0}

AfterPause == (elapsed + 1) .. (Timeout + 1)

\* time.sleep(interval): at least one interval goes by.
Pause == /\ pc = "judge" /\ seen = Pending /\ elapsed <= Timeout
         /\ elapsed' \in AfterPause
         /\ Advance("poll")
         /\ UNCHANGED <<hs, seen, polls, server>>

\* Stores the new pair only if there is none; stores the pair before.
FaultyStoredOnce == IF tokens = 0 THEN Len(issued') ELSE tokens
FaultyStoredLate == Len(issued)

Stored == Len(issued')

Redeem == /\ pc = "redeem"
          /\ IssueTokens(auths[hs.ref].nip)
          /\ tokens' = Stored
          /\ owner' = hs.nip
          /\ Finish("ok")
          /\ UNCHANGED <<attempt, failure, calls>>

Refresh == /\ pc = "refresh"
           /\ IssueTokens(issued[tokens])
           /\ tokens' = Stored
           /\ Finish("ok")
           /\ UNCHANGED <<attempt, failure, owner, calls>>

Progress == \/ \E step \in {"key", "submit"} : GetChallenge(step)
            \/ FetchKey \/ NoKey \/ Submit
            \/ Poll \/ Confirmed \/ Rejected \/ TimeOut \/ Pause
            \/ Redeem \/ Refresh

Trouble == \E h \in BOOLEAN : (\E s \in Failures : Fail(s, h)) \/ Escape(h)

Client == Progress \/ Trouble

Next == \/ Begin
        \/ Client
        \/ \E i \in DOMAIN auths, code \in {Accepted, Denied} : Decide(i, code)

\* A call under way goes on: the transport times out and sleeps end.  Nothing
\* makes the server decide, and nothing makes the caller begin.
Spec == Init /\ [][Next]_vars /\ WF_vars(Client)
--------------------------------------------------------------------------------
Session == [nip : Nips, signer : Nips \cup {NoNip}, chal : Nat,
            sealed : {"challenge", "timestamp", "nothing"}, call : Nat,
            status : {Pending, Accepted, Denied}]

Locals == [kind : Kinds, nip : Nips \cup {NoNip}, signer : Nips \cup {NoNip},
           chal : Nat, ref : Nat]

TypeOK ==
  /\ tokens \in 0 .. Len(issued)
  /\ pc \in Steps \cup {"idle", "judge"}
  /\ hs \in Locals
  /\ attempt \in Nat
  /\ seen \in {0, Pending, Accepted, Denied}
  /\ elapsed \in 0 .. (Timeout + 1)
  /\ polls \in Nat
  /\ outcome \in Outcomes
  /\ failure \in Failures \cup {0}
  /\ owner \in Nips \cup {NoNip}
  /\ calls \in Nat
  /\ challenges \in Nat
  /\ auths \in Seq(Session)
  /\ issued \in Seq(Nips)

\* The tokens the client holds were issued to the taxpayer its latest successful
\* authentication named, through every failed or repeated call and refresh since
\* (client.py:285, 295, 392).
TokensBelongToOwner ==
  IF tokens = 0 THEN owner = NoNip ELSE issued[tokens] = owner

\* The session the client polls and redeems is one its own call created, for the
\* taxpayer, the challenge and the certificate of that call, however many
\* sessions lost answers have left behind (client.py:239-257, 343-370).
SessionIsOwn ==
  pc \in {"poll", "judge", "redeem"} =>
    /\ hs.ref \in DOMAIN auths
    /\ auths[hs.ref].nip = hs.nip /\ auths[hs.ref].signer = hs.signer
    /\ auths[hs.ref].chal = hs.chal /\ auths[hs.ref].call = calls

\* Tokens are asked for only for a session the server has confirmed
\* (client.py:271-284, 380-391).
RedeemsConfirmed == pc = "redeem" => auths[hs.ref].status = Accepted

\* No challenge answers for two calls: a session never carries the challenge of
\* an earlier handshake (client.py:227, 332).
ChallengeUsedByOneCall ==
  \A i, j \in DOMAIN auths : auths[i].chal = auths[j].chal => auths[i].call = auths[j].call

SessionsOf(c) == {i \in DOMAIN auths : auths[i].call = c}

\* Sessions asked for with a signed XML, whoever its certificate names: no token
\* was encrypted for them.
Signed == {i \in DOMAIN auths : auths[i].sealed = "nothing"}

\* A call leaves at most MaxRetries + 1 sessions at the server, one if it posts
\* the signed XML, which is never sent twice (client.py:239, 343).
SessionsPerCall ==
  \A c \in 1 .. calls :
    /\ Cardinality(SessionsOf(c)) <= MaxRetries + 1
    /\ SessionsOf(c) \cap Signed # {} => Cardinality(SessionsOf(c)) = 1

\* The wait makes at most Timeout + 2 polls, one per interval and one past the
\* deadline, which is compared only after a poll (client.py:260-279).
PollsBounded == polls <= elapsed + 1 /\ polls <= Timeout + 2

\* A call gives up only past its deadline with the session still pending when
\* last seen, even if that answer came late; it reports a rejection only of a
\* session the server rejected (client.py:271-278).
GivesUpHonestly ==
  [][/\ outcome' = "timeout" /\ pc # "idle" => seen = Pending /\ elapsed > Timeout
     /\ outcome' = "auth_error" /\ pc # "idle" => auths[hs.ref].status = Denied]_vars

\* The client's tokens change only when a call succeeds, and then to the pair
\* issued last; a failed call leaves the client as authenticated as it was
\* (client.py:285-286, 295-296, 392-393).
OnlySuccessChangesTokens ==
  [][tokens' # tokens => /\ outcome' = "ok" /\ pc' = "idle"
                         /\ tokens' = Len(issued')]_vars

\* Every call ends, even if the server never decides (client.py:260-279).
CallEnds == (pc # "idle") ~> (pc = "idle")

\* Whom the client acts for, and whom the call in progress is for.
Holder == IF tokens = 0 THEN NoNip ELSE issued[tokens]
Goal == IF pc = "idle" THEN NoNip ELSE IF hs.kind = "refresh" THEN Holder ELSE hs.nip

Abstract == INSTANCE Authentication WITH holder <- Holder, goal <- Goal

\* The calls keep the promise of Authentication: success makes the client act for
\* the taxpayer named, failure changes nothing, and every call ends
\* (client.py:209-393).
ImplementsAuthentication == Abstract!Spec
--------------------------------------------------------------------------------
(* What the documentation says and the code does not do. *)

\* "max_retries: Retries on transient failures (429 / 5xx)" (config.py:65): a
\* transient failure is raised only when the retries are spent.  The direct post
\* of the signed XML (client.py:343-350) raises the first one.
TransientFailuresRetried ==
  outcome = "http_error" /\ failure \in RetryableStatus => attempt = MaxRetries

\* The handshake encrypts "token|timestamp" (client.py:218, crypto.py:40,
\* README.md:14): no session is asked for with anything but the timestamp beside
\* the token.  The code passes encrypt_token the challenge (client.py:238).
TimestampIsSealed == \A i \in DOMAIN auths : auths[i].sealed # "challenge"
================================================================================
