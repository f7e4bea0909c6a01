-------------------------- MODULE RequestLoop_proofs --------------------------
(***************************************************************************)
(* Theorems about RequestLoop, for every retry budget, every set of status *)
(* codes and every set of tokens.                                          *)
(***************************************************************************)
EXTENDS RequestLoop, TLAPS

\* How the loop counter, the phase and the ghost counters move together: in
\* the loop a request was sent for every attempt already counted, and nothing
\* has been decided; outside it one more may have been sent.
Counting ==
  /\ attempt <= MaxRetries
  /\ performed <= sends
  /\ phase \in {"send", "sleep"} => sends = attempt /\ outcome = "none" /\ ~broken
  /\ phase = "sleep" => attempt >= 1 /\ status \in RetryableStatus
  /\ phase = "send" => status \in RetryableStatus \cup {0}
  /\ phase = "idle" => sends <= attempt + 1

\* The bearer was taken from a stored token as soon as the call is under way.
BearerTaken == auth /\ (phase # "idle" \/ sends > 0) => bearer \in Tokens

\* No proxy answers with a redirect the transport hands back as it is: the
\* condition under which a normal return means that the server did the work.
NoRedirects == \A s \in Statuses : ~(s >= 300 /\ s < 400)

SafetyInv == /\ Counting
             /\ SendBudget
             /\ BearerTaken
             /\ RaisesOnlyAfterBudget
             /\ NoRedirects => SuccessWasPerformed

IndInv == TypeOK /\ BackoffIsTriangular /\ SafetyInv

\* The initial state satisfies the inductive invariant.
LEMMA InitIndInv == Init => IndInv
<1> SUFFICES ASSUME Init PROVE IndInv
  OBVIOUS
<1>1. TypeOK
  BY DEF Init, TypeOK, Outcomes
<1>2. BackoffIsTriangular
  BY DEF Init, BackoffIsTriangular
<1>3. SafetyInv
  BY MaxRetriesAssumption
  DEF Init, SafetyInv, Counting, SendBudget, BearerTaken, RaisesOnlyAfterBudget, SuccessWasPerformed
<1> QED
  BY <1>1, <1>2, <1>3 DEF IndInv

\* Within the budget of a call the bounded counters count.
LEMMA SentCounts ==
  ASSUME TypeOK, Counting, phase = "send", NEW h \in BOOLEAN, Sent(h)
  PROVE  sends' = sends + 1 /\ performed' = performed + (IF h THEN 1 ELSE 0)
<1>1. sends \in Nat /\ performed \in Nat /\ sends <= MaxRetries /\ performed <= sends
  BY DEF TypeOK, Counting
<1>2. sends < Overrun /\ performed < Overrun
  BY <1>1, MaxRetriesAssumption DEF Overrun
<1> QED
  BY <1>2 DEF Sent, Counted

\* What an exchange decides: it goes round again, or it ends the call with a
\* verdict that follows from the status.
LEMMA ExchangeOutcome ==
  ASSUME NEW s \in Nat, NEW h \in BOOLEAN, Exchange(s, h)
  PROVE  \/ /\ s \in RetryableStatus /\ attempt < MaxRetries
            /\ phase' = "sleep" /\ attempt' = attempt + 1 /\ outcome' = outcome
         \/ /\ s \in RetryableStatus => ~(attempt < MaxRetries)
            /\ phase' = "idle" /\ attempt' = attempt
            /\ \/ outcome' = "http_error"
               \/ outcome' = "ok" /\ s < 400
  BY DEF Exchange, NextAttempt, RetryAgain, Verdict, IsError

\* Every step keeps the variables in their types.
LEMMA TypeStep == ASSUME TypeOK, [Next]_vars PROVE TypeOK'
<1> USE DEF TypeOK, Outcomes
<1>1. CASE StoreTokens
  BY <1>1 DEF StoreTokens, call, ghost
<1>2. ASSUME NEW a \in BOOLEAN, Invoke(a) PROVE TypeOK'
  BY <1>2 DEF Invoke
<1>3. ASSUME NEW s \in Statuses, NEW h \in BOOLEAN, Exchange(s, h) PROVE TypeOK'
  <2>1. s \in Nat
    BY StatusesAssumption
  <2>2. sends' \in Nat /\ performed' \in Nat /\ status' \in Statuses \cup {0}
    BY <1>3 DEF Exchange, Sent, Counted
  <2>3. /\ phase' \in {"idle", "send", "sleep"} /\ attempt' \in Nat
        /\ outcome' \in Outcomes
    BY <1>3, <2>1, ExchangeOutcome
  <2>4. UNCHANGED <<tokens, auth, bearer, waited, broken>>
    BY <1>3 DEF Exchange
  <2> QED
    BY <2>2, <2>3, <2>4
<1>4. ASSUME NEW h \in BOOLEAN, Break(h) PROVE TypeOK'
  BY <1>4 DEF Break, Sent, Counted
<1>5. CASE WakeUp
  BY <1>5 DEF WakeUp, HalfSeconds, call
<1>6. CASE UNCHANGED vars
  BY <1>6 DEF vars, call, ghost
<1> QED
  BY <1>1, <1>2, <1>3, <1>4, <1>5, <1>6 DEF Next, Attempt

\* Every step keeps the sum of the pauses triangular.
LEMMA BackoffStep ==
  ASSUME TypeOK, Counting, BackoffIsTriangular, [Next]_vars
  PROVE  BackoffIsTriangular'
<1> USE DEF BackoffIsTriangular, TypeOK
<1>1. CASE StoreTokens
  BY <1>1 DEF StoreTokens, call, ghost
<1>2. ASSUME NEW a \in BOOLEAN, Invoke(a) PROVE BackoffIsTriangular'
  BY <1>2 DEF Invoke
<1>3. ASSUME NEW s \in Statuses, NEW h \in BOOLEAN, Exchange(s, h)
      PROVE  BackoffIsTriangular'
  <2>1. s \in Nat
    BY StatusesAssumption
  <2>2. phase = "send" /\ waited' = waited
    BY <1>3 DEF Exchange
  <2>3. 2 * waited = attempt * (attempt + 1)
    BY <2>2
  <2>4. CASE phase' = "sleep" /\ attempt' = attempt + 1
    <3>1. (attempt + 1) * ((attempt + 1) - 1) = attempt * (attempt + 1)
      OBVIOUS
    <3> QED
      BY <2>2, <2>3, <2>4, <3>1
  <2>5. CASE phase' = "idle" /\ attempt' = attempt
    BY <2>2, <2>3, <2>5
  <2> QED
    BY <1>3, <2>1, <2>4, <2>5, ExchangeOutcome
<1>4. ASSUME NEW h \in BOOLEAN, Break(h) PROVE BackoffIsTriangular'
  BY <1>4 DEF Break
<1>5. CASE WakeUp
  <2>1. 2 * waited = attempt * (attempt - 1)
    BY <1>5 DEF WakeUp
  <2>2. phase' = "send" /\ waited' = waited + attempt /\ attempt' = attempt
    BY <1>5 DEF WakeUp, HalfSeconds, call
  <2>3. 2 * (waited + attempt) = attempt * (attempt - 1) + 2 * attempt
    BY <2>1
  <2>4. attempt * (attempt - 1) + 2 * attempt = attempt * (attempt + 1)
    OBVIOUS
  <2> QED
    BY <2>2, <2>3, <2>4
<1>6. CASE UNCHANGED vars
  BY <1>6 DEF vars, call, ghost
<1> QED
  BY <1>1, <1>2, <1>3, <1>4, <1>5, <1>6 DEF Next, Attempt

\* Every step keeps the counters, the bearer and the verdict in agreement.
LEMMA SafetyStep == ASSUME TypeOK, SafetyInv, [Next]_vars PROVE SafetyInv'
<1> USE MaxRetriesAssumption
    DEF SafetyInv, TypeOK, Counting, SendBudget, BearerTaken, RaisesOnlyAfterBudget, SuccessWasPerformed
<1>1. CASE StoreTokens
  BY <1>1 DEF StoreTokens, call, ghost
<1>2. ASSUME NEW a \in BOOLEAN, Invoke(a) PROVE SafetyInv'
  BY <1>2 DEF Invoke
<1>3. ASSUME NEW s \in Statuses, NEW h \in BOOLEAN, Exchange(s, h) PROVE SafetyInv'
  <2>1. s \in Nat
    BY StatusesAssumption
  <2>2. /\ phase = "send" /\ status' = s /\ sends' = sends + 1
        /\ performed' = performed + (IF h THEN 1 ELSE 0)
        /\ auth' = auth /\ bearer' = bearer /\ broken' = broken
    BY <1>3, SentCounts DEF Exchange
  <2>3. sends = attempt /\ attempt <= MaxRetries /\ performed <= sends
    BY <2>2
  <2>4. bearer' \in Tokens \/ ~auth'
    BY <2>2
  <2>5. CASE /\ s \in RetryableStatus /\ attempt < MaxRetries
             /\ phase' = "sleep" /\ attempt' = attempt + 1 /\ outcome' = outcome
    BY <2>2, <2>3, <2>4, <2>5
  <2>6. CASE /\ s \in RetryableStatus => ~(attempt < MaxRetries)
             /\ phase' = "idle" /\ attempt' = attempt
             /\ \/ outcome' = "http_error"
                \/ outcome' = "ok" /\ s < 400
    <3>1. Counting' /\ SendBudget'
      BY <2>2, <2>3, <2>6
    <3>2. RaisesOnlyAfterBudget'
      BY <2>2, <2>3, <2>6
    <3>3. ASSUME NoRedirects PROVE SuccessWasPerformed'
      <4>1. CASE outcome' = "http_error"
        BY <4>1
      <4>2. CASE outcome' = "ok" /\ s < 400
        <5>1. s < 300
          BY <2>1, <3>3, <4>2 DEF NoRedirects
        <5>2. h = TRUE
          BY <1>3, <5>1 DEF Exchange, MayHavePerformed
        <5> QED
          BY <2>2, <5>2
      <4> QED
        BY <2>6, <4>1, <4>2
    <3> QED
      BY <2>4, <3>1, <3>2, <3>3 DEF NoRedirects
  <2> QED
    BY <1>3, <2>1, <2>5, <2>6, ExchangeOutcome
<1>4. ASSUME NEW h \in BOOLEAN, Break(h) PROVE SafetyInv'
  <2>1. phase = "send" /\ sends' = sends + 1 /\ performed' = performed + (IF h THEN 1 ELSE 0)
    BY <1>4, SentCounts DEF Break
  <2> QED
    BY <1>4, <2>1 DEF Break
<1>5. CASE WakeUp
  BY <1>5 DEF WakeUp, HalfSeconds, call
<1>6. CASE UNCHANGED vars
  BY <1>6 DEF vars, call, ghost
<1> QED
  BY <1>1, <1>2, <1>3, <1>4, <1>5, <1>6 DEF Next, Attempt

\* The inductive invariant holds throughout.
LEMMA Invariance == Spec => []IndInv
<1>1. IndInv /\ [Next]_vars => IndInv'
  BY TypeStep, BackoffStep, SafetyStep DEF IndInv, SafetyInv
<1> QED
  BY InitIndInv, <1>1, PTL DEF Spec

\* The variables of the retry loop (client.py:119-173) keep their types.
THEOREM TypeCorrect == Spec => []TypeOK
  BY Invariance, PTL DEF IndInv

\* One call of _request reaches the server at most MaxRetries + 1 times, whatever
\* statuses come back and however often an answer is lost (client.py:145-155).
THEOREM SendBudgetHolds == Spec => []SendBudget
  BY Invariance, PTL DEF IndInv, SafetyInv

\* A transient status is raised only after all MaxRetries + 1 attempts, and a
\* call refused for lack of a token sends nothing (client.py:140-151).
THEOREM RaisesOnlyAfterBudgetHolds == Spec => []RaisesOnlyAfterBudget
  BY Invariance, PTL DEF IndInv, SafetyInv

\* No request of an authenticated call goes out without a stored token
\* (client.py:140-143).
THEOREM NeverAnonymousHolds == Spec => []NeverAnonymous
<1>1. IndInv => NeverAnonymous
  BY DEF IndInv, SafetyInv, BearerTaken, NeverAnonymous
<1> QED
  BY Invariance, <1>1, PTL

\* The time a call sleeps is the triangular number of its attempts, in half
\* seconds (client.py:152-153).
THEOREM BackoffIsTriangularHolds == Spec => []BackoffIsTriangular
  BY Invariance, PTL DEF IndInv

\* When no redirect reaches the loop, a normal return means that the server
\* carried the operation out (client.py:169-173).
THEOREM SuccessWasPerformedHolds ==
  ASSUME NoRedirects PROVE Spec => []SuccessWasPerformed
<1>1. IndInv => SuccessWasPerformed
  BY DEF IndInv, SafetyInv
<1> QED
  BY Invariance, <1>1, PTL

\* A request goes out only as the first of its call or after a retryable
\* answer, and never after an exception of the transport (client.py:148-155).
THEOREM NoSendAfterVerdictHolds == Spec => NoSendAfterVerdict
<1>1. ASSUME IndInv, [Next]_vars
      PROVE  [sends' > sends => ~broken /\ status \in RetryableStatus \cup {0}]_vars
  <2> SUFFICES ASSUME sends' > sends PROVE ~broken /\ status \in RetryableStatus \cup {0}
    OBVIOUS
  <2>1. phase = "send"
    <3> USE <1>1 DEF IndInv, TypeOK
    <3>1. ~StoreTokens /\ ~WakeUp /\ ~UNCHANGED vars
      BY DEF StoreTokens, WakeUp, vars, ghost
    <3>2. \A a \in BOOLEAN : ~Invoke(a)
      BY DEF Invoke
    <3>3. \A s \in Statuses, h \in BOOLEAN : Exchange(s, h) => phase = "send"
      BY DEF Exchange
    <3>4. \A h \in BOOLEAN : Break(h) => phase = "send"
      BY DEF Break
    <3> QED
      BY <3>1, <3>2, <3>3, <3>4 DEF Next, Attempt
  <2> QED
    BY <1>1, <2>1 DEF IndInv, SafetyInv, Counting
<1> QED
  BY Invariance, <1>1, PTL DEF Spec, NoSendAfterVerdict

\* The initial states and the steps of the loop are initial states and steps of
\* AtLeastOnce: whatever a caller may conclude from that specification about a
\* call that ended, it may conclude about _request (client.py:119-173).
THEOREM LoopRefinesAtLeastOnce ==
  ASSUME NoRedirects
  PROVE  Spec => Abstract!Init /\ [][Abstract!Next]_Abstract!vars
<1> USE MaxRetriesAssumption
<1>1. Init => Abstract!Init
  BY DEF Init, Abstract!Init
<1>2. ASSUME IndInv, IndInv', [Next]_vars
      PROVE  [Abstract!Next]_Abstract!vars
  <2>0. performed' <= MaxRetries + 1
    <3>1. TypeOK' /\ SendBudget'
      BY <1>2 DEF IndInv, SafetyInv
    <3> QED
      BY <3>1 DEF TypeOK, SendBudget
  <2> USE <1>2 DEF IndInv, SafetyInv, TypeOK, Counting
  <2>1. CASE StoreTokens
    BY <2>1 DEF StoreTokens, call, ghost, Abstract!vars
  <2>2. ASSUME NEW a \in BOOLEAN, Invoke(a) PROVE Abstract!Next
    <3>1. CASE a /\ tokens = NoToken
      <4>1. Abstract!Refuse
        BY <2>2, <3>1 DEF Invoke, Abstract!Refuse
      <4> QED
        BY <4>1 DEF Abstract!Next
    <3>2. CASE ~(a /\ tokens = NoToken)
      <4>1. Abstract!Begin
        BY <2>2, <3>2 DEF Invoke, Abstract!Begin
      <4> QED
        BY <4>1 DEF Abstract!Next
    <3> QED
      BY <3>1, <3>2
  <2>3. ASSUME NEW s \in Statuses, NEW h \in BOOLEAN, Exchange(s, h)
        PROVE  [Abstract!Next]_Abstract!vars
    <3>1. s \in Nat
      BY StatusesAssumption
    <3>2. phase = "send" /\ performed' = performed + (IF h THEN 1 ELSE 0)
      BY <2>3, <1>2, SentCounts DEF Exchange, IndInv
    <3>3. CASE phase' = "sleep" /\ outcome' = outcome /\ attempt' = attempt + 1
      <4>1. CASE h
        <5>1. Abstract!Perform
          BY <3>2, <3>3, <4>1 DEF Abstract!Perform
        <5> QED
          BY <5>1 DEF Abstract!Next
      <4>2. CASE ~h
        BY <3>2, <3>3, <4>2 DEF Abstract!vars
      <4> QED
        BY <4>1, <4>2
    <3>4. CASE /\ phase' = "idle"
               /\ \/ outcome' = "http_error"
                  \/ outcome' = "ok" /\ s < 400
      <4> DEFINE g == IF h THEN 1 ELSE 0
      <4>1. g \in {0, 1} /\ performed' = performed + g
        BY <3>2
      <4>3. CASE outcome' = "http_error"
        <5>1. Abstract!Finish("raised", g)
          BY <3>2, <3>4, <4>1, <2>0, <4>3 DEF Abstract!Finish
        <5> QED
          BY <4>1, <5>1 DEF Abstract!Next, Abstract!End
      <4>4. CASE outcome' = "ok"
        <5>1. performed' >= 1
          BY <4>4 DEF SuccessWasPerformed
        <5>2. Abstract!Finish("ok", g)
          BY <3>2, <3>4, <4>1, <2>0, <4>4, <5>1 DEF Abstract!Finish
        <5> QED
          BY <4>1, <5>2 DEF Abstract!Next, Abstract!End
      <4> QED
        BY <3>4, <4>3, <4>4
    <3> QED
      BY <2>3, <3>1, <3>3, <3>4, ExchangeOutcome
  <2>4. ASSUME NEW h \in BOOLEAN, Break(h) PROVE Abstract!Next
    <3> DEFINE g == IF h THEN 1 ELSE 0
    <3>1. g \in {0, 1} /\ performed' = performed + g /\ phase = "send"
      BY <2>4, SentCounts DEF Break
    <3>3. Abstract!Finish("raised", g)
      BY <2>4, <3>1, <2>0 DEF Break, Abstract!Finish
    <3> QED
      BY <3>1, <3>3 DEF Abstract!Next, Abstract!End
  <2>5. CASE WakeUp
    BY <2>5 DEF WakeUp, call, Abstract!vars
  <2>6. CASE UNCHANGED vars
    BY <2>6 DEF vars, call, ghost, Abstract!vars
  <2> QED
    BY <2>1, <2>2, <2>3, <2>4, <2>5, <2>6 DEF Next, Attempt
<1> QED
  BY Invariance, <1>1, <1>2, PTL DEF Spec
--------------------------------------------------------------------------------
(* Every call is finite: CallEnds without its fairness. *)

\* How many steps the call in progress may still take: a request and a pause for
\* each retry that is left, and the last request.
StepsLeft ==
  CASE phase = "idle"  -> 0
    [] phase = "send"  -> 2 * (MaxRetries - attempt) + 1
    [] phase = "sleep" -> 2 * (MaxRetries - attempt) + 2

\* A call takes at most 2 * MaxRetries + 1 steps, whatever the transport does: no
\* answer and no exception starts the count of attempts again (client.py:145-155).
THEOREM CallIsFinite ==
  Spec => /\ [](StepsLeft \in 0 .. (2 * MaxRetries + 1))
          /\ [][phase # "idle" => StepsLeft' < StepsLeft]_vars
<1> USE MaxRetriesAssumption
<1>1. IndInv => StepsLeft \in 0 .. (2 * MaxRetries + 1)
  BY DEF IndInv, SafetyInv, Counting, TypeOK, StepsLeft
<1>2. ASSUME IndInv, [Next]_vars PROVE [phase # "idle" => StepsLeft' < StepsLeft]_vars
  <2> SUFFICES ASSUME Next, phase # "idle" PROVE StepsLeft' < StepsLeft
    BY <1>2
  <2>1. attempt \in Nat /\ attempt <= MaxRetries /\ phase \in {"send", "sleep"}
    BY <1>2 DEF IndInv, SafetyInv, Counting, TypeOK
  <2>2. ASSUME NEW s \in Statuses, NEW h \in BOOLEAN, Exchange(s, h)
        PROVE  StepsLeft' < StepsLeft
    <3>1. phase = "send" /\ s \in Nat
      BY <2>2, StatusesAssumption DEF Exchange
    <3>2. CASE attempt < MaxRetries /\ phase' = "sleep" /\ attempt' = attempt + 1
      BY <2>1, <3>1, <3>2 DEF StepsLeft
    <3>3. CASE phase' = "idle"
      BY <2>1, <3>1, <3>3 DEF StepsLeft
    <3> QED BY <2>2, <3>1, <3>2, <3>3, ExchangeOutcome
  <2>3. ASSUME NEW h \in BOOLEAN, Break(h) PROVE StepsLeft' < StepsLeft
    BY <2>1, <2>3 DEF Break, StepsLeft
  <2>4. CASE WakeUp
    BY <2>1, <2>4 DEF WakeUp, call, StepsLeft
  <2>5. ~StoreTokens /\ \A a : ~Invoke(a)
    BY DEF StoreTokens, Invoke
  <2> QED BY <2>2, <2>3, <2>4, <2>5 DEF Next, Attempt
<1> QED BY Invariance, <1>1, <1>2, PTL DEF Spec
================================================================================
