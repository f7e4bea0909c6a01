-------------------------- MODULE AuthHandshake_proofs --------------------------
(***************************************************************************)
(* Theorems about AuthHandshake, for every set of taxpayers, certificates  *)
(* and error statuses, every retry budget and every polling deadline.      *)
(***************************************************************************)
EXTENDS AuthHandshake, FiniteLemmas, TLAPS

\* What the locals of a call mean while it runs.
LocalInv ==
  /\ pc # "idle" => outcome = "none"
  /\ pc \notin {"idle", "refresh"} => hs.kind # "refresh" /\ hs.nip \in Nips
  /\ pc = "refresh" => hs.kind = "refresh" /\ tokens # 0
  /\ hs.chal <= challenges

\* The session a call works on, and what it last saw of it: a decision, once
\* seen, stands.
SessionInv ==
  /\ SessionIsOwn
  /\ RedeemsConfirmed
  /\ pc = "judge" => seen # 0
  /\ pc = "judge" /\ seen # Pending => auths[hs.ref].status = seen

\* Challenges and calls are numbered in order, and between fetching a challenge
\* and using it no other call can have used it.
ChallengeInv ==
  /\ \A i \in DOMAIN auths : auths[i].call <= calls /\ auths[i].chal <= challenges
  /\ pc \in {"key", "submit"} =>
       \A i \in DOMAIN auths : auths[i].chal = hs.chal => auths[i].call = calls
  /\ ChallengeUsedByOneCall

\* Before a poll every interval has seen at most one poll.
PollInv ==
  /\ pc \in {"idle", "challenge", "key", "submit", "refresh"} => polls = 0
  /\ pc = "poll" => polls <= elapsed
  /\ pc \in {"judge", "redeem"} => polls <= elapsed + 1

IndInv == /\ TypeOK
          /\ LocalInv
          /\ TokensBelongToOwner
          /\ SessionInv
          /\ ChallengeInv
          /\ PollInv

--------------------------------------------------------------------------------
(* How a step changes the server. *)

\* The server forgets nothing: its sequences only grow, and a new session is the
\* one the step at hand asks for.
Grows ==
  /\ challenges' \in Nat /\ challenges <= challenges'
  /\ auths' \in Seq(Session)
  /\ \A j \in DOMAIN auths : j \in DOMAIN auths' /\ auths'[j] = auths[j]
  /\ \A j \in DOMAIN auths' :
       j \in DOMAIN auths \/ (pc = "submit" /\ auths'[j] = NewSession)
  /\ issued' \in Seq(Nips) /\ Len(issued) <= Len(issued')
  /\ \A k \in DOMAIN issued : issued'[k] = issued[k]

\* Appending keeps what was there and adds the new element at the end.
LEMMA AppendFacts ==
  ASSUME NEW T, NEW s \in Seq(T), NEW e \in T
  PROVE  /\ Append(s, e) \in Seq(T)
         /\ Len(s) \in Nat /\ Len(Append(s, e)) = Len(s) + 1
         /\ DOMAIN s = 1 .. Len(s) /\ DOMAIN Append(s, e) = 1 .. (Len(s) + 1)
         /\ \A j \in DOMAIN s : Append(s, e)[j] = s[j]
         /\ Append(s, e)[Len(s) + 1] = e
  OBVIOUS

\* An unchanged server has grown by nothing.
LEMMA UnchangedGrows == ASSUME TypeOK, UNCHANGED server PROVE Grows
  BY DEF TypeOK, server, Grows

\* The session a call asks for is well formed.
LEMMA NewSessionType == ASSUME TypeOK, LocalInv, pc = "submit"
                        PROVE  NewSession \in Session
  BY DEF TypeOK, LocalInv, Locals, NewSession, Sealed, Session

\* A created session is the only change.
LEMMA CreateGrows == ASSUME TypeOK, LocalInv, pc = "submit", CreateSession
                     PROVE  Grows /\ Len(auths') = Len(auths) + 1
                                  /\ auths'[Len(auths) + 1] = NewSession
<1>1. NewSession \in Session
  BY NewSessionType
<1>2. auths \in Seq(Session) /\ challenges \in Nat /\ issued \in Seq(Nips)
  BY DEF TypeOK
<1>3. /\ auths' \in Seq(Session)
      /\ Len(auths) \in Nat /\ Len(auths') = Len(auths) + 1
      /\ DOMAIN auths = 1 .. Len(auths) /\ DOMAIN auths' = 1 .. (Len(auths) + 1)
      /\ \A j \in DOMAIN auths : auths'[j] = auths[j]
      /\ auths'[Len(auths) + 1] = NewSession
  BY <1>1, <1>2, AppendFacts DEF CreateSession
<1>4. challenges' = challenges /\ issued' = issued
  BY DEF CreateSession
<1>5. \A j \in DOMAIN auths' : j \in DOMAIN auths \/ j = Len(auths) + 1
  BY <1>3
<1>6. \A j \in DOMAIN auths : j \in DOMAIN auths'
  BY <1>3
<1> QED
  BY <1>2, <1>3, <1>4, <1>5, <1>6 DEF Grows

\* Issued tokens are the only change.
LEMMA IssueGrows == ASSUME TypeOK, NEW nip \in Nips, IssueTokens(nip)
                    PROVE  Grows /\ Len(issued') \in Nat \ {0}
                                 /\ issued'[Len(issued')] = nip
<1>1. auths \in Seq(Session) /\ challenges \in Nat /\ issued \in Seq(Nips)
  BY DEF TypeOK
<1>2. /\ issued' \in Seq(Nips)
      /\ Len(issued) \in Nat /\ Len(issued') = Len(issued) + 1
      /\ \A k \in DOMAIN issued : issued'[k] = issued[k]
      /\ issued'[Len(issued) + 1] = nip
  BY <1>1, AppendFacts DEF IssueTokens
<1>3. auths' = auths /\ challenges' = challenges
  BY DEF IssueTokens
<1> QED
  BY <1>1, <1>2, <1>3 DEF Grows

\* Whatever the server carries out for a call, it only grows.
LEMMA HandleGrows ==
  ASSUME TypeOK, LocalInv, SessionInv, NEW h \in BOOLEAN, pc \in Steps, MayHandle(h)
  PROVE  Grows
<1>1. CASE ~h
  BY <1>1, UnchangedGrows DEF MayHandle
<1>2. CASE h
  <2>0. Handle
    BY <1>2 DEF MayHandle
  <2>1. CASE pc = "challenge"
    BY <2>0, <2>1 DEF Handle, IssueChallenge, Grows, TypeOK
  <2>2. CASE pc = "submit"
    BY <2>0, <2>2, CreateGrows DEF Handle
  <2>3. CASE pc = "redeem"
    <3>1. auths[hs.ref].nip \in Nips
      BY <2>3 DEF SessionInv, SessionIsOwn, LocalInv
    <3> QED
      BY <2>0, <2>3, <3>1, IssueGrows DEF Handle
  <2>4. CASE pc = "refresh"
    <3>1. issued[tokens] \in Nips
      BY <2>4 DEF LocalInv, TypeOK
    <3> QED
      BY <2>0, <2>4, <3>1, IssueGrows DEF Handle
  <2>5. CASE pc \in {"key", "poll"}
    BY <2>0, <2>5, UnchangedGrows DEF Handle
  <2> QED
    BY <2>1, <2>2, <2>3, <2>4, <2>5 DEF Steps
<1> QED
  BY <1>1, <1>2

--------------------------------------------------------------------------------
(* What a growing server leaves true, whatever the client does. *)

\* Sessions keep the numbering they had, and a new one fits.
LEMMA GrowthKeepsSessions ==
  ASSUME TypeOK, LocalInv, ChallengeInv, Grows, calls' = calls
  PROVE  /\ \A i \in DOMAIN auths' :
              auths'[i].call <= calls' /\ auths'[i].chal <= challenges'
         /\ pc \in {"key", "submit"} =>
              \A i \in DOMAIN auths' : auths'[i].chal = hs.chal => auths'[i].call = calls
         /\ ChallengeUsedByOneCall'
<1> DEFINE New(j) == pc = "submit" /\ auths'[j] = NewSession
<1>1. /\ calls \in Nat /\ challenges \in Nat /\ challenges' \in Nat
      /\ challenges <= challenges' /\ hs.chal \in Nat
  BY DEF TypeOK, Locals, Grows
<1>2. \A j \in DOMAIN auths' : (j \in DOMAIN auths /\ auths'[j] = auths[j]) \/ New(j)
  BY DEF Grows
<1>3. \A j \in DOMAIN auths : auths[j].call \in Nat /\ auths[j].chal \in Nat
  <2>1. \A j \in DOMAIN auths : auths[j] \in Session
    BY DEF TypeOK
  <2> QED
    BY <2>1 DEF Session
<1>4. NewSession.call = calls /\ NewSession.chal = hs.chal
  BY DEF NewSession
<1>5. ASSUME NEW i \in DOMAIN auths'
      PROVE  auths'[i].call <= calls' /\ auths'[i].chal <= challenges'
  <2>1. CASE i \in DOMAIN auths /\ auths'[i] = auths[i]
    BY <1>1, <1>3, <2>1 DEF ChallengeInv
  <2>2. CASE New(i)
    BY <1>1, <1>4, <2>2 DEF LocalInv
  <2> QED
    BY <1>2, <2>1, <2>2
<1>6. ASSUME pc \in {"key", "submit"}, NEW i \in DOMAIN auths', auths'[i].chal = hs.chal
      PROVE  auths'[i].call = calls
  BY <1>2, <1>4, <1>6 DEF ChallengeInv
<1>7. ChallengeUsedByOneCall'
  <2> SUFFICES ASSUME NEW i \in DOMAIN auths', NEW j \in DOMAIN auths',
                      auths'[i].chal = auths'[j].chal
               PROVE  auths'[i].call = auths'[j].call
    BY DEF ChallengeUsedByOneCall
  <2>1. CASE New(i) \/ New(j)
    BY <1>4, <1>6, <2>1
  <2>2. CASE /\ i \in DOMAIN auths /\ auths'[i] = auths[i]
             /\ j \in DOMAIN auths /\ auths'[j] = auths[j]
    BY <2>2 DEF ChallengeInv, ChallengeUsedByOneCall
  <2> QED
    BY <1>2, <2>1, <2>2
<1> QED
  BY <1>5, <1>6, <1>7

\* The tokens a call leaves alone stay whose they were.
LEMMA GrowthKeepsTokens ==
  ASSUME TypeOK, TokensBelongToOwner, Grows, tokens' = tokens, owner' = owner
  PROVE  TokensBelongToOwner' /\ tokens' \in 0 .. Len(issued')
<1>1. /\ Len(issued) \in Nat /\ Len(issued') \in Nat /\ Len(issued) <= Len(issued')
      /\ tokens \in 0 .. Len(issued) /\ DOMAIN issued = 1 .. Len(issued)
  BY DEF TypeOK, Grows
<1>2. tokens # 0 => issued'[tokens] = issued[tokens]
  BY <1>1 DEF Grows
<1> QED
  BY <1>1, <1>2 DEF TokensBelongToOwner

\* A call that ends without success leaves a good state, whatever its last
\* request did to the server.
LEMMA EndStep ==
  ASSUME IndInv, Grows, NEW o \in Outcomes, Finish(o),
         UNCHANGED <<tokens, owner, calls>>,
         attempt' \in Nat, failure' \in Failures \cup {0}
  PROVE  IndInv'
<1> USE DEF IndInv
<1>1. TokensBelongToOwner' /\ tokens' \in 0 .. Len(issued')
  BY GrowthKeepsTokens
<1>2. /\ \A i \in DOMAIN auths' :
           auths'[i].call <= calls' /\ auths'[i].chal <= challenges'
      /\ ChallengeUsedByOneCall'
  BY GrowthKeepsSessions
<1>3. /\ pc' = "idle" /\ outcome' = o /\ hs' = NoCall
      /\ seen' = 0 /\ elapsed' = 0 /\ polls' = 0
  BY DEF Finish
<1>4. TypeOK'
  BY <1>1, <1>3, BoundsAssumption DEF TypeOK, Grows, NoCall, Kinds, Locals
<1>5. LocalInv'
  BY <1>3, <1>4 DEF LocalInv, NoCall, TypeOK
<1>6. SessionInv' /\ PollInv'
  BY <1>3 DEF SessionInv, SessionIsOwn, RedeemsConfirmed, PollInv
<1>7. ChallengeInv'
  BY <1>2, <1>3 DEF ChallengeInv
<1> QED
  BY <1>1, <1>2, <1>4, <1>5, <1>6, <1>7

\* So does a request that is tried again.
LEMMA RetryStep ==
  ASSUME IndInv, Grows, pc \in Steps,
         UNCHANGED <<pc, hs, poller, outcome, tokens, owner, calls>>,
         attempt' \in Nat, failure' \in Failures \cup {0}
  PROVE  IndInv'
<1> USE DEF IndInv
<1>1. TokensBelongToOwner' /\ tokens' \in 0 .. Len(issued')
  BY GrowthKeepsTokens
<1>2. /\ \A i \in DOMAIN auths' :
           auths'[i].call <= calls' /\ auths'[i].chal <= challenges'
      /\ pc \in {"key", "submit"} =>
           \A i \in DOMAIN auths' : auths'[i].chal = hs.chal => auths'[i].call = calls
      /\ ChallengeUsedByOneCall'
  BY GrowthKeepsSessions
<1>3. TypeOK'
  BY <1>1 DEF TypeOK, Grows, poller
<1>4. LocalInv'
  <2>1. hs.chal \in Nat /\ challenges \in Nat /\ challenges' \in Nat
    BY DEF TypeOK, Locals, Grows
  <2> QED
    BY <2>1 DEF LocalInv, Grows
<1>5. SessionInv'
  BY DEF SessionInv, SessionIsOwn, RedeemsConfirmed, Grows, poller, Steps
<1>6. ChallengeInv'
  BY <1>2 DEF ChallengeInv
<1>7. PollInv'
  BY DEF PollInv, poller
<1> QED
  BY <1>1, <1>2, <1>3, <1>4, <1>5, <1>6, <1>7

--------------------------------------------------------------------------------
(* The inductive invariant: one lemma per group of actions. *)

\* The initial state satisfies the inductive invariant.
LEMMA InitIndInv == Init => IndInv
<1> SUFFICES ASSUME Init PROVE IndInv
  OBVIOUS
<1>1. auths \in Seq(Session) /\ DOMAIN auths = {} /\ issued \in Seq(Nips)
  BY DEF Init
<1>2. TypeOK
  BY <1>1, BoundsAssumption DEF Init, TypeOK, NoCall, Kinds, Locals, Outcomes
<1>3. LocalInv /\ TokensBelongToOwner /\ SessionInv /\ PollInv
  BY DEF Init, LocalInv, TokensBelongToOwner, SessionInv, SessionIsOwn,
         RedeemsConfirmed, PollInv, NoCall
<1>4. ChallengeInv
  BY <1>1 DEF Init, ChallengeInv, ChallengeUsedByOneCall
<1> QED
  BY <1>2, <1>3, <1>4 DEF IndInv

\* Beginning a call, or refusing to, touches neither server nor tokens.
LEMMA BeginStep == ASSUME IndInv, Begin PROVE IndInv'
<1> USE DEF IndInv
<1>1. ASSUME Refuse PROVE IndInv'
  <2> USE <1>1 DEF Refuse, poller, server
  <2>1. TypeOK'
    BY DEF TypeOK, Outcomes
  <2>2. LocalInv' /\ TokensBelongToOwner' /\ SessionInv' /\ PollInv'
    BY DEF LocalInv, TokensBelongToOwner, SessionInv, SessionIsOwn,
           RedeemsConfirmed, PollInv
  <2>3. ChallengeInv'
    <3>1. \A i \in DOMAIN auths : auths[i] \in Session
      BY DEF TypeOK
    <3>2. \A i \in DOMAIN auths : auths[i].call <= calls + 1
      BY <3>1 DEF TypeOK, ChallengeInv, Session
    <3> QED
      BY <3>2 DEF ChallengeInv, ChallengeUsedByOneCall
  <2> QED
    BY <2>1, <2>2, <2>3
<1>2. ASSUME NEW step \in {"challenge", "refresh"}, NEW local \in Locals,
             Start(step, local),
             local.chal = 0,
             step = "challenge" => local.kind # "refresh" /\ local.nip \in Nips,
             step = "refresh" => local.kind = "refresh" /\ tokens # 0
      PROVE  IndInv'
  <2> USE <1>2 DEF Start, poller, server
  <2>1. TypeOK'
    BY DEF TypeOK, Outcomes, Steps
  <2>2. LocalInv' /\ TokensBelongToOwner' /\ PollInv'
    BY DEF LocalInv, TokensBelongToOwner, PollInv, TypeOK
  <2>3. SessionInv'
    BY DEF SessionInv, SessionIsOwn, RedeemsConfirmed
  <2>4. ChallengeInv'
    <3>1. \A i \in DOMAIN auths : auths[i] \in Session
      BY DEF TypeOK
    <3>2. \A i \in DOMAIN auths : auths[i].call <= calls + 1
      BY <3>1 DEF TypeOK, ChallengeInv, Session
    <3> QED
      BY <3>2 DEF ChallengeInv, ChallengeUsedByOneCall
  <2> QED
    BY <2>1, <2>2, <2>3, <2>4
<1>3. ASSUME NEW arg \in Nips \cup {NoNip}, BeginToken(arg) PROVE IndInv'
  <2> DEFINE local == [NoCall EXCEPT !.kind = "token", !.nip = EffectiveNip(arg)]
  <2>1. EffectiveNip(arg) \in Nips \cup {NoNip}
    BY NipsAssumption DEF EffectiveNip
  <2>2. CASE EffectiveNip(arg) = NoNip
    BY <1>1, <1>3, <2>2 DEF BeginToken
  <2>3. CASE EffectiveNip(arg) # NoNip
    BY <1>2, <1>3, <2>1, <2>3 DEF BeginToken, NoCall, Kinds, Locals
  <2> QED
    BY <2>2, <2>3
<1>4. ASSUME NEW arg \in Nips \cup {NoNip}, NEW signer \in Signers,
             NEW bySubject \in BOOLEAN, BeginCertificate(arg, signer, bySubject)
      PROVE  IndInv'
  <2>1. /\ EffectiveNip(arg) \in Nips \cup {NoNip}
        /\ signer \in Nips \cup {NoNip}
    BY NipsAssumption DEF EffectiveNip
  <2> DEFINE nip == EffectiveNip(arg)
             local == [NoCall EXCEPT !.kind = "certificate", !.nip = nip,
                                     !.signer = signer]
  <2>2. CASE nip = NoNip \/ CertRefused(nip, signer, bySubject)
    BY <1>1, <1>4, <2>2 DEF BeginCertificate
  <2>3. CASE ~(nip = NoNip \/ CertRefused(nip, signer, bySubject))
    <3>1. Start("challenge", local)
      BY <1>4, <2>3 DEF BeginCertificate
    <3> QED
      BY <1>2, <2>1, <2>3, <3>1 DEF NoCall, Kinds, Locals
  <2> QED
    BY <2>2, <2>3
<1>5. CASE BeginRefresh
  BY <1>1, <1>2, <1>5 DEF BeginRefresh, NoCall, Kinds, Locals
<1> QED
  BY <1>3, <1>4, <1>5 DEF Begin

\* The server's decision changes nothing but a pending status.
LEMMA DecideStep ==
  ASSUME IndInv, NEW i \in DOMAIN auths, NEW code \in {Accepted, Denied}, Decide(i, code)
  PROVE  IndInv'
<1> USE DEF IndInv
<1>1. \A j \in DOMAIN auths : auths[j] \in Session
  BY DEF TypeOK
<1>2. auths' = [auths EXCEPT ![i].status = code] /\ auths[i].status = Pending
  BY DEF Decide
<1>3. DOMAIN auths' = DOMAIN auths /\ auths' \in Seq(Session)
  <2> DEFINE new == [auths[i] EXCEPT !.status = code]
  <2>1. new \in Session
    BY <1>1 DEF Session
  <2>2. auths' = [auths EXCEPT ![i] = new]
    BY <1>2
  <2>3. auths \in Seq(Session)
    BY DEF TypeOK
  <2> HIDE DEF new
  <2> QED
    BY <2>1, <2>2, <2>3
<1>4. \A j \in DOMAIN auths :
        /\ auths'[j].nip = auths[j].nip /\ auths'[j].signer = auths[j].signer
        /\ auths'[j].chal = auths[j].chal /\ auths'[j].call = auths[j].call
        /\ auths[j].status # Pending => auths'[j].status = auths[j].status
  BY <1>1, <1>2 DEF Session
<1>5. UNCHANGED <<tokens, pc, hs, attempt, seen, elapsed, polls, outcome, failure,
                  owner, calls, challenges, issued>>
  BY DEF Decide, poller
<1>6. TypeOK'
  BY <1>3, <1>5 DEF TypeOK
<1>7. LocalInv' /\ TokensBelongToOwner' /\ PollInv'
  BY <1>5 DEF LocalInv, TokensBelongToOwner, PollInv
<1>8. SessionInv'
  BY <1>3, <1>4, <1>5 DEF SessionInv, SessionIsOwn, RedeemsConfirmed, Accepted, Pending
<1>9. ChallengeInv'
  BY <1>3, <1>4, <1>5 DEF ChallengeInv, ChallengeUsedByOneCall
<1> QED
  BY <1>6, <1>7, <1>8, <1>9

\* A request that fails is tried again or ends the call.
LEMMA TroubleStep == ASSUME IndInv, Trouble PROVE IndInv'
<1> USE DEF IndInv
<1>1. ASSUME NEW h \in BOOLEAN, NEW s \in Failures, Fail(s, h) PROVE IndInv'
  <2>1. pc \in Steps /\ MayHandle(h) /\ failure' = s /\ UNCHANGED <<tokens, owner, calls>>
    BY <1>1 DEF Fail
  <2>2. Grows
    BY <2>1, HandleGrows
  <2>3. CASE RetriesStep(s)
    <3>1. attempt' = attempt + 1 /\ UNCHANGED <<pc, hs, poller, outcome>>
      BY <1>1, <2>3 DEF Fail
    <3>2. attempt' \in Nat
      BY <3>1 DEF TypeOK
    <3> QED
      BY <2>1, <2>2, <3>1, <3>2, RetryStep
  <2>4. CASE ~RetriesStep(s)
    <3>1. attempt' = attempt /\ (Finish("http_error") \/ Finish("foreign"))
      BY <1>1, <2>4 DEF Fail
    <3>2. attempt' \in Nat
      BY <3>1 DEF TypeOK
    <3> QED
      BY <2>1, <2>2, <3>1, <3>2, EndStep DEF Outcomes
  <2> QED
    BY <2>3, <2>4
<1>2. ASSUME NEW h \in BOOLEAN, Escape(h) PROVE IndInv'
  <2>1. /\ pc \in Steps /\ MayHandle(h) /\ Finish("foreign")
        /\ UNCHANGED <<tokens, attempt, failure, owner, calls>>
    BY <1>2 DEF Escape
  <2>2. Grows
    BY <2>1, HandleGrows
  <2>3. attempt' \in Nat /\ failure' \in Failures \cup {0}
    BY <2>1 DEF TypeOK
  <2> QED
    BY <2>1, <2>2, <2>3, EndStep DEF Outcomes
<1> QED
  BY <1>1, <1>2 DEF Trouble

\* A call that gives up without a request leaves the server alone.
LEMMA GiveUpStep == ASSUME IndInv, NoKey \/ Rejected \/ TimeOut PROVE IndInv'
<1>1. /\ UNCHANGED <<tokens, attempt, failure, owner, calls, server>>
      /\ Finish("client_error") \/ Finish("auth_error") \/ Finish("timeout")
  BY DEF NoKey, Rejected, TimeOut, GivesUp
<1>2. Grows
  BY <1>1, UnchangedGrows DEF IndInv
<1>3. attempt' \in Nat /\ failure' \in Failures \cup {0}
  BY <1>1 DEF IndInv, TypeOK
<1> QED
  BY <1>1, <1>2, <1>3, EndStep DEF Outcomes

\* Storing the challenge or the reference changes no other local.
LEMMA LocalsUpdate ==
  ASSUME NEW l \in Locals, NEW n \in Nat
  PROVE  /\ [l EXCEPT !.chal = n] \in Locals /\ [l EXCEPT !.chal = n].chal = n
         /\ [l EXCEPT !.ref = n] \in Locals /\ [l EXCEPT !.ref = n].ref = n
         /\ [l EXCEPT !.ref = n].chal = l.chal
         /\ \A m \in {[l EXCEPT !.chal = n], [l EXCEPT !.ref = n]} :
              /\ m.kind = l.kind /\ m.nip = l.nip /\ m.signer = l.signer
  BY DEF Locals

\* A fresh challenge is newer than that of any session.
LEMMA ChallengeStep ==
  ASSUME IndInv, NEW step \in {"key", "submit"}, GetChallenge(step)
  PROVE  IndInv'
<1> USE DEF IndInv
<1>1. /\ challenges' = challenges + 1 /\ UNCHANGED <<auths, issued>>
      /\ hs' = [hs EXCEPT !.chal = challenges + 1]
      /\ pc = "challenge" /\ pc' = step /\ attempt' = 0
      /\ UNCHANGED <<tokens, outcome, failure, owner, calls, seen, elapsed, polls>>
  BY DEF GetChallenge, TakenChallenge, IssueChallenge, Advance, poller
<1>2. /\ hs'.kind = hs.kind /\ hs'.nip = hs.nip /\ hs'.signer = hs.signer
      /\ hs'.chal = challenges + 1
      /\ hs' \in Locals
  <2>1. hs \in Locals /\ challenges + 1 \in Nat
    BY DEF TypeOK
  <2> QED
    BY <1>1, <2>1, LocalsUpdate
<1>3. challenges \in Nat /\ calls \in Nat
  BY DEF TypeOK
<1>4. \A i \in DOMAIN auths : auths[i].call \in Nat /\ auths[i].chal \in Nat
  <2>1. \A i \in DOMAIN auths : auths[i] \in Session
    BY DEF TypeOK
  <2> QED
    BY <2>1 DEF Session
<1>5. TypeOK'
  BY <1>1, <1>2, <1>3 DEF TypeOK, Steps
<1>6. LocalInv'
  <2>1. challenges' = challenges + 1 /\ hs'.chal <= challenges'
    BY <1>1, <1>2, <1>3
  <2> QED
    BY <1>1, <1>2, <2>1 DEF LocalInv
<1>7. TokensBelongToOwner' /\ PollInv'
  BY <1>1 DEF TokensBelongToOwner, PollInv
<1>8. SessionInv'
  BY <1>1 DEF SessionInv, SessionIsOwn, RedeemsConfirmed
<1>9. ChallengeInv'
  <2>1. \A i \in DOMAIN auths : auths[i].call <= calls /\ auths[i].chal <= challenges + 1
    BY <1>3, <1>4 DEF ChallengeInv
  <2>2. \A i \in DOMAIN auths : auths[i].chal # challenges + 1
    BY <1>3, <1>4 DEF ChallengeInv
  <2> QED
    BY <1>1, <1>2, <2>1, <2>2 DEF ChallengeInv, ChallengeUsedByOneCall
<1> QED
  BY <1>5, <1>6, <1>7, <1>8, <1>9

\* The session just created is the call's own.
LEMMA SubmitStep == ASSUME IndInv, Submit PROVE IndInv'
<1> USE DEF IndInv
<1>1. /\ pc = "submit" /\ pc' = "poll" /\ attempt' = 0
      /\ hs' = [hs EXCEPT !.ref = Len(auths')]
      /\ elapsed' = 0
      /\ UNCHANGED <<tokens, outcome, failure, owner, calls, seen, polls>>
  BY DEF Submit, Reference, Advance
<1>2. /\ Grows /\ Len(auths') = Len(auths) + 1
      /\ auths'[Len(auths) + 1] = NewSession
  BY CreateGrows DEF Submit, Reference
<1>3. TokensBelongToOwner' /\ tokens' \in 0 .. Len(issued')
  BY <1>1, <1>2, GrowthKeepsTokens
<1>4. /\ \A i \in DOMAIN auths' :
           auths'[i].call <= calls' /\ auths'[i].chal <= challenges'
      /\ ChallengeUsedByOneCall'
  BY <1>1, <1>2, GrowthKeepsSessions
<1>5. /\ Len(auths) \in Nat /\ hs'.ref = Len(auths) + 1
      /\ Len(auths) + 1 \in DOMAIN auths'
      /\ hs'.kind = hs.kind /\ hs'.nip = hs.nip /\ hs'.signer = hs.signer
      /\ hs'.chal = hs.chal
      /\ hs' \in Locals
  <2>1. hs \in Locals /\ Len(auths) \in Nat
    BY DEF TypeOK
  <2>2. hs' = [hs EXCEPT !.ref = Len(auths) + 1] /\ Len(auths) + 1 \in Nat
    BY <1>1, <1>2, <2>1
  <2>3. Len(auths) + 1 \in DOMAIN auths'
    BY <1>2, <2>1 DEF Grows
  <2> QED
    BY <2>1, <2>2, <2>3, LocalsUpdate
<1>6. TypeOK'
  BY <1>1, <1>2, <1>3, <1>5, BoundsAssumption DEF TypeOK, Grows, Steps
<1>7. LocalInv'
  <2>1. hs.chal <= challenges'
    BY <1>2 DEF LocalInv, Grows, TypeOK, Locals
  <2> QED
    BY <1>1, <1>5, <2>1 DEF LocalInv
<1>8. SessionInv'
  BY <1>1, <1>2, <1>5 DEF SessionInv, SessionIsOwn, RedeemsConfirmed, NewSession
<1>9. ChallengeInv'
  BY <1>1, <1>4 DEF ChallengeInv
<1>10. PollInv'
  BY <1>1 DEF PollInv
<1> QED
  BY <1>3, <1>4, <1>6, <1>7, <1>8, <1>9, <1>10

\* Steps that touch neither server nor tokens and change only where the call is
\* and what it has seen.
LEMMA LocalStep ==
  ASSUME IndInv, FetchKey \/ Poll \/ Confirmed \/ Pause PROVE IndInv'
<1> USE DEF IndInv
<1>1. /\ UNCHANGED <<tokens, outcome, failure, owner, calls, hs, server>>
      /\ attempt' = 0
      /\ pc' \in {"submit", "judge", "redeem", "poll"}
  BY DEF FetchKey, Poll, Confirmed, Pause, AfterPause, Advance
<1>2. TokensBelongToOwner'
  BY <1>1 DEF TokensBelongToOwner, server
<1>3. LocalInv'
  <2>1. pc \notin {"idle", "refresh"} /\ challenges' = challenges
    BY <1>1 DEF FetchKey, Poll, Confirmed, Pause, AfterPause, server
  <2> QED
    BY <1>1, <2>1 DEF LocalInv
<1>4. ChallengeInv'
  BY <1>1 DEF ChallengeInv, ChallengeUsedByOneCall, server, FetchKey, Poll,
              Confirmed, Pause, AfterPause, Advance
<1>5. CASE FetchKey
  <2>1. UNCHANGED <<seen, elapsed, polls>> /\ pc = "key" /\ pc' = "submit"
    BY <1>5 DEF FetchKey, poller, Advance
  <2>2. TypeOK'
    BY <1>1, <2>1 DEF TypeOK, Steps, server
  <2>3. SessionInv' /\ PollInv'
    BY <2>1 DEF SessionInv, SessionIsOwn, RedeemsConfirmed, PollInv
  <2> QED
    BY <1>2, <1>3, <1>4, <2>2, <2>3
<1>6. CASE Poll
  <2>1. /\ pc = "poll" /\ pc' = "judge" /\ seen' = auths[hs.ref].status
        /\ polls' \in {polls, polls + 1}
    BY <1>6 DEF Poll, Advance
  <2>2. PICK e \in elapsed .. (Timeout + 1) : elapsed' = e
    BY <1>6 DEF Poll
  <2>3. /\ polls \in Nat /\ elapsed \in 0 .. (Timeout + 1) /\ polls <= elapsed
        /\ Timeout \in Nat
    BY <2>1, BoundsAssumption DEF TypeOK, PollInv
  <2>4. e \in 0 .. (Timeout + 1) /\ polls <= e + 1 /\ polls + 1 <= e + 1
    BY <2>2, <2>3
  <2>5. auths[hs.ref].status \in {Pending, Accepted, Denied}
    <3>1. hs.ref \in DOMAIN auths /\ auths \in Seq(Session)
      BY <2>1 DEF SessionInv, SessionIsOwn, TypeOK
    <3>2. auths[hs.ref] \in Session
      BY <3>1
    <3> QED
      BY <3>2 DEF Session
  <2>6. TypeOK'
    BY <1>1, <2>1, <2>2, <2>3, <2>4, <2>5 DEF TypeOK, Steps, server
  <2>7. SessionInv'
    BY <1>1, <2>1, <2>5 DEF SessionInv, SessionIsOwn, RedeemsConfirmed, server,
                            Pending, Accepted, Denied
  <2>8. PollInv'
    <3>1. polls' <= e + 1
      BY <2>1, <2>4
    <3> QED
      BY <2>1, <2>2, <3>1 DEF PollInv
  <2> QED
    BY <1>2, <1>3, <1>4, <2>6, <2>7, <2>8
<1>7. CASE Confirmed
  <2>1. /\ pc = "judge" /\ pc' = "redeem" /\ seen = Accepted
        /\ UNCHANGED <<seen, elapsed, polls>>
    BY <1>7 DEF Confirmed, Advance, poller
  <2>2. TypeOK'
    BY <1>1, <2>1 DEF TypeOK, Steps, server
  <2>3. SessionInv'
    BY <1>1, <2>1 DEF SessionInv, SessionIsOwn, RedeemsConfirmed, server,
                      Accepted, Pending
  <2>4. PollInv'
    BY <2>1 DEF PollInv
  <2> QED
    BY <1>2, <1>3, <1>4, <2>2, <2>3, <2>4
<1>8. CASE Pause
  <2>1. pc = "judge" /\ pc' = "poll" /\ UNCHANGED <<seen, polls>>
    BY <1>8 DEF Pause, AfterPause, Advance
  <2>2. PICK e \in (elapsed + 1) .. (Timeout + 1) : elapsed' = e
    BY <1>8 DEF Pause, AfterPause
  <2>3. /\ polls \in Nat /\ elapsed \in 0 .. (Timeout + 1) /\ polls <= elapsed + 1
        /\ Timeout \in Nat
    BY <2>1, BoundsAssumption DEF TypeOK, PollInv
  <2>4. e \in 0 .. (Timeout + 1) /\ polls <= e
    BY <2>2, <2>3
  <2>5. TypeOK'
    BY <1>1, <2>1, <2>2, <2>4 DEF TypeOK, Steps, server
  <2>6. SessionInv'
    BY <1>1, <2>1 DEF SessionInv, SessionIsOwn, RedeemsConfirmed, server
  <2>7. PollInv'
    BY <2>1, <2>2, <2>4 DEF PollInv
  <2> QED
    BY <1>2, <1>3, <1>4, <2>5, <2>6, <2>7
<1> QED
  BY <1>5, <1>6, <1>7, <1>8

\* A call that succeeds stores the pair just issued, and it is the owner's.
LEMMA SuccessStep == ASSUME IndInv, Redeem \/ Refresh PROVE IndInv'
<1> USE DEF IndInv
<1> DEFINE nip == IF pc = "redeem" THEN hs.nip ELSE owner
<1>1. /\ IssueTokens(nip) /\ nip \in Nips /\ owner' = nip
      /\ tokens' = Len(issued') /\ Finish("ok")
      /\ UNCHANGED <<attempt, failure, calls>>
  <2>1. CASE Redeem
    BY <2>1 DEF Redeem, Stored, SessionInv, SessionIsOwn, LocalInv
  <2>2. CASE Refresh
    <3>1. pc = "refresh" /\ tokens # 0 /\ issued[tokens] = owner
      BY <2>2 DEF Refresh, Stored, LocalInv, TokensBelongToOwner
    <3>2. issued[tokens] \in Nips
      BY <3>1 DEF TypeOK
    <3> QED
      BY <2>2, <3>1, <3>2 DEF Refresh, Stored
  <2> QED
    BY <2>1, <2>2
<1> HIDE DEF nip
<1>2. Grows /\ Len(issued') \in Nat \ {0} /\ issued'[Len(issued')] = nip
  BY <1>1, IssueGrows
<1>3. /\ \A i \in DOMAIN auths' :
           auths'[i].call <= calls' /\ auths'[i].chal <= challenges'
      /\ ChallengeUsedByOneCall'
  BY <1>1, <1>2, GrowthKeepsSessions
<1>4. /\ pc' = "idle" /\ outcome' = "ok" /\ hs' = NoCall
      /\ seen' = 0 /\ elapsed' = 0 /\ polls' = 0
  BY <1>1 DEF Finish
<1>5. TypeOK'
  BY <1>1, <1>2, <1>4, BoundsAssumption DEF TypeOK, Grows, NoCall, Kinds, Locals, Outcomes
<1>6. TokensBelongToOwner'
  BY <1>1, <1>2 DEF TokensBelongToOwner
<1>7. LocalInv'
  BY <1>4, <1>5 DEF LocalInv, NoCall, TypeOK
<1>8. SessionInv' /\ PollInv'
  BY <1>4 DEF SessionInv, SessionIsOwn, RedeemsConfirmed, PollInv
<1>9. ChallengeInv'
  BY <1>3, <1>4 DEF ChallengeInv
<1> QED
  BY <1>3, <1>5, <1>6, <1>7, <1>8, <1>9

\* Every step keeps the inductive invariant.
LEMMA NextStep == ASSUME IndInv, [Next]_vars PROVE IndInv'
<1>1. CASE Begin
  BY <1>1, BeginStep
<1>2. CASE Trouble
  BY <1>2, TroubleStep
<1>3. CASE Progress
  <2>1. \A step \in {"key", "submit"} : GetChallenge(step) => IndInv'
    BY ChallengeStep
  <2> QED
    BY <1>3, <2>1, LocalStep, GiveUpStep, SubmitStep, SuccessStep DEF Progress
<1>4. CASE \E i \in DOMAIN auths, code \in {Accepted, Denied} : Decide(i, code)
  BY <1>4, DecideStep
<1>5. CASE UNCHANGED vars
  BY <1>5 DEF vars, poller, server, IndInv, TypeOK, LocalInv, TokensBelongToOwner,
              SessionInv, SessionIsOwn, RedeemsConfirmed, ChallengeInv,
              ChallengeUsedByOneCall, PollInv
<1> QED
  BY <1>1, <1>2, <1>3, <1>4, <1>5 DEF Next, Client

\* The inductive invariant holds throughout.
LEMMA Invariance == Spec => []IndInv
<1>1. IndInv /\ [Next]_vars => IndInv'
  BY NextStep
<1> QED
  BY InitIndInv, <1>1, PTL DEF Spec
--------------------------------------------------------------------------------
(* The theorems. *)

\* The client's and the server's variables keep their types through every
\* authentication and refresh (client.py:209-393).
THEOREM TypeCorrect == Spec => []TypeOK
  BY Invariance, PTL DEF IndInv

\* The tokens in hand always belong to the taxpayer of the latest successful
\* authentication (client.py:285, 295, 392).
THEOREM TokensBelongToOwnerHolds == Spec => []TokensBelongToOwner
  BY Invariance, PTL DEF IndInv

\* The session polled and redeemed is the one the call created for its own
\* taxpayer and challenge (client.py:239-284, 343-391).
THEOREM SessionIsOwnHolds == Spec => []SessionIsOwn
  BY Invariance, PTL DEF IndInv, SessionInv

\* Only confirmed sessions are redeemed (client.py:271-284, 380-391).
THEOREM RedeemsConfirmedHolds == Spec => []RedeemsConfirmed
  BY Invariance, PTL DEF IndInv, SessionInv

\* No two calls use one challenge (client.py:227, 332).
THEOREM ChallengeUsedByOneCallHolds == Spec => []ChallengeUsedByOneCall
  BY Invariance, PTL DEF IndInv, ChallengeInv

\* The wait for the server's decision makes at most Timeout + 2 polls
\* (client.py:260-279, 373-386).
THEOREM PollsBoundedHolds == Spec => []PollsBounded
<1>1. IndInv => PollsBounded
  BY BoundsAssumption DEF IndInv, TypeOK, PollInv, PollsBounded, Steps
<1> QED
  BY Invariance, <1>1, PTL

--------------------------------------------------------------------------------
(* How many sessions a call leaves at the server. *)

\* While a call may still create sessions, it has created at most one for every
\* attempt it counted; the direct post is never counted twice.
Quota ==
  /\ pc # "idle" => attempt <= MaxRetries
  /\ pc \in {"challenge", "key"} => SessionsOf(calls) = {}
  /\ pc = "submit" =>
       /\ Cardinality(SessionsOf(calls)) <= attempt
       /\ hs.kind = "certificate" => attempt = 0
       /\ hs.kind = "token" => SessionsOf(calls) \cap Signed = {}
  /\ SessionsPerCall

\* The steps that neither add a session nor touch what it was asked for with.
SameSessions ==
  /\ DOMAIN auths' = DOMAIN auths
  /\ \A i \in DOMAIN auths :
       auths'[i].call = auths[i].call /\ auths'[i].sealed = auths[i].sealed

\* The sessions of a call are finitely many.
LEMMA SessionsFinite ==
  ASSUME TypeOK, NEW c
  PROVE  IsFiniteSet(SessionsOf(c)) /\ Cardinality(SessionsOf(c)) \in Nat
<1>1. DOMAIN auths = 1 .. Len(auths) /\ Len(auths) \in Nat
  BY DEF TypeOK
<1>2. IsFiniteSet(DOMAIN auths)
  BY <1>1, FS_Interval
<1>3. SessionsOf(c) \in SUBSET DOMAIN auths
  BY DEF SessionsOf
<1> QED
  BY <1>2, <1>3, FS_Subset, FS_CardinalityType

\* No session is numbered for a call that has not begun.
LEMMA NoFutureSessions == ASSUME TypeOK, ChallengeInv PROVE SessionsOf(calls + 1) = {}
<1>1. \A i \in DOMAIN auths : auths[i] \in Session
  BY DEF TypeOK
<1>2. \A i \in DOMAIN auths : auths[i].call # calls + 1
  BY <1>1 DEF TypeOK, ChallengeInv, Session
<1> QED
  BY <1>2 DEF SessionsOf

\* Where no session is added the count of every call stays.
LEMMA SameSessionsKeep ==
  ASSUME SameSessions
  PROVE  /\ \A c : SessionsOf(c)' = SessionsOf(c)
         /\ Signed' = Signed
  BY DEF SameSessions, SessionsOf, Signed

\* A session added by the call at hand is within its quota.
LEMMA AddedSession ==
  ASSUME TypeOK, LocalInv, ChallengeInv, Quota, pc = "submit",
         auths' = Append(auths, NewSession), calls' = calls
  PROVE  /\ SessionsPerCall'
         /\ Cardinality(SessionsOf(calls)') <= attempt + 1
         /\ hs.kind = "token" => SessionsOf(calls)' \cap Signed' = {}
<1> DEFINE new == Len(auths) + 1
<1>1. /\ Len(auths) \in Nat /\ DOMAIN auths = 1 .. Len(auths)
      /\ DOMAIN auths' = 1 .. new
      /\ \A i \in DOMAIN auths : auths'[i] = auths[i]
      /\ auths'[new] = NewSession
  <2>1. NewSession \in Session /\ auths \in Seq(Session)
    BY NewSessionType DEF TypeOK
  <2> QED
    BY <2>1, AppendFacts
<1>2. DOMAIN auths' = DOMAIN auths \cup {new} /\ new \notin DOMAIN auths
  BY <1>1
<1>3. NewSession.call = calls /\ (hs.kind = "token" => NewSession.sealed # "nothing")
  BY DEF NewSession, Sealed
<1> HIDE DEF new
<1>4. SessionsOf(calls)' = SessionsOf(calls) \cup {new}
  BY <1>1, <1>2, <1>3 DEF SessionsOf
<1>5. \A c : c # calls => SessionsOf(c)' = SessionsOf(c)
  BY <1>1, <1>2, <1>3 DEF SessionsOf
<1>6. /\ IsFiniteSet(SessionsOf(calls)) /\ Cardinality(SessionsOf(calls)) \in Nat
      /\ new \notin SessionsOf(calls)
  BY <1>2, SessionsFinite DEF SessionsOf
<1>7. Cardinality(SessionsOf(calls)') = Cardinality(SessionsOf(calls)) + 1
  BY <1>4, <1>6, FS_AddElement
<1>8. attempt \in Nat /\ MaxRetries \in Nat /\ attempt <= MaxRetries
  BY MaxRetriesAssumption DEF TypeOK, Quota
<1>9. Cardinality(SessionsOf(calls)') <= attempt + 1
  BY <1>6, <1>7, <1>8 DEF Quota
<1>10. hs.kind = "token" => SessionsOf(calls)' \cap Signed' = {}
  <2> SUFFICES ASSUME hs.kind = "token", NEW i \in SessionsOf(calls)'
               PROVE  i \notin Signed'
    OBVIOUS
  <2>1. CASE i = new
    BY <1>1, <1>3, <2>1 DEF Signed
  <2>2. CASE i \in SessionsOf(calls)
    BY <1>1, <2>2 DEF Quota, SessionsOf, Signed
  <2> QED
    BY <1>4, <2>1, <2>2
<1>11. hs.kind # "token" => Cardinality(SessionsOf(calls)') = 1
  <2>1. hs.kind # "token" => hs.kind = "certificate"
    BY DEF TypeOK, LocalInv, Locals, Kinds
  <2> QED
    BY <1>6, <1>7, <2>1 DEF Quota
<1>12. SessionsPerCall'
  <2> SUFFICES ASSUME NEW c \in 1 .. calls
               PROVE  /\ Cardinality(SessionsOf(c)') <= MaxRetries + 1
                      /\ SessionsOf(c)' \cap Signed' # {}
                           => Cardinality(SessionsOf(c)') = 1
    BY DEF SessionsPerCall
  <2>1. CASE c = calls
    <3>1. Cardinality(SessionsOf(calls)') <= MaxRetries + 1
      BY <1>6, <1>7, <1>8, <1>9
    <3>2. SessionsOf(calls)' \cap Signed' # {}
            => Cardinality(SessionsOf(calls)') = 1
      BY <1>10, <1>11
    <3>3. SessionsOf(c)' = SessionsOf(calls)'
      BY <2>1 DEF SessionsOf
    <3> QED
      BY <3>1, <3>2, <3>3
  <2>2. CASE c # calls
    <3>1. SessionsOf(c)' = SessionsOf(c)
      BY <1>5, <2>2
    <3>2. SessionsOf(c) \cap Signed' = SessionsOf(c) \cap Signed
      BY <1>1, <1>2 DEF SessionsOf, Signed
    <3> QED
      BY <3>1, <3>2 DEF Quota, SessionsPerCall
  <2> QED
    BY <2>1, <2>2
<1> QED
  BY <1>9, <1>10, <1>12

\* The initial state is within the quota.
LEMMA InitQuota == Init => Quota
  BY DEF Init, Quota, SessionsPerCall

\* Where no session and no call is added every call stays within its quota.
LEMMA SameSessionsPerCall ==
  ASSUME SessionsPerCall, SameSessions, calls' = calls
  PROVE  SessionsPerCall'
<1> SUFFICES ASSUME NEW c \in 1 .. calls
             PROVE  /\ Cardinality(SessionsOf(c)') <= MaxRetries + 1
                    /\ SessionsOf(c)' \cap Signed' # {}
                         => Cardinality(SessionsOf(c)') = 1
  BY DEF SessionsPerCall
<1> QED
  BY SameSessionsKeep DEF SessionsPerCall

\* A new call has no sessions yet.
LEMMA QuotaBegin == ASSUME IndInv, Quota, Begin PROVE Quota'
<1> USE DEF IndInv
<1>1. /\ calls' = calls + 1 /\ attempt' = 0 /\ auths' = auths
      /\ pc' \in {"idle", "challenge", "refresh"}
  <2>1. CASE Refuse
    BY <2>1 DEF Refuse, server
  <2>2. CASE \E arg \in Nips \cup {NoNip} : BeginToken(arg)
    BY <2>1, <2>2 DEF BeginToken, Start, server, NoCall
  <2>3. CASE \E arg \in Nips \cup {NoNip}, signer \in Signers, bySubject \in BOOLEAN :
               BeginCertificate(arg, signer, bySubject)
    BY <2>1, <2>3 DEF BeginCertificate, Start, server, NoCall
  <2>4. CASE BeginRefresh
    BY <2>1, <2>4 DEF BeginRefresh, Start, server, NoCall
  <2> QED
    BY <2>2, <2>3, <2>4 DEF Begin
<1>2. SessionsOf(calls + 1) = {}
  BY NoFutureSessions
<1>3. calls \in Nat /\ MaxRetries \in Nat
  BY MaxRetriesAssumption DEF TypeOK
<1>4. (\A c : SessionsOf(c)' = SessionsOf(c)) /\ Signed' = Signed
  <2>1. SameSessions
    BY <1>1 DEF SameSessions
  <2> QED
    BY <2>1, SameSessionsKeep
<1>5. SessionsPerCall'
  <2>1. ASSUME NEW c \in 1 .. (calls + 1)
        PROVE  /\ Cardinality(SessionsOf(c)) <= MaxRetries + 1
               /\ SessionsOf(c) \cap Signed # {}
                    => Cardinality(SessionsOf(c)) = 1
    <3>1. CASE c = calls + 1
      BY <1>2, <1>3, <3>1, FS_EmptySet
    <3>2. CASE c # calls + 1
      <4>1. c \in 1 .. calls
        BY <1>3, <3>2
      <4> QED
        BY <4>1 DEF Quota, SessionsPerCall
    <3> QED
      BY <3>1, <3>2
  <2> QED
    BY <1>1, <1>4, <2>1 DEF SessionsPerCall
<1>6. SessionsOf(calls)' = {}
  BY <1>1, <1>2 DEF SessionsOf
<1> QED
  BY <1>1, <1>3, <1>5, <1>6 DEF Quota

\* A step of the server alone, of the call after its submission, or the end of
\* a call without a new session.
LEMMA QuotaSame ==
  ASSUME TypeOK, Quota, SameSessions, calls' = calls,
         pc' \notin {"challenge", "key", "submit"},
         pc' # "idle" => attempt' <= MaxRetries
  PROVE  Quota'
  BY SameSessionsPerCall DEF Quota

\* What the server carries out outside of a submission adds no session.
LEMMA HandleSame ==
  ASSUME TypeOK, NEW h \in BOOLEAN, pc \in Steps, pc # "submit", MayHandle(h)
  PROVE  SameSessions
  BY DEF MayHandle, Handle, IssueChallenge, IssueTokens, server, SameSessions, Steps

\* What it carries out of a submission adds one.
LEMMA HandleSubmit ==
  ASSUME NEW h \in BOOLEAN, pc = "submit", MayHandle(h)
  PROVE  SameSessions \/ auths' = Append(auths, NewSession)
  BY DEF MayHandle, Handle, CreateSession, server, SameSessions

\* A failed request that ends its call leaves it within its quota.
LEMMA QuotaEnd ==
  ASSUME IndInv, Quota, NEW h \in BOOLEAN, pc \in Steps, MayHandle(h), pc' = "idle",
         calls' = calls
  PROVE  Quota'
<1>1. SessionsPerCall'
  <2>1. CASE SameSessions
    BY <2>1, SameSessionsPerCall DEF Quota
  <2>2. CASE pc = "submit" /\ auths' = Append(auths, NewSession)
    BY <2>2, AddedSession DEF IndInv
  <2> QED
    BY <2>1, <2>2, HandleSame, HandleSubmit DEF IndInv
<1> QED
  BY <1>1 DEF Quota

\* A request that is tried again has used one attempt for its session.
LEMMA QuotaRetry ==
  ASSUME IndInv, Quota, NEW s \in Failures, NEW h \in BOOLEAN, Fail(s, h), RetriesStep(s)
  PROVE  Quota'
<1> USE DEF IndInv
<1>1. /\ pc \in Steps /\ MayHandle(h) /\ attempt' = attempt + 1
      /\ UNCHANGED <<pc, hs, calls>>
  BY DEF Fail
<1>2. /\ attempt \in Nat /\ MaxRetries \in Nat /\ attempt < MaxRetries
      /\ ~Direct
  BY MaxRetriesAssumption DEF RetriesStep, RetryAgain, TypeOK
<1>3. attempt + 1 <= MaxRetries
  BY <1>2
<1>4. CASE pc # "submit"
  <2>1. SameSessions
    BY <1>1, <1>4, HandleSame
  <2>2. SessionsPerCall' /\ SessionsOf(calls)' = SessionsOf(calls)
    BY <1>1, <2>1, SameSessionsPerCall, SameSessionsKeep DEF Quota
  <2>3. SessionsOf(calls') = SessionsOf(calls)
    BY <1>1
  <2>4. pc \in {"challenge", "key"} => SessionsOf(calls)' = {}
    BY <2>2 DEF Quota
  <2> QED
    BY <1>1, <1>3, <1>4, <2>2, <2>4 DEF Quota, SessionsOf
<1>5. CASE pc = "submit"
  <2>1. hs.kind = "token"
    BY <1>2, <1>5 DEF Direct, LocalInv, TypeOK, Locals, Kinds
  <2>2. /\ SessionsPerCall'
        /\ Cardinality(SessionsOf(calls)') <= attempt + 1
        /\ SessionsOf(calls)' \cap Signed' = {}
    <3>1. CASE SameSessions
      <4>1. SessionsOf(calls)' = SessionsOf(calls)
        BY <1>1, <3>1, SameSessionsKeep
      <4>2. Cardinality(SessionsOf(calls)) \in Nat
        BY SessionsFinite
      <4>3. Cardinality(SessionsOf(calls)) <= attempt + 1
        BY <1>2, <1>5, <4>2 DEF Quota
      <4>4. SessionsOf(calls)' \cap Signed' = {}
        BY <1>5, <2>1, <3>1, <4>1, SameSessionsKeep DEF Quota
      <4> QED
        BY <1>1, <3>1, <4>1, <4>3, <4>4, SameSessionsPerCall DEF Quota
    <3>2. CASE auths' = Append(auths, NewSession)
      BY <1>1, <1>5, <2>1, <3>2, AddedSession
    <3> QED
      BY <1>1, <1>5, <3>1, <3>2, HandleSubmit
  <2> QED
    BY <1>1, <1>3, <1>5, <2>1, <2>2 DEF Quota, SessionsOf
<1> QED
  BY <1>4, <1>5

\* Every step keeps every call within its quota.
LEMMA QuotaStep == ASSUME IndInv, Quota, [Next]_vars PROVE Quota'
<1> USE DEF IndInv
<1>1. CASE Begin
  BY <1>1, QuotaBegin
<1>2. ASSUME NEW h \in BOOLEAN, NEW s \in Failures, Fail(s, h) PROVE Quota'
  <2>1. CASE RetriesStep(s)
    BY <1>2, <2>1, QuotaRetry
  <2>2. CASE ~RetriesStep(s)
    <3>1. pc \in Steps /\ MayHandle(h) /\ pc' = "idle" /\ calls' = calls
      BY <1>2, <2>2 DEF Fail, Finish
    <3> QED
      BY <3>1, QuotaEnd
  <2> QED
    BY <2>1, <2>2
<1>3. ASSUME NEW h \in BOOLEAN, Escape(h) PROVE Quota'
  <2>1. pc \in Steps /\ MayHandle(h) /\ pc' = "idle" /\ calls' = calls
    BY <1>3 DEF Escape, Finish
  <2> QED
    BY <2>1, QuotaEnd
<1>4. ASSUME NEW step \in {"key", "submit"}, GetChallenge(step) PROVE Quota'
  <2>1. /\ pc = "challenge" /\ pc' = step /\ attempt' = 0 /\ calls' = calls
        /\ auths' = auths /\ hs' = [hs EXCEPT !.chal = challenges']
    BY <1>4 DEF GetChallenge, TakenChallenge, Advance, IssueChallenge
  <2>2. hs'.kind = hs.kind
    BY <2>1 DEF TypeOK, Locals
  <2>3. SessionsOf(calls)' = {} /\ SessionsPerCall'
    <3>1. SameSessions
      BY <2>1 DEF SameSessions
    <3> QED
      BY <2>1, <3>1, SameSessionsKeep, SameSessionsPerCall DEF Quota
  <2>4. Cardinality(SessionsOf(calls)') = 0
    BY <2>3, FS_EmptySet
  <2> QED
    BY <2>1, <2>2, <2>3, <2>4, MaxRetriesAssumption DEF Quota, SessionsOf
<1>5. CASE FetchKey
  <2>1. /\ pc = "key" /\ pc' = "submit" /\ attempt' = 0
        /\ UNCHANGED <<calls, auths, hs>>
    BY <1>5 DEF FetchKey, Advance, server
  <2>2. SessionsOf(calls)' = {} /\ SessionsPerCall'
    <3>1. SameSessions
      BY <2>1 DEF SameSessions
    <3> QED
      BY <2>1, <3>1, SameSessionsKeep, SameSessionsPerCall DEF Quota
  <2>3. Cardinality(SessionsOf(calls)') = 0
    BY <2>2, FS_EmptySet
  <2> QED
    BY <2>1, <2>2, <2>3, MaxRetriesAssumption DEF Quota, SessionsOf
<1>6. CASE Submit
  <2>1. /\ pc = "submit" /\ pc' = "poll" /\ calls' = calls /\ attempt' = 0
        /\ auths' = Append(auths, NewSession) /\ hs' = [hs EXCEPT !.ref = Len(auths')]
    BY <1>6 DEF Submit, Reference, Advance, CreateSession
  <2>2. hs'.kind = hs.kind
    BY <2>1 DEF TypeOK, Locals
  <2>3. SessionsPerCall'
    BY <2>1, AddedSession
  <2> QED
    BY <2>1, <2>2, <2>3, MaxRetriesAssumption DEF Quota
<1>7. CASE NoKey \/ Poll \/ Confirmed \/ Rejected \/ TimeOut \/ Pause
  <2>1. /\ auths' = auths /\ calls' = calls
        /\ pc' \in {"idle", "judge", "redeem", "poll"}
        /\ pc' # "idle" => attempt' = 0 /\ hs' = hs /\ pc # "idle"
    BY <1>7 DEF NoKey, Poll, Confirmed, Rejected, TimeOut, GivesUp, Pause,
        AfterPause, Finish, Advance, server
  <2>2. SameSessions
    BY <2>1 DEF SameSessions
  <2> QED
    BY <2>1, <2>2, QuotaSame, MaxRetriesAssumption DEF Quota
<1>8. CASE Redeem \/ Refresh
  <2>1. auths' = auths /\ calls' = calls /\ pc' = "idle"
    BY <1>8 DEF Redeem, Stored, Refresh, Finish, IssueTokens
  <2>2. SameSessions
    BY <2>1 DEF SameSessions
  <2> QED
    BY <2>1, <2>2, QuotaSame
<1>9. ASSUME NEW i \in DOMAIN auths, NEW code \in {Accepted, Denied}, Decide(i, code)
      PROVE  Quota'
  <2>1. UNCHANGED <<calls, pc, attempt, hs>> /\ auths' = [auths EXCEPT ![i].status = code]
    BY <1>9 DEF Decide
  <2>2. \A j \in DOMAIN auths : auths[j] \in Session
    BY DEF TypeOK
  <2>3. SameSessions
    BY <2>1, <2>2 DEF SameSessions, Session
  <2>4. SessionsOf(calls)' = SessionsOf(calls) /\ SessionsPerCall'
    BY <2>1, <2>3, SameSessionsKeep, SameSessionsPerCall DEF Quota
  <2>5. Signed' = Signed
    BY <2>3, SameSessionsKeep
  <2> QED
    BY <2>1, <2>4, <2>5 DEF Quota, SessionsOf
<1>10. CASE UNCHANGED vars
  BY <1>10 DEF vars, server, Quota, SessionsPerCall, SessionsOf, Signed
<1> QED
  BY <1>1, <1>2, <1>3, <1>4, <1>5, <1>6, <1>7, <1>8, <1>9, <1>10
  DEF Next, Client, Progress, Trouble

\* A call leaves at most MaxRetries + 1 authentication sessions at the server,
\* and just one if it posted a signed XML (client.py:145-155, 239, 343).
THEOREM SessionsPerCallHolds == Spec => []SessionsPerCall
<1>1. IndInv /\ Quota /\ [Next]_vars => Quota'
  BY QuotaStep
<1>2. Quota => SessionsPerCall
  BY DEF Quota
<1> QED
  BY Invariance, InitQuota, <1>1, <1>2, PTL DEF Spec

--------------------------------------------------------------------------------
(* Action properties and refinement. *)

\* A call times out only past its deadline with the session last seen pending,
\* and reports a rejection only of a session the server rejected
\* (client.py:271-278, 380-385).
THEOREM GivesUpHonestlyHolds == Spec => GivesUpHonestly
<1> DEFINE Honest ==
             /\ outcome' = "timeout" /\ pc # "idle" => seen = Pending /\ elapsed > Timeout
             /\ outcome' = "auth_error" /\ pc # "idle" => auths[hs.ref].status = Denied
<1>1. ASSUME IndInv, ~(UNCHANGED vars), Next PROVE Honest
  <2> SUFFICES ASSUME pc # "idle" PROVE Honest
    OBVIOUS
  <2>1. CASE outcome' \notin {"timeout", "auth_error"}
    BY <2>1
  <2>2. CASE TimeOut
    BY <2>2 DEF TimeOut, GivesUp, Finish
  <2>3. CASE Rejected
    <3>1. seen \in {0, Pending, Accepted, Denied} /\ seen # 0
      BY <1>1, <2>3 DEF Rejected, IndInv, TypeOK, SessionInv
    <3>2. auths[hs.ref].status = Denied
      BY <1>1, <2>3, <3>1 DEF Rejected, IndInv, SessionInv
    <3> QED
      BY <2>3, <3>2 DEF Rejected, Finish
  <2>4. CASE outcome' = outcome
    <3>1. outcome = "none"
      BY <1>1 DEF IndInv, LocalInv
    <3> QED
      BY <2>4, <3>1
  <2> QED
    BY <1>1, <2>1, <2>2, <2>3, <2>4
    DEF Next, Begin, BeginToken, BeginCertificate, BeginRefresh, Start, Refuse, Client,
        Trouble, Fail, Escape, Progress, GetChallenge, TakenChallenge, FetchKey,
        NoKey, Submit, Reference, Poll,
        Confirmed, Pause, AfterPause, Redeem, Stored, Refresh, Advance, Finish, Decide
<1>2. ASSUME IndInv, [Next]_vars PROVE [Honest]_vars
  BY <1>1, <1>2
<1> QED
  BY Invariance, <1>2, PTL DEF Spec, GivesUpHonestly

\* The client's tokens change only at a successful end of a call, and then to
\* the pair issued last (client.py:285-286, 295-296, 392-393).
THEOREM OnlySuccessChangesTokensHolds == Spec => OnlySuccessChangesTokens
<1>1. ASSUME Next, tokens' # tokens
      PROVE  outcome' = "ok" /\ pc' = "idle" /\ tokens' = Len(issued')
  <2>1. CASE Redeem \/ Refresh
    BY <2>1 DEF Redeem, Stored, Refresh, Finish
  <2>2. CASE ~(Redeem \/ Refresh)
    BY <1>1, <2>2
    DEF Next, Begin, BeginToken, BeginCertificate, BeginRefresh, Start, Refuse, Client,
        Trouble, Fail, Escape, Progress, GetChallenge, TakenChallenge, FetchKey,
        NoKey, Submit, Reference, Poll,
        Confirmed, Rejected, TimeOut, GivesUp, Pause, AfterPause, Advance, Decide
  <2> QED
    BY <2>1, <2>2
<1>2. [Next]_vars => [tokens' # tokens => /\ outcome' = "ok" /\ pc' = "idle"
                                          /\ tokens' = Len(issued')]_vars
  BY <1>1
<1> QED
  BY <1>2, PTL DEF Spec, OnlySuccessChangesTokens

\* While a call runs its goal is a taxpayer.
LEMMA GoalType == ASSUME IndInv, pc # "idle" PROVE Goal \in Nips
<1>1. CASE pc = "refresh"
  BY <1>1 DEF IndInv, LocalInv, TypeOK, Goal, Holder
<1>2. CASE pc # "refresh"
  BY <1>2 DEF IndInv, LocalInv, Goal
<1> QED
  BY <1>1, <1>2

\* A growing server does not change whom tokens in hand belong to.
LEMMA HolderStays == ASSUME TypeOK, Grows, tokens' = tokens PROVE Holder' = Holder
<1>1. tokens # 0 => tokens \in DOMAIN issued
  BY DEF TypeOK
<1> QED
  BY <1>1 DEF Holder, Grows

\* A call that ends without success is a failure of the abstract call.
LEMMA FailureMaps ==
  ASSUME IndInv, Grows, pc # "idle", pc' = "idle", tokens' = tokens
  PROVE  Abstract!Next
<1>1. Goal # NoNip
  BY GoalType, NipsAssumption
<1>2. Goal' = NoNip /\ Holder' = Holder
  BY HolderStays DEF IndInv, Goal
<1>3. Abstract!Fail
  BY <1>1, <1>2 DEF Abstract!Fail
<1> QED
  BY <1>3 DEF Abstract!Next

\* A step inside a call is a stutter of the abstract call.
LEMMA InsideMaps ==
  ASSUME IndInv, Grows, pc # "idle", pc' # "idle", tokens' = tokens,
         hs'.kind = hs.kind, hs'.nip = hs.nip
  PROVE  UNCHANGED Abstract!vars
<1>1. Holder' = Holder
  BY HolderStays DEF IndInv
<1>2. Goal' = Goal
  BY <1>1 DEF Goal
<1> QED
  BY <1>1, <1>2 DEF Abstract!vars

\* A successful end of a call makes its goal the holder.
LEMMA SuccessMaps == ASSUME IndInv, Redeem \/ Refresh PROVE Abstract!Next
<1>1. pc # "idle" /\ pc' = "idle" /\ tokens' = Len(issued')
  BY DEF Redeem, Stored, Refresh, Finish
<1>2. Goal \in Nips /\ Goal # NoNip /\ Goal' = NoNip
  BY <1>1, GoalType, NipsAssumption DEF Goal
<1>3. IssueTokens(Goal)
  <2>1. CASE Redeem
    BY <2>1 DEF Redeem, Stored, Goal, IndInv, SessionInv, SessionIsOwn, LocalInv
  <2>2. CASE Refresh
    BY <2>2 DEF Refresh, Stored, Goal, Holder, IndInv, LocalInv
  <2> QED
    BY <2>1, <2>2
<1>4. Len(issued') \in Nat \ {0} /\ issued'[Len(issued')] = Goal
  BY <1>2, <1>3, IssueGrows DEF IndInv
<1>5. Holder' = Goal
  BY <1>1, <1>4 DEF Holder
<1>6. Abstract!Succeed
  BY <1>2, <1>5 DEF Abstract!Succeed
<1> QED
  BY <1>6 DEF Abstract!Next

\* Beginning a call begins the abstract one; refusing it is a stutter.
LEMMA BeginMaps == ASSUME IndInv, IndInv', Begin PROVE [Abstract!Next]_Abstract!vars
<1>1. pc = "idle" /\ UNCHANGED <<tokens, issued>>
  BY DEF Begin, BeginToken, BeginCertificate, BeginRefresh, Start, Refuse, server
<1>2. Holder' = Holder /\ Goal = NoNip
  BY <1>1 DEF Holder, Goal
<1>3. CASE pc' = "idle"
  BY <1>2, <1>3 DEF Goal, Abstract!vars
<1>4. CASE pc' # "idle"
  <2>1. Goal' \in Nips
    <3>1. CASE pc' = "refresh"
      BY <1>1, <3>1 DEF IndInv, LocalInv, TypeOK, Goal, Holder
    <3>2. CASE pc' # "refresh"
      BY <1>4, <3>2 DEF IndInv, LocalInv, Goal
    <3> QED
      BY <3>1, <3>2
  <2>2. Abstract!Begin(Goal')
    BY <1>2 DEF Abstract!Begin
  <2> QED
    BY <2>1, <2>2 DEF Abstract!Next
<1> QED
  BY <1>3, <1>4

\* The calls refine Authentication, fairness apart: initial states map to initial
\* states, and every step is a step of the abstract calls or leaves them alone
\* (client.py:209-393).
THEOREM HandshakeRefinesAuthentication ==
  Spec => Abstract!Init /\ [][Abstract!Next]_Abstract!vars
<1>1. Init => Abstract!Init
  BY DEF Init, Abstract!Init, Holder, Goal
<1>2. ASSUME IndInv, IndInv', [Next]_vars PROVE [Abstract!Next]_Abstract!vars
  <2> USE <1>2
  <2>1. CASE Begin
    BY <2>1, BeginMaps
  <2>2. ASSUME NEW h \in BOOLEAN, NEW s \in Failures, Fail(s, h)
        PROVE  [Abstract!Next]_Abstract!vars
    <3>1. pc \in Steps /\ MayHandle(h) /\ tokens' = tokens /\ pc # "idle"
      BY <2>2 DEF Fail, Steps
    <3>2. Grows
      BY <3>1, HandleGrows DEF IndInv
    <3>3. pc' = "idle" \/ (pc' = pc /\ hs' = hs)
      BY <2>2 DEF Fail, Finish
    <3> QED
      BY <3>1, <3>2, <3>3, FailureMaps, InsideMaps
  <2>3. ASSUME NEW h \in BOOLEAN, Escape(h) PROVE [Abstract!Next]_Abstract!vars
    <3>1. /\ pc \in Steps /\ MayHandle(h) /\ tokens' = tokens
          /\ pc # "idle" /\ pc' = "idle"
      BY <2>3 DEF Escape, Finish, Steps
    <3>2. Grows
      BY <3>1, HandleGrows DEF IndInv
    <3> QED
      BY <3>1, <3>2, FailureMaps
  <2>4. ASSUME NEW step \in {"key", "submit"}, GetChallenge(step)
        PROVE  [Abstract!Next]_Abstract!vars
    <3>1. /\ pc # "idle" /\ pc' # "idle" /\ tokens' = tokens
          /\ IssueChallenge /\ hs' = [hs EXCEPT !.chal = challenges']
      BY <2>4 DEF GetChallenge, TakenChallenge, Advance
    <3>2. Grows
      BY <3>1 DEF IndInv, TypeOK, IssueChallenge, Grows
    <3>3. hs'.kind = hs.kind /\ hs'.nip = hs.nip
      BY <3>1 DEF IndInv, TypeOK, Locals
    <3> QED
      BY <3>1, <3>2, <3>3, InsideMaps
  <2>5. CASE Submit
    <3>1. /\ pc = "submit" /\ pc' # "idle" /\ tokens' = tokens
          /\ CreateSession /\ hs' = [hs EXCEPT !.ref = Len(auths')]
      BY <2>5 DEF Submit, Reference, Advance
    <3>2. Grows
      BY <3>1, CreateGrows DEF IndInv
    <3>3. hs'.kind = hs.kind /\ hs'.nip = hs.nip
      BY <3>1 DEF IndInv, TypeOK, Locals
    <3> QED
      BY <3>1, <3>2, <3>3, InsideMaps
  <2>6. CASE FetchKey \/ Poll \/ Confirmed \/ Pause
    <3>1. /\ pc # "idle" /\ pc' # "idle" /\ tokens' = tokens
          /\ hs' = hs /\ UNCHANGED server
      BY <2>6 DEF FetchKey, Poll, Confirmed, Pause, AfterPause, Advance
    <3> QED
      BY <3>1, UnchangedGrows, InsideMaps DEF IndInv
  <2>7. CASE NoKey \/ Rejected \/ TimeOut
    <3>1. pc # "idle" /\ pc' = "idle" /\ tokens' = tokens /\ UNCHANGED server
      BY <2>7 DEF NoKey, Rejected, TimeOut, GivesUp, Finish
    <3> QED
      BY <3>1, UnchangedGrows, FailureMaps DEF IndInv
  <2>8. CASE Redeem \/ Refresh
    BY <2>8, SuccessMaps
  <2>9. CASE (\E i \in DOMAIN auths, code \in {Accepted, Denied} : Decide(i, code))
             \/ UNCHANGED vars
    <3>1. UNCHANGED <<tokens, issued, pc, hs>>
      BY <2>9 DEF Decide, vars, server
    <3> QED
      BY <3>1 DEF Abstract!vars, Holder, Goal
  <2> QED
    BY <2>1, <2>2, <2>3, <2>4, <2>5, <2>6, <2>7, <2>8, <2>9
    DEF Next, Client, Progress, Trouble
<1> QED
  BY Invariance, <1>1, <1>2, PTL DEF Spec
--------------------------------------------------------------------------------
(* Every call is finite: CallEnds without its fairness. *)

\* The statements still ahead of the call, every poll with its judgement counted,
\* and the attempts left at this one.
Stage == CASE pc = "idle"                  -> 0
           [] pc \in {"redeem", "refresh"} -> 1
           [] pc \in {"poll", "judge"}     -> Timeout + 3 - elapsed
           [] pc = "submit"                -> Timeout + 4
           [] pc = "key"                   -> Timeout + 5
           [] pc = "challenge"             -> Timeout + 6

Tries == IF pc \in {"idle", "judge"} THEN 0 ELSE MaxRetries + 1 - attempt

StepsLeft == Stage * (MaxRetries + 2) + Tries

\* The loop of _request makes no attempt beyond its retries.
TriesLeft == attempt <= MaxRetries

LEMMA InitTriesLeft == Init => TriesLeft
  BY MaxRetriesAssumption DEF Init, TriesLeft

LEMMA TriesLeftStep == ASSUME TypeOK, TriesLeft, [Next]_vars PROVE TriesLeft'
<1> USE MaxRetriesAssumption
<1>1. CASE attempt' \in {attempt, 0}
  BY <1>1 DEF TriesLeft
<1>2. ASSUME NEW s \in Failures, NEW h \in BOOLEAN, Fail(s, h) PROVE TriesLeft'
  <2>1. CASE RetriesStep(s)
    BY <1>2, <2>1 DEF Fail, RetriesStep, RetryAgain, TypeOK, TriesLeft
  <2>2. CASE ~RetriesStep(s)
    BY <1>2, <2>2 DEF Fail, TriesLeft
  <2> QED BY <2>1, <2>2
<1>3. CASE Begin
  BY <1>1, <1>3 DEF Begin, BeginToken, BeginCertificate, BeginRefresh, Start, Refuse
<1>4. CASE Progress
  BY <1>1, <1>4 DEF Progress, GetChallenge, FetchKey, NoKey, Submit, Poll, Confirmed,
                    Rejected, TimeOut, Pause, Redeem, Refresh, Advance
<1>5. ASSUME NEW h \in BOOLEAN, Escape(h) PROVE TriesLeft'
  BY <1>1, <1>5 DEF Escape
<1>6. ASSUME NEW i \in DOMAIN auths, NEW code \in {Accepted, Denied}, Decide(i, code)
      PROVE  TriesLeft'
  BY <1>1, <1>6 DEF Decide
<1>7. CASE UNCHANGED vars
  BY <1>1, <1>7 DEF vars
<1> QED BY <1>2, <1>3, <1>4, <1>5, <1>6, <1>7 DEF Next, Client, Trouble

\* The range of the two counts, and what is always left at a request.
CountTypes ==
  /\ Stage \in 0 .. (Timeout + 6) /\ Tries \in 0 .. (MaxRetries + 1)
  /\ pc # "idle" => Stage >= 1
  /\ pc \in {"poll", "judge"} => Stage >= 2
  /\ pc \notin {"idle", "judge"} => Tries >= 1

LEMMA StepTypes == ASSUME TypeOK, TriesLeft PROVE CountTypes
<1> USE DEF CountTypes
<1>1. /\ pc \in {"challenge", "key", "submit", "poll", "redeem", "refresh", "idle", "judge"}
      /\ elapsed \in 0 .. (Timeout + 1) /\ attempt \in Nat /\ attempt <= MaxRetries
      /\ Timeout \in Nat /\ MaxRetries \in Nat
  BY MaxRetriesAssumption, BoundsAssumption DEF TypeOK, TriesLeft, Steps
<1>2. Tries \in 0 .. (MaxRetries + 1) /\ (pc \notin {"idle", "judge"} => Tries >= 1)
  BY <1>1 DEF Tries
<1>3. CASE pc \in {"poll", "judge"}
  <2>1. Stage = Timeout + 3 - elapsed
    BY <1>3 DEF Stage
  <2> QED BY <1>1, <1>2, <2>1
<1>4. CASE pc \notin {"poll", "judge"}
  <2>1. \/ pc = "idle" /\ Stage = 0
        \/ pc # "idle" /\ Stage \in {1, Timeout + 4, Timeout + 5, Timeout + 6}
    BY <1>1, <1>4 DEF Stage
  <2> QED BY <1>1, <1>2, <1>4, <2>1
<1> QED BY <1>3, <1>4

\* A step of the client passes a statement or uses up an attempt.
LEMMA ClientAdvances ==
  ASSUME TypeOK, CountTypes, CountTypes', Client
  PROVE  Stage' < Stage \/ (Stage' <= Stage /\ Tries' < Tries)
<1> USE MaxRetriesAssumption, BoundsAssumption
<1>1. /\ Stage \in 0 .. (Timeout + 6) /\ Tries \in 0 .. (MaxRetries + 1)
      /\ pc # "idle" => Stage >= 1
      /\ pc \in {"poll", "judge"} => Stage >= 2
      /\ pc \notin {"idle", "judge"} => Tries >= 1
      /\ Stage' \in 0 .. (Timeout + 6)
  BY DEF CountTypes
<1>2. ASSUME pc # "idle", pc' = "idle" PROVE Stage' < Stage
  <2>1. Stage' = 0
    BY <1>2 DEF Stage
  <2> QED BY <1>1, <1>2, <2>1
<1>3. ASSUME NEW s \in Failures, NEW h \in BOOLEAN, Fail(s, h)
      PROVE  Stage' < Stage \/ (Stage' <= Stage /\ Tries' < Tries)
  <2>1. CASE RetriesStep(s)
    <3>1. /\ pc' = pc /\ elapsed' = elapsed /\ attempt' = attempt + 1
          /\ pc \in Steps /\ attempt \in Nat
      BY <1>3, <2>1 DEF Fail, poller, TypeOK
    <3>2. Stage' = Stage
      BY <3>1 DEF Stage
    <3>3. Tries' < Tries
      BY <3>1 DEF Tries, Steps
    <3> QED BY <1>1, <3>2, <3>3
  <2>2. CASE ~RetriesStep(s)
    BY <1>2, <1>3, <2>2 DEF Fail, Finish, Steps
  <2> QED BY <2>1, <2>2
<1>4. ASSUME NEW h \in BOOLEAN, Escape(h) PROVE Stage' < Stage
  BY <1>2, <1>4 DEF Escape, Finish, Steps
<1>5. CASE NoKey \/ Rejected \/ TimeOut \/ Redeem \/ Refresh
  BY <1>2, <1>5 DEF NoKey, Rejected, TimeOut, Redeem, Refresh, Finish
<1>6. CASE (\E step \in {"key", "submit"} : GetChallenge(step)) \/ FetchKey
  BY <1>6 DEF GetChallenge, FetchKey, Advance, Stage
<1>7. CASE Submit
  BY <1>7 DEF Submit, Advance, Stage
<1>8. CASE Poll
  <2>1. pc = "poll" /\ pc' = "judge" /\ elapsed' >= elapsed
        /\ elapsed \in Nat /\ elapsed' \in Nat
    BY <1>8 DEF Poll, Advance, TypeOK
  <2>2. Stage' <= Stage
    BY <2>1 DEF Stage
  <2>3. Tries' < Tries
    BY <1>1, <2>1 DEF Tries
  <2> QED BY <2>2, <2>3
<1>9. CASE Confirmed
  <2>1. pc = "judge" /\ Stage' = 1
    BY <1>9 DEF Confirmed, Advance, Stage
  <2> QED BY <1>1, <2>1
<1>10. CASE Pause
  <2>1. pc = "judge" /\ pc' = "poll" /\ elapsed' \in (elapsed + 1) .. (Timeout + 1)
    BY <1>10 DEF Pause, AfterPause, Advance
  <2>2. elapsed \in Nat /\ Timeout \in Nat
    BY DEF TypeOK
  <2>3. Stage = Timeout + 3 - elapsed /\ Stage' = Timeout + 3 - elapsed'
    BY <2>1 DEF Stage
  <2>4. elapsed' \in Nat /\ elapsed < elapsed'
    BY <2>1, <2>2
  <2>5. Timeout + 3 - elapsed' < Timeout + 3 - elapsed
    BY <2>2, <2>4, LaterIsNearer
  <2> QED BY <2>3, <2>5
<1> QED BY <1>3, <1>4, <1>5, <1>6, <1>7, <1>8, <1>9, <1>10 DEF Client, Trouble, Progress

\* A call takes fewer than (Timeout + 7) * (MaxRetries + 2) steps of its own,
\* whatever the server decides and the transport does: it neither polls nor
\* retries for ever, and no decision of the server lengthens it (client.py:209-393).
THEOREM CallIsFinite ==
  Spec => /\ [](StepsLeft \in 0 .. ((Timeout + 7) * (MaxRetries + 2) - 1))
          /\ [][pc # "idle" => IF Client THEN StepsLeft' < StepsLeft
                                         ELSE StepsLeft' = StepsLeft]_vars
<1>1. Spec => [](TypeOK /\ CountTypes)
  <2>1. IndInv /\ TriesLeft /\ [Next]_vars => TriesLeft'
    BY TriesLeftStep DEF IndInv
  <2>2. IndInv /\ TriesLeft => TypeOK /\ CountTypes
    BY StepTypes DEF IndInv
  <2> QED BY InitTriesLeft, Invariance, <2>1, <2>2, PTL DEF Spec
<1>2. ASSUME CountTypes
      PROVE  StepsLeft \in 0 .. ((Timeout + 7) * (MaxRetries + 2) - 1)
  <2>1. /\ Stage \in Nat /\ Stage < Timeout + 7 /\ Tries \in 0 .. (MaxRetries + 1)
        /\ MaxRetries \in Nat /\ Timeout + 7 \in Nat
    BY <1>2, MaxRetriesAssumption, BoundsAssumption DEF CountTypes
  <2>2. StepsLeft < (Timeout + 7) * (MaxRetries + 2) + 0
    BY <2>1, StageOutweighsTries DEF StepsLeft
  <2>3. StepsLeft \in Nat /\ (Timeout + 7) * (MaxRetries + 2) \in Nat
    BY <2>1 DEF StepsLeft
  <2> QED BY <2>2, <2>3
<1>3. ASSUME TypeOK, CountTypes, CountTypes', [Next]_vars
      PROVE  [pc # "idle" => IF Client THEN StepsLeft' < StepsLeft
                                       ELSE StepsLeft' = StepsLeft]_vars
  <2> SUFFICES ASSUME Next, pc # "idle"
               PROVE  IF Client THEN StepsLeft' < StepsLeft ELSE StepsLeft' = StepsLeft
    BY <1>3
  <2>1. CASE Client
    <3>1. /\ Stage \in Nat /\ Stage' \in Nat /\ Tries \in Nat /\ MaxRetries \in Nat
          /\ Tries' \in 0 .. (MaxRetries + 1)
      BY <1>3, MaxRetriesAssumption, BoundsAssumption DEF CountTypes
    <3>2. Stage' < Stage \/ (Stage' <= Stage /\ Tries' < Tries)
      BY <1>3, <2>1, ClientAdvances
    <3>3. StepsLeft' < StepsLeft
      BY <3>1, <3>2, StageOutweighsTries DEF StepsLeft
    <3> QED BY <2>1, <3>3
  <2>2. CASE ~Client
    <3>1. ~Begin
      BY DEF Begin, BeginToken, BeginCertificate, BeginRefresh, Start, Refuse
    <3>2. PICK i \in DOMAIN auths, code \in {Accepted, Denied} : Decide(i, code)
      BY <2>2, <3>1 DEF Next
    <3> QED BY <2>2, <3>2 DEF Decide, poller, StepsLeft, Stage, Tries
  <2> QED BY <2>1, <2>2
<1> QED BY <1>1, <1>2, <1>3, PTL DEF Spec
================================================================================
