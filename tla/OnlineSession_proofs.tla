-------------------------- MODULE OnlineSession_proofs --------------------------
(***************************************************************************)
(* Theorems about OnlineSession, for every set of invoices and error       *)
(* statuses, every retry budget, every polling deadline and any number of  *)
(* calls.                                                                  *)
(***************************************************************************)
EXTENDS OnlineSession, FiniteLemmas, TLAPS

\* What the arguments of a call in progress name is there.
ArgsInv ==
  /\ pc \in {"send", "close"} => args.sess \in DOMAIN sessions
  /\ pc \in {"status", "judge", "upo"} => args.inv \in DOMAIN invoices
  /\ pc = "send" => args.content \in Contents
  /\ pc \in {"status", "judge"} => args.content = invoices[args.inv].content

\* An end of an invoice, once seen, stands.
SeenInv ==
  pc = "judge" => /\ seen # 0
                  /\ seen \notin InProgress => invoices[args.inv].code = seen

\* Calls are numbered in order, and the call in progress has no receipt yet.
CallInv ==
  /\ \A i \in DOMAIN invoices : invoices[i].call <= calls
  /\ \A i \in DOMAIN sessions : sessions[i].call <= calls
  /\ \A r \in DOMAIN receipts : /\ receipts[r].call <= calls
                                /\ pc # "idle" => receipts[r].call < calls

IndInv == /\ TypeOK
          /\ ArgsInv
          /\ SeenInv
          /\ CallInv
          /\ HandleOpensItsSession
          /\ ReceiptNamesLastCopy
--------------------------------------------------------------------------------
(* How a step changes the server. *)

\* The server forgets nothing, an invoice that has come to its end stays there,
\* and what is new belongs to the call in progress.
Grows ==
  /\ sessions' \in Seq(Session) /\ invoices' \in Seq(Invoice)
  /\ \A j \in DOMAIN sessions : /\ j \in DOMAIN sessions'
                                /\ sessions'[j].key = sessions[j].key
                                /\ sessions'[j].call = sessions[j].call
  /\ \A j \in DOMAIN invoices : /\ j \in DOMAIN invoices'
                                /\ invoices'[j].content = invoices[j].content
                                /\ invoices'[j].call = invoices[j].call
                                /\ invoices[j].code \in InProgress
                                     \/ invoices'[j].code = invoices[j].code
  /\ \A j \in DOMAIN sessions' : j \in DOMAIN sessions \/ sessions'[j].call = calls
  /\ \A j \in DOMAIN invoices' :
       j \in DOMAIN invoices \/ (pc = "send" /\ invoices'[j].call = calls)
  /\ access' \in {"none", "valid", "expired"}

\* Appending keeps what was there and adds the new element at the end.
LEMMA AppendFacts ==
  ASSUME NEW T, NEW s \in Seq(T), NEW e \in T
  PROVE  /\ Append(s, e) \in Seq(T)
         /\ Len(s) \in Nat /\ Len(Append(s, e)) = Len(s) + 1
         /\ DOMAIN s = 1 .. Len(s) /\ DOMAIN Append(s, e) = 1 .. (Len(s) + 1)
         /\ \A j \in DOMAIN s : Append(s, e)[j] = s[j]
         /\ Append(s, e)[Len(s) + 1] = e
  OBVIOUS

\* Replacing an element keeps the others.
LEMMA ReplaceFacts ==
  ASSUME NEW T, NEW s \in Seq(T), NEW i \in DOMAIN s, NEW e \in T
  PROVE  /\ [s EXCEPT ![i] = e] \in Seq(T)
         /\ DOMAIN [s EXCEPT ![i] = e] = DOMAIN s
         /\ [s EXCEPT ![i] = e][i] = e
         /\ \A j \in DOMAIN s \ {i} : [s EXCEPT ![i] = e][j] = s[j]
  OBVIOUS

LEMMA Elements ==
  ASSUME NEW T, NEW s \in Seq(T)
  PROVE  \A i \in DOMAIN s : s[i] \in T
  OBVIOUS

\* What is known of the fields of what is kept.
LEMMA FieldTypes ==
  ASSUME TypeOK
  PROVE  /\ \A h \in DOMAIN handles : handles[h].ref \in Nat /\ handles[h].key \in Nat
         /\ \A r \in DOMAIN receipts : /\ receipts[r].ref \in Nat
                                       /\ receipts[r].content \in Contents
                                       /\ receipts[r].call \in Nat
         /\ \A i \in DOMAIN sessions : sessions[i].call \in Nat
         /\ \A i \in DOMAIN invoices : invoices[i].call \in Nat
<1>1. /\ \A h \in DOMAIN handles : handles[h] \in HandleType
      /\ \A r \in DOMAIN receipts : receipts[r] \in ReceiptType
      /\ \A i \in DOMAIN sessions : sessions[i] \in Session
      /\ \A i \in DOMAIN invoices : invoices[i] \in Invoice
  BY Elements DEF TypeOK
<1>2. \A h \in DOMAIN handles : handles[h].ref \in Nat /\ handles[h].key \in Nat
  BY <1>1 DEF HandleType
<1>3. \A r \in DOMAIN receipts : /\ receipts[r].ref \in Nat
                                 /\ receipts[r].content \in Contents
                                 /\ receipts[r].call \in Nat
  BY <1>1 DEF ReceiptType
<1>4. \A i \in DOMAIN sessions : sessions[i].call \in Nat
  BY <1>1 DEF Session
<1>5. \A i \in DOMAIN invoices : invoices[i].call \in Nat
  BY <1>1 DEF Invoice
<1> QED BY <1>2, <1>3, <1>4, <1>5

LEMMA UnchangedGrows == ASSUME TypeOK, UNCHANGED server PROVE Grows
  BY DEF TypeOK, server, Grows

LEMMA OpenGrows ==
  ASSUME TypeOK, OpenSession
  PROVE  /\ Grows /\ Len(sessions') \in DOMAIN sessions'
         /\ sessions'[Len(sessions')].key = args.key
         /\ Len(sessions') = Len(sessions) + 1
         /\ sessions'[Len(sessions')].call = calls
         /\ \A j \in DOMAIN sessions : sessions'[j] = sessions[j]
         /\ DOMAIN sessions' = 1 .. (Len(sessions) + 1) /\ UNCHANGED invoices
<1> DEFINE new == [key |-> args.key, open |-> TRUE, call |-> calls]
<1>1. new \in Session /\ sessions \in Seq(Session)
  BY DEF TypeOK, Arguments, Session
<1>2. sessions' = Append(sessions, new) /\ UNCHANGED <<access, invoices>>
  BY DEF OpenSession
<1>3. new.key = args.key /\ new.call = calls
  OBVIOUS
<1> HIDE DEF new
<1>4. /\ sessions' \in Seq(Session)
      /\ Len(sessions) \in Nat /\ Len(sessions') = Len(sessions) + 1
      /\ DOMAIN sessions = 1 .. Len(sessions)
      /\ DOMAIN sessions' = 1 .. (Len(sessions) + 1)
      /\ \A j \in DOMAIN sessions : sessions'[j] = sessions[j]
      /\ sessions'[Len(sessions) + 1] = new
  BY <1>1, <1>2, AppendFacts
<1>5. \A j \in DOMAIN sessions' : j \in DOMAIN sessions \/ j = Len(sessions) + 1
  BY <1>4
<1>6. \A j \in DOMAIN sessions : j \in DOMAIN sessions'
  BY <1>4
<1>7. Grows
  BY <1>2, <1>3, <1>4, <1>5, <1>6 DEF TypeOK, Grows
<1> QED BY <1>2, <1>3, <1>4, <1>7

LEMMA ReceiveGrows ==
  ASSUME TypeOK, ArgsInv, pc = "send", ReceiveInvoice
  PROVE  /\ Grows /\ Len(invoices') \in DOMAIN invoices'
         /\ invoices'[Len(invoices')].content = args.content
         /\ invoices'[Len(invoices')].call = calls
         /\ invoices'[Len(invoices')].code = 100
         /\ Len(invoices') = Len(invoices) + 1
         /\ DOMAIN invoices' = 1 .. (Len(invoices) + 1)
         /\ \A j \in DOMAIN invoices : invoices'[j] = invoices[j]
         /\ UNCHANGED sessions
<1> DEFINE new == [sess |-> args.sess, key |-> args.key, call |-> calls,
                   content |-> args.content, code |-> 100]
<1>1. new \in Invoice /\ invoices \in Seq(Invoice)
  BY DEF TypeOK, ArgsInv, Arguments, Invoice, InProgress
<1>2. invoices' = Append(invoices, new) /\ UNCHANGED <<access, sessions>>
  BY DEF ReceiveInvoice
<1>3. new.content = args.content /\ new.call = calls /\ new.code = 100
  OBVIOUS
<1> HIDE DEF new
<1>4. /\ invoices' \in Seq(Invoice)
      /\ Len(invoices) \in Nat /\ Len(invoices') = Len(invoices) + 1
      /\ DOMAIN invoices = 1 .. Len(invoices)
      /\ DOMAIN invoices' = 1 .. (Len(invoices) + 1)
      /\ \A j \in DOMAIN invoices : invoices'[j] = invoices[j]
      /\ invoices'[Len(invoices) + 1] = new
  BY <1>1, <1>2, AppendFacts
<1>5. \A j \in DOMAIN invoices' : j \in DOMAIN invoices \/ j = Len(invoices) + 1
  BY <1>4
<1>6. \A j \in DOMAIN invoices : j \in DOMAIN invoices'
  BY <1>4
<1>7. Grows
  BY <1>2, <1>3, <1>4, <1>5, <1>6 DEF TypeOK, Grows
<1> QED BY <1>2, <1>3, <1>4, <1>7

LEMMA CloseGrows ==
  ASSUME TypeOK, args.sess \in DOMAIN sessions, CloseSession
  PROVE  /\ Grows /\ ~sessions'[args.sess].open /\ DOMAIN sessions' = DOMAIN sessions
         /\ UNCHANGED invoices
<1> DEFINE closed == [sessions[args.sess] EXCEPT !.open = FALSE]
<1>1. sessions \in Seq(Session) /\ sessions[args.sess] \in Session
  BY DEF TypeOK
<1>2. /\ closed \in Session /\ ~closed.open
      /\ closed.key = sessions[args.sess].key /\ closed.call = sessions[args.sess].call
  BY <1>1 DEF Session
<1>3. sessions' = [sessions EXCEPT ![args.sess] = closed] /\ UNCHANGED <<access, invoices>>
  BY <1>1 DEF CloseSession
<1> HIDE DEF closed
<1>4. /\ sessions' \in Seq(Session) /\ DOMAIN sessions' = DOMAIN sessions
      /\ sessions'[args.sess] = closed
      /\ \A j \in DOMAIN sessions \ {args.sess} : sessions'[j] = sessions[j]
  BY <1>1, <1>2, <1>3, ReplaceFacts
<1>5. Grows
  BY <1>2, <1>3, <1>4 DEF TypeOK, Grows
<1> QED BY <1>2, <1>3, <1>4, <1>5

\* Whatever the server carries out for a call, it only grows.
LEMMA HandleGrows ==
  ASSUME TypeOK, ArgsInv, NEW h \in BOOLEAN, MayHandle(h)
  PROVE  Grows
<1>1. CASE UNCHANGED server
  BY <1>1, UnchangedGrows
<1>2. CASE pc = "open" /\ OpenSession
  BY <1>2, OpenGrows
<1>3. CASE pc = "send" /\ ReceiveInvoice
  BY <1>3, ReceiveGrows
<1>4. CASE pc = "close" /\ CloseSession
  BY <1>4, CloseGrows DEF ArgsInv
<1> QED BY <1>1, <1>2, <1>3, <1>4 DEF MayHandle, Handle

LEMMA ProcessGrows ==
  ASSUME TypeOK, NEW i \in DOMAIN invoices,
         NEW code \in InProgress \cup {Accepted, Refused}, Process(i, code)
  PROVE  /\ Grows /\ invoices[i].code \in InProgress /\ invoices'[i].code = code
         /\ DOMAIN invoices' = DOMAIN invoices
         /\ \A j \in DOMAIN invoices \ {i} : invoices'[j] = invoices[j]
         /\ invoices'[i].content = invoices[i].content
<1> DEFINE moved == [invoices[i] EXCEPT !.code = code]
<1>1. invoices \in Seq(Invoice) /\ invoices[i] \in Invoice
  BY DEF TypeOK
<1>2. /\ moved \in Invoice /\ moved.code = code
      /\ moved.content = invoices[i].content /\ moved.call = invoices[i].call
  BY <1>1 DEF Invoice
<1>3. /\ invoices' = [invoices EXCEPT ![i] = moved] /\ UNCHANGED <<access, sessions>>
      /\ invoices[i].code \in InProgress
  BY <1>1 DEF Process
<1> HIDE DEF moved
<1>4. /\ invoices' \in Seq(Invoice) /\ DOMAIN invoices' = DOMAIN invoices
      /\ invoices'[i] = moved
      /\ \A j \in DOMAIN invoices \ {i} : invoices'[j] = invoices[j]
  BY <1>1, <1>2, <1>3, ReplaceFacts
<1>5. Grows
  BY <1>2, <1>3, <1>4 DEF TypeOK, Grows
<1> QED BY <1>2, <1>3, <1>4, <1>5
--------------------------------------------------------------------------------
(* What a growing server does to what the caller holds. *)

\* Handles and receipts go on naming what they named.
LEMMA GrowthKeeps ==
  ASSUME IndInv, Grows, UNCHANGED <<handles, receipts, calls>>,
         pc' # "idle" => pc # "idle"
  PROVE  /\ \A h \in DOMAIN handles : handles[h].ref \in DOMAIN sessions'
         /\ \A r \in DOMAIN receipts : receipts[r].ref \in DOMAIN invoices'
         /\ HandleOpensItsSession' /\ ReceiptNamesLastCopy' /\ CallInv'
<1> USE DEF IndInv, TypeOK
<1>1. \A h \in DOMAIN handles : handles[h].ref \in DOMAIN sessions'
  BY DEF Grows
<1>2. \A r \in DOMAIN receipts : receipts[r].ref \in DOMAIN invoices'
  BY DEF Grows
<1>3. HandleOpensItsSession'
  BY DEF Grows, HandleOpensItsSession
<1>4. ReceiptNamesLastCopy'
  <2> SUFFICES ASSUME NEW r \in DOMAIN receipts
               PROVE  /\ receipts[r].ref \in CopiesOf(receipts[r].call)'
                      /\ invoices'[receipts[r].ref].content = receipts[r].content
                      /\ \A i \in CopiesOf(receipts[r].call)' : i <= receipts[r].ref
    BY DEF ReceiptNamesLastCopy, CopiesOf
  <2>1. /\ receipts[r].ref \in CopiesOf(receipts[r].call)
        /\ invoices[receipts[r].ref].content = receipts[r].content
        /\ \A i \in CopiesOf(receipts[r].call) : i <= receipts[r].ref
    BY DEF ReceiptNamesLastCopy
  <2>2. receipts[r].ref \in CopiesOf(receipts[r].call)'
    BY <2>1 DEF CopiesOf, Grows
  <2>3. invoices'[receipts[r].ref].content = receipts[r].content
    BY <2>1 DEF Grows
  <2>4. ASSUME NEW i \in CopiesOf(receipts[r].call)'
        PROVE  i <= receipts[r].ref
    <3>1. i \in DOMAIN invoices' /\ invoices'[i].call = receipts[r].call
      BY <2>4 DEF CopiesOf
    <3>2. receipts[r].call \in Nat /\ (pc = "send" => receipts[r].call < calls)
      BY FieldTypes DEF CallInv
    <3>3. i \in DOMAIN invoices
      BY <3>1, <3>2 DEF Grows
    <3>4. i \in CopiesOf(receipts[r].call)
      BY <3>1, <3>3 DEF CopiesOf, Grows
    <3> QED BY <2>1, <3>4
  <2> QED BY <2>2, <2>3, <2>4
<1>5. CallInv'
  <2>1. \A i \in DOMAIN invoices' : invoices'[i].call <= calls
    <3> SUFFICES ASSUME NEW i \in DOMAIN invoices' PROVE invoices'[i].call <= calls
      OBVIOUS
    <3>1. CASE i \in DOMAIN invoices
      BY <3>1 DEF Grows, CallInv
    <3>2. CASE invoices'[i].call = calls
      BY <3>2
    <3> QED BY <3>1, <3>2 DEF Grows
  <2>2. ASSUME NEW i \in DOMAIN sessions' PROVE sessions'[i].call <= calls
    <3>1. CASE i \in DOMAIN sessions
      BY <3>1 DEF Grows, CallInv
    <3>2. CASE sessions'[i].call = calls
      BY <3>2
    <3> QED BY <3>1, <3>2 DEF Grows
  <2> QED BY <2>1, <2>2 DEF CallInv
<1> QED BY <1>1, <1>2, <1>3, <1>4, <1>5

\* A call that ends and returns nothing new.
LEMMA EndStep ==
  ASSUME IndInv, Grows, NEW how \in Outcomes, Finish(how),
         UNCHANGED <<handles, receipts, calls>>, confirmed' \subseteq Contents
  PROVE  IndInv'
<1>1. pc' = "idle" /\ args' = NoArgs /\ outcome' = how
      /\ attempt' = 0 /\ seen' = 0 /\ elapsed' = 0
  BY DEF Finish
<1>2. /\ \A h \in DOMAIN handles : handles[h].ref \in DOMAIN sessions'
      /\ \A r \in DOMAIN receipts : receipts[r].ref \in DOMAIN invoices'
      /\ HandleOpensItsSession' /\ ReceiptNamesLastCopy' /\ CallInv'
  BY <1>1, GrowthKeeps
<1>3. NoArgs \in Arguments
  BY DEF NoArgs, Arguments
<1>4. TypeOK'
  BY <1>1, <1>2, <1>3, BoundsAssumption DEF IndInv, TypeOK, Grows
<1>5. ArgsInv' /\ SeenInv'
  BY <1>1 DEF ArgsInv, SeenInv
<1> QED BY <1>2, <1>4, <1>5 DEF IndInv

\* A call that goes on with the same arguments.
GoesOn ==
  /\ pc # "idle" /\ UNCHANGED <<args, outcome, caller>>
  /\ \/ pc' = pc
     \/ pc = "key" /\ pc' = "open"
     \/ pc = "status" /\ pc' = "judge"
     \/ pc = "judge" /\ pc' = "status"
  /\ attempt' \in Nat /\ elapsed' \in 0 .. (Timeout + 1)
  /\ seen' \in InProgress \cup {0, Accepted, Refused}
  /\ pc' = "judge" => pc = "status" /\ SeenInv'

LEMMA GoOnStep ==
  ASSUME IndInv, Grows, GoesOn
  PROVE  IndInv'
<1> USE DEF GoesOn
<1>1. /\ \A h \in DOMAIN handles : handles[h].ref \in DOMAIN sessions'
      /\ \A r \in DOMAIN receipts : receipts[r].ref \in DOMAIN invoices'
      /\ HandleOpensItsSession' /\ ReceiptNamesLastCopy' /\ CallInv'
  BY GrowthKeeps DEF caller
<1>2. TypeOK'
  BY <1>1 DEF IndInv, TypeOK, Grows, caller, Requests
<1>3. ArgsInv'
  BY DEF IndInv, ArgsInv, Grows
<1>4. SeenInv'
  BY DEF SeenInv
<1> QED BY <1>1, <1>2, <1>3, <1>4 DEF IndInv
--------------------------------------------------------------------------------
(* The invariant. *)

LEMMA InitIndInv == Init => IndInv
<1> SUFFICES ASSUME Init PROVE IndInv
  OBVIOUS
<1>1. NoArgs \in Arguments
  BY DEF NoArgs, Arguments
<1>2. /\ handles = <<>> /\ receipts = <<>> /\ sessions = <<>> /\ invoices = <<>>
      /\ pc = "idle" /\ args = NoArgs /\ attempt = 0 /\ seen = 0 /\ elapsed = 0
      /\ outcome = "none" /\ confirmed = {} /\ calls = 0 /\ access = "none"
  BY DEF Init
<1>3. TypeOK
  <2>1. /\ handles \in Seq(HandleType) /\ receipts \in Seq(ReceiptType)
        /\ sessions \in Seq(Session) /\ invoices \in Seq(Invoice)
    BY <1>2
  <2>2. DOMAIN handles = {} /\ DOMAIN receipts = {}
    BY <1>2
  <2>3. elapsed \in 0 .. (Timeout + 1)
    BY <1>2, BoundsAssumption
  <2>4. outcome \in Outcomes
    BY <1>2 DEF Outcomes
  <2> QED BY <1>1, <1>2, <2>1, <2>2, <2>3, <2>4 DEF TypeOK
<1>4. ArgsInv /\ SeenInv /\ CallInv /\ HandleOpensItsSession /\ ReceiptNamesLastCopy
  BY <1>2 DEF ArgsInv, SeenInv, CallInv, HandleOpensItsSession, ReceiptNamesLastCopy
<1> QED BY <1>3, <1>4 DEF IndInv

\* What every way to begin a call has in common.
LEMMA StartStep ==
  ASSUME IndInv, NEW step, NEW a, Start(step, a), step \in Requests, a \in Arguments,
         step \in {"send", "close"} => a.sess \in DOMAIN sessions,
         step \in {"status", "upo"} => a.inv \in DOMAIN invoices,
         step = "send" => a.content \in Contents,
         step = "status" => a.content = invoices[a.inv].content
  PROVE  IndInv'
<1>1. /\ calls' = calls + 1 /\ pc' = step /\ args' = a
      /\ attempt' = 0 /\ seen' = 0 /\ elapsed' = 0 /\ outcome' = "none"
      /\ UNCHANGED <<handles, receipts, confirmed, access, sessions, invoices>>
  BY DEF Start, server
<1>2. calls \in Nat /\ step # "judge"
  BY DEF IndInv, TypeOK, Requests
<1>3. TypeOK'
  BY <1>1, BoundsAssumption DEF IndInv, TypeOK, Outcomes
<1>4. ArgsInv' /\ SeenInv'
  BY <1>1, <1>2 DEF ArgsInv, SeenInv
<1>5. CallInv'
  <2>1. /\ \A i \in DOMAIN invoices : invoices[i].call \in Nat
        /\ \A i \in DOMAIN sessions : sessions[i].call \in Nat
        /\ \A r \in DOMAIN receipts : receipts[r].call \in Nat
    BY FieldTypes DEF IndInv
  <2> QED BY <1>1, <1>2, <2>1 DEF IndInv, CallInv
<1>6. HandleOpensItsSession'
  BY <1>1 DEF IndInv, HandleOpensItsSession
<1>7. ReceiptNamesLastCopy'
  BY <1>1 DEF IndInv, ReceiptNamesLastCopy, CopiesOf
<1> QED BY <1>3, <1>4, <1>5, <1>6, <1>7 DEF IndInv

\* Every call begins alike.
LEMMA BeginStarts ==
  ASSUME Begin
  PROVE  /\ pc = "idle" /\ outcome' = "none" /\ attempt' = 0 /\ calls' = calls + 1
         /\ pc' \in {"key", "open", "send", "status", "close", "upo"}
         /\ UNCHANGED <<handles, receipts, confirmed, server>>
<1>1. \E step \in {"key", "open", "send", "status", "close", "upo"} : \E a : Start(step, a)
  <2>1. ASSUME NEW key, BeginOpen(key)
        PROVE  \E step \in {"key", "open"} : \E a : Start(step, a)
    <3>1. CASE key = calls'
      BY <2>1, <3>1 DEF BeginOpen
    <3>2. CASE key # calls'
      BY <2>1, <3>2 DEF BeginOpen
    <3> QED BY <3>1, <3>2
  <2>2. ASSUME NEW h, NEW k, NEW c, BeginSend(h, k, c) PROVE \E a : Start("send", a)
    BY <2>2 DEF BeginSend
  <2>3. ASSUME NEW h, BeginClose(h) PROVE \E a : Start("close", a)
    BY <2>3 DEF BeginClose
  <2>4. ASSUME NEW r, BeginWait(r) PROVE \E a : Start("status", a)
    BY <2>4 DEF BeginWait
  <2>5. ASSUME NEW r, BeginUpo(r) PROVE \E a : Start("upo", a)
    BY <2>5 DEF BeginUpo
  <2> QED BY <2>1, <2>2, <2>3, <2>4, <2>5 DEF Begin
<1> QED BY <1>1 DEF Start

LEMMA BeginStep == ASSUME IndInv, Begin PROVE IndInv'
<1>0. /\ \A h \in DOMAIN handles : /\ handles[h].ref \in DOMAIN sessions
                                   /\ handles[h].ref \in Nat /\ handles[h].key \in Nat
      /\ \A r \in DOMAIN receipts : /\ receipts[r].ref \in DOMAIN invoices
                                    /\ receipts[r].ref \in Nat
                                    /\ receipts[r].content \in Contents
                                    /\ receipts[r].content = invoices[receipts[r].ref].content
      /\ calls \in Nat
  <2>1. /\ \A h \in DOMAIN handles : handles[h].ref \in DOMAIN sessions
        /\ \A r \in DOMAIN receipts : receipts[r].ref \in DOMAIN invoices
        /\ calls \in Nat
    BY DEF IndInv, TypeOK
  <2>2. \A r \in DOMAIN receipts :
          receipts[r].content = invoices[receipts[r].ref].content
    BY DEF IndInv, ReceiptNamesLastCopy
  <2> QED BY <2>1, <2>2, FieldTypes DEF IndInv
<1>1. ASSUME NEW key \in Nat, BeginOpen(key) PROVE IndInv'
  <2>1. [NoArgs EXCEPT !.key = key] \in Arguments
    BY DEF NoArgs, Arguments
  <2>2. PICK step \in {"key", "open"} : Start(step, [NoArgs EXCEPT !.key = key])
    BY <1>1 DEF BeginOpen
  <2> QED BY <2>1, <2>2, StartStep DEF Requests
<1>2. ASSUME NEW h \in DOMAIN handles, NEW k \in DOMAIN handles, NEW c \in Contents,
             BeginSend(h, k, c)
      PROVE  IndInv'
  <2> DEFINE a == [NoArgs EXCEPT !.sess = handles[h].ref, !.key = handles[k].key,
                                 !.content = c]
  <2>1. a \in Arguments /\ a.sess = handles[h].ref /\ a.content = c
    BY <1>0 DEF NoArgs, Arguments
  <2>2. Start("send", a)
    BY <1>2 DEF BeginSend
  <2> HIDE DEF a
  <2> QED BY <1>0, <2>1, <2>2, StartStep DEF Requests
<1>3. ASSUME NEW h \in DOMAIN handles, BeginClose(h) PROVE IndInv'
  <2> DEFINE a == [NoArgs EXCEPT !.sess = handles[h].ref]
  <2>1. a \in Arguments /\ a.sess = handles[h].ref
    BY <1>0 DEF NoArgs, Arguments
  <2>2. Start("close", a)
    BY <1>3 DEF BeginClose
  <2> HIDE DEF a
  <2> QED BY <1>0, <2>1, <2>2, StartStep DEF Requests
<1>4. ASSUME NEW r \in DOMAIN receipts, BeginWait(r) PROVE IndInv'
  <2> DEFINE a == [NoArgs EXCEPT !.inv = receipts[r].ref,
                                 !.content = receipts[r].content]
  <2>1. a \in Arguments /\ a.inv = receipts[r].ref /\ a.content = receipts[r].content
    BY <1>0 DEF NoArgs, Arguments
  <2>2. Start("status", a)
    BY <1>4 DEF BeginWait
  <2> HIDE DEF a
  <2> QED BY <1>0, <2>1, <2>2, StartStep DEF Requests
<1>5. ASSUME NEW r \in DOMAIN receipts, BeginUpo(r) PROVE IndInv'
  <2> DEFINE a == [NoArgs EXCEPT !.inv = receipts[r].ref]
  <2>1. a \in Arguments /\ a.inv = receipts[r].ref
    BY <1>0 DEF NoArgs, Arguments
  <2>2. Start("upo", a)
    BY <1>5 DEF BeginUpo
  <2> HIDE DEF a
  <2> QED BY <1>0, <2>1, <2>2, StartStep DEF Requests
<1> QED BY <1>0, <1>1, <1>2, <1>3, <1>4, <1>5 DEF Begin

\* The server works on its own, or the caller renews its token.
LEMMA AsideStep ==
  ASSUME IndInv, Grows, UNCHANGED <<local, caller>>
  PROVE  IndInv'
<1>1. UNCHANGED <<pc, args, attempt, seen, elapsed, outcome>>
      /\ UNCHANGED <<handles, receipts, confirmed, calls>>
  BY DEF local, caller
<1>2. /\ \A h \in DOMAIN handles : handles[h].ref \in DOMAIN sessions'
      /\ \A r \in DOMAIN receipts : receipts[r].ref \in DOMAIN invoices'
      /\ HandleOpensItsSession' /\ ReceiptNamesLastCopy' /\ CallInv'
  BY <1>1, GrowthKeeps
<1>3. TypeOK'
  BY <1>1, <1>2 DEF IndInv, TypeOK, Grows
<1>4. ArgsInv'
  BY <1>1 DEF IndInv, ArgsInv, Grows
<1>5. SeenInv'
  BY <1>1 DEF IndInv, ArgsInv, SeenInv, Grows
<1> QED BY <1>2, <1>3, <1>4, <1>5 DEF IndInv

LEMMA ServerStep ==
  ASSUME IndInv,
         \/ Expire \/ Renew
         \/ \E i \in DOMAIN invoices, code \in InProgress \cup {Accepted, Refused} :
              Process(i, code)
  PROVE  IndInv'
<1>1. CASE Expire \/ Renew
  <2>1. UNCHANGED <<local, caller, sessions, invoices>> /\ access' \in {"none", "valid", "expired"}
    BY <1>1 DEF Expire, Renew
  <2>2. Grows
    BY <2>1 DEF IndInv, TypeOK, Grows
  <2> QED BY <2>1, <2>2, AsideStep
<1>2. ASSUME NEW i \in DOMAIN invoices, NEW code \in InProgress \cup {Accepted, Refused},
             Process(i, code)
      PROVE  IndInv'
  <2>1. UNCHANGED <<local, caller>>
    BY <1>2 DEF Process
  <2> QED BY <1>2, <2>1, ProcessGrows, AsideStep DEF IndInv
<1> QED BY <1>1, <1>2

LEMMA TroubleStep == ASSUME IndInv, Trouble PROVE IndInv'
<1>1. ASSUME NEW s \in Failures, NEW h \in BOOLEAN, Fail(s, h) PROVE IndInv'
  <2>1. Grows /\ pc # "idle" /\ pc # "judge" /\ UNCHANGED <<handles, receipts, confirmed, calls>>
    BY <1>1, HandleGrows DEF IndInv, Fail, caller, Requests
  <2>2. CASE RetryAgain(s, attempt)
    <3>1. attempt' = attempt + 1 /\ UNCHANGED <<pc, args, seen, elapsed, outcome>>
      BY <1>1, <2>2 DEF Fail
    <3>2. /\ attempt' \in Nat /\ elapsed' \in 0 .. (Timeout + 1)
          /\ seen' \in InProgress \cup {0, Accepted, Refused}
      BY <3>1 DEF IndInv, TypeOK
    <3>3. GoesOn
      BY <2>1, <3>1, <3>2 DEF GoesOn, caller
    <3> QED BY <2>1, <3>3, GoOnStep
  <2>3. CASE ~RetryAgain(s, attempt)
    <3>1. Finish("http_error")
      BY <1>1, <2>3 DEF Fail, Raised
    <3> QED BY <2>1, <3>1, EndStep DEF IndInv, TypeOK, Outcomes
  <2> QED BY <2>2, <2>3
<1>2. ASSUME NEW h \in BOOLEAN, Escape(h) PROVE IndInv'
  <2>1. Grows /\ Finish("foreign") /\ UNCHANGED <<handles, receipts, confirmed, calls>>
    BY <1>2, HandleGrows DEF IndInv, Escape, caller
  <2> QED BY <2>1, EndStep DEF IndInv, TypeOK, Outcomes
<1> QED BY <1>1, <1>2 DEF Trouble

\* The answers that end a call without anything to keep.
LEMMA AnswerStep ==
  ASSUME IndInv,
         \/ Unauthenticated \/ NoKey \/ Delivered \/ Failed \/ TimedOut
         \/ \E body \in BodyKinds : Closed(body) \/ UpoFetched(body)
  PROVE  IndInv'
<1>1. CASE Unauthenticated \/ NoKey
  <2>1. PICK how \in {"auth_error", "client_error"} : Finish(how)
    BY <1>1 DEF Unauthenticated, NoKey
  <2>2. Grows /\ UNCHANGED <<handles, receipts, confirmed, calls>>
    BY <1>1, UnchangedGrows DEF IndInv, Unauthenticated, NoKey, caller
  <2> QED BY <2>1, <2>2, EndStep DEF IndInv, TypeOK, Outcomes
<1>2. CASE Delivered
  <2>1. Grows /\ Finish("ok") /\ UNCHANGED <<handles, receipts, calls>>
    BY <1>2, UnchangedGrows DEF IndInv, Delivered, Judge
  <2>2. confirmed' = confirmed \cup {args.content} /\ pc = "judge"
    BY <1>2 DEF Delivered, Judge
  <2>3. args.content \in Contents
    <3>1. args.inv \in DOMAIN invoices /\ args.content = invoices[args.inv].content
      BY <2>2 DEF IndInv, ArgsInv
    <3>2. invoices[args.inv] \in Invoice
      BY <3>1, Elements DEF IndInv, TypeOK
    <3> QED BY <3>1, <3>2 DEF Invoice
  <2> QED BY <2>1, <2>2, <2>3, EndStep DEF IndInv, TypeOK, Outcomes
<1>3. CASE Failed \/ TimedOut
  <2>1. PICK how \in {"client_error", "timeout"} : Judge(how) /\ UNCHANGED confirmed
    BY <1>3 DEF Failed, TimedOut
  <2>2. Grows /\ Finish(how) /\ UNCHANGED <<handles, receipts, calls>>
    BY <2>1, UnchangedGrows DEF IndInv, Judge
  <2> QED BY <2>1, <2>2, EndStep DEF IndInv, TypeOK, Outcomes
<1>4. ASSUME NEW body \in BodyKinds, Closed(body) \/ UpoFetched(body) PROVE IndInv'
  <2>1. MayHandle(TRUE) /\ UNCHANGED <<handles, receipts, confirmed, calls>>
    BY <1>4 DEF Closed, UpoFetched, MayHandle, caller
  <2>2. Grows
    BY <2>1, HandleGrows DEF IndInv
  <2>3. PICK how \in {"foreign", "ok", "stand_in"} : Finish(how)
    BY <1>4 DEF Closed, UpoFetched
  <2> QED BY <2>1, <2>2, <2>3, EndStep DEF IndInv, TypeOK, Outcomes
<1> QED BY <1>1, <1>2, <1>3, <1>4

\* The steps that keep the call going.
LEMMA OnwardStep == ASSUME IndInv, FetchKey \/ Polled \/ Pause PROVE IndInv'
<1>1. CASE FetchKey
  <2>1. /\ pc = "key" /\ pc' = "open" /\ attempt' = 0
        /\ UNCHANGED <<args, seen, elapsed, outcome, caller>>
    BY <1>1 DEF FetchKey
  <2>2. Grows
    BY <1>1, UnchangedGrows DEF IndInv, FetchKey
  <2>3. GoesOn
    BY <2>1 DEF IndInv, TypeOK, GoesOn
  <2> QED BY <2>2, <2>3, GoOnStep
<1>2. CASE Polled
  <2>1. /\ pc = "status" /\ pc' = "judge" /\ attempt' = 0 /\ UNCHANGED <<args, outcome, caller>>
        /\ seen' \in {invoices[args.inv].code, 100}
        /\ elapsed' \in elapsed .. (Timeout + 1)
        /\ UNCHANGED server
    BY <1>2 DEF Polled, Handle
  <2>2. invoices[args.inv].code \in InProgress \cup {Accepted, Refused}
    <3>1. args.inv \in DOMAIN invoices
      BY <2>1 DEF IndInv, ArgsInv
    <3>2. invoices[args.inv] \in Invoice
      BY <3>1, Elements DEF IndInv, TypeOK
    <3> QED BY <3>2 DEF Invoice
  <2>3. SeenInv'
    BY <2>1, <2>2 DEF SeenInv, InProgress, Accepted, Refused, server
  <2>4. elapsed' \in 0 .. (Timeout + 1)
    BY <2>1, BoundsAssumption DEF IndInv, TypeOK
  <2>5. seen' \in InProgress \cup {0, Accepted, Refused}
    BY <2>1, <2>2 DEF InProgress
  <2>6. Grows
    BY <2>1, UnchangedGrows DEF IndInv
  <2>7. GoesOn
    BY <2>1, <2>3, <2>4, <2>5 DEF GoesOn
  <2> QED BY <2>6, <2>7, GoOnStep
<1>3. CASE Pause
  <2>1. /\ pc = "judge" /\ pc' = "status" /\ elapsed' \in (elapsed + 1) .. (Timeout + 1)
        /\ UNCHANGED <<args, attempt, seen, outcome, caller, server>>
    BY <1>3 DEF Pause, AfterPause
  <2>2. elapsed' \in 0 .. (Timeout + 1)
    BY <2>1, BoundsAssumption DEF IndInv, TypeOK
  <2>3. GoesOn
    BY <2>1, <2>2 DEF IndInv, TypeOK, GoesOn
  <2> QED BY <2>1, <2>3, UnchangedGrows, GoOnStep DEF IndInv
<1> QED BY <1>1, <1>2, <1>3

\* A new handle names the session just opened and the key it was opened with.
LEMMA OpenedStep == ASSUME IndInv, Opened PROVE IndInv'
<1> DEFINE new == [ref |-> Len(sessions'), key |-> args.key]
<1>1. /\ OpenSession /\ Finish("ok") /\ handles' = Append(handles, new)
      /\ UNCHANGED <<receipts, confirmed, calls>> /\ pc = "open"
  BY DEF Opened, Handle, NewHandle
<1>2. /\ Grows /\ Len(sessions') \in DOMAIN sessions' /\ Len(sessions') = Len(sessions) + 1
      /\ sessions'[Len(sessions')].key = args.key /\ UNCHANGED invoices
  BY <1>1, OpenGrows DEF IndInv
<1>3. new \in HandleType /\ new.ref = Len(sessions') /\ new.key = args.key
  BY <1>2 DEF IndInv, TypeOK, Arguments, HandleType
<1> HIDE DEF new
<1>4. /\ handles \in Seq(HandleType) /\ handles' \in Seq(HandleType)
      /\ Len(handles) \in Nat
      /\ DOMAIN handles = 1 .. Len(handles) /\ DOMAIN handles' = 1 .. (Len(handles) + 1)
      /\ \A h \in DOMAIN handles : handles'[h] = handles[h]
      /\ handles'[Len(handles) + 1] = new
  BY <1>1, <1>3, AppendFacts DEF IndInv, TypeOK
<1>5. \A h \in DOMAIN handles' : h \in DOMAIN handles \/ h = Len(handles) + 1
  BY <1>4
<1>6. /\ pc' = "idle" /\ args' = NoArgs /\ outcome' = "ok"
      /\ attempt' = 0 /\ seen' = 0 /\ elapsed' = 0
  BY <1>1 DEF Finish
<1>7. \A h \in DOMAIN handles' : handles'[h].ref \in DOMAIN sessions'
  BY <1>2, <1>3, <1>4, <1>5 DEF IndInv, TypeOK, Grows
<1>8. HandleOpensItsSession'
  <2> SUFFICES ASSUME NEW h \in DOMAIN handles'
               PROVE  sessions'[handles'[h].ref].key = handles'[h].key
    BY DEF HandleOpensItsSession
  <2>1. CASE h \in DOMAIN handles
    <3>1. /\ handles[h].ref \in DOMAIN sessions
          /\ sessions[handles[h].ref].key = handles[h].key
      BY <2>1 DEF IndInv, TypeOK, HandleOpensItsSession
    <3>2. sessions'[handles[h].ref].key = handles[h].key
      BY <1>2, <3>1 DEF Grows
    <3> QED BY <1>4, <2>1, <3>2
  <2>2. CASE h = Len(handles) + 1
    BY <1>2, <1>3, <1>4, <2>2
  <2> QED BY <1>5, <2>1, <2>2
<1>9. TypeOK'
  <2>1. NoArgs \in Arguments /\ elapsed' \in 0 .. (Timeout + 1)
    BY <1>6, BoundsAssumption DEF NoArgs, Arguments
  <2> QED BY <1>1, <1>2, <1>4, <1>6, <1>7, <2>1 DEF IndInv, TypeOK, Grows, Outcomes
<1>10. ArgsInv' /\ SeenInv'
  BY <1>6 DEF ArgsInv, SeenInv
<1>11. CallInv'
  <2>1. \A i \in DOMAIN sessions' : sessions'[i].call <= calls
    <3> TAKE i \in DOMAIN sessions'
    <3>1. CASE i \in DOMAIN sessions
      BY <1>2, <3>1 DEF IndInv, CallInv, Grows
    <3>2. CASE sessions'[i].call = calls
      BY <3>2 DEF IndInv, TypeOK
    <3> QED BY <1>2, <3>1, <3>2 DEF Grows
  <2> QED BY <1>1, <1>2, <1>6, <2>1 DEF IndInv, CallInv
<1>12. ReceiptNamesLastCopy'
  BY <1>1, <1>2 DEF IndInv, ReceiptNamesLastCopy, CopiesOf
<1> QED BY <1>8, <1>9, <1>10, <1>11, <1>12 DEF IndInv

\* A new receipt names the invoice just received: the last copy of its call.
LEMMA SentStep == ASSUME IndInv, Sent PROVE IndInv'
<1> DEFINE new == [ref |-> Len(invoices'), content |-> args.content, call |-> calls]
<1>1. /\ ReceiveInvoice /\ Finish("ok") /\ receipts' = Append(receipts, new)
      /\ UNCHANGED <<handles, confirmed, calls>> /\ pc = "send"
  BY DEF Sent, Handle, Reference
<1>2. /\ Grows /\ Len(invoices') \in DOMAIN invoices' /\ Len(invoices') = Len(invoices) + 1
      /\ DOMAIN invoices' = 1 .. (Len(invoices) + 1)
      /\ invoices'[Len(invoices')].content = args.content
      /\ invoices'[Len(invoices')].call = calls /\ UNCHANGED sessions
  BY <1>1, ReceiveGrows DEF IndInv
<1>3. /\ new \in ReceiptType /\ new.ref = Len(invoices')
      /\ new.content = args.content /\ new.call = calls
  BY <1>1, <1>2 DEF IndInv, TypeOK, ArgsInv, ReceiptType
<1> HIDE DEF new
<1>4. /\ receipts \in Seq(ReceiptType) /\ receipts' \in Seq(ReceiptType)
      /\ Len(receipts) \in Nat
      /\ DOMAIN receipts = 1 .. Len(receipts) /\ DOMAIN receipts' = 1 .. (Len(receipts) + 1)
      /\ \A r \in DOMAIN receipts : receipts'[r] = receipts[r]
      /\ receipts'[Len(receipts) + 1] = new
  BY <1>1, <1>3, AppendFacts DEF IndInv, TypeOK
<1>5. \A r \in DOMAIN receipts' : r \in DOMAIN receipts \/ r = Len(receipts) + 1
  BY <1>4
<1>6. /\ pc' = "idle" /\ args' = NoArgs /\ outcome' = "ok"
      /\ attempt' = 0 /\ seen' = 0 /\ elapsed' = 0
  BY <1>1 DEF Finish
<1>7. \A r \in DOMAIN receipts' : receipts'[r].ref \in DOMAIN invoices'
  BY <1>2, <1>3, <1>4, <1>5 DEF IndInv, TypeOK, Grows
<1>8. ReceiptNamesLastCopy'
  <2> SUFFICES ASSUME NEW r \in DOMAIN receipts'
               PROVE  /\ receipts'[r].ref \in CopiesOf(receipts[r].call)'
                      /\ invoices'[receipts'[r].ref].content = receipts'[r].content
                      /\ \A i \in CopiesOf(receipts[r].call)' : i <= receipts'[r].ref
    BY DEF ReceiptNamesLastCopy, CopiesOf
  <2>1. CASE r \in DOMAIN receipts
    <3>1. receipts'[r] = receipts[r]
      BY <1>4, <2>1
    <3>2. /\ receipts[r].ref \in CopiesOf(receipts[r].call)
          /\ invoices[receipts[r].ref].content = receipts[r].content
          /\ \A i \in CopiesOf(receipts[r].call) : i <= receipts[r].ref
      BY <2>1 DEF IndInv, ReceiptNamesLastCopy
    <3>3. receipts[r].call \in Nat /\ receipts[r].call < calls /\ calls \in Nat
      BY <1>1, <2>1, FieldTypes DEF IndInv, TypeOK, CallInv
    <3>4. PICK c \in Nat : c = receipts[r].call
      BY <3>3
    <3>5. c # calls
      BY <3>3, <3>4
    <3>6. \A i : i \in CopiesOf(c)' <=> i \in CopiesOf(c)
      <4> TAKE i
      <4>1. ASSUME i \in CopiesOf(c) PROVE i \in CopiesOf(c)'
        BY <1>2, <4>1 DEF CopiesOf, Grows
      <4>2. ASSUME i \in CopiesOf(c)' PROVE i \in CopiesOf(c)
        <5>1. i \in DOMAIN invoices' /\ invoices'[i].call = c
          BY <4>2 DEF CopiesOf
        <5>2. i \in DOMAIN invoices
          BY <1>2, <3>5, <5>1 DEF Grows
        <5> QED BY <1>2, <5>1, <5>2 DEF CopiesOf, Grows
      <4> QED BY <4>1, <4>2
    <3>7. invoices'[receipts[r].ref].content = receipts[r].content
      BY <1>2, <3>2 DEF CopiesOf, Grows
    <3>8. CopiesOf(receipts[r].call)' = CopiesOf(c)'
      BY <3>1, <3>4 DEF CopiesOf
    <3> QED BY <3>1, <3>2, <3>4, <3>6, <3>7, <3>8
  <2>2. CASE r = Len(receipts) + 1
    <3>1. receipts'[r] = new
      BY <1>4, <2>2
    <3>2. Len(invoices') \in CopiesOf(calls)'
      BY <1>1, <1>2 DEF CopiesOf
    <3>3. \A i \in CopiesOf(calls)' : i <= Len(invoices')
      BY <1>2 DEF CopiesOf, IndInv, TypeOK
    <3>4. CopiesOf(receipts[r].call)' = CopiesOf(calls)'
      BY <1>1, <1>3, <3>1 DEF CopiesOf
    <3>5. invoices'[receipts'[r].ref].content = receipts'[r].content
      BY <1>2, <1>3, <3>1
    <3> QED BY <1>3, <3>1, <3>2, <3>3, <3>4, <3>5
  <2> QED BY <1>5, <2>1, <2>2
<1>9. TypeOK'
  <2>1. NoArgs \in Arguments /\ elapsed' \in 0 .. (Timeout + 1)
    BY <1>6, BoundsAssumption DEF NoArgs, Arguments
  <2> QED BY <1>1, <1>2, <1>4, <1>6, <1>7, <2>1 DEF IndInv, TypeOK, Grows, Outcomes
<1>10. ArgsInv' /\ SeenInv'
  BY <1>6 DEF ArgsInv, SeenInv
<1>11. CallInv'
  <2>1. \A i \in DOMAIN invoices' : invoices'[i].call <= calls
    <3> TAKE i \in DOMAIN invoices'
    <3>1. CASE i \in DOMAIN invoices
      BY <1>2, <3>1 DEF IndInv, CallInv, Grows
    <3>2. CASE invoices'[i].call = calls
      BY <3>2 DEF IndInv, TypeOK
    <3> QED BY <1>2, <3>1, <3>2 DEF Grows
  <2>2. \A r \in DOMAIN receipts' : receipts'[r].call <= calls
    <3> TAKE r \in DOMAIN receipts'
    <3>1. CASE r \in DOMAIN receipts
      BY <1>4, <3>1 DEF IndInv, CallInv
    <3>2. CASE r = Len(receipts) + 1
      BY <1>3, <1>4, <3>2 DEF IndInv, TypeOK
    <3> QED BY <1>5, <3>1, <3>2
  <2> QED BY <1>1, <1>2, <1>6, <2>1, <2>2 DEF IndInv, CallInv
<1>12. HandleOpensItsSession'
  BY <1>1, <1>2 DEF IndInv, HandleOpensItsSession
<1> QED BY <1>8, <1>9, <1>10, <1>11, <1>12 DEF IndInv

LEMMA NextStep == ASSUME IndInv, [Next]_vars PROVE IndInv'
<1>1. CASE UNCHANGED vars
  <2>1. UNCHANGED <<local, caller, server>>
    BY <1>1 DEF vars
  <2> QED BY <2>1, UnchangedGrows, AsideStep DEF IndInv
<1>2. CASE Begin
  BY <1>2, BeginStep
<1>3. CASE Trouble
  BY <1>3, TroubleStep
<1>4. CASE Progress
  BY <1>4, OnwardStep, AnswerStep, OpenedStep, SentStep DEF Progress
<1>5. CASE \/ Expire \/ Renew
           \/ \E i \in DOMAIN invoices, code \in InProgress \cup {Accepted, Refused} :
                Process(i, code)
  BY <1>5, ServerStep
<1> QED BY <1>1, <1>2, <1>3, <1>4, <1>5 DEF Next, Client

LEMMA Invariance == Spec => []IndInv
<1>1. IndInv /\ [Next]_vars => IndInv'
  BY NextStep
<1> QED BY <1>1, InitIndInv, PTL DEF Spec

\* The variables of the session calls keep their types, and what a handle or a
\* receipt names is there.
THEOREM TypeCorrect == Spec => []TypeOK
<1>1. IndInv => TypeOK
  BY DEF IndInv
<1> QED BY <1>1, Invariance, PTL

\* However many answers were lost and calls repeated, the key of a handle is the
\* key its session was opened with (client.py:507-528).
THEOREM HandleOpensItsSessionHolds == Spec => []HandleOpensItsSession
<1>1. IndInv => HandleOpensItsSession
  BY DEF IndInv
<1> QED BY <1>1, Invariance, PTL

\* For any number of retries a receipt names the last copy of its own invoice
\* (client.py:556-559).
THEOREM ReceiptNamesLastCopyHolds == Spec => []ReceiptNamesLastCopy
<1>1. IndInv => ReceiptNamesLastCopy
  BY DEF IndInv
<1> QED BY <1>1, Invariance, PTL
--------------------------------------------------------------------------------
(* What a wait and a close report. *)

\* Only the three verdicts end a judgement.
LEMMA JudgementEnds ==
  ASSUME IndInv, Next, pc = "judge", pc' = "idle"
  PROVE  Delivered \/ Failed \/ TimedOut
<1>1. ~Begin
  BY DEF Begin, BeginOpen, BeginSend, BeginWait, BeginClose, BeginUpo, Start
<1>2. ~Trouble
  BY DEF Trouble, Fail, Escape, Requests
<1>3. ~Expire /\ ~Renew
  BY DEF Expire, Renew, local
<1>4. \A i, code : ~Process(i, code)
  BY DEF Process, local
<1>5. \A body : ~Closed(body) /\ ~UpoFetched(body)
  BY DEF Closed, UpoFetched
<1>6. ~Unauthenticated /\ ~FetchKey /\ ~NoKey /\ ~Opened /\ ~Sent /\ ~Polled /\ ~Pause
  BY DEF Unauthenticated, Requests, FetchKey, NoKey, Opened, Sent, Polled, Pause
<1> QED BY <1>1, <1>2, <1>3, <1>4, <1>5, <1>6 DEF Next, Client, Progress

\* A wait times out only past its deadline, and a failure or a success that it
\* reports is one the Ministry has decided, for every deadline (client.py:619-628).
THEOREM WaitIsHonestHolds == Spec => WaitIsHonest
<1> DEFINE honest ==
      pc = "judge" /\ pc' = "idle" =>
       LET code == invoices[args.inv].code
       IN  /\ outcome' = "timeout" => seen \in InProgress /\ elapsed > Timeout
           /\ outcome' = "client_error" => code = Refused
           /\ outcome' = "ok" => code = Accepted
<1>1. ASSUME IndInv, [Next]_vars PROVE [honest]_vars
  <2> SUFFICES ASSUME Next, pc = "judge", pc' = "idle" PROVE honest
    BY <1>1
  <2>1. /\ seen # 0 /\ (seen \notin InProgress => invoices[args.inv].code = seen)
        /\ seen \in InProgress \cup {0, Accepted, Refused}
    BY <1>1 DEF IndInv, SeenInv, TypeOK
  <2>2. CASE Delivered
    BY <2>1, <2>2 DEF Delivered, IsDelivered, Judge, Finish, InProgress, Accepted
  <2>3. CASE Failed
    BY <2>1, <2>3 DEF Failed, Judge, Finish
  <2>4. CASE TimedOut
    BY <2>1, <2>4 DEF TimedOut, GivesUp, Judge, Finish
  <2> QED BY <1>1, <2>2, <2>3, <2>4, JudgementEnds
<1> QED BY <1>1, Invariance, PTL DEF Spec, WaitIsHonest

\* A call under way has no outcome yet.
Undecided == pc # "idle" => outcome = "none"

LEMMA UndecidedHolds == Spec => []Undecided
<1>1. Init => Undecided
  BY DEF Init, Undecided
<1>2. ASSUME Undecided, [Next]_vars PROVE Undecided'
  <2>1. CASE Begin
    BY <2>1, BeginStarts DEF Undecided
  <2>2. CASE Trouble
    BY <1>2, <2>2 DEF Trouble, Fail, Escape, Finish, Requests, Undecided
  <2>3. CASE \/ Unauthenticated \/ FetchKey \/ NoKey \/ Opened \/ Sent \/ Polled
             \/ \E body \in BodyKinds : Closed(body) \/ UpoFetched(body)
    BY <1>2, <2>3 DEF Unauthenticated, FetchKey, NoKey, Opened, Sent, Polled, Closed, UpoFetched, Finish,
                      Undecided
  <2>4. CASE Delivered \/ Failed \/ TimedOut \/ Pause
    BY <1>2, <2>4 DEF Delivered, Failed, TimedOut, Pause, Judge, Finish, Undecided
  <2>5. CASE UNCHANGED local
    BY <1>2, <2>5 DEF local, Undecided
  <2>6. \/ Expire \/ Renew \/ UNCHANGED vars
        \/ \E i \in DOMAIN invoices, code \in InProgress \cup {Accepted, Refused} :
             Process(i, code)
        => UNCHANGED local
    BY DEF Expire, Renew, Process, vars
  <2> QED BY <1>2, <2>1, <2>2, <2>3, <2>4, <2>5, <2>6 DEF Next, Client, Progress
<1> QED BY <1>1, <1>2, PTL DEF Spec

\* Only an answer to the close ends it normally.
LEMMA OnlyClosedReturns ==
  ASSUME Undecided, Next, pc = "close", outcome' = "ok"
  PROVE  CloseSession
<1>1. outcome = "none"
  BY DEF Undecided
<1>2. ~Begin
  BY DEF Begin, BeginOpen, BeginSend, BeginWait, BeginClose, BeginUpo, Start
<1>3. ~Trouble
  BY <1>1 DEF Trouble, Fail, Escape, Finish, Raised
<1>4. ~Unauthenticated /\ ~FetchKey /\ ~NoKey /\ ~Opened /\ ~Sent /\ ~Polled /\ ~Pause
  BY DEF Unauthenticated, Finish, FetchKey, NoKey, Opened, Sent, Polled, Pause
<1>5. ~Delivered /\ ~Failed /\ ~TimedOut
  BY DEF Delivered, Failed, TimedOut, Judge
<1>6. ~Expire /\ ~Renew /\ \A i, code : ~Process(i, code)
  BY <1>1 DEF Expire, Renew, Process, local
<1>7. PICK body \in BodyKinds : Closed(body) \/ UpoFetched(body)
  BY <1>2, <1>3, <1>4, <1>5, <1>6 DEF Next, Client, Progress
<1> QED BY <1>7 DEF Closed, UpoFetched, Handle

\* A close that returns normally has closed the session, whatever body the answer
\* had (client.py:601-608).
THEOREM CloseClosedHolds == Spec => CloseClosed
<1> DEFINE done == pc = "close" /\ outcome' = "ok" => ~sessions'[args.sess].open
<1>1. ASSUME IndInv, Undecided, [Next]_vars PROVE [done]_vars
  <2> SUFFICES ASSUME Next, pc = "close", outcome' = "ok" PROVE done
    BY <1>1
  <2>1. CloseSession
    BY <1>1, OnlyClosedReturns
  <2>2. TypeOK /\ args.sess \in DOMAIN sessions
    BY <1>1 DEF IndInv, ArgsInv
  <2> QED BY <2>1, <2>2, CloseGrows
<1> QED BY <1>1, Invariance, UndecidedHolds, PTL DEF Spec, CloseClosed
--------------------------------------------------------------------------------
(* Refinement: sending and waiting keep the promise of InvoiceDelivery. *)

\* A server that only grows, without deciding anything, accepts nothing.
LEMMA AcceptsNothing ==
  ASSUME UNCHANGED invoices
  PROVE  AcceptedContents' = AcceptedContents
  BY DEF AcceptedContents

\* A copy just received is not accepted.
LEMMA ReceivedIsOpen ==
  ASSUME TypeOK, ArgsInv, pc = "send", ReceiveInvoice
  PROVE  AcceptedContents' = AcceptedContents
<1>1. /\ \A j \in DOMAIN invoices : j \in DOMAIN invoices' /\ invoices'[j] = invoices[j]
      /\ \A j \in DOMAIN invoices' : j \in DOMAIN invoices \/ invoices'[j].code = 100
  <2>1. /\ DOMAIN invoices' = 1 .. (Len(invoices) + 1) /\ Len(invoices) \in Nat
        /\ DOMAIN invoices = 1 .. Len(invoices)
        /\ invoices'[Len(invoices) + 1].code = 100
        /\ \A j \in DOMAIN invoices : invoices'[j] = invoices[j]
    BY ReceiveGrows DEF TypeOK
  <2> QED BY <2>1
<1>2. {j \in DOMAIN invoices' : invoices'[j].code = Accepted}
        = {j \in DOMAIN invoices : invoices[j].code = Accepted}
  BY <1>1 DEF Accepted
<1> QED BY <1>1, <1>2 DEF AcceptedContents

\* Carrying out a request accepts nothing: only the Ministry's decision does.
LEMMA HandlingAcceptsNothing ==
  ASSUME TypeOK, ArgsInv, NEW h \in BOOLEAN, MayHandle(h)
  PROVE  AcceptedContents' = AcceptedContents
<1>1. CASE pc = "send" /\ ReceiveInvoice
  BY <1>1, ReceivedIsOpen
<1>2. CASE UNCHANGED invoices
  BY <1>2, AcceptsNothing
<1> QED BY <1>1, <1>2 DEF MayHandle, Handle, OpenSession, CloseSession, server

\* A decision accepts one content or none.
LEMMA DecisionAccepts ==
  ASSUME TypeOK, NEW i \in DOMAIN invoices,
         NEW code \in InProgress \cup {Accepted, Refused}, Process(i, code)
  PROVE  \/ AcceptedContents' = AcceptedContents
         \/ AcceptedContents' = AcceptedContents \cup {invoices[i].content}
<1>1. /\ DOMAIN invoices' = DOMAIN invoices
      /\ invoices[i].code \in InProgress /\ invoices'[i].code = code
      /\ invoices'[i].content = invoices[i].content
      /\ \A j \in DOMAIN invoices \ {i} : invoices'[j] = invoices[j]
  BY ProcessGrows
<1>2. invoices[i].code # Accepted
  BY <1>1 DEF InProgress, Accepted
<1>3. CASE code = Accepted
  <2>1. {j \in DOMAIN invoices' : invoices'[j].code = Accepted}
          = {j \in DOMAIN invoices : invoices[j].code = Accepted} \cup {i}
    BY <1>1, <1>3
  <2> QED BY <1>1, <1>2, <2>1 DEF AcceptedContents
<1>4. CASE code # Accepted
  <2>1. {j \in DOMAIN invoices' : invoices'[j].code = Accepted}
          = {j \in DOMAIN invoices : invoices[j].code = Accepted}
    BY <1>1, <1>2, <1>4
  <2> QED BY <1>1, <1>2, <2>1 DEF AcceptedContents
<1> QED BY <1>3, <1>4

LEMMA FieldContents == ASSUME TypeOK PROVE \A i \in DOMAIN invoices : invoices[i].content \in Contents
<1>1. \A i \in DOMAIN invoices : invoices[i] \in Invoice
  BY Elements DEF TypeOK
<1> QED BY <1>1 DEF Invoice

LEMMA InitRefines == Init => Abstract!Init
  BY DEF Init, Abstract!Init, AcceptedContents

\* Every step of the calls is a step of the promise, or none of its business.
LEMMA StepRefines == ASSUME IndInv, [Next]_vars PROVE [Abstract!Next]_Abstract!vars
<1> USE DEF Abstract!vars
<1>1. TypeOK /\ ArgsInv /\ SeenInv
  BY DEF IndInv
<1>2. CASE UNCHANGED <<confirmed, invoices>>
  BY <1>2, AcceptsNothing
<1>3. CASE Begin
  BY <1>2, <1>3, BeginStarts DEF server
<1>4. CASE Trouble
  <2>1. PICK h \in BOOLEAN : MayHandle(h) /\ UNCHANGED caller
    BY <1>4 DEF Trouble, Fail, Escape
  <2> QED BY <1>1, <2>1, HandlingAcceptsNothing DEF caller
<1>5. CASE \/ Opened \/ Sent \/ Polled
           \/ \E body \in BodyKinds : Closed(body) \/ UpoFetched(body)
  <2>1. MayHandle(TRUE) /\ UNCHANGED confirmed
    BY <1>5 DEF Opened, Sent, Polled, Closed, UpoFetched, MayHandle, caller
  <2> QED BY <1>1, <2>1, HandlingAcceptsNothing
<1>6. CASE \/ Unauthenticated \/ FetchKey \/ NoKey \/ Failed \/ TimedOut \/ Pause
           \/ Expire \/ Renew \/ UNCHANGED vars
  BY <1>2, <1>6 DEF Unauthenticated, FetchKey, NoKey, Failed, TimedOut, Pause, Judge, Expire, Renew, vars,
                    caller, server
<1>7. CASE Delivered
  <2>1. /\ pc = "judge" /\ seen = Accepted /\ UNCHANGED invoices
        /\ confirmed' = confirmed \cup {args.content}
    BY <1>7 DEF Delivered, IsDelivered, Judge, server
  <2>2. /\ args.inv \in DOMAIN invoices /\ invoices[args.inv].code = Accepted
        /\ args.content = invoices[args.inv].content
    BY <1>1, <2>1 DEF ArgsInv, SeenInv, InProgress, Accepted
  <2>3. args.content \in AcceptedContents
    BY <2>2 DEF AcceptedContents
  <2> QED BY <2>1, <2>3, AcceptsNothing DEF Abstract!Next, Abstract!Confirm
<1>8. ASSUME NEW i \in DOMAIN invoices,
             NEW code \in InProgress \cup {Accepted, Refused}, Process(i, code)
      PROVE  [Abstract!Next]_Abstract!vars
  <2>1. UNCHANGED confirmed
    BY <1>8 DEF Process, caller
  <2>2. invoices[i].content \in Contents
    BY <1>1, FieldContents
  <2> QED BY <1>1, <1>8, <2>1, <2>2, DecisionAccepts DEF Abstract!Next, Abstract!Accept
<1> QED BY <1>3, <1>4, <1>5, <1>6, <1>7, <1>8 DEF Next, Client, Progress

\* The caller is told of the acceptance only of an invoice the Ministry has
\* accepted, whatever was lost or repeated (the safety part of
\* ImplementsInvoiceDelivery; client.py:530-628).
THEOREM SessionRefinesInvoiceDelivery == Spec => Abstract!Init /\ [][Abstract!Next]_Abstract!vars
<1>1. IndInv /\ [Next]_vars => [Abstract!Next]_Abstract!vars
  BY StepRefines
<1> QED BY <1>1, InitRefines, Invariance, PTL DEF Spec
--------------------------------------------------------------------------------
(* How many copies and sessions retries leave. *)

\* While a call may still create something it has created at most one for every
\* attempt it counted.
Quota ==
  /\ attempt <= MaxRetries
  /\ pc = "key"  => SessionsOf(calls) = {}
  /\ pc = "open" => Cardinality(SessionsOf(calls)) <= attempt
  /\ pc = "send" => Cardinality(CopiesOf(calls)) <= attempt
  /\ CopiesPerCall

\* The steps that create nothing for any call.
SameCounts == \A c : SessionsOf(c)' = SessionsOf(c) /\ CopiesOf(c)' = CopiesOf(c)

LEMMA CountTypes ==
  ASSUME TypeOK, NEW c
  PROVE  /\ IsFiniteSet(SessionsOf(c)) /\ Cardinality(SessionsOf(c)) \in Nat
         /\ IsFiniteSet(CopiesOf(c)) /\ Cardinality(CopiesOf(c)) \in Nat
<1>1. /\ DOMAIN sessions = 1 .. Len(sessions) /\ Len(sessions) \in Nat
      /\ DOMAIN invoices = 1 .. Len(invoices) /\ Len(invoices) \in Nat
  BY DEF TypeOK
<1>2. IsFiniteSet(DOMAIN sessions) /\ IsFiniteSet(DOMAIN invoices)
  BY <1>1, FS_Interval
<1>3. SessionsOf(c) \in SUBSET DOMAIN sessions /\ CopiesOf(c) \in SUBSET DOMAIN invoices
  BY DEF SessionsOf, CopiesOf
<1> QED BY <1>2, <1>3, FS_Subset, FS_CardinalityType

\* Nothing is numbered for a call that has not begun.
LEMMA NoFutureCopies ==
  ASSUME TypeOK, CallInv
  PROVE  SessionsOf(calls + 1) = {} /\ CopiesOf(calls + 1) = {}
<1>1. /\ \A i \in DOMAIN sessions : sessions[i].call # calls + 1
      /\ \A i \in DOMAIN invoices : invoices[i].call # calls + 1
  BY FieldTypes DEF TypeOK, CallInv
<1> QED BY <1>1 DEF SessionsOf, CopiesOf

\* Opening a session adds one to its call.
LEMMA OneSessionMore ==
  ASSUME TypeOK, OpenSession, calls' = calls
  PROVE  /\ Cardinality(SessionsOf(calls)') = Cardinality(SessionsOf(calls)) + 1
         /\ \A c : c # calls => SessionsOf(c)' = SessionsOf(c)
         /\ \A c : CopiesOf(c)' = CopiesOf(c)
<1> DEFINE new == Len(sessions) + 1
<1>1. /\ DOMAIN sessions = 1 .. Len(sessions) /\ Len(sessions) \in Nat
      /\ DOMAIN sessions' = 1 .. new /\ sessions'[new].call = calls
      /\ \A j \in DOMAIN sessions : sessions'[j] = sessions[j]
      /\ UNCHANGED invoices
  BY OpenGrows DEF TypeOK
<1>2. DOMAIN sessions' = DOMAIN sessions \cup {new} /\ new \notin DOMAIN sessions
  BY <1>1
<1> HIDE DEF new
<1>3. SessionsOf(calls)' = SessionsOf(calls) \cup {new} /\ new \notin SessionsOf(calls)
  BY <1>1, <1>2 DEF SessionsOf
<1>4. \A c : c # calls => SessionsOf(c)' = SessionsOf(c)
  BY <1>1, <1>2 DEF SessionsOf
<1>5. \A c : CopiesOf(c)' = CopiesOf(c)
  BY <1>1 DEF CopiesOf
<1>6. IsFiniteSet(SessionsOf(calls))
  BY CountTypes
<1>7. Cardinality(SessionsOf(calls)') = Cardinality(SessionsOf(calls)) + 1
  BY <1>3, <1>6, FS_AddElement
<1> QED BY <1>4, <1>5, <1>7

\* Receiving an invoice adds one to its call.
LEMMA OneCopyMore ==
  ASSUME TypeOK, ArgsInv, pc = "send", ReceiveInvoice, calls' = calls
  PROVE  /\ Cardinality(CopiesOf(calls)') = Cardinality(CopiesOf(calls)) + 1
         /\ \A c : c # calls => CopiesOf(c)' = CopiesOf(c)
         /\ \A c : SessionsOf(c)' = SessionsOf(c)
<1> DEFINE new == Len(invoices) + 1
<1>1. /\ DOMAIN invoices = 1 .. Len(invoices) /\ Len(invoices) \in Nat
      /\ DOMAIN invoices' = 1 .. new /\ invoices'[new].call = calls
      /\ \A j \in DOMAIN invoices : invoices'[j] = invoices[j]
      /\ UNCHANGED sessions
  BY ReceiveGrows DEF TypeOK
<1>2. DOMAIN invoices' = DOMAIN invoices \cup {new} /\ new \notin DOMAIN invoices
  BY <1>1
<1> HIDE DEF new
<1>3. CopiesOf(calls)' = CopiesOf(calls) \cup {new} /\ new \notin CopiesOf(calls)
  BY <1>1, <1>2 DEF CopiesOf
<1>4. \A c : c # calls => CopiesOf(c)' = CopiesOf(c)
  BY <1>1, <1>2 DEF CopiesOf
<1>5. \A c : SessionsOf(c)' = SessionsOf(c)
  BY <1>1 DEF SessionsOf
<1>6. IsFiniteSet(CopiesOf(calls))
  BY CountTypes
<1>7. Cardinality(CopiesOf(calls)') = Cardinality(CopiesOf(calls)) + 1
  BY <1>3, <1>6, FS_AddElement
<1> QED BY <1>4, <1>5, <1>7

\* Where nothing is created every call stays within its quota.
LEMMA SameCountsKeep ==
  ASSUME CopiesPerCall, SameCounts, calls' = calls
  PROVE  CopiesPerCall'
<1>1. ASSUME NEW c \in 1 .. calls
      PROVE  /\ Cardinality(CopiesOf(c)') <= MaxRetries + 1
             /\ Cardinality(SessionsOf(c)') <= MaxRetries + 1
  BY <1>1 DEF SameCounts, CopiesPerCall
<1> QED BY <1>1 DEF CopiesPerCall

\* The server, not asked to open or to receive, creates nothing.
LEMMA NothingCreated ==
  ASSUME TypeOK, ArgsInv, Grows,
         DOMAIN sessions' = DOMAIN sessions, DOMAIN invoices' = DOMAIN invoices
  PROVE  SameCounts
  BY DEF Grows, SameCounts, SessionsOf, CopiesOf

\* What carrying out a request adds.
LEMMA HandleCounts ==
  ASSUME TypeOK, ArgsInv, NEW h \in BOOLEAN, MayHandle(h), calls' = calls
  PROVE  \/ SameCounts
         \/ /\ pc = "open"
            /\ Cardinality(SessionsOf(calls)') = Cardinality(SessionsOf(calls)) + 1
            /\ \A c : c # calls => SessionsOf(c)' = SessionsOf(c)
            /\ \A c : CopiesOf(c)' = CopiesOf(c)
         \/ /\ pc = "send"
            /\ Cardinality(CopiesOf(calls)') = Cardinality(CopiesOf(calls)) + 1
            /\ \A c : c # calls => CopiesOf(c)' = CopiesOf(c)
            /\ \A c : SessionsOf(c)' = SessionsOf(c)
<1>1. CASE UNCHANGED server
  BY <1>1 DEF server, SameCounts, SessionsOf, CopiesOf
<1>2. CASE pc = "open" /\ OpenSession
  BY <1>2, OneSessionMore
<1>3. CASE pc = "send" /\ ReceiveInvoice
  BY <1>3, OneCopyMore
<1>4. CASE pc = "close" /\ CloseSession
  <2>1. Grows /\ DOMAIN sessions' = DOMAIN sessions /\ UNCHANGED invoices
    BY <1>4, CloseGrows DEF ArgsInv
  <2> QED BY <2>1, NothingCreated
<1> QED BY <1>1, <1>2, <1>3, <1>4 DEF MayHandle, Handle

\* A request, carried out or not, leaves one more behind than before at most.
LEMMA RequestCounts ==
  ASSUME TypeOK, ArgsInv, Quota, NEW h \in BOOLEAN, MayHandle(h), calls' = calls
  PROVE  /\ CopiesPerCall'
         /\ pc = "key"  => SessionsOf(calls)' = {}
         /\ pc = "open" => Cardinality(SessionsOf(calls)') <= attempt + 1
         /\ pc = "send" => Cardinality(CopiesOf(calls)') <= attempt + 1
<1>1. /\ attempt \in Nat /\ MaxRetries \in Nat /\ attempt <= MaxRetries
      /\ Cardinality(SessionsOf(calls)) \in Nat /\ Cardinality(CopiesOf(calls)) \in Nat
  BY CountTypes, MaxRetriesAssumption DEF TypeOK, Quota
<1>2. CASE SameCounts
  <2>1. SessionsOf(calls)' = SessionsOf(calls) /\ CopiesOf(calls)' = CopiesOf(calls)
    BY <1>2 DEF SameCounts, SessionsOf, CopiesOf
  <2>2. /\ pc = "open" => Cardinality(SessionsOf(calls)') <= attempt + 1
        /\ pc = "send" => Cardinality(CopiesOf(calls)') <= attempt + 1
    BY <1>1, <2>1 DEF Quota
  <2>3. pc = "key" => SessionsOf(calls)' = {}
    BY <2>1 DEF Quota
  <2> QED BY <1>2, <2>2, <2>3, SameCountsKeep DEF Quota
<1>3. CASE /\ pc = "open"
           /\ Cardinality(SessionsOf(calls)') = Cardinality(SessionsOf(calls)) + 1
           /\ \A c : c # calls => SessionsOf(c)' = SessionsOf(c)
           /\ \A c : CopiesOf(c)' = CopiesOf(c)
  <2>1. Cardinality(SessionsOf(calls)') <= attempt + 1
    BY <1>1, <1>3 DEF Quota
  <2>2. Cardinality(SessionsOf(calls)') <= MaxRetries + 1
    BY <1>1, <1>3 DEF Quota
  <2>3. ASSUME NEW c \in 1 .. calls
        PROVE  /\ Cardinality(CopiesOf(c)') <= MaxRetries + 1
               /\ Cardinality(SessionsOf(c)') <= MaxRetries + 1
    <3>1. CASE c = calls
      <4>1. SessionsOf(c)' = SessionsOf(calls)'
        BY <3>1 DEF SessionsOf
      <4> QED BY <1>3, <2>2, <4>1 DEF Quota, CopiesPerCall
    <3>2. CASE c # calls
      BY <1>3, <3>2 DEF Quota, CopiesPerCall
    <3> QED BY <3>1, <3>2
  <2> QED BY <1>3, <2>1, <2>3 DEF CopiesPerCall
<1>4. CASE /\ pc = "send"
           /\ Cardinality(CopiesOf(calls)') = Cardinality(CopiesOf(calls)) + 1
           /\ \A c : c # calls => CopiesOf(c)' = CopiesOf(c)
           /\ \A c : SessionsOf(c)' = SessionsOf(c)
  <2>1. Cardinality(CopiesOf(calls)') <= attempt + 1
    BY <1>1, <1>4 DEF Quota
  <2>2. Cardinality(CopiesOf(calls)') <= MaxRetries + 1
    BY <1>1, <1>4 DEF Quota
  <2>3. ASSUME NEW c \in 1 .. calls
        PROVE  /\ Cardinality(CopiesOf(c)') <= MaxRetries + 1
               /\ Cardinality(SessionsOf(c)') <= MaxRetries + 1
    <3>1. CASE c = calls
      <4>1. CopiesOf(c)' = CopiesOf(calls)'
        BY <3>1 DEF CopiesOf
      <4> QED BY <1>4, <2>2, <4>1 DEF Quota, CopiesPerCall
    <3>2. CASE c # calls
      BY <1>4, <3>2 DEF Quota, CopiesPerCall
    <3> QED BY <3>1, <3>2
  <2> QED BY <1>4, <2>1, <2>3 DEF CopiesPerCall
<1> QED BY <1>2, <1>3, <1>4, HandleCounts

\* A request that ends its call, or is tried again with one attempt more counted,
\* keeps the quota.
LEMMA QuotaAnswered ==
  ASSUME TypeOK, ArgsInv, Quota, NEW h \in BOOLEAN, MayHandle(h), calls' = calls,
         \/ pc' \in {"idle", "judge"} /\ attempt' = 0
         \/ pc' = pc /\ attempt' = attempt + 1 /\ attempt < MaxRetries
  PROVE  Quota'
<1>1. attempt' <= MaxRetries
  BY MaxRetriesAssumption DEF TypeOK
<1> QED BY <1>1, RequestCounts DEF Quota

LEMMA InitQuota == Init => Quota
  BY MaxRetriesAssumption DEF Init, Quota, CopiesPerCall

\* A new call has created nothing yet.
LEMMA QuotaBegin == ASSUME IndInv, Quota, Begin PROVE Quota'
<1>1. /\ calls' = calls + 1 /\ attempt' = 0 /\ UNCHANGED <<sessions, invoices>>
      /\ calls \in Nat /\ MaxRetries \in Nat
  BY BeginStarts, MaxRetriesAssumption DEF server, IndInv, TypeOK
<1>2. \A c : SessionsOf(c)' = SessionsOf(c) /\ CopiesOf(c)' = CopiesOf(c)
  BY <1>1 DEF SessionsOf, CopiesOf
<1>3. SessionsOf(calls + 1) = {} /\ CopiesOf(calls + 1) = {}
  BY NoFutureCopies DEF IndInv
<1>4. SessionsOf(calls)' = {} /\ CopiesOf(calls)' = {}
  BY <1>1, <1>3 DEF SessionsOf, CopiesOf
<1>5. Cardinality({}) = 0
  BY FS_EmptySet
<1>6. ASSUME NEW c \in 1 .. (calls + 1)
      PROVE  /\ Cardinality(CopiesOf(c)) <= MaxRetries + 1
             /\ Cardinality(SessionsOf(c)) <= MaxRetries + 1
  <2>1. CASE c = calls + 1
    BY <1>1, <1>3, <1>5, <2>1
  <2>2. CASE c # calls + 1
    <3>1. c \in 1 .. calls
      BY <1>1, <2>2
    <3> QED BY <3>1 DEF Quota, CopiesPerCall
  <2> QED BY <2>1, <2>2
<1>7. CopiesPerCall'
  BY <1>1, <1>2, <1>6 DEF CopiesPerCall
<1> QED BY <1>1, <1>4, <1>5, <1>7 DEF Quota

\* Every step keeps every call within its quota.
LEMMA QuotaStep == ASSUME IndInv, Quota, [Next]_vars PROVE Quota'
<1>1. TypeOK /\ ArgsInv
  BY DEF IndInv
<1>2. CASE Begin
  BY <1>2, QuotaBegin
<1>3. ASSUME NEW s \in Failures, NEW h \in BOOLEAN, Fail(s, h) PROVE Quota'
  BY <1>1, <1>3, QuotaAnswered DEF Fail, RetryAgain, Finish, caller
<1>4. ASSUME NEW h \in BOOLEAN, Escape(h) PROVE Quota'
  BY <1>1, <1>4, QuotaAnswered DEF Escape, Finish, caller
<1>5. CASE \/ Opened \/ Sent \/ Polled
           \/ \E body \in BodyKinds : Closed(body) \/ UpoFetched(body)
  <2>1. MayHandle(TRUE) /\ calls' = calls /\ pc' \in {"idle", "judge"} /\ attempt' = 0
    BY <1>5 DEF Opened, Sent, Polled, Closed, UpoFetched, Finish, MayHandle, caller
  <2> QED BY <1>1, <2>1, QuotaAnswered
<1>6. CASE Unauthenticated \/ NoKey \/ Delivered \/ Failed \/ TimedOut
  <2>1. MayHandle(FALSE) /\ calls' = calls /\ pc' = "idle" /\ attempt' = 0
    BY <1>6 DEF Unauthenticated, NoKey, Delivered, Failed, TimedOut, Judge, Finish, MayHandle, caller
  <2> QED BY <1>1, <2>1, QuotaAnswered
<1>7. CASE FetchKey \/ Pause
  <2>1. /\ MayHandle(FALSE) /\ calls' = calls
        /\ \/ pc = "key" /\ pc' = "open" /\ attempt' = 0
           \/ pc' = "status" /\ attempt' = attempt
    BY <1>7 DEF FetchKey, Pause, MayHandle, caller
  <2>2. CopiesPerCall' /\ (pc = "key" => SessionsOf(calls)' = {})
    BY <1>1, <2>1, RequestCounts
  <2> QED BY <2>1, <2>2, FS_EmptySet, MaxRetriesAssumption DEF Quota
<1>8. CASE \/ Expire \/ Renew \/ UNCHANGED vars
           \/ \E i \in DOMAIN invoices, code \in InProgress \cup {Accepted, Refused} :
                Process(i, code)
  <2>1. UNCHANGED <<pc, attempt, calls>>
    BY <1>8 DEF Expire, Renew, Process, vars, local, caller
  <2>2. SameCounts
    <3>1. CASE UNCHANGED <<sessions, invoices>>
      BY <3>1 DEF SameCounts, SessionsOf, CopiesOf
    <3>2. ASSUME NEW i \in DOMAIN invoices,
                 NEW code \in InProgress \cup {Accepted, Refused}, Process(i, code)
          PROVE  SameCounts
      <4>1. Grows /\ DOMAIN invoices' = DOMAIN invoices /\ UNCHANGED sessions
        BY <1>1, <3>2, ProcessGrows DEF Process
      <4> QED BY <1>1, <4>1, NothingCreated
    <3> QED BY <1>8, <3>1, <3>2 DEF Expire, Renew, vars, server
  <2>3. SessionsOf(calls)' = SessionsOf(calls) /\ CopiesOf(calls)' = CopiesOf(calls)
    BY <2>1, <2>2 DEF SameCounts, SessionsOf, CopiesOf
  <2> QED BY <2>1, <2>2, <2>3, SameCountsKeep DEF Quota
<1> QED BY <1>2, <1>3, <1>4, <1>5, <1>6, <1>7, <1>8 DEF Next, Client, Progress, Trouble

\* One send leaves at most max_retries + 1 copies of its invoice at the Ministry
\* and one open as many sessions, for every retry budget and any number of calls
\* (client.py:145-155).
THEOREM CopiesPerCallHolds == Spec => []CopiesPerCall
<1>1. IndInv /\ Quota /\ [Next]_vars => Quota'
  BY QuotaStep
<1>2. Quota => CopiesPerCall
  BY DEF Quota
<1> QED BY <1>1, <1>2, InitQuota, Invariance, PTL DEF Spec
--------------------------------------------------------------------------------
(* Every call is finite: CallEnds without its fairness. *)

\* The requests still ahead of the call, every poll with its judgement counted,
\* and the attempts left at this one.
Stage == CASE pc = "idle"                            -> 0
           [] pc \in {"open", "send", "close", "upo"} -> 1
           [] pc = "key"                             -> 2
           [] pc \in {"status", "judge"}             -> Timeout + 3 - elapsed

Tries == IF pc \in {"idle", "judge"} THEN 0 ELSE MaxRetries + 1 - attempt

StepsLeft == Stage * (MaxRetries + 2) + Tries

\* The loop of _request makes no attempt beyond its retries.
TriesLeft == attempt <= MaxRetries

LEMMA InitTriesLeft == Init => TriesLeft
  BY MaxRetriesAssumption DEF Init, TriesLeft

LEMMA TriesLeftStep == ASSUME TypeOK, TriesLeft, [Next]_vars PROVE TriesLeft'
<1> USE MaxRetriesAssumption
<1>1. CASE attempt' \in {attempt, 0}
  BY <1>1 DEF TriesLeft
<1>2. ASSUME NEW s \in Failures, NEW h \in BOOLEAN, Fail(s, h) PROVE TriesLeft'
  <2>1. CASE RetryAgain(s, attempt)
    BY <1>2, <2>1 DEF Fail, RetryAgain, TypeOK, TriesLeft
  <2>2. CASE ~RetryAgain(s, attempt)
    BY <1>1, <1>2, <2>2 DEF Fail, Finish
  <2> QED BY <2>1, <2>2
<1>3. CASE Begin
  BY <1>1, <1>3 DEF Begin, BeginOpen, BeginSend, BeginWait, BeginClose, BeginUpo, Start
<1>4. CASE Progress
  BY <1>1, <1>4 DEF Progress, Unauthenticated, FetchKey, NoKey, Opened, Sent, Polled, Delivered, Failed,
                    TimedOut, Pause, Closed, UpoFetched, Judge, Finish
<1>5. ASSUME NEW h \in BOOLEAN, Escape(h) PROVE TriesLeft'
  BY <1>1, <1>5 DEF Escape, Finish
<1>6. CASE UNCHANGED local
  BY <1>1, <1>6 DEF local
<1>7. \/ Expire \/ Renew \/ UNCHANGED vars
      \/ \E i \in DOMAIN invoices, code \in InProgress \cup {Accepted, Refused} :
           Process(i, code)
      => UNCHANGED local
  BY DEF Expire, Renew, Process, vars
<1> QED BY <1>2, <1>3, <1>4, <1>5, <1>6, <1>7 DEF Next, Client, Trouble

\* The range of the two counts, and what is always left at a request.
CountTypesOK ==
  /\ Stage \in 0 .. (Timeout + 3) /\ Tries \in 0 .. (MaxRetries + 1)
  /\ pc # "idle" => Stage >= 1
  /\ pc \in {"status", "judge"} => Stage >= 2
  /\ pc \notin {"idle", "judge"} => Tries >= 1

LEMMA StepTypes == ASSUME TypeOK, TriesLeft PROVE CountTypesOK
<1> USE DEF CountTypesOK
<1>1. /\ pc \in {"key", "open", "send", "status", "close", "upo", "idle", "judge"}
      /\ elapsed \in 0 .. (Timeout + 1) /\ attempt \in Nat /\ attempt <= MaxRetries
      /\ Timeout \in Nat /\ MaxRetries \in Nat
  BY MaxRetriesAssumption, BoundsAssumption DEF TypeOK, TriesLeft, Requests
<1>2. Tries \in 0 .. (MaxRetries + 1) /\ (pc \notin {"idle", "judge"} => Tries >= 1)
  BY <1>1 DEF Tries
<1>3. CASE pc \in {"status", "judge"}
  <2>1. Stage = Timeout + 3 - elapsed
    BY <1>3 DEF Stage
  <2> QED BY <1>1, <1>2, <2>1
<1>4. CASE pc \notin {"status", "judge"}
  <2>1. \/ pc = "idle" /\ Stage = 0
        \/ pc # "idle" /\ Stage \in {1, 2}
    BY <1>1, <1>4 DEF Stage
  <2> QED BY <1>1, <1>2, <1>4, <2>1
<1> QED BY <1>3, <1>4

\* A step of the client passes a request or uses up an attempt.
LEMMA ClientAdvances ==
  ASSUME TypeOK, CountTypesOK, CountTypesOK', Client
  PROVE  Stage' < Stage \/ (Stage' <= Stage /\ Tries' < Tries)
<1> USE MaxRetriesAssumption, BoundsAssumption
<1>1. /\ Stage \in 0 .. (Timeout + 3) /\ Tries \in 0 .. (MaxRetries + 1)
      /\ pc # "idle" => Stage >= 1
      /\ pc \in {"status", "judge"} => Stage >= 2
      /\ pc \notin {"idle", "judge"} => Tries >= 1
      /\ Stage' \in 0 .. (Timeout + 3)
  BY DEF CountTypesOK
<1>2. ASSUME pc # "idle", pc' = "idle" PROVE Stage' < Stage
  <2>1. Stage' = 0
    BY <1>2 DEF Stage
  <2> QED BY <1>1, <1>2, <2>1
<1>3. ASSUME NEW s \in Failures, NEW h \in BOOLEAN, Fail(s, h)
      PROVE  Stage' < Stage \/ (Stage' <= Stage /\ Tries' < Tries)
  <2>1. CASE RetryAgain(s, attempt)
    <3>1. /\ pc' = pc /\ elapsed' = elapsed /\ attempt' = attempt + 1
          /\ pc \in Requests /\ attempt \in Nat
      BY <1>3, <2>1 DEF Fail, TypeOK
    <3>2. Stage' = Stage
      BY <3>1 DEF Stage
    <3>3. Tries' < Tries
      BY <3>1 DEF Tries, Requests
    <3> QED BY <1>1, <3>2, <3>3
  <2>2. CASE ~RetryAgain(s, attempt)
    BY <1>2, <1>3, <2>2 DEF Fail, Finish, Requests
  <2> QED BY <2>1, <2>2
<1>4. ASSUME NEW h \in BOOLEAN, Escape(h) PROVE Stage' < Stage
  BY <1>2, <1>4 DEF Escape, Finish, Requests
<1>5. CASE \/ Unauthenticated \/ NoKey \/ Opened \/ Sent
           \/ Delivered \/ Failed \/ TimedOut
  BY <1>2, <1>5 DEF Unauthenticated, Requests, NoKey, Opened, Sent, Delivered, Failed, TimedOut, Judge, Finish
<1>6. ASSUME NEW body \in BodyKinds, Closed(body) \/ UpoFetched(body) PROVE Stage' < Stage
  BY <1>2, <1>6 DEF Closed, UpoFetched, Finish
<1>7. CASE FetchKey
  BY <1>7 DEF FetchKey, Stage
<1>8. CASE Polled
  <2>1. pc = "status" /\ pc' = "judge" /\ elapsed' >= elapsed
        /\ elapsed \in Nat /\ elapsed' \in Nat
    BY <1>8 DEF Polled, TypeOK
  <2>2. Stage' <= Stage
    BY <2>1 DEF Stage
  <2>3. Tries' < Tries
    BY <1>1, <2>1 DEF Tries
  <2> QED BY <2>2, <2>3
<1>9. CASE Pause
  <2>1. pc = "judge" /\ pc' = "status" /\ elapsed' \in (elapsed + 1) .. (Timeout + 1)
    BY <1>9 DEF Pause, AfterPause
  <2>2. elapsed \in Nat /\ Timeout \in Nat
    BY DEF TypeOK
  <2>3. Stage = Timeout + 3 - elapsed /\ Stage' = Timeout + 3 - elapsed'
    BY <2>1 DEF Stage
  <2>4. elapsed' \in Nat /\ elapsed < elapsed'
    BY <2>1, <2>2
  <2>5. Timeout + 3 - elapsed' < Timeout + 3 - elapsed
    BY <2>2, <2>4, LaterIsNearer
  <2> QED BY <2>3, <2>5
<1> QED BY <1>3, <1>4, <1>5, <1>6, <1>7, <1>8, <1>9 DEF Client, Trouble, Progress

\* A call takes fewer than (Timeout + 4) * (MaxRetries + 2) steps of its own,
\* whatever the Ministry decides and the transport does, and whether or not the
\* token expires under it: it neither polls nor retries for ever (client.py:505-640).
THEOREM CallIsFinite ==
  Spec => /\ [](StepsLeft \in 0 .. ((Timeout + 4) * (MaxRetries + 2) - 1))
          /\ [][pc # "idle" => IF Client THEN StepsLeft' < StepsLeft
                                         ELSE StepsLeft' = StepsLeft]_vars
<1>1. Spec => [](TypeOK /\ CountTypesOK)
  <2>1. IndInv /\ TriesLeft /\ [Next]_vars => TriesLeft'
    BY TriesLeftStep DEF IndInv
  <2>2. IndInv /\ TriesLeft => TypeOK /\ CountTypesOK
    BY StepTypes DEF IndInv
  <2> QED BY InitTriesLeft, Invariance, <2>1, <2>2, PTL DEF Spec
<1>2. ASSUME CountTypesOK
      PROVE  StepsLeft \in 0 .. ((Timeout + 4) * (MaxRetries + 2) - 1)
  <2>1. /\ Stage \in Nat /\ Stage < Timeout + 4 /\ Tries \in 0 .. (MaxRetries + 1)
        /\ MaxRetries \in Nat /\ Timeout + 4 \in Nat
    BY <1>2, MaxRetriesAssumption, BoundsAssumption DEF CountTypesOK
  <2>2. StepsLeft < (Timeout + 4) * (MaxRetries + 2) + 0
    BY <2>1, StageOutweighsTries DEF StepsLeft
  <2>3. StepsLeft \in Nat /\ (Timeout + 4) * (MaxRetries + 2) \in Nat
    BY <2>1 DEF StepsLeft
  <2> QED BY <2>2, <2>3
<1>3. ASSUME TypeOK, CountTypesOK, CountTypesOK', [Next]_vars
      PROVE  [pc # "idle" => IF Client THEN StepsLeft' < StepsLeft
                                       ELSE StepsLeft' = StepsLeft]_vars
  <2> SUFFICES ASSUME Next, pc # "idle"
               PROVE  IF Client THEN StepsLeft' < StepsLeft ELSE StepsLeft' = StepsLeft
    BY <1>3
  <2>1. CASE Client
    <3>1. /\ Stage \in Nat /\ Stage' \in Nat /\ Tries \in Nat /\ MaxRetries \in Nat
          /\ Tries' \in 0 .. (MaxRetries + 1)
      BY <1>3, MaxRetriesAssumption, BoundsAssumption DEF CountTypesOK
    <3>2. Stage' < Stage \/ (Stage' <= Stage /\ Tries' < Tries)
      BY <1>3, <2>1, ClientAdvances
    <3>3. StepsLeft' < StepsLeft
      BY <3>1, <3>2, StageOutweighsTries DEF StepsLeft
    <3> QED BY <2>1, <3>3
  <2>2. CASE ~Client
    <3>1. ~Begin
      BY DEF Begin, BeginOpen, BeginSend, BeginWait, BeginClose, BeginUpo, Start
    <3>2. UNCHANGED local
      BY <2>2, <3>1 DEF Next, Expire, Renew, Process
    <3> QED BY <2>2, <3>2 DEF local, StepsLeft, Stage, Tries
  <2> QED BY <2>1, <2>2
<1> QED BY <1>1, <1>2, <1>3, PTL DEF Spec
================================================================================
