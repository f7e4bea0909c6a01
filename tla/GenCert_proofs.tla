----------------------------- MODULE GenCert_proofs -----------------------------
(***************************************************************************)
(* Proofs about GenCert, for any number of runs: types, which pairs of     *)
(* files an application can load, and for whom a certificate can be used.  *)
(***************************************************************************)
EXTENDS GenCert, TLAPS

LEMMA OrderFacts ==
  /\ Len(Order) = 3
  /\ Order[1] = "prompt" /\ Order[2] = "cert" /\ Order[3] = "key"
  BY DEF Order

\* The certificate is behind a run when it is at the key, and not before.
LEMMA PastCert ==
  ASSUME NEW a \in 0 .. 3
  PROVE  (\E i \in 1 .. (a - 1) : Order[i] = "cert") <=> a = 3
<1>1. CASE a = 3
  <2>1. 2 \in 1 .. (a - 1) /\ Order[2] = "cert"
    BY <1>1, OrderFacts
  <2> QED BY <1>1, <2>1
<1>2. CASE a # 3
  <2>1. \A i \in 1 .. (a - 1) : i = 1
    BY <1>2
  <2> QED BY <1>2, <2>1, OrderFacts
<1> QED BY <1>1, <1>2

LEMMA RunStateIs ==
  RunState = [at : 0 .. 3, open : BOOLEAN, exit : {"none", "ok", "mismatch", "died"},
              nip : Nips \cup {NoNip}, country : Countries \cup {"none"},
              password : Typed]
  BY OrderFacts DEF RunState

LEMMA AdvancedType ==
  ASSUME TypeOK, NEW r \in Runs
  PROVE  /\ Advanced(r) \in RunState /\ ~Advanced(r).open
         /\ Advanced(r).nip = run[r].nip /\ Advanced(r).country = run[r].country
         /\ Advanced(r).at = IF run[r].at = 3 THEN 3 ELSE run[r].at + 1
         /\ Advanced(r).exit = IF run[r].at = 3 THEN "ok" ELSE run[r].exit
<1>1. run[r] \in RunState
  BY DEF TypeOK
<1>2. PICK a \in 0 .. 3 : a = run[r].at
  BY <1>1, RunStateIs
<1>3. PICK next \in 0 .. 3 : next = IF a = 3 THEN a ELSE a + 1
  OBVIOUS
<1>4. PICK e \in {"none", "ok", "mismatch", "died"} :
        e = IF a = 3 THEN "ok" ELSE run[r].exit
  BY <1>1, RunStateIs
<1>5. Advanced(r) = [run[r] EXCEPT !.open = FALSE, !.at = next, !.exit = e]
  BY <1>2, <1>3, <1>4, OrderFacts DEF Advanced, Done
<1>6. Advanced(r) \in RunState
  BY <1>1, <1>5, RunStateIs
<1>7. /\ ~Advanced(r).open /\ Advanced(r).at = next /\ Advanced(r).exit = e
      /\ Advanced(r).nip = run[r].nip /\ Advanced(r).country = run[r].country
  BY <1>1, <1>5, RunStateIs
<1> QED BY <1>2, <1>3, <1>4, <1>6, <1>7

LEMMA FreshType ==
  /\ NotRun \in RunState
  /\ \A nip \in Nips, country \in Countries :
       [NotRun EXCEPT !.at = 1, !.nip = nip, !.country = country] \in RunState
<1>1. NotRun \in RunState
  BY RunStateIs DEF NotRun, Typed
<1>2. ASSUME NEW nip \in Nips, NEW country \in Countries
      PROVE  [NotRun EXCEPT !.at = 1, !.nip = nip, !.country = country] \in RunState
  <2>1. PICK n \in Nips \cup {NoNip} : n = nip
    OBVIOUS
  <2>2. PICK c \in Countries \cup {"none"} : c = country
    OBVIOUS
  <2>3. PICK a \in 0 .. 3 : a = 1
    OBVIOUS
  <2>4. [NotRun EXCEPT !.at = a, !.nip = n, !.country = c] \in RunState
    BY <1>1, RunStateIs
  <2> QED BY <2>1, <2>2, <2>3, <2>4
<1> QED BY <1>1, <1>2

\* The variables keep their types (cli.py:162-196, xades.py:69-89).
THEOREM TypeCorrect == Spec => []TypeOK
<1>1. Init => TypeOK
  <2> SUFFICES ASSUME Init PROVE TypeOK
    OBVIOUS
  <2>1. run \in [Runs -> RunState]
    BY FreshType DEF Init
  <2>2. disk \in [Files -> Runs \cup {Nothing}]
    BY DEF Init
  <2>3. app \in AppState
    BY DEF Init, Idle, AppState
  <2> QED BY <2>1, <2>2, <2>3 DEF Init, TypeOK
<1>2. TypeOK /\ [Next]_vars => TypeOK'
  <2> SUFFICES ASSUME TypeOK, [Next]_vars PROVE TypeOK'
    OBVIOUS
  <2> USE DEF TypeOK
  <2>1. ASSUME NEW r \in Runs, NEW nip \in Nips, NEW country \in Countries,
               Begin(r, nip, country)
        PROVE  TypeOK'
    <3>1. [NotRun EXCEPT !.at = 1, !.nip = nip, !.country = country] \in RunState
      BY FreshType
    <3> QED BY <2>1, <3>1 DEF Begin
  <2>2. ASSUME NEW r \in Runs, NEW first \in Typed, NEW second \in Typed,
               Prompt(r, first, second)
        PROVE  TypeOK'
    <3>1. [Advanced(r) EXCEPT !.password = first] \in RunState
      BY AdvancedType DEF RunState
    <3>2. [run[r] EXCEPT !.exit = "mismatch"] \in RunState
      BY DEF RunState
    <3> QED BY <2>2, <3>1, <3>2 DEF Prompt
  <2>3. ASSUME NEW r \in Runs, NEW f \in Files, Open(r, f) PROVE TypeOK'
    <3>1. [run[r] EXCEPT !.open = TRUE] \in RunState
      BY DEF RunState
    <3>2. run' = [run EXCEPT ![r] = [run[r] EXCEPT !.open = TRUE]]
      BY <2>3 DEF Open
    <3>3. run' \in [Runs -> RunState]
      BY <3>1, <3>2
    <3>4. disturbed' \in BOOLEAN
      BY <2>3 DEF Open, Shared, Reading, Writing, Alive
    <3> QED BY <2>3, <3>3, <3>4 DEF Open
  <2>4. ASSUME NEW r \in Runs, NEW f \in Files, Fill(r, f) PROVE TypeOK'
    BY <2>4, AdvancedType DEF Fill
  <2>5. ASSUME NEW r \in Runs, Die(r) PROVE TypeOK'
    <3>1. [run[r] EXCEPT !.exit = "died"] \in RunState
      BY DEF RunState
    <3>2. run' = [run EXCEPT ![r] = [run[r] EXCEPT !.exit = "died"]]
      BY <2>5 DEF Die
    <3>3. disturbed' \in BOOLEAN
      BY <2>5 DEF Die, Writing, Alive
    <3> QED BY <2>5, <3>1, <3>2, <3>3 DEF Die
  <2>6. CASE ReadCert
    <3>1. app' \in AppState
      BY <2>6 DEF ReadCert, Idle, AppState, Files
    <3>2. disturbed' \in BOOLEAN
      BY <2>6 DEF ReadCert, Shared, Reading, Writing, Alive
    <3> QED BY <2>6, <3>1, <3>2 DEF ReadCert
  <2>7. ASSUME NEW password \in Typed, ReadKey(password) PROVE TypeOK'
    <3>1. app' \in AppState
      BY <2>7 DEF ReadKey, Idle, AppState, Files
    <3> QED BY <2>7, <3>1 DEF ReadKey
  <2>8. ASSUME NEW r \in Runs, CallPrinted(r) PROVE TypeOK'
    <3>1. (\A f \in Files : disk[f] = r) \in BOOLEAN
      OBVIOUS
    <3>2. app' \in AppState
      BY <2>8, <3>1 DEF CallPrinted, Idle, AppState
    <3> QED BY <2>8, <3>2 DEF CallPrinted
  <2>9. ASSUME NEW nip \in Nips, NEW bySubject \in BOOLEAN,
               Authenticate(nip, bySubject)
        PROVE  TypeOK'
    <3>1. app' \in AppState
      BY <2>9 DEF Authenticate, Idle, AppState
    <3> QED BY <2>9, <3>1 DEF Authenticate
  <2>10. CASE UNCHANGED vars
    BY <2>10 DEF vars
  <2> QED BY <2>1, <2>2, <2>3, <2>4, <2>5, <2>6, <2>7, <2>8, <2>9, <2>10
          DEF Next, Run, Application
<1> QED BY <1>1, <1>2, PTL DEF Spec
--------------------------------------------------------------------------------
\* Which runs have begun, and that whatever was read was written by one.
BegunInv ==
  /\ \A r \in Runs : run[r].open => run[r].at \in {2, 3}
  /\ \A r \in Runs : run[r].at # 0 => run[r].nip \in Nips
  /\ \A f \in Files : disk[f] # Nothing => run[disk[f]].at # 0
  /\ app.cert # Nothing => run[app.cert].at # 0
  /\ app.at \in {"loaded", "signed"} => app.cert # Nothing

\* While nothing has disturbed the files: they match when nobody is at them; a run
\* that is at them is there alone, with its own certificate in place once it is
\* past it; and a reader is alone with what it has read.
FilesInv ==
  ~disturbed =>
    /\ (\A r \in Runs : ~Writing(r)) => disk["cert"] = disk["key"]
    /\ \A r \in Runs : Writing(r) =>
         /\ \A q \in Runs : Writing(q) => q = r
         /\ run[r].at = 3 => disk["cert"] = r
    /\ Reading => /\ \A r \in Runs : ~Writing(r)
                  /\ app.cert = disk["cert"]

\* A certificate signed for is one its country or its taxpayer allows.
BindInv ==
  app.at = "signed" /\ app.bySubject
    => ~CertRefused(app.nip, TaxNumber(Serial(app.cert)), TRUE)

LEMMA WritingIs ==
  ASSUME TypeOK, TypeOK', NEW r \in Runs
  PROVE  /\ Writing(r) <=> /\ run[r].at # 0 /\ run[r].exit = "none"
                           /\ run[r].open \/ run[r].at = 3
         /\ Writing(r)' <=> /\ run'[r].at # 0 /\ run'[r].exit = "none"
                            /\ run'[r].open \/ run'[r].at = 3
<1>1. run[r].at \in 0 .. 3 /\ run'[r].at \in 0 .. 3
  BY RunStateIs DEF TypeOK
<1> QED BY <1>1, PastCert DEF Writing, Alive

\* What the steps of a run do to it, and that they leave the others alone.
LEMMA BeginStep ==
  ASSUME TypeOK, NEW r \in Runs, NEW nip \in Nips, NEW country \in Countries,
         Begin(r, nip, country)
  PROVE  /\ run[r].at = 0 /\ run'[r].at = 1 /\ ~run'[r].open /\ run'[r].nip = nip
         /\ \A q \in Runs \ {r} : run'[q] = run[q]
         /\ UNCHANGED <<disk, app, disturbed>>
  BY DEF Begin, TypeOK, NotRun

LEMMA PromptStep ==
  ASSUME TypeOK, NEW r \in Runs, NEW first \in Typed, NEW second \in Typed,
         Prompt(r, first, second)
  PROVE  /\ run[r].at = 1 /\ run'[r].at \in {1, 2}
         /\ run'[r].at = 2 => ~run'[r].open /\ run'[r].exit = "none"
         /\ run'[r].at = 1 => run'[r].open = run[r].open /\ run'[r].exit = "mismatch"
         /\ run'[r].nip = run[r].nip /\ run'[r].country = run[r].country
         /\ \A q \in Runs \ {r} : run'[q] = run[q]
         /\ UNCHANGED <<disk, app, disturbed>>
<1>1. run[r].at = 1 /\ run[r].exit = "none" /\ run[r] \in RunState
  BY OrderFacts, RunStateIs DEF Prompt, IsAt, Alive, TypeOK
<1>2. /\ Advanced(r) \in RunState /\ ~Advanced(r).open /\ Advanced(r).at = 2
      /\ Advanced(r).exit = "none"
      /\ Advanced(r).nip = run[r].nip /\ Advanced(r).country = run[r].country
  BY <1>1, AdvancedType
<1>3. run'[r] = IF first = second THEN [Advanced(r) EXCEPT !.password = first]
                                  ELSE [run[r] EXCEPT !.exit = "mismatch"]
  BY DEF Prompt, TypeOK
<1>4. CASE first = second
  <2>1. /\ run'[r].at = 2 /\ ~run'[r].open /\ run'[r].exit = "none"
        /\ run'[r].nip = run[r].nip /\ run'[r].country = run[r].country
    BY <1>2, <1>3, <1>4, RunStateIs
  <2> QED BY <1>1, <2>1 DEF Prompt, TypeOK
<1>5. CASE first # second
  <2>1. /\ run'[r].at = 1 /\ run'[r].open = run[r].open /\ run'[r].exit = "mismatch"
        /\ run'[r].nip = run[r].nip /\ run'[r].country = run[r].country
    BY <1>1, <1>3, <1>5, RunStateIs
  <2> QED BY <1>1, <2>1 DEF Prompt, TypeOK
<1> QED BY <1>4, <1>5

LEMMA OpenStep ==
  ASSUME TypeOK, NEW r \in Runs, NEW f \in Files, Open(r, f)
  PROVE  /\ run[r].at = (IF f = "cert" THEN 2 ELSE 3) /\ run[r].exit = "none"
         /\ ~run[r].open /\ run'[r] = [run[r] EXCEPT !.open = TRUE]
         /\ run'[r].at = run[r].at /\ run'[r].open /\ run'[r].exit = "none"
         /\ run'[r].nip = run[r].nip /\ run'[r].country = run[r].country
         /\ \A q \in Runs \ {r} : run'[q] = run[q]
         /\ disk' = [disk EXCEPT ![f] = Nothing]
         /\ disturbed' = IF Writing(r) THEN disturbed ELSE Shared
         /\ UNCHANGED app
<1>1. run[r] \in RunState /\ run[r].at \in 0 .. 3
  BY RunStateIs DEF TypeOK
<1>2. /\ run[r].exit = "none" /\ run[r].at # 0 /\ Order[run[r].at] = f /\ ~run[r].open
      /\ run' = [run EXCEPT ![r].open = TRUE]
      /\ disk' = [disk EXCEPT ![f] = Nothing]
      /\ disturbed' = IF Writing(r) THEN disturbed ELSE Shared
      /\ UNCHANGED app
  BY DEF Open, IsAt, Alive
<1>3. run[r].at = IF f = "cert" THEN 2 ELSE 3
  BY <1>1, <1>2, OrderFacts DEF Files
<1>4. run'[r] = [run[r] EXCEPT !.open = TRUE]
  BY <1>2 DEF TypeOK
<1>5. \A q \in Runs \ {r} : run'[q] = run[q]
  BY <1>2 DEF TypeOK
<1> QED BY <1>1, <1>2, <1>3, <1>4, <1>5, RunStateIs

LEMMA FillStep ==
  ASSUME TypeOK, NEW r \in Runs, NEW f \in Files, Fill(r, f)
  PROVE  /\ run[r].at = (IF f = "cert" THEN 2 ELSE 3) /\ run[r].exit = "none"
         /\ run[r].open /\ ~run'[r].open /\ run'[r].at = 3
         /\ run'[r].exit = IF f = "cert" THEN "none" ELSE "ok"
         /\ run'[r].nip = run[r].nip /\ run'[r].country = run[r].country
         /\ \A q \in Runs \ {r} : run'[q] = run[q]
         /\ disk' = [disk EXCEPT ![f] = r]
         /\ UNCHANGED <<app, disturbed>>
<1>1. run[r] \in RunState /\ run[r].at \in 0 .. 3
  BY RunStateIs DEF TypeOK
<1>2. /\ run[r].exit = "none" /\ run[r].at # 0 /\ Order[run[r].at] = f /\ run[r].open
      /\ run' = [run EXCEPT ![r] = Advanced(r)]
      /\ disk' = [disk EXCEPT ![f] = r]
      /\ UNCHANGED <<app, disturbed>>
  BY DEF Fill, IsAt, Alive
<1>3. run[r].at = IF f = "cert" THEN 2 ELSE 3
  BY <1>1, <1>2, OrderFacts DEF Files
<1>4. run'[r] = Advanced(r) /\ \A q \in Runs \ {r} : run'[q] = run[q]
  BY <1>2 DEF TypeOK
<1> QED BY <1>1, <1>2, <1>3, <1>4, AdvancedType

LEMMA DieStep ==
  ASSUME TypeOK, NEW r \in Runs, Die(r)
  PROVE  /\ run[r].at # 0 /\ run'[r].exit = "died"
         /\ run'[r].at = run[r].at /\ run'[r].open = run[r].open
         /\ run'[r].nip = run[r].nip /\ run'[r].country = run[r].country
         /\ \A q \in Runs \ {r} : run'[q] = run[q]
         /\ disturbed' = (disturbed \/ Writing(r))
         /\ UNCHANGED <<disk, app>>
<1>1. run[r] \in RunState
  BY DEF TypeOK
<1>2. run'[r] = [run[r] EXCEPT !.exit = "died"] /\ \A q \in Runs \ {r} : run'[q] = run[q]
  BY DEF Die, TypeOK
<1> QED BY <1>1, <1>2, RunStateIs DEF Die, Alive
--------------------------------------------------------------------------------
LEMMA BegunHolds == Spec => []BegunInv
<1>1. Init => BegunInv
  BY DEF Init, BegunInv, NotRun, Idle, Nothing, Files
<1>2. TypeOK /\ TypeOK' /\ BegunInv /\ [Next]_vars => BegunInv'
  <2> SUFFICES ASSUME TypeOK, TypeOK', BegunInv, [Next]_vars PROVE BegunInv'
    OBVIOUS
  <2>0. /\ \A f \in Files : disk[f] # Nothing => disk[f] \in Runs
        /\ app.cert # Nothing => app.cert \in Runs
        /\ app \in AppState
        /\ \A r \in Runs : run[r] \in RunState /\ run[r].at \in 0 .. 3
    BY RunStateIs DEF TypeOK, AppState
  <2> USE DEF BegunInv
  <2>1. ASSUME NEW r \in Runs, NEW nip \in Nips, NEW country \in Countries,
               Begin(r, nip, country)
        PROVE  BegunInv'
    BY <2>0, <2>1, BeginStep
  <2>2. ASSUME NEW r \in Runs, NEW first \in Typed, NEW second \in Typed,
               Prompt(r, first, second)
        PROVE  BegunInv'
    BY <2>0, <2>2, PromptStep
  <2>3. ASSUME NEW r \in Runs, NEW f \in Files, Open(r, f) PROVE BegunInv'
    <3>1. \A q \in Runs : run[q].at # 0 => run'[q].at # 0 /\ run'[q].nip = run[q].nip
      BY <2>3, OpenStep
    <3>2. \A q \in Runs : run'[q].open => run'[q].at \in {2, 3}
      BY <2>3, OpenStep
    <3>3. \A g \in Files : disk'[g] = Nothing \/ disk'[g] = disk[g]
      BY <2>3, OpenStep DEF TypeOK
    <3>4. \A q \in Runs : run'[q].at # 0 => run[q].at # 0
      BY <2>3, OpenStep
    <3>5. UNCHANGED app
      BY <2>3, OpenStep
    <3> QED BY <2>0, <3>1, <3>2, <3>3, <3>4, <3>5
  <2>4. ASSUME NEW r \in Runs, NEW f \in Files, Fill(r, f) PROVE BegunInv'
    <3>1. \A q \in Runs : run[q].at # 0 => run'[q].at # 0 /\ run'[q].nip = run[q].nip
      BY <2>4, FillStep
    <3>2. \A q \in Runs : run'[q].open => run'[q].at \in {2, 3}
      BY <2>4, FillStep
    <3>3. \A g \in Files : disk'[g] = r \/ disk'[g] = disk[g]
      BY <2>4, FillStep DEF TypeOK
    <3>4. run'[r].at # 0 /\ \A q \in Runs : run'[q].at # 0 => run[q].at # 0
      BY <2>4, FillStep
    <3>5. UNCHANGED app
      BY <2>4, FillStep
    <3> QED BY <2>0, <3>1, <3>2, <3>3, <3>4, <3>5
  <2>5. ASSUME NEW r \in Runs, Die(r) PROVE BegunInv'
    BY <2>0, <2>5, DieStep
  <2>6. CASE ReadCert
    <3>1. app'.at = "reading" /\ app'.cert = disk["cert"] /\ UNCHANGED <<run, disk>>
      BY <2>6 DEF ReadCert, Idle
    <3>2. "cert" \in Files
      BY DEF Files
    <3> QED BY <2>0, <3>1, <3>2
  <2>7. ASSUME NEW password \in Typed, ReadKey(password) PROVE BegunInv'
    <3>1. /\ UNCHANGED <<run, disk>>
          /\ \/ app'.cert = app.cert /\ app.cert # Nothing
             \/ app'.cert = Nothing /\ app'.at = "failed"
      BY <2>0, <2>7 DEF ReadKey, Loads, Idle, AppState
    <3> QED BY <2>0, <3>1
  <2>8. ASSUME NEW r \in Runs, CallPrinted(r) PROVE BegunInv'
    <3>1. UNCHANGED <<run, disk>> /\ app'.cert = Nothing /\ app'.at = "printed_failed"
      BY <2>8 DEF CallPrinted, Loads, Idle
    <3> QED BY <2>0, <3>1
  <2>9. ASSUME NEW nip \in Nips, NEW bySubject \in BOOLEAN,
               Authenticate(nip, bySubject)
        PROVE  BegunInv'
    <3>1. /\ UNCHANGED <<run, disk>> /\ app.at = "loaded"
          /\ \/ app'.cert = app.cert
             \/ app'.cert = Nothing /\ app'.at = "refused"
      BY <2>0, <2>9 DEF Authenticate, Idle, AppState
    <3> QED BY <2>0, <3>1
  <2>10. CASE UNCHANGED vars
    BY <2>10 DEF vars
  <2> QED BY <2>1, <2>2, <2>3, <2>4, <2>5, <2>6, <2>7, <2>8, <2>9, <2>10
          DEF Next, Run, Application
<1> QED BY <1>1, <1>2, TypeCorrect, PTL DEF Spec

\* A certificate made for a Polish taxpayer names that taxpayer, however the
\* country was typed (cli.py:59-60, xades.py:164-167).
LEMMA PolishSerial ==
  ASSUME NEW r \in Runs, run[r].country \in Polish
  PROVE  TaxNumber(Serial(r)) = run[r].nip
<1>1. /\ DOMAIN UpperCase = {"pl", "Pl", "pL", "de", "tin", "tinpl"}
      /\ UpperCase["pl"] = "PL" /\ UpperCase["Pl"] = "PL" /\ UpperCase["pL"] = "PL"
  BY DEF UpperCase
<1>2. Upper(run[r].country) = "PL" /\ Upper("TINPL") = "TINPL"
  BY <1>1 DEF Upper, Polish
<1>3. Serial(r) = [prefix |-> "TINPL", number |-> run[r].nip]
  BY <1>2 DEF Serial, SerialNumber
<1> QED BY <1>2, <1>3 DEF TaxNumber

LEMMA BindHolds == Spec => []BindInv
<1>1. Init => BindInv
  BY DEF Init, BindInv, Idle
<1>2. TypeOK /\ TypeOK' /\ BegunInv /\ BindInv /\ [Next]_vars => BindInv'
  <2> SUFFICES ASSUME TypeOK, TypeOK', BegunInv, BindInv, [Next]_vars PROVE BindInv'
    OBVIOUS
  <2>1. CASE \E nip \in Nips, bySubject \in BOOLEAN : Authenticate(nip, bySubject)
    <3>1. PICK nip \in Nips, bySubject \in BOOLEAN : Authenticate(nip, bySubject)
      BY <2>1
    <3>2. UNCHANGED run
      BY <3>1 DEF Authenticate
    <3>3. CASE CertRefused(nip, TaxNumber(Serial(app.cert)), bySubject)
      BY <3>1, <3>3 DEF Authenticate, Idle, BindInv
    <3>4. CASE ~CertRefused(nip, TaxNumber(Serial(app.cert)), bySubject)
      <4>1. app'.cert = app.cert /\ app'.nip = nip /\ app'.bySubject = bySubject
        BY <3>1, <3>4 DEF Authenticate, TypeOK, AppState
      <4>2. Serial(app.cert)' = Serial(app.cert)
        BY <3>2, <4>1 DEF Serial
      <4> QED BY <3>4, <4>1, <4>2 DEF BindInv
    <3> QED BY <3>3, <3>4
  <2>2. ASSUME ~(\E nip \in Nips, bySubject \in BOOLEAN : Authenticate(nip, bySubject)),
               app'.at = "signed"
        PROVE  /\ UNCHANGED app
               /\ \A r \in Runs : run[r].at # 0 => /\ run'[r].nip = run[r].nip
                                                   /\ run'[r].country = run[r].country
    <3>1. ASSUME NEW r \in Runs, NEW nip \in Nips, NEW country \in Countries,
                 Begin(r, nip, country)
          PROVE  UNCHANGED app /\ \A q \in Runs : run[q].at # 0 => run'[q] = run[q]
      BY <3>1, BeginStep
    <3>2. ASSUME NEW r \in Runs, NEW first \in Typed, NEW second \in Typed,
                 Prompt(r, first, second)
          PROVE  /\ UNCHANGED app
                 /\ \A q \in Runs : /\ run'[q].nip = run[q].nip
                                    /\ run'[q].country = run[q].country
      BY <3>2, PromptStep
    <3>3. ASSUME NEW r \in Runs, NEW f \in Files, Open(r, f) \/ Fill(r, f)
          PROVE  /\ UNCHANGED app
                 /\ \A q \in Runs : /\ run'[q].nip = run[q].nip
                                    /\ run'[q].country = run[q].country
      BY <3>3, OpenStep, FillStep
    <3>4. ASSUME NEW r \in Runs, Die(r)
          PROVE  /\ UNCHANGED app
                 /\ \A q \in Runs : /\ run'[q].nip = run[q].nip
                                    /\ run'[q].country = run[q].country
      BY <3>4, DieStep
    <3>5. CASE ReadCert
      BY <2>2, <3>5 DEF ReadCert, Idle
    <3>6. ASSUME NEW password \in Typed, ReadKey(password) PROVE FALSE
      BY <2>2, <3>6 DEF ReadKey, Idle, TypeOK, AppState
    <3>7. ASSUME NEW r \in Runs, CallPrinted(r) PROVE FALSE
      BY <2>2, <3>7 DEF CallPrinted, Idle
    <3>8. CASE UNCHANGED vars
      BY <3>8 DEF vars
    <3> QED BY <2>2, <3>1, <3>2, <3>3, <3>4, <3>5, <3>6, <3>7, <3>8
            DEF Next, Run, Application
  <2>3. ASSUME ~(\E nip \in Nips, bySubject \in BOOLEAN : Authenticate(nip, bySubject)),
               app'.at = "signed"
        PROVE  BindInv'
    <3>1. UNCHANGED app
      BY <2>2, <2>3
    <3>2. app.cert \in Runs /\ run[app.cert].at # 0
      BY <2>3, <3>1 DEF BegunInv, TypeOK, AppState
    <3>3. /\ run'[app.cert].nip = run[app.cert].nip
          /\ run'[app.cert].country = run[app.cert].country
      BY <2>2, <2>3, <3>2
    <3>4. Serial(app.cert)' = Serial(app.cert)
      BY <3>1, <3>3 DEF Serial
    <3> QED BY <3>1, <3>4 DEF BindInv
  <2> QED BY <2>1, <2>3 DEF BindInv
<1> QED BY <1>1, <1>2, TypeCorrect, BegunHolds, PTL DEF Spec

\* A Polish certificate is never used by subject for another taxpayer, for any
\* number of runs and whatever happens to their files (client.py:324-330).
THEOREM PolishCertBindsHolds == Spec => []PolishCertBinds
<1>1. TypeOK /\ BegunInv /\ BindInv => PolishCertBinds
  <2> SUFFICES ASSUME TypeOK, BegunInv, BindInv, app.at = "signed", app.bySubject,
                      run[app.cert].country \in Polish
               PROVE  app.nip = run[app.cert].nip
    BY DEF PolishCertBinds
  <2>1. app.cert \in Runs /\ run[app.cert].at # 0
    BY DEF BegunInv, TypeOK, AppState
  <2>2. TaxNumber(Serial(app.cert)) = run[app.cert].nip /\ run[app.cert].nip \in Nips
    BY <2>1, PolishSerial DEF BegunInv
  <2>3. ~CertRefused(app.nip, run[app.cert].nip, TRUE)
    BY <2>2 DEF BindInv
  <2> QED BY <2>2, <2>3, TaxpayersAssumption DEF CertRefused
<1> QED BY <1>1, TypeCorrect, BegunHolds, BindHolds, PTL
--------------------------------------------------------------------------------
LEMMA FilesHold == Spec => []FilesInv
<1>1. Init => FilesInv
  <2> SUFFICES ASSUME Init PROVE FilesInv
    OBVIOUS
  <2>1. disk["cert"] = disk["key"]
    BY DEF Init, Files
  <2>2. \A r \in Runs : run[r].at = 0
    BY DEF Init, NotRun
  <2>3. ~Reading
    BY DEF Init, Idle, Reading
  <2> QED BY <2>1, <2>2, <2>3 DEF FilesInv, Writing, Alive
<1>2. TypeOK /\ TypeOK' /\ BegunInv /\ FilesInv /\ [Next]_vars => FilesInv'
  <2> SUFFICES ASSUME TypeOK, TypeOK', BegunInv, FilesInv, [Next]_vars PROVE FilesInv'
    OBVIOUS
  <2>0. "cert" \in Files /\ "key" \in Files /\ \A f \in Files : f \in {"cert", "key"}
    BY DEF Files
  <2>1. ASSUME NEW r \in Runs, NEW nip \in Nips, NEW country \in Countries,
               Begin(r, nip, country)
        PROVE  FilesInv'
    <3>1. \A q \in Runs : Writing(q)' <=> Writing(q)
      BY <2>1, BeginStep, WritingIs
    <3>2. \A q \in Runs : Writing(q) => run'[q].at = run[q].at
      BY <2>1, BeginStep, WritingIs
    <3>3. UNCHANGED <<disk, app, disturbed>>
      BY <2>1, BeginStep
    <3> QED BY <3>1, <3>2, <3>3 DEF FilesInv, Reading
  <2>2. ASSUME NEW r \in Runs, NEW first \in Typed, NEW second \in Typed,
               Prompt(r, first, second)
        PROVE  FilesInv'
    <3>1. \A q \in Runs : Writing(q)' <=> Writing(q)
      BY <2>2, PromptStep, WritingIs DEF BegunInv
    <3>2. \A q \in Runs : Writing(q) => run'[q].at = run[q].at
      BY <2>2, PromptStep, WritingIs DEF BegunInv
    <3>3. UNCHANGED <<disk, app, disturbed>>
      BY <2>2, PromptStep
    <3> QED BY <3>1, <3>2, <3>3 DEF FilesInv, Reading
  <2>3. ASSUME NEW r \in Runs, NEW f \in Files, Open(r, f) PROVE FilesInv'
    <3> SUFFICES ASSUME ~disturbed' PROVE FilesInv'
      BY DEF FilesInv
    <3>0a. /\ run[r].at = (IF f = "cert" THEN 2 ELSE 3) /\ run[r].exit = "none"
          /\ ~run[r].open /\ run'[r].at = run[r].at /\ run'[r].open /\ run'[r].exit = "none"
          /\ \A q \in Runs \ {r} : run'[q] = run[q]
      BY <2>3, OpenStep
    <3>0b. /\ Writing(r) <=> f = "key"
          /\ Writing(r)'
      BY <2>0, <3>0a, WritingIs
    <3>1. Writing(r)' /\ \A q \in Runs \ {r} : Writing(q)' <=> Writing(q)
      BY <3>0a, <3>0b, WritingIs
    <3>2. UNCHANGED app /\ disk' = [disk EXCEPT ![f] = Nothing] /\ run'[r].at = run[r].at
      BY <2>3, OpenStep
    <3>3. CASE Writing(r)
      <4>1. ~disturbed /\ run[r].at = 3 /\ f = "key"
        BY <2>3, <3>3, <3>0a, <3>0b, OpenStep
      <4>2. disk'["cert"] = disk["cert"]
        BY <2>0, <3>2, <4>1 DEF TypeOK
      <4>3. \A q \in Runs : Writing(q)' => q = r
        BY <3>1, <3>3, <4>1 DEF FilesInv
      <4>4. disk'["cert"] = r
        BY <3>3, <4>1, <4>2 DEF FilesInv
      <4>5. ~Reading'
        BY <3>2, <3>3, <4>1 DEF FilesInv, Reading
      <4> QED BY <3>1, <4>3, <4>4, <4>5 DEF FilesInv
    <3>4. CASE ~Writing(r)
      <4>1. ~Shared
        BY <2>3, <3>4, OpenStep
      <4>2. run'[r].at = 2
        BY <2>0, <3>2, <3>4, <3>0a, <3>0b
      <4>3. \A q \in Runs : Writing(q)' => q = r
        BY <3>1, <4>1 DEF Shared
      <4>4. ~Reading'
        BY <3>2, <4>1 DEF Shared, Reading
      <4> QED BY <3>1, <4>2, <4>3, <4>4 DEF FilesInv
    <3> QED BY <3>3, <3>4
  <2>4. ASSUME NEW r \in Runs, NEW f \in Files, Fill(r, f) PROVE FilesInv'
    <3> SUFFICES ASSUME ~disturbed' PROVE FilesInv'
      BY DEF FilesInv
    <3>1. Writing(r) /\ \A q \in Runs \ {r} : Writing(q)' <=> Writing(q)
      BY <2>4, FillStep, WritingIs
    <3>2. ~disturbed /\ UNCHANGED app /\ disk' = [disk EXCEPT ![f] = r]
      BY <2>4, FillStep
    <3>3. \A q \in Runs : Writing(q)' => q = r
      BY <3>1, <3>2 DEF FilesInv
    <3>4. ~Reading'
      BY <3>1, <3>2 DEF FilesInv, Reading
    <3>5. CASE f = "cert"
      <4>1. Writing(r)' /\ disk'["cert"] = r
        BY <2>0, <2>4, <3>2, <3>5, FillStep, WritingIs DEF TypeOK
      <4> QED BY <3>3, <3>4, <4>1 DEF FilesInv
    <3>6. CASE f = "key"
      <4>1. ~Writing(r)' /\ run[r].at = 3
        BY <2>4, <3>6, FillStep, WritingIs
      <4>2. disk["cert"] = r
        BY <3>1, <3>2, <4>1 DEF FilesInv
      <4>3. disk'["cert"] = disk'["key"]
        BY <2>0, <3>2, <3>6, <4>2 DEF TypeOK
      <4> QED BY <3>3, <3>4, <4>1, <4>3 DEF FilesInv
    <3> QED BY <2>0, <3>5, <3>6
  <2>5. ASSUME NEW r \in Runs, Die(r) PROVE FilesInv'
    <3> SUFFICES ASSUME ~disturbed' PROVE FilesInv'
      BY DEF FilesInv
    <3>1. ~disturbed /\ ~Writing(r) /\ UNCHANGED <<disk, app>>
      BY <2>5, DieStep
    <3>2. \A q \in Runs : Writing(q)' <=> Writing(q)
      BY <2>5, <3>1, DieStep, WritingIs
    <3>3. \A q \in Runs : run'[q].at = run[q].at
      BY <2>5, DieStep
    <3> QED BY <3>1, <3>2, <3>3 DEF FilesInv, Reading
  <2>6. CASE ReadCert
    <3>1. /\ UNCHANGED <<run, disk>> /\ disturbed' = (disturbed \/ Shared)
          /\ app'.cert = disk["cert"]
      BY <2>6 DEF ReadCert, Idle
    <3>2. \A q \in Runs : Writing(q)' <=> Writing(q)
      BY <3>1 DEF Writing, Alive
    <3> QED BY <3>1, <3>2 DEF FilesInv, Shared
  <2>7. CASE \/ \E password \in Typed : ReadKey(password)
             \/ \E r \in Runs : CallPrinted(r)
             \/ \E nip \in Nips, bySubject \in BOOLEAN : Authenticate(nip, bySubject)
    <3>1. UNCHANGED <<run, disk, disturbed>>
      BY <2>7 DEF ReadKey, CallPrinted, Authenticate
    <3>2. \A q \in Runs : Writing(q)' <=> Writing(q)
      BY <3>1 DEF Writing, Alive
    <3>3. ~Reading'
      BY <2>7 DEF ReadKey, CallPrinted, Authenticate, Loads, Idle, Reading, TypeOK, AppState
    <3> QED BY <3>1, <3>2, <3>3 DEF FilesInv
  <2>8. CASE UNCHANGED vars
    <3>1. \A q \in Runs : Writing(q)' <=> Writing(q)
      BY <2>8 DEF vars, Writing, Alive
    <3> QED BY <2>8, <3>1 DEF vars, FilesInv, Reading
  <2> QED BY <2>1, <2>2, <2>3, <2>4, <2>5, <2>6, <2>7, <2>8 DEF Next, Run, Application
<1> QED BY <1>1, <1>2, TypeCorrect, BegunHolds, PTL DEF Spec

\* A certificate is loaded with another run's key only after runs or a run and the
\* reader met, or a run died in the middle, and none was alone since
\* (cli.py:97-115, xades.py:85-89).
THEOREM MixedOnlyIfDisturbedHolds == Spec => MixedOnlyIfDisturbed
<1>1. FilesInv /\ [Next]_vars
        => [Reading /\ app'.at = "loaded" /\ app'.cert # app'.key => disturbed]_vars
  <2> SUFFICES ASSUME FilesInv, Next, Reading, app'.at = "loaded",
                      app'.cert # app'.key, ~disturbed
               PROVE  FALSE
    OBVIOUS
  <2>1. disk["cert"] = disk["key"] /\ app.cert = disk["cert"]
    BY DEF FilesInv
  <2>2. CASE \E password \in Typed : ReadKey(password)
    <3>1. app' = [app EXCEPT !.at = "loaded", !.key = disk["key"]]
      BY <2>2 DEF ReadKey, Idle
    <3> QED BY <2>1, <3>1
  <2>3. CASE \E r \in Runs : Run(r)
    BY <2>3 DEF Run, Begin, Prompt, Open, Fill, Die, Reading
  <2> QED BY <2>2, <2>3
          DEF Next, Application, ReadCert, CallPrinted, Authenticate, Reading
<1> QED BY <1>1, FilesHold, PTL DEF Spec, MixedOnlyIfDisturbed
================================================================================
