-------------------------------- MODULE GenCert --------------------------------
(***************************************************************************)
(* `ksef-client gen-cert` and the use of what it leaves: runs of the       *)
(* command, each a process of its own, write cert.pem and then key.pem     *)
(* into one directory, over what earlier runs left there, and may fail     *)
(* between any two steps; an application reads the two files, loads them   *)
(* and authenticates.  Writing truncates a file before it fills it.        *)
(*                                                                         *)
(* A definition named Faulty... is the code with one plausible mistake in  *)
(* it: no action uses it; it shows that a property can be violated.        *)
(***************************************************************************)
EXTENDS CertBinding, Naturals, Sequences

CONSTANTS Countries,       \* --country, as typed
          Passwords,       \* what is typed at a prompt, but nothing
          NoPassword,      \* nothing typed, or --ask-password not given
          MaxRuns          \* bound: runs of the command

ASSUME PasswordsAssumption == NoPassword \notin Passwords
ASSUME RunsAssumption      == MaxRuns \in Nat
ASSUME TaxpayersAssumption == NoNip \notin Nips

VARIABLES run,             \* the runs: where each is and what it was given
          disk,            \* the run whose file this is, 0 if there is no whole one
          app,             \* what the application is doing
          disturbed        \* ghost: since a run had the files to itself, another
                           \* came in between or one died in the middle

vars == <<run, disk, app, disturbed>>

Runs    == 1 .. MaxRuns
Files   == {"cert", "key"}
Nothing == 0               \* no file, half a file, or any text that is no PEM
Typed   == Passwords \cup {NoPassword}

\* Asks for the password when it is needed, between the two files.
FaultyOrder == <<"cert", "prompt", "key">>

\* What a run does; the key and the certificate are made before.
Order == <<"prompt", "cert", "key">>

NotRun == [at |-> 0, open |-> FALSE, exit |-> "none",
           nip |-> NoNip, country |-> "none", password |-> NoPassword]
Idle   == [at |-> "idle", cert |-> Nothing, key |-> Nothing,
           nip |-> NoNip, bySubject |-> FALSE, intact |-> FALSE]

Init == /\ run = [r \in Runs |-> NotRun]
        /\ disk = [f \in Files |-> Nothing]
        /\ app = Idle
        /\ disturbed = FALSE

Alive(r) == run[r].at # 0 /\ run[r].exit = "none"
IsAt(r, step) == Alive(r) /\ Order[run[r].at] = step

\* Between its first and its last touch of the files.
Writing(r) == /\ Alive(r)
              /\ run[r].open \/ \E i \in 1 .. (run[r].at - 1) : Order[i] = "cert"
Reading == app.at = "reading"

\* Something else is at the files.
Shared == Reading \/ \E r \in Runs : Writing(r)
--------------------------------------------------------------------------------
(* A run of the command. *)

Begin(r, nip, country) ==
  /\ run[r].at = 0
  /\ \A q \in Runs : q < r => run[q].at # 0
  /\ run' = [run EXCEPT ![r] = [NotRun EXCEPT !.at = 1, !.nip = nip, !.country = country]]
  /\ UNCHANGED <<disk, app, disturbed>>

\* Goes on after the last step.
FaultyDone(r) == run[r].at > Len(Order)

Done(r) == run[r].at = Len(Order)

\* The run goes on to its next step, or ends well.
Advanced(r) == [run[r] EXCEPT !.open = FALSE,
                              !.at   = IF Done(r) THEN @ ELSE @ + 1,
                              !.exit = IF Done(r) THEN "ok" ELSE @]

\* Two answers that differ end the run with exit code 1.
Prompt(r, first, second) ==
  /\ IsAt(r, "prompt")
  /\ run' = [run EXCEPT ![r] = IF first = second
                                 THEN [Advanced(r) EXCEPT !.password = first]
                                 ELSE [run[r] EXCEPT !.exit = "mismatch"]]
  /\ UNCHANGED <<disk, app, disturbed>>

\* write_bytes opens the file, which empties it, ...
Open(r, f) ==
  /\ IsAt(r, f) /\ ~run[r].open
  /\ disk' = [disk EXCEPT ![f] = Nothing]
  /\ run' = [run EXCEPT ![r].open = TRUE]
  /\ disturbed' = IF Writing(r) THEN disturbed ELSE Shared
  /\ UNCHANGED app

\* ... and fills it.
Fill(r, f) ==
  /\ IsAt(r, f) /\ run[r].open
  /\ disk' = [disk EXCEPT ![f] = r]
  /\ run' = [run EXCEPT ![r] = Advanced(r)]
  /\ UNCHANGED <<app, disturbed>>

\* The disk is full, the directory cannot be made, the process is stopped.
Die(r) ==
  /\ Alive(r)
  /\ run' = [run EXCEPT ![r].exit = "died"]
  /\ disturbed' = (disturbed \/ Writing(r))
  /\ UNCHANGED <<disk, app>>

Run(r) == \/ \E nip \in Nips, country \in Countries : Begin(r, nip, country)
          \/ \E first, second \in Typed : Prompt(r, first, second)
          \/ \E f \in Files : Open(r, f) \/ Fill(r, f)
          \/ Die(r)
--------------------------------------------------------------------------------
(* The application. *)

Serial(r) == SerialNumber(run[r].country, run[r].nip)

\* from_pem: whether the two belong together is not looked at.
Loads(cert, key, password) ==
  /\ key # Nothing /\ run[key].password = password
  /\ cert # Nothing

ReadCert == /\ ~Reading
            /\ app' = [Idle EXCEPT !.at = "reading", !.cert = disk["cert"]]
            /\ disturbed' = (disturbed \/ Shared)
            /\ UNCHANGED <<run, disk>>

ReadKey(password) ==
  /\ Reading
  /\ app' = IF Loads(app.cert, disk["key"], password)
              THEN [app EXCEPT !.at = "loaded", !.key = disk["key"]]
              ELSE [Idle EXCEPT !.at = "failed"]
  /\ UNCHANGED <<run, disk, disturbed>>

\* The call a run that ended well has printed.  It names the two paths, which
\* from_pem takes for PEM text.
CallPrinted(r) ==
  /\ ~Reading /\ run[r].exit = "ok"
  /\ app' = [Idle EXCEPT
               !.at = IF Loads(Nothing, Nothing, run[r].password)
                        THEN "loaded" ELSE "printed_failed",
               !.intact = \A f \in Files : disk[f] = r]
  /\ UNCHANGED <<run, disk, disturbed>>

\* The check of authenticate_with_certificate; what follows is AuthHandshake.
Authenticate(nip, bySubject) ==
  /\ app.at = "loaded"
  /\ app' = IF CertRefused(nip, TaxNumber(Serial(app.cert)), bySubject)
              THEN [Idle EXCEPT !.at = "refused"]
              ELSE [app EXCEPT !.at = "signed", !.nip = nip, !.bySubject = bySubject]
  /\ UNCHANGED <<run, disk, disturbed>>

Application == \/ ReadCert
               \/ \E password \in Typed : ReadKey(password)
               \/ \E r \in Runs : CallPrinted(r)
               \/ \E nip \in Nips, bySubject \in BOOLEAN : Authenticate(nip, bySubject)

Next == (\E r \in Runs : Run(r)) \/ Application

Spec == Init /\ [][Next]_vars
--------------------------------------------------------------------------------
RunState == [at : 0 .. Len(Order), open : BOOLEAN,
             exit : {"none", "ok", "mismatch", "died"},
             nip : Nips \cup {NoNip}, country : Countries \cup {"none"},
             password : Typed]

AppState == [at : {"idle", "reading", "loaded", "failed", "printed_failed", "signed",
                   "refused"},
             cert : Runs \cup {Nothing}, key : Runs \cup {Nothing},
             nip : Nips \cup {NoNip}, bySubject : BOOLEAN, intact : BOOLEAN]

TypeOK == /\ run \in [Runs -> RunState]
          /\ disk \in [Files -> Runs \cup {Nothing}]
          /\ app \in AppState
          /\ disturbed \in BOOLEAN

\* A certificate is loaded with another run's key only if a run died between its
\* two files, or runs and reader met, and nobody has run the command alone since:
\* a mistyped password, a run over an earlier pair and a repetition after a
\* failure do no harm (cli.py:97-115, 176-186; xades.py:85-89).
MixedOnlyIfDisturbed ==
  [][Reading /\ app'.at = "loaded" /\ app'.cert # app'.key => disturbed]_vars

\* Every way to type the country code of Poland.
Polish == {"PL", "Pl", "pL", "pl"}

\* A certificate made for a Polish taxpayer, however the country was typed and
\* whatever happened to its files, is never used by subject for another one
\* (cli.py:59-60; xades.py:164-167; client.py:324-330).
PolishCertBinds ==
  app.at = "signed" /\ app.bySubject /\ run[app.cert].country \in Polish
    => app.nip = run[app.cert].nip
--------------------------------------------------------------------------------
(* What the documentation says and the code does not do. *)

\* "Load via: LoadedCertificate.from_pem('<out>/cert.pem', '<out>/key.pem')"
\* (cli.py:190-194, README.md:103, scripts/gen-cert.sh:77): the call a run prints
\* loads the pair it has written.  from_pem takes the texts of the files
\* (xades.py:80-87).
PrintedCallLoads == app.intact => app.at # "printed_failed"
================================================================================
