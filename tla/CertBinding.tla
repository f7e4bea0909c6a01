------------------------------ MODULE CertBinding ------------------------------
(***************************************************************************)
(* From the taxpayer a certificate is made for to the taxpayer it is used  *)
(* for: the serial-number attribute gen-cert writes (cli.py), what         *)
(* tax_number_from_certificate reads from it (xades.py), and the check of  *)
(* authenticate_with_certificate (client.py).                              *)
(*                                                                         *)
(* A definition named Faulty... is the code with one plausible mistake in  *)
(* it: no action uses it; it shows that a property can be violated.        *)
(***************************************************************************)
CONSTANTS Nips, NoNip      \* taxpayers; none given or none found

\* str.upper of the country codes and prefixes that are not in capitals already.
UpperCase == [pl |-> "PL", Pl |-> "PL", pL |-> "PL", de |-> "DE",
              tin |-> "TIN", tinpl |-> "TINPL"]
Upper(text) == IF text \in DOMAIN UpperCase THEN UpperCase[text] ELSE text

\* Knows the country in capital letters only.
FaultySerialNumber(country, nip) ==
  [prefix |-> IF country = "PL" THEN "TINPL" ELSE country, number |-> nip]

\* TINPL-<nip>, or <COUNTRY>-<nip>.
SerialNumber(country, nip) ==
  [prefix |-> IF Upper(country) = "PL" THEN "TINPL" ELSE Upper(country),
   number |-> nip]

TaxNumber(serial) ==
  IF Upper(serial.prefix) \in {"TINPL", "TIN"} THEN serial.number ELSE NoNip

\* Looks at certificates identified by fingerprint instead.
FaultyCertRefused(nip, signer, bySubject) ==
  ~bySubject /\ signer # NoNip /\ signer # nip

\* The certificate check, made only for the certificate-subject identifier.
CertRefused(nip, signer, bySubject) ==
  bySubject /\ signer # NoNip /\ signer # nip
================================================================================
