# A TLA+ verification of ksef-client

`ksef-client` is a synchronous Python client of KSeF, the Polish e-invoice
system. It authenticates a taxpayer, opens sessions, sends encrypted invoices and
polls until the Ministry has decided. There is one thread, and the only storage
is the two files the command `gen-cert` leaves. What is hard is on the other side of the wire: every request may be lost
before or after the server acted on it, the server decides in its own time, and
every operation is several requests with state carried from one to the next.

Line numbers refer to `src/src/ksef/` (`client.py` unless said otherwise).

## The system

| Component | State it keeps | Operations | Talks to |
|---|---|---|---|
| Request loop, `KSeFClient._request` (119-173) | bearer, attempt counter, latest response | one call with its retries | transport, `time.sleep` |
| Authentication (209-393) | `_tokens`; locals of a handshake: challenge, session reference, deadline | `authenticate_with_token`, `authenticate_with_certificate`, `refresh_access_token` | request loop, public keys, clock; the signed XML goes to the transport itself |
| Public keys (403-499) | none; two fetches within a call | `fetch_public_encryption_key`, `prepare_session_encryption` | request loop |
| Online sessions (501-638) | none; the caller keeps session references, encryptions and receipts | open, send, status, wait, close, UPO | request loop, public keys, clock |
| FA(3) builder (`fa3.py`) | buckets of amounts while building | `build_fa3`, totals of `InvoiceData` | - |
| Invoice encryption (`crypto.py`) | AES key and IV in `SessionEncryption` | encrypt, decrypt, seal keys | `cryptography` |
| XAdES and test certificates (`xades.py`, `cli.py`, `gen-cert.sh`) | `cert.pem` and `key.pem` | sign, generate, load, read the taxpayer of a certificate | `signxml`, file system |
| Transport (`config.py`) | an opener | one HTTP exchange | `urllib` |
| Latarnia (`latarnia.py`) | none | two GET requests | transport |
| Test transport (`testing.py`) | routes, recorded requests | route, request | - |
| Models, JSON, exceptions | none | records, parsing | - |

What makes each correct, and what is difficult about it:

* *Request loop.* An operation is carried out at most `max_retries + 1` times, a
  definite answer is never followed by another request, an error is raised only
  when the retries are spent, the call ends. Lost answers make the server's and
  the client's counts differ.
* *Authentication.* The client acts for the taxpayer the caller named or for
  whom it acted before, through failures at every step; it polls and redeems the
  session its own submission created; it gives up only after its deadline, and
  not when the decision arrives late.
* *Public keys.* The best certificate is taken whatever the order they are
  published in; the identifier sent belongs to the key used, although the list is
  fetched twice.
* *Sessions.* A handle pairs a session with the key it was opened with, a receipt
  names an invoice the server holds, a wait tells the truth, although opens and
  sends may be carried out more than once and the access token expires.
* *FA(3).* The document adds up although amounts are rounded and fields are left
  out.
* *Invoice encryption.* An invoice of any length comes back from its padding, and
  padding nobody wrote is refused; an invoice of more than a block, decrypted
  with another session's IV, passes with a wrong first block.
* *Test certificates.* Certificate and key are two files: runs may meet, or die
  between the two. Whether a certificate is bound to its taxpayer hangs on a prefix
  in its serial number, written in one module and read in another.

PROJECT.json lists the hazards line by line.

## The modules

| Module | Models |
|---|---|
| `KSeFRequest` | the pure decisions of `_request`: retry, error, payload |
| `RequestLoop` | one caller of `_request`, attempt by attempt |
| `AtLeastOnce` | what a call promises; `RequestLoop` implements it |
| `AuthHandshake` | the three authentication calls against a server that decides when it likes |
| `Authentication` | what they promise; `AuthHandshake` implements it |
| `EnvelopeKeys` | the choice of the key and of its identifier over two fetches |
| `OnlineSession` | open, send, wait, close and UPO by a caller that keeps what they return |
| `InvoiceDelivery` | what sending and waiting promise; `OnlineSession` implements it |
| `Fa3Amounts` | the amounts of `build_fa3` |
| `InvoicePadding` | `encrypt_invoice` and `decrypt_invoice`: padding and what becomes of it |
| `CertBinding` | the taxpayer from `gen-cert` through the serial number to the check of the client |
| `GenCert` | runs of `gen-cert`, the files they leave, an application that uses them |
| `MCEnvelopeKeys`, `MCFa3Amounts` | values for TLC |
| `RequestLoop_proofs`, `AuthHandshake_proofs`, `OnlineSession_proofs`, `EnvelopeKeys_proofs`, `GenCert_proofs`, `InvoicePadding_proofs`, `Fa3Amounts_proofs` | theorems |
| `FiniteLemmas` | lemmas about sums, least elements and counting down that several of them use |

`AuthHandshake` and `OnlineSession` extend `KSeFRequest`, so the retry decision
is the same definition everywhere; `AuthHandshake` and `GenCert` extend
`CertBinding`, so what a certificate is made for and what it is used for meet in
one definition. `RequestLoop` shows the loop with its pauses;
in the other two a retry is one action, since nothing else of the client can
happen between an attempt and the next.

### RequestLoop

`Invoke` is `_request` up to the loop: the token check and the header that all
attempts share. `Exchange(s, h)` is a transport call that returns status `s`,
where `h` says whether the server carried the request out: always for a 2xx,
never for a 3xx or 4xx, and either way for a 5xx, behind which may be a gateway
that lost the answer. `Break` is a transport that raises. `WakeUp` ends the pause.
`StoreTokens` is an authentication or refresh, complete in itself. `sends`,
`performed`, `waited` and `broken` (the transport has raised) are history; no guard
reads them. The two counters stop at `Overrun`, one more than a call may send, so
that a loop which does not count its attempts has finitely many states too.

### AuthHandshake

The variable `pc` names the request the call is at (`challenge`, `key`, `submit`,
`poll`, `redeem`, `refresh`) or `judge`, between the answer to a poll and what the
client makes of it. `hs` holds the locals of the call. An error answer is `Fail`:
tried again as `_request` would, or raised; the post of the signed XML is `Direct`
and has its own rules. `Escape` is every exception outside `KSeFClientError`: of
the transport, or a missing field in a 2xx. The server's part (challenges,
sessions, token pairs) is external; it is taken from the requests the client
makes and from the mock server of `tests/e2e`. It decides about every session
once, at any moment. Time is counted in poll intervals: a request takes any time,
a pause at least one interval, and `elapsed` is capped just past the deadline.

The encryption of the token and the signature are left out. What is encrypted
together with the token is kept (`Sealed`). The certificates a caller may pass are
given by `Signers`, the taxpayers `tax_number_from_certificate` finds in them
(`NoNip` if it finds none); `GenCert` shows where they come from. A session that
came of signed XML is known by what was sealed with it, nothing (`Signed`), not by
its signer, of whom nothing may be known. `Client` is the
steps of the code: `Begin`, `Trouble` (what goes wrong) and `Progress`.

### EnvelopeKeys

A call fetches the list (`FetchKey`, `FetchKeyFails`), takes the key of the first
certificate in sorted order that names a usage and has material, and, for a
session, fetches the list again for the identifier (`FetchId`, which with `NoId`
is the failure that is swallowed). What the client reads of an answer is the list
published or, from a body that is empty, does not decode or has another shape, an
empty one (`Readings`). `Rotate` lets the Ministry publish another list at any time.
A certificate's material parses, is missing, is malformed or holds a key that is not
RSA: a malformed one that comes first ends the call, one without an RSA key ends it
where something is encrypted with the key (`Encrypt`), in a session's call after the
second fetch. Requests that fail and exceptions outside `KSeFClientError` end
the first fetch (`Failures`). Sorting is stated by its result:
the place of a certificate is the number of those that come `Before` it, by rank
and, in one rank, by position. `Found` is the first considered one in that `Order`.

### OnlineSession

The caller keeps handles (session reference and key) and receipts (invoice
reference), and passes any of them to the next call; session and key are two
arguments, so they may be mixed. Opening uses a fresh key, for which the
Ministry's key is fetched first, or the encryption of an earlier session. The
server opens a session or takes in an invoice once for every request it carries
out, so a lost answer and a retry leave a copy; it carries out nothing for an
missing or expired token or in a closed session, and accepts no invoice it cannot
decrypt. `access` says which of these the token is: `none` until the caller first
authenticates, then `valid` or `expired`. Without one a call ends in `auth_error`
before it sends anything (`Unauthenticated`), but for the fetch of the key, which
needs none. `Renew` is an authentication or a refresh between two calls
(`AuthHandshake` shows them in detail). A failed request is taken to be carried out,
if at all, no later than it is answered: one that the server still carries out
after the client has moved on is not modelled.
`get_invoice_status` appears as the poll of the wait and `send_invoice` as a
send; `get_session_status` and `rate_limits` change nothing and are left out.

### Fa3Amounts

One step per line of the invoice, in integers: `Grosz` units make a grosz, so
quantities and prices finer than a grosz are represented. `Round` is
`Decimal.quantize` (halves to even).

What is written at the end (`Written`) is a function of the buckets; the totals
are sums over them and over the lines.

### InvoicePadding

`Encrypt` pads, `Cut` loses the end of a body, `Decrypt(rightKey, rightIv)` is
`decrypt_invoice` with the session's key and IV or others. Of AES-CBC only its
effect is kept, as the set `Decrypted`: the plaintext with the right key and IV,
anything in the first block with another IV, anything at all with another key. The
variable `body` therefore holds what the ciphertext hides, which no guard of the
recipient reads. `Ending` has the three ends of the code: a result, a `ValueError`
(half a block, or bad padding) and the `IndexError` of an empty body.

### CertBinding and GenCert

Each run of `gen-cert` is a process: it asks for the password (`Prompt`, where two
answers that differ end it), then writes `cert.pem`, then `key.pem`. Writing is two
steps, since `write_bytes` empties a file before it fills it. A run may die at any
point (`Die`), runs may interleave, and later runs overwrite what earlier ones left.
`disk` says whose file is there. The application reads one file, then the other,
loads them (`from_pem` does not ask whether they belong together), and
authenticates under the check of `authenticate_with_certificate`. `CallPrinted` is
the call that a run prints when it ends well. `disturbed` is history: since some
run had the files to itself, another process touched them or a run died between
them. The order of the steps is a sequence, `Order`, so that the fault of asking
for the password in between can be stated. The private key's generation and the
shell script's wrapper around the command do not appear.

### Definitions named Faulty...

The code with one plausible mistake in it. No action uses them. Each shows that a
property is not true of every program: with it in place of the definition that
follows it, TLC finds the property violated.

## The runs

| Run | Question | Bounds |
|---|---|---|
| `request_loop` | how often, how long and with what verdict a call reaches the server | 3 retries, a status of every kind, two tokens; any number of calls |
| `auth_handshake` | whose tokens, which session, when may it give up, do calls end, is `Authentication` implemented | 2 calls, 2 taxpayers of whom one is configured, certificates of one and of nobody, 1 retry, a 503, deadline 1 interval |
| `envelope_keys` | which key, which identifier, which reason for none | lists of up to 3 of 10 kinds of certificate, one change of the list |
| `online_session` | what handles, receipts and reports mean | 4 calls, 1 retry, a 401 and a 503, deadline 1 |
| `online_live` | do calls end, is `InvoiceDelivery` implemented | 4 calls, 2 invoices, no retry, deadline 2 |
| `fa3_amounts` | does the document add up, and how near is its total | up to 3 lines, 10 amounts around halves, 5 rates |
| `gen_cert` | when can a certificate meet another's key, for whom does it serve | 2 runs, 2 taxpayers, `PL` in its four spellings and `DE`, a password or none |
| `invoice_padding` | does the invoice come back, what is refused | blocks of 2 bytes, 4 byte values, invoices of up to 3 bytes |

Why they are enough. A second call is what makes one call's leftovers (tokens,
sessions, challenges) meet another's; within a call one retry already gives two
copies of everything, and the proofs cover the other budgets. The deadline is met
before, at and past its value. Four session calls allow open, send, wait and
close or UPO, two opens and an invoice sent with the other one's key, or two
invoices and a wait for either. In `online_live` retries are left out because
`request_loop` shows that they end and `online_session` what copies they leave.
Three certificates are a best one, another of its kind and one of a lower rank,
in every order. `auth_handshake` has no 4xx: `request_loop` and `auth_timestamp`
have one, and the proof covers every set of error statuses. Two runs of `gen-cert`
are one that overwrites, meets or outlives another; with invoices of up to a block
and a half the padding is met at no byte, within a block, at its end and past it.
`CHECK_DEADLOCK FALSE` appears where the caller's calls, the invoice's lines or the
one decryption run out.

Fairness. `WF(Attempt)`, `WF(WakeUp)` and `WF(Client)` say that a call under way
takes its next step: `urllib` has a timeout, which `_request` always passes, and
sleeps end. `GenCert` and `InvoicePadding` state no fairness, and nothing they are
asked is a liveness question. Nothing is assumed of the server: `CallEnds` holds although an
authentication or an invoice may stay pending for ever, because a pause lasts at
least an interval and the deadline is then passed. The caller is not made to
begin anything.

### What the code does not do as its texts say

Each is a run that ends in a violation, and a finding in PROJECT.json.

| Run | The text | The code |
|---|---|---|
| `auth_timestamp` | `token\|timestamp` is encrypted (218, `crypto.py:40`, `README.md:14`) | the challenge is passed in place of the timestamp (238) |
| `auth_xades` | `max_retries` covers transient failures (`config.py:65`) | the signed XML is posted once (343) |
| `envelope_id` | key and identifier come from the same certificate (484) | the identifier comes from a second fetch (489), and there from a certificate that may have no material |
| `cert_printed` | `LoadedCertificate.from_pem` loads the paths it is given (`cli.py:191`, `README.md:103`, `gen-cert.sh:77`) | it takes the texts of the files (`xades.py:80`) |

Findings that a run would only restate:

* `KSeFClientError` is the base of all failures (`exceptions.py:7`), but an error
  page that is no JSON is a `ValueError` (350) and the transport's exceptions pass
  (148). The outcome `foreign` of `AuthHandshake` and `OnlineSession` is these ends.
* The KsefTokenEncryption key encrypts the token (417-418), but the key for symmetric
  keys is preferred for tokens too (236). `PicksBestCertificate` is about sessions.
* Retries are for "transient failures (429 / 5xx)" (`config.py:65`), but `_RETRYABLE`
  (57) has only four of the 5xx: another one, like the 501 of `request_loop`, is
  raised at once. `RaisesOnlyAfterBudget` is about the statuses in `_RETRYABLE`.
* A certificate is said to be usable only for its own taxpayer, which "the client
  validates" (`README.md:105-108`), but the comparison is made for the
  certificate-subject identifier alone (324), and only if the serial number begins
  with `TINPL-` or `TIN-` (`xades.py:164`). `PolishCertBinds` is therefore about
  Polish certificates used by subject.
* The example of `testing.py:14-16` routes `/auth/challenge`, while the default
  base URLs end in `/v2` and routes are matched from the start of the whole path.

Two more notes. `KSeFHTTPError` is a "Non-2xx" response (`exceptions.py:11`) but is
raised from 400 on: `urllib` hands a 307 or 308 answer to a POST back as it is,
and the call returns normally; the runs and two theorems assume that the API does
not redirect. In an invoice with negative lines the net of a bucket may cancel
while its rounded VAT does not, and that VAT is then in `P_15` and in no field
(`fa3.py:149`); `DocumentAddsUp` is about invoices without negative lines where it
speaks of the VAT.

## The proofs

The theorems hold for every value of the constants under the named assumptions of
the modules: `MaxRetries` a natural number, `Failures` error statuses,
`Timeout`, `MaxCalls`, `MaxRuns`, `MaxCerts`, `MaxRotations`, `MaxLines` and `MaxLen`
natural numbers, `NoToken`, `NoNip` and `NoPassword` outside their sets, amounts
integers, the usages of a certificate among the two the API documents, block size
and grosz positive, a byte wide enough to count a block.

*RequestLoop.* `BackoffIsTriangular` is inductive with the types. The other
properties are not: that at most `MaxRetries + 1` requests were sent needs
`Counting`, which ties `sends` to `attempt` while the loop runs and says that
nothing is decided and nothing has been raised there; `NeverAnonymous` needs `BearerTaken`, since the header
is built before the first request (that no request of an authenticated call goes
out without a token is a theorem only). `SuccessWasPerformed` and
`LoopRefinesAtLeastOnce` need `NoRedirects`.

*AuthHandshake.* `IndInv` adds to the types `LocalInv` (what the locals mean at
each step), `SessionInv` (the session referred to is the call's own, and a
decision once seen stands), `ChallengeInv` (challenges and calls are numbered in
order, and nobody else can have used the challenge in hand) and `PollInv` (at most
one poll an interval). The argument for every step is the lemma `Grows`: the
server forgets nothing, and what it adds is the session the step asks for. From
`IndInv` follow five of the invariants besides the types and the two action properties.
`SessionsPerCall` counts sessions and needs a second inductive invariant, `Quota`:
the sessions of the call in progress are no more than its attempts.
`HandshakeRefinesAuthentication` maps every step to a step of `Authentication` or
to a stutter.

*OnlineSession.* `IndInv` has the types, `ArgsInv` (the arguments of a call name a
session and an invoice there are), `SeenInv` (a final status, once seen, stands),
`CallInv` (sessions, invoices and receipts carry the number of a call already begun,
and the call in progress has no receipt yet) and the two properties about what the
caller keeps, `HandleOpensItsSession` and `ReceiptNamesLastCopy`. The latter holds
because a receipt is made from the answer to the latest request of its call, and
later calls add copies under their own numbers. `Grows` says again that the server forgets nothing. `CopiesPerCall` counts
and needs its own `Quota`. `SessionRefinesInvoiceDelivery` maps every step to a step
of `InvoiceDelivery` or to a stutter.

*EnvelopeKeys.* What the code does is sort and loop; what the properties speak of is
a best element. `OrderSorts` joins the two for lists of every length: of two
positions one is before the other, so no two have the same place; the places are as
many as the positions, so every place is taken, and `Order` goes back from places to
positions. `FoundIsBest` follows: whatever is considered has a place, and the first
considered place is the least. `PicksBestCertificate` and `FailureHasItsCause` are
then kept by every step, whatever was read (`ReadingTypes`). That the identifier belongs to the key needs more, since
the list may change while the call is between its fetches: `PickedIsBest` (the key
in hand came from the list of the first fetch), `SecondFetch` (that list is still
the published one if nothing has changed) and `IdIsFetched`.

*GenCert.* The types alone give neither property. `BegunInv` says that runs are
at their files only where they write them, and that a file, or what was read of it,
is of a run that has begun; `BindInv`, that a certificate in use has passed the
check; `PolishSerial` is the step through the serial number. `FilesInv` is behind
`MixedOnlyIfDisturbed`: while nothing is disturbed the two files match when nobody
is at them, and whoever is at them, run or reader, is there alone. That the password is
asked for before either file is written is used here (`OrderFacts`).

*InvoicePadding.* `PadFacts` and `PadUnpad` are about strings of any length: padding
fills up to whole blocks, never more than one, and taking it away gives the string
back. `OpensWhole` says what a recipient with the right key sees of the last block,
and `BodyInv` that the body, if whole, is the invoice padded.

*Fa3Amounts.* `RoundIsNearest` and `LineIsClose` bound what rounding does to one line,
for every amount and every fineness of prices. The totals are about any number of
lines: `NetsAdded` (the buckets hold the net of the lines so far) and `GrossSoFar`
(their distance from `total_gross` is at most 1.115 grosze for each) are kept by a
step because a line changes one bucket by what it adds to the sum over the lines.
`DocumentAddsUp` also needs `NoVatLeftOut`, that a bucket which is left out of the
document for being zero holds no VAT: without negative lines a net of zero has been
zero all along, and so has its VAT.

*FiniteLemmas.* The folds of the community modules are recursive functions on the
subsets of a set, and the library's induction rules cannot be instantiated here. The
argument is made with sets alone: if a sum were wrong somewhere, the subsets where
it is wrong would have a minimal member (`MinimalSubset`, from the
well-foundedness of strict inclusion), and taking one element out of it gives a
smaller one. `SumTaken` shows in this way that the recursion has a value, `SumRemove`
that the value does not depend on the order, and the rest follow.

*Termination.* `CallIsFinite`, of `RequestLoop`, `AuthHandshake` and `OnlineSession`, is
what lies behind `CallEnds`: a natural number, `StepsLeft`, that every step of a
call makes smaller, lost answers and exceptions included, and that no step of the
server changes. It counts the statements ahead, polls until the deadline included, and
weighs them against the attempts left at the present one, so that a poll may start
its attempts again (`StageOutweighsTries`). It holds for every `Timeout` and every
`MaxRetries` and gives a bound on the steps of a call. What `CallEnds` adds is that the
next step is there and is taken.

Every invariant and every action property of the passing runs is a theorem.
Left to TLC: liveness under fairness, which is `CallEnds` of three modules, and the
fairness that two of the abstract specifications state, `AtLeastOnce` and
`Authentication` (the refinement theorems are about
initial states and steps), since `ENABLED` is out of the prover's reach. The four
runs that end in a violation are TLC's by their nature.

## Not modelled

* AES, RSA, OAEP, SHA-256 and signatures (library code), and with them the
  contents of the signed XML but for the challenge and the identifier.
* The layout of the FA(3) XML and of error messages; `parse_fa3_ksef_fields`.
* TLS and `urllib` beyond "a status or an exception"; headers other than the bearer.
* `latarnia.py`: two GET requests without retry or state. `testing.py`: a choice of
  the longest matching route, a pure function of its routes; it is support for tests.
* `generate_self_signed_test`, which writes nothing, and `gen-cert.sh`, which finds
  an interpreter and calls `gen-cert`.
* `get_session_status` and `rate_limits`, which change nothing.
* `int()` and `fromisoformat` of well-formed answers are taken to succeed; of
  others, `Escape` is what happens.

## Plan

Done, most important behaviour first: the request loop, the authentication calls,
the sessions, each with its abstract specification and proofs; the choice of keys;
the amounts; padding; test certificates.

Left: the composition of `AuthHandshake` with `OnlineSession` in place of `Renew`,
which would show no state that the two do not show apart but the expiry of a token
between a handshake and its first session.
