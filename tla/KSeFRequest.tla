------------------------------ MODULE KSeFRequest ------------------------------
(***************************************************************************)
(* The pure decisions of KSeFClient._request (client.py): which responses  *)
(* are tried again, which become a KSeFHTTPError and what payload a caller *)
(* is handed.  Every module that models a call over HTTP uses these.       *)
(*                                                                         *)
(* A definition named Faulty... is the code with one plausible mistake in  *)
(* it: no action uses it; it shows that a property can be violated.        *)
(***************************************************************************)
EXTENDS Naturals

CONSTANT MaxRetries        \* KSeFConfig.max_retries (a negative one acts as 0)

ASSUME MaxRetriesAssumption == MaxRetries \in Nat

RetryableStatus == {429, 500, 502, 503, 504}

\* Off by one; one too few; any error.
FaultyRetryOnceMore(status, attempt) == status \in RetryableStatus /\ attempt <= MaxRetries
FaultyRetryOnceLess(status, attempt) == status \in RetryableStatus /\ attempt + 1 < MaxRetries
FaultyRetryAnyError(status, attempt) == status >= 400 /\ attempt < MaxRetries

\* The loop goes round again after this response.
RetryAgain(status, attempt) == status \in RetryableStatus /\ attempt < MaxRetries

\* Takes the client's own errors for answers.
FaultyIsError(status) == status >= 500

\* A response the loop gives up on is raised as KSeFHTTPError.
IsError(status) == status >= 400

\* What a body becomes: an undecodable JSON body and an empty body both reach
\* the caller as None, any other content type as the raw bytes.
BodyKinds == {"json", "garbled_json", "empty", "other_type"}
Payload(body) ==
  CASE body = "json"       -> "object"
    [] body = "other_type" -> "bytes"
    [] OTHER               -> "None"

\* What the server did with a request it answered with this status: a 2xx has
\* performed it, a redirect or a 4xx has not, and behind a 5xx (a gateway that
\* lost the answer, a crash while answering) either may be the case.
MayHavePerformed(status) ==
  IF status < 300 THEN {TRUE} ELSE IF status < 500 THEN {FALSE} ELSE BOOLEAN
================================================================================
