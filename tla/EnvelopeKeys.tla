------------------------------ MODULE EnvelopeKeys ------------------------------
(***************************************************************************)
(* Choosing the Ministry's public key: fetch_public_encryption_key, which  *)
(* sessions and KSeF-token authentication share, and                       *)
(* prepare_session_encryption, which fetches the published certificates a  *)
(* second time for the key's identifier.  The Ministry may publish other   *)
(* certificates in between.                                                *)
(*                                                                         *)
(* A definition named Faulty... is the code with one plausible mistake in  *)
(* it: no action uses it; it shows that a property can be violated.        *)
(***************************************************************************)
EXTENDS Naturals, Sequences, SequencesExt

CONSTANTS Certs,           \* records [key, usage, material, id]
          NoId,            \* a certificate without an identifier
          MaxCerts,        \* bound: certificates published at a time
          MaxRotations     \* bound: times the published list changes

Tags == {"SymmetricKeyEncryption", "KsefTokenEncryption"}
\* not_rsa: parses, but to a key of another kind.
Materials == {"parses", "missing", "malformed", "not_rsa"}

ASSUME CertsAssumption ==
  \A c \in Certs : c.usage \subseteq Tags /\ c.material \in Materials
ASSUME BoundsAssumption == MaxCerts \in Nat /\ MaxRotations \in Nat

\* What may be published: every key once.
Lists == {l \in SeqOf(Certs, MaxCerts) :
            \A i, j \in DOMAIN l : l[i].key = l[j].key => i = j}

VARIABLES published,       \* the Ministry's list
          rotations,       \* how often it has changed
          pc,              \* idle, or at the second fetch of a session's call
          use,             \* what the latest call wants the key for
          fetched,         \* ghost: the list read from the first fetch
          picked,          \* ghost: the certificate whose key was taken from it
          envelope,        \* the key and the identifier that go out together
          outcome          \* how the latest call ended

call == <<pc, use, fetched, picked, envelope, outcome>>
vars == <<published, rotations, call>>

NoCert == [key |-> NoId, usage |-> {}, material |-> "missing", id |-> NoId]

\* new_session_encryption: the key that seals the symmetric key, and its name.
Envelope(key, id) == [key |-> key, id |-> id]
NoEnvelope == Envelope(NoId, NoId)

IsSymmetric(c) == "SymmetricKeyEncryption" \in c.usage

\* The sort key: every tag here contains "KsefToken" or "Encryption".
Rank(c) == IF IsSymmetric(c) THEN 0 ELSE IF c.usage # {} THEN 1 ELSE 2

\* Whether position i of l comes before j when l is sorted: Python's sort is stable.
Before(l, i, j) == \/ Rank(l[i]) < Rank(l[j])
                   \/ Rank(l[i]) = Rank(l[j]) /\ i < j

\* Forgets to sort.
FaultyOrder(l) == [i \in DOMAIN l |-> i]

\* The positions of l as sorted puts them: the n-th has n - 1 before it.
Earlier(l, i) == {j \in DOMAIN l : Before(l, j, i)}
Order(l) == [n \in DOMAIN l |->
               CHOOSE i \in DOMAIN l : Cardinality(Earlier(l, i)) = n - 1]

\* Falls back to no other usage.
FaultyConsidered(c) == IsSymmetric(c) /\ c.material # "missing"

\* The loop passes over other usages and certificates without material.
Considered(c) == c.usage # {} /\ c.material # "missing"

\* The certificate at which the loop ends, NoCert if it runs through.
Found(l) ==
  LET order == Order(l)
      turns == {n \in DOMAIN l : Considered(l[order[n]])}
  IN  IF turns = {} THEN NoCert ELSE l[order[Min(turns)]]

\* Takes the identifier of the first certificate there is.
FaultySymmetricId(l) == IF l = <<>> THEN NoId ELSE Head(l).id

Symmetric(l) == {i \in DOMAIN l : IsSymmetric(l[i])}

\* Takes the key for its identifier.
FaultyKeyForId(l) == IF Symmetric(l) = {} THEN NoId ELSE l[Min(Symmetric(l))].key

\* The identifier of the first symmetric certificate, with material or without.
SymmetricId(l) == IF Symmetric(l) = {} THEN NoId ELSE l[Min(Symmetric(l))].id
--------------------------------------------------------------------------------
Init == /\ published \in Lists /\ rotations = 0
        /\ pc = "idle" /\ use = "none" /\ fetched = <<>> /\ picked = NoCert
        /\ envelope = NoEnvelope /\ outcome = "none"

Rotate == /\ rotations < MaxRotations
          /\ published' \in Lists \ {published}
          /\ rotations' = rotations + 1
          /\ UNCHANGED call

\* The list as the client reads an answer: a body that is empty, that does not
\* decode or that has another shape becomes an empty one.
Readings == {published, <<>>}

\* Both calls end by encrypting, for which the key must be an RSA key.
Encrypt(cert, id) ==
  /\ pc' = "idle"
  /\ IF cert.material = "not_rsa"
       THEN outcome' = "value_error" /\ envelope' = NoEnvelope
       ELSE outcome' = "ok" /\ envelope' = Envelope(cert.key, id)

\* fetch_public_encryption_key returns a key, for a session or for a token.
FetchKey(u, list) ==
  LET found == Found(list)
  IN  /\ pc = "idle" /\ found.material \in {"parses", "not_rsa"}
      /\ use' = u /\ fetched' = list /\ picked' = found
      /\ IF u = "session"
           THEN pc' = "second" /\ envelope' = NoEnvelope /\ outcome' = "none"
           ELSE Encrypt(found, NoId)
      /\ UNCHANGED <<published, rotations>>

\* No certificate to consider, or the first one does not parse: the next is not
\* tried.  A request that fails ends the call as well, and so does what the
\* transport raises or an answer of records that are no certificates.
FetchKeyFails(u, list, how) ==
  /\ pc = "idle"
  /\ how = "client_error" => Found(list) = NoCert
  /\ how = "value_error"  => Found(list).material = "malformed"
  /\ how \in {"http_error", "foreign"} => list = <<>>
  /\ use' = u /\ fetched' = list /\ picked' = NoCert
  /\ envelope' = NoEnvelope /\ outcome' = how
  /\ UNCHANGED <<pc, published, rotations>>

\* The second fetch of prepare_session_encryption, and its failure, which is
\* swallowed; then new_session_encryption.
FetchId(id) ==
  /\ pc = "second"
  /\ Encrypt(picked, id)
  /\ UNCHANGED <<use, fetched, picked, published, rotations>>

Failures == {"client_error", "value_error", "http_error", "foreign"}

Next == \/ Rotate
        \/ \E u \in {"session", "token"}, list \in Readings :
             \/ FetchKey(u, list)
             \/ \E how \in Failures : FetchKeyFails(u, list, how)
        \/ FetchId(SymmetricId(published))
        \/ FetchId(NoId)

Spec == Init /\ [][Next]_vars
--------------------------------------------------------------------------------
TypeOK == /\ published \in Lists /\ fetched \in Lists \cup {<<>>}
          /\ rotations \in 0 .. MaxRotations
          /\ pc \in {"idle", "second"}
          /\ picked \in Certs \cup {NoCert}
          /\ envelope.key \in {c.key : c \in Certs} \cup {NoId}
          /\ envelope.id \in {c.id : c \in Certs} \cup {NoId}
          /\ outcome \in {"none", "ok"} \cup Failures

\* No certificate with a usage and material comes before this one.
IsBest(i) ==
  /\ Considered(fetched[i])
  /\ \A j \in DOMAIN fetched : Considered(fetched[j]) =>
       \/ Rank(fetched[i]) < Rank(fetched[j])
       \/ Rank(fetched[i]) = Rank(fetched[j]) /\ i <= j

\* The key of a session is taken from a certificate for symmetric keys if one is
\* listed with material, else from any for encryption (client.py:416-418, 430-431),
\* and from the earliest of the kind.  Of tokens nothing is said: theirs is the same
\* choice, although client.py:418 gives them the KsefTokenEncryption key.
PicksBestCertificate ==
  use = "session" /\ picked # NoCert
    => \E i \in DOMAIN fetched : fetched[i] = picked /\ IsBest(i)

\* A call finds no key only if the list it read has no certificate with a usage and
\* material (an answer it cannot read is an empty list to it, client.py:157-167,
\* 409-412), and it stumbles over a certificate that does not parse or holds no RSA
\* key only if that one is the best: listed behind a better one it does no harm
\* (client.py:432-475, crypto.py:34-35).
FailureHasItsCause ==
  /\ outcome = "client_error" =>
       \A i \in DOMAIN fetched : fetched[i].usage = {} \/ fetched[i].material = "missing"
  /\ outcome = "value_error" =>
       \E i \in DOMAIN fetched :
         fetched[i].material \in {"malformed", "not_rsa"} /\ IsBest(i)

\* The identifier belongs to the key it is sent with, as long as the list did not
\* change between the fetches and its first symmetric certificate carries
\* material (client.py:481-499).
IdNamesItsKeyIfStable ==
  /\ use = "session" /\ outcome = "ok" /\ rotations = 0
  /\ \A i \in Symmetric(fetched) :
       i = Min(Symmetric(fetched)) => fetched[i].material # "missing"
  => envelope.id \in {NoId, picked.id}
--------------------------------------------------------------------------------
(* What comments say and the code does not do. *)

\* "Pick the publicKeyId from the SAME cert whose key we encrypt with"
\* (client.py:484): it is picked from another answer of the server, and there
\* from a certificate that may have no material (client.py:489-496).
IdNamesItsKey ==
  use = "session" /\ outcome = "ok" => envelope.id \in {NoId, picked.id}
================================================================================
