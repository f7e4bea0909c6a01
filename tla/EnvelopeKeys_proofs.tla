-------------------------- MODULE EnvelopeKeys_proofs --------------------------
(***************************************************************************)
(* The key that is picked, for every published list: the order of sorting  *)
(* is a permutation that respects Before, so the loop's first certificate  *)
(* is the best one.                                                        *)
(***************************************************************************)
EXTENDS EnvelopeKeys, FiniteLemmas, TLAPS

LEMMA ListTypes ==
  ASSUME NEW l \in Lists
  PROVE  /\ Len(l) \in Nat /\ DOMAIN l = 1 .. Len(l) /\ IsFiniteSet(DOMAIN l)
         /\ \A i \in DOMAIN l : l[i] \in Certs
<1>1. PICK m \in 0 .. MaxCerts : l \in [1 .. m -> Certs]
  BY DEF Lists, SeqOf
<1>2. m \in Nat
  BY BoundsAssumption
<1>3. Len(l) = m /\ DOMAIN l = 1 .. m
  BY <1>1, <1>2
<1> QED BY <1>1, <1>2, <1>3, FS_Interval

\* Whatever is published, what is read of it is a list.
LEMMA ReadingTypes ==
  ASSUME published \in Lists, NEW list \in Readings
  PROVE  list \in Lists
<1>1. 0 \in 0 .. MaxCerts /\ <<>> \in [1 .. 0 -> Certs]
  <2>1. DOMAIN <<>> = 1 .. 0 /\ <<>> \in Seq(Certs)
    OBVIOUS
  <2> QED BY <2>1, BoundsAssumption
<1>2. <<>> \in SeqOf(Certs, MaxCerts)
  BY <1>1 DEF SeqOf
<1>3. <<>> \in Lists
  BY <1>2 DEF Lists
<1> QED BY <1>3 DEF Readings

LEMMA RankTypes == ASSUME NEW c PROVE Rank(c) \in 0 .. 2
  BY DEF Rank

\* Whatever comes before i comes before what i comes before.
LEMMA EarlierGrows ==
  ASSUME NEW l \in Lists, NEW i \in DOMAIN l, NEW j \in DOMAIN l, Before(l, i, j)
  PROVE  Cardinality(Earlier(l, i)) < Cardinality(Earlier(l, j))
<1> DEFINE smaller == Earlier(l, i)
           larger  == Earlier(l, j)
<1>1. \A n \in DOMAIN l : n \in Nat /\ Rank(l[n]) \in 0 .. 2
  BY ListTypes, RankTypes
<1>2. smaller \subseteq larger
  BY <1>1 DEF Earlier, Before
<1>3. i \in larger /\ i \notin smaller
  BY <1>1 DEF Earlier, Before
<1>4. IsFiniteSet(larger)
  BY ListTypes, FS_Subset DEF Earlier
<1> HIDE DEF smaller, larger
<1>5. IsFiniteSet(smaller) /\ Cardinality(smaller) <= Cardinality(larger)
      /\ Cardinality(smaller) # Cardinality(larger)
  BY <1>2, <1>3, <1>4, FS_Subset
<1>6. Cardinality(smaller) \in Nat /\ Cardinality(larger) \in Nat
  BY <1>4, <1>5, FS_CardinalityType
<1> QED BY <1>5, <1>6 DEF smaller, larger

\* The place of a position when the list is sorted.
Place(l) == [i \in DOMAIN l |-> Cardinality(Earlier(l, i)) + 1]

LEMMA PlaceTypes ==
  ASSUME NEW l \in Lists, NEW i \in DOMAIN l
  PROVE  Place(l)[i] \in DOMAIN l /\ Cardinality(Earlier(l, i)) \in Nat
<1>1. IsFiniteSet(DOMAIN l) /\ Cardinality(DOMAIN l) = Len(l) /\ Len(l) \in Nat
  <2>1. DOMAIN l = 1 .. Len(l) /\ Len(l) \in Nat /\ IsFiniteSet(DOMAIN l)
    BY ListTypes
  <2>2. ASSUME NEW n \in Nat PROVE Cardinality(1 .. n) = n
    BY FS_Interval
  <2> QED BY <2>1, <2>2
<1>2. Earlier(l, i) \subseteq DOMAIN l /\ i \notin Earlier(l, i)
  BY ListTypes, RankTypes DEF Earlier, Before
<1>3. IsFiniteSet(Earlier(l, i)) /\ Cardinality(Earlier(l, i)) < Cardinality(DOMAIN l)
  <2>1. /\ IsFiniteSet(Earlier(l, i)) /\ Cardinality(Earlier(l, i)) <= Cardinality(DOMAIN l)
        /\ Cardinality(Earlier(l, i)) # Cardinality(DOMAIN l)
    BY <1>1, <1>2, FS_Subset
  <2>2. Cardinality(Earlier(l, i)) \in Nat
    BY <2>1, FS_CardinalityType
  <2> QED BY <1>1, <2>1, <2>2
<1>4. Cardinality(Earlier(l, i)) \in Nat
  BY <1>3, FS_CardinalityType
<1> QED BY <1>1, <1>3, <1>4, ListTypes DEF Place

LEMMA PlacesDiffer ==
  ASSUME NEW l \in Lists, NEW i \in DOMAIN l, NEW j \in DOMAIN l, Place(l)[i] = Place(l)[j]
  PROVE  i = j
<1> SUFFICES ASSUME i # j PROVE FALSE
  OBVIOUS
<1>1. Before(l, i, j) \/ Before(l, j, i)
  BY ListTypes, RankTypes DEF Before
<1>2. Cardinality(Earlier(l, i)) # Cardinality(Earlier(l, j))
  BY <1>1, EarlierGrows, PlaceTypes
<1> QED BY <1>2, PlaceTypes DEF Place

\* Sorting is the stable sort Python's sorted is: Order(l) takes every place to a
\* position and back, and puts those that come before in front (client.py:432-436).
THEOREM OrderSorts ==
  ASSUME NEW l \in Lists
  PROVE  /\ Order(l) \in [DOMAIN l -> DOMAIN l]
         /\ \A i \in DOMAIN l : Order(l)[Place(l)[i]] = i
         /\ \A n \in DOMAIN l : Place(l)[Order(l)[n]] = n
         /\ \A m, n \in DOMAIN l : Before(l, Order(l)[m], Order(l)[n]) => m < n
<1> DEFINE places == DOMAIN l
           place  == Place(l)
<1>1. place \in [places -> places]
  BY PlaceTypes DEF Place
<1>2. place \in Injection(places, places)
  BY <1>1, PlacesDiffer DEF Injection, IsInjective
<1>3. place \in Surjection(places, places)
  <2>1. IsFiniteSet(places)
    BY ListTypes
  <2> HIDE DEF places, place
  <2> QED BY <1>2, <2>1, FS_Injection
<1>4. \A n \in places : \E i \in places : place[i] = n
  BY <1>3 DEF Surjection
<1>5. \A n \in places : Order(l)[n] \in places /\ place[Order(l)[n]] = n
  <2> SUFFICES ASSUME NEW n \in places PROVE Order(l)[n] \in places /\ place[Order(l)[n]] = n
    OBVIOUS
  <2>1. PICK i \in places : place[i] = n
    BY <1>4
  <2>2. n \in Nat /\ Cardinality(Earlier(l, i)) = n - 1
    BY <2>1, PlaceTypes, ListTypes DEF Place
  <2>3. Order(l)[n] \in places /\ Cardinality(Earlier(l, Order(l)[n])) = n - 1
    BY <2>2 DEF Order
  <2> QED BY <2>2, <2>3 DEF Place
<1>6. \A i \in places : Order(l)[place[i]] = i
  BY <1>1, <1>5, PlacesDiffer
<1>7. ASSUME NEW m \in places, NEW n \in places, Before(l, Order(l)[m], Order(l)[n])
      PROVE  m < n
  <2> DEFINE i == Order(l)[m]
             j == Order(l)[n]
  <2>1. i \in DOMAIN l /\ j \in DOMAIN l /\ Place(l)[i] = m /\ Place(l)[j] = n
    BY <1>5
  <2>2. Before(l, i, j)
    BY <1>7
  <2> HIDE DEF i, j
  <2>3. Cardinality(Earlier(l, i)) < Cardinality(Earlier(l, j))
    BY <2>1, <2>2, EarlierGrows
  <2>4. m = Cardinality(Earlier(l, i)) + 1 /\ n = Cardinality(Earlier(l, j)) + 1
    BY <2>1 DEF Place
  <2>5. Cardinality(Earlier(l, i)) \in Nat /\ Cardinality(Earlier(l, j)) \in Nat
    BY <2>1, PlaceTypes
  <2> QED BY <2>3, <2>4, <2>5
<1> QED BY <1>5, <1>6, <1>7 DEF Order

\* No certificate to consider comes before position i of l.
Best(l, i) == /\ Considered(l[i])
              /\ \A j \in DOMAIN l : Considered(l[j]) => i = j \/ Before(l, i, j)

\* The loop ends at the best certificate, or at none if there is none to consider
\* (client.py:437-475).
THEOREM FoundIsBest ==
  ASSUME NEW l \in Lists
  PROVE  \/ Found(l) = NoCert /\ \A i \in DOMAIN l : ~ Considered(l[i])
         \/ \E i \in DOMAIN l : Found(l) = l[i] /\ Best(l, i)
<1> DEFINE order == Order(l)
           turns == {n \in DOMAIN l : Considered(l[order[n]])}
<1>1. \A i \in DOMAIN l : Place(l)[i] \in DOMAIN l /\ order[Place(l)[i]] = i
  BY OrderSorts, PlaceTypes
<1>2. CASE turns = {}
  <2>1. Found(l) = NoCert
    BY <1>2 DEF Found
  <2>2. \A i \in DOMAIN l : ~ Considered(l[i])
    BY <1>1, <1>2
  <2> QED BY <2>1, <2>2
<1>3. CASE turns # {}
  <2> DEFINE first == Min(turns)
             i     == order[first]
  <2>1. first \in turns /\ \A n \in turns : first <= n
    <3>1. turns \subseteq Nat
      BY ListTypes
    <3> HIDE DEF turns
    <3> QED BY <1>3, <3>1, MinIsLeast
  <2>2. Found(l) = l[i]
    BY <1>3 DEF Found
  <2>3. first \in DOMAIN l /\ Considered(l[i]) /\ i \in DOMAIN l /\ Place(l)[i] = first
    BY <2>1, OrderSorts
  <2>4. ASSUME NEW j \in DOMAIN l, Considered(l[j]), i # j PROVE Before(l, i, j)
    <3>1. Place(l)[j] \in turns
      BY <1>1, <2>4
    <3>2. first <= Place(l)[j] /\ Place(l)[j] \in Nat /\ first \in Nat
      <4>1. first <= Place(l)[j]
        BY <2>1, <3>1
      <4>2. Place(l)[j] \in DOMAIN l /\ first \in DOMAIN l
        BY <1>1, <2>3, <2>4
      <4> HIDE DEF first
      <4> QED BY <4>1, <4>2, ListTypes
    <3>3. Before(l, i, j) \/ Before(l, j, i)
      BY <2>3, <2>4, ListTypes, RankTypes DEF Before
    <3>4. ~ Before(l, j, i)
      <4> SUFFICES ASSUME Before(l, j, i) PROVE FALSE
        OBVIOUS
      <4>1. Before(l, order[Place(l)[j]], order[first])
        BY <1>1, <2>4
      <4>2. Place(l)[j] < first
        BY <1>1, <2>3, <2>4, <4>1, OrderSorts
      <4> QED BY <3>2, <4>2
    <3> QED BY <3>3, <3>4
  <2> HIDE DEF i
  <2> QED BY <2>2, <2>3, <2>4 DEF Best
<1> QED BY <1>2, <1>3
--------------------------------------------------------------------------------
(* The calls. *)

\* The key on its way out is the best of the list it was fetched from.
PickedIsBest ==
  pc = "second" \/ outcome = "ok" => \E i \in DOMAIN fetched : fetched[i] = picked /\ IsBest(i)

\* The list of the second fetch is that of the first unless it was changed.
SecondFetch ==
  pc = "second" => use = "session" /\ (rotations = 0 => published = fetched)

\* The identifier is that of the first symmetric certificate of the first fetch.
IdIsFetched ==
  outcome = "ok" /\ use = "session" /\ rotations = 0
    => envelope.id \in {NoId, SymmetricId(fetched)}

IInv == /\ TypeOK /\ PicksBestCertificate /\ FailureHasItsCause
        /\ PickedIsBest /\ SecondFetch /\ IdIsFetched

LEMMA FetchedTypes ==
  ASSUME TypeOK
  PROVE  /\ Len(fetched) \in Nat /\ DOMAIN fetched = 1 .. Len(fetched)
         /\ \A i \in DOMAIN fetched : fetched[i] \in Certs
<1>1. CASE fetched \in Lists
  BY <1>1, ListTypes
<1>2. CASE fetched = <<>>
  BY <1>2
<1> QED BY <1>1, <1>2 DEF TypeOK

LEMMA NoCertIsNoChoice == ~ Considered(NoCert)
  BY DEF Considered, NoCert

LEMMA MinSymmetric ==
  ASSUME NEW l, NEW n \in Nat, DOMAIN l = 1 .. n, Symmetric(l) # {}
  PROVE  /\ Min(Symmetric(l)) \in Symmetric(l)
         /\ \A i \in Symmetric(l) : Min(Symmetric(l)) <= i
  BY MinIsLeast DEF Symmetric

LEMMA SymmetricIdTypes ==
  ASSUME NEW l \in Lists
  PROVE  SymmetricId(l) \in {c.id : c \in Certs} \cup {NoId}
<1>1. ASSUME Symmetric(l) # {} PROVE Min(Symmetric(l)) \in DOMAIN l
  BY <1>1, MinSymmetric, ListTypes DEF Symmetric
<1> QED BY <1>1, ListTypes DEF SymmetricId

\* What Best says of a list, IsBest says of the one that was fetched.
LEMMA BestIsBest ==
  ASSUME NEW l \in Lists, NEW i \in DOMAIN l, Best(l, i), fetched' = l
  PROVE  IsBest(i)'
  BY ListTypes DEF Best, Before, IsBest

LEMMA InitIInv == Init => IInv
<1> SUFFICES ASSUME Init PROVE IInv
  OBVIOUS
<1>1. TypeOK
  BY BoundsAssumption DEF Init, TypeOK, NoEnvelope, Envelope
<1> QED BY <1>1 DEF Init, IInv, PicksBestCertificate, FailureHasItsCause, PickedIsBest,
                    SecondFetch, IdIsFetched

LEMMA RotateIInv == ASSUME IInv, Rotate PROVE IInv'
<1>1. /\ UNCHANGED <<pc, use, fetched, picked, envelope, outcome>>
      /\ published' \in Lists /\ rotations' = rotations + 1 /\ rotations < MaxRotations
  BY DEF Rotate, call
<1>2. rotations \in 0 .. MaxRotations /\ MaxRotations \in Nat
  BY BoundsAssumption DEF IInv, TypeOK
<1>3. rotations' \in 0 .. MaxRotations /\ rotations' # 0
  BY <1>1, <1>2
<1>4. TypeOK'
  BY <1>1, <1>3 DEF IInv, TypeOK
<1>5. PicksBestCertificate' /\ FailureHasItsCause' /\ PickedIsBest'
  BY <1>1 DEF IInv, PicksBestCertificate, FailureHasItsCause, PickedIsBest, IsBest
<1> QED BY <1>1, <1>3, <1>4, <1>5 DEF IInv, SecondFetch, IdIsFetched

\* What encrypting leaves: an envelope for the key, or none for a key that will not do.
LEMMA EncryptFacts ==
  ASSUME NEW cert, NEW id, Encrypt(cert, id)
  PROVE  /\ pc' = "idle"
         /\ \/ outcome' = "ok" /\ envelope'.key = cert.key /\ envelope'.id = id
            \/ /\ outcome' = "value_error" /\ cert.material = "not_rsa"
               /\ envelope'.key = NoId /\ envelope'.id = NoId
  BY DEF Encrypt, NoEnvelope, Envelope

LEMMA FetchKeyIInv ==
  ASSUME IInv, NEW u \in {"session", "token"}, NEW list \in Readings, FetchKey(u, list)
  PROVE  IInv'
<1>1. published \in Lists /\ list \in Lists /\ rotations \in 0 .. MaxRotations
  BY ReadingTypes DEF IInv, TypeOK
<1>2. /\ Found(list).material \in {"parses", "not_rsa"} /\ picked' = Found(list)
      /\ use' = u /\ fetched' = list /\ UNCHANGED <<published, rotations>>
  BY DEF FetchKey
<1>3. PICK i \in DOMAIN list : Found(list) = list[i] /\ Best(list, i)
  BY <1>1, <1>2, FoundIsBest DEF NoCert
<1>4. picked' \in Certs /\ fetched'[i] = picked' /\ i \in DOMAIN fetched' /\ IsBest(i)'
  BY <1>1, <1>2, <1>3, ListTypes, BestIsBest
<1>5. PicksBestCertificate' /\ PickedIsBest'
  BY <1>4 DEF PicksBestCertificate, PickedIsBest
<1>6. list = published
  BY <1>3 DEF Readings
<1>7. CASE u = "session"
  <2>1. pc' = "second" /\ envelope' = NoEnvelope /\ outcome' = "none"
    BY <1>7 DEF FetchKey
  <2>2. TypeOK'
    BY <1>1, <1>2, <1>4, <2>1 DEF IInv, TypeOK, NoEnvelope, Envelope
  <2> QED BY <1>2, <1>5, <1>6, <1>7, <2>1, <2>2
          DEF IInv, FailureHasItsCause, SecondFetch, IdIsFetched
<1>8. CASE u # "session"
  <2>1. Encrypt(picked', NoId)
    BY <1>2, <1>8 DEF FetchKey
  <2>2. /\ pc' = "idle" /\ outcome' \in {"ok", "value_error"}
        /\ outcome' = "value_error" => picked'.material = "not_rsa"
        /\ envelope'.key \in {picked'.key, NoId} /\ envelope'.id = NoId
    BY <2>1, EncryptFacts
  <2>3. TypeOK'
    BY <1>1, <1>2, <1>4, <2>2 DEF IInv, TypeOK, Failures
  <2>4. FailureHasItsCause'
    BY <1>4, <2>2 DEF FailureHasItsCause
  <2> QED BY <1>2, <1>5, <1>8, <2>2, <2>3, <2>4 DEF IInv, SecondFetch, IdIsFetched
<1> QED BY <1>7, <1>8

LEMMA FetchKeyFailsIInv ==
  ASSUME IInv, NEW u \in {"session", "token"}, NEW list \in Readings, NEW how \in Failures,
         FetchKeyFails(u, list, how)
  PROVE  IInv'
<1>1. list \in Lists
  BY ReadingTypes DEF IInv, TypeOK
<1>2. /\ pc = "idle" /\ pc' = "idle" /\ UNCHANGED <<published, rotations>>
      /\ use' = u /\ fetched' = list /\ picked' = NoCert
      /\ envelope' = NoEnvelope /\ outcome' = how
      /\ how = "client_error" => Found(list) = NoCert
      /\ how = "value_error" => Found(list).material = "malformed"
  BY DEF FetchKeyFails
<1>3. TypeOK' /\ how # "ok"
  BY <1>1, <1>2 DEF IInv, TypeOK, NoEnvelope, Envelope, Failures
<1>4. FailureHasItsCause'
  <2>1. ASSUME how = "client_error", NEW i \in DOMAIN list
        PROVE  list[i].usage = {} \/ list[i].material = "missing"
    <3>1. ~ Considered(list[i])
      BY <1>1, <1>2, <2>1, FoundIsBest, NoCertIsNoChoice DEF Best
    <3> QED BY <3>1 DEF Considered
  <2>2. ASSUME how = "value_error"
        PROVE  \E i \in DOMAIN list : list[i].material = "malformed" /\ IsBest(i)'
    <3>1. PICK i \in DOMAIN list : Found(list) = list[i] /\ Best(list, i)
      BY <1>1, <1>2, <2>2, FoundIsBest DEF NoCert
    <3>2. IsBest(i)'
      BY <1>1, <1>2, <3>1, BestIsBest
    <3> QED BY <1>2, <2>2, <3>1, <3>2
  <2> QED BY <1>2, <2>1, <2>2 DEF FailureHasItsCause
<1> QED BY <1>2, <1>3, <1>4
        DEF IInv, PicksBestCertificate, PickedIsBest, SecondFetch, IdIsFetched

LEMMA FetchIdIInv ==
  ASSUME IInv, NEW id \in {SymmetricId(published), NoId}, FetchId(id) PROVE IInv'
<1>1. pc = "second" /\ UNCHANGED <<use, fetched, picked, published, rotations>>
  BY DEF FetchId
<1>2. /\ pc' = "idle" /\ outcome' \in {"ok", "value_error"}
      /\ outcome' = "value_error" => picked.material = "not_rsa"
      /\ envelope'.key \in {picked.key, NoId} /\ envelope'.id \in {id, NoId}
  BY EncryptFacts DEF FetchId
<1>3. picked.key \in {c.key : c \in Certs} \cup {NoId}
  BY DEF IInv, TypeOK, NoCert
<1>4. id \in {c.id : c \in Certs} \cup {NoId}
  BY SymmetricIdTypes DEF IInv, TypeOK
<1>5. TypeOK'
  BY <1>1, <1>2, <1>3, <1>4 DEF IInv, TypeOK, Failures
<1>6. PicksBestCertificate' /\ PickedIsBest'
  BY <1>1 DEF IInv, PicksBestCertificate, PickedIsBest, IsBest
<1>7. IdIsFetched'
  BY <1>1, <1>2 DEF IInv, SecondFetch, IdIsFetched
<1>8. FailureHasItsCause'
  <2>1. PICK i \in DOMAIN fetched : fetched[i] = picked /\ IsBest(i)
    BY <1>1 DEF IInv, PickedIsBest
  <2>2. IsBest(i)'
    BY <1>1, <2>1 DEF IsBest
  <2> QED BY <1>1, <1>2, <2>1, <2>2 DEF FailureHasItsCause
<1> QED BY <1>1, <1>2, <1>5, <1>6, <1>7, <1>8 DEF IInv, SecondFetch

LEMMA StutterIInv == ASSUME IInv, UNCHANGED vars PROVE IInv'
  BY DEF IInv, vars, call, TypeOK, PicksBestCertificate, FailureHasItsCause, PickedIsBest,
         SecondFetch, IdIsFetched, IsBest

THEOREM Invariant == Spec => []IInv
<1>1. IInv /\ [Next]_vars => IInv'
  <2>1. ASSUME IInv, Next PROVE IInv'
    <3>1. CASE Rotate
      BY <2>1, <3>1, RotateIInv
    <3>2. CASE \E u \in {"session", "token"}, list \in Readings : FetchKey(u, list)
      BY <2>1, <3>2, FetchKeyIInv
    <3>3. CASE \E u \in {"session", "token"}, list \in Readings, how \in Failures :
                 FetchKeyFails(u, list, how)
      BY <2>1, <3>3, FetchKeyFailsIInv
    <3>4. CASE FetchId(SymmetricId(published)) \/ FetchId(NoId)
      BY <2>1, <3>4, FetchIdIInv
    <3> QED BY <2>1, <3>1, <3>2, <3>3, <3>4 DEF Next
  <2> QED BY <2>1, StutterIInv
<1> QED BY InitIInv, <1>1, PTL DEF Spec

\* The key, its identifier and the lists keep their types (client.py:405-499).
THEOREM TypeCorrect == Spec => []TypeOK
<1>1. IInv => TypeOK
  BY DEF IInv
<1> QED BY Invariant, <1>1, PTL

\* The key of a session is that of the best certificate, whatever is published and
\* however the Ministry changes its list (client.py:414-437).
THEOREM PicksBestCertificateHolds == Spec => []PicksBestCertificate
<1>1. IInv => PicksBestCertificate
  BY DEF IInv
<1> QED BY Invariant, <1>1, PTL

\* A call that finds no key has read a list with nothing to consider, be it for an
\* answer it could not read, and a certificate it stumbles over is the best of the
\* list (client.py:157-167, 409-412, 432-475; crypto.py:34-35).
THEOREM FailureHasItsCauseHolds == Spec => []FailureHasItsCause
<1>1. IInv => FailureHasItsCause
  BY DEF IInv
<1> QED BY Invariant, <1>1, PTL

\* Unless the list changes between the fetches or its first symmetric certificate
\* has no material, the identifier is that of the key: that certificate is then the
\* best one (client.py:481-499).
THEOREM IdNamesItsKeyIfStableHolds == Spec => []IdNamesItsKeyIfStable
<1> DEFINE first == Min(Symmetric(fetched))
<1>1. ASSUME IInv, use = "session", outcome = "ok", rotations = 0,
             \A i \in Symmetric(fetched) : i = first => fetched[i].material # "missing"
      PROVE  envelope.id \in {NoId, picked.id}
  <2>1. envelope.id \in {NoId, SymmetricId(fetched)}
    BY <1>1 DEF IInv, IdIsFetched
  <2>2. CASE Symmetric(fetched) = {}
    BY <2>1, <2>2 DEF SymmetricId
  <2>3. CASE Symmetric(fetched) # {}
    <3>1. PICK i \in DOMAIN fetched : fetched[i] = picked /\ IsBest(i)
      BY <1>1 DEF IInv, PickedIsBest
    <3>2. Len(fetched) \in Nat /\ DOMAIN fetched = 1 .. Len(fetched)
      BY <1>1, FetchedTypes DEF IInv
    <3>3. first \in Symmetric(fetched) /\ \A j \in Symmetric(fetched) : first <= j
      BY <2>3, <3>2, MinSymmetric
    <3>4. SymmetricId(fetched) = fetched[first].id
      BY <2>3 DEF SymmetricId
    <3>5. fetched[first].material # "missing"
      BY <1>1, <3>3
    <3> HIDE DEF first
    <3>6. first \in DOMAIN fetched /\ Considered(fetched[first]) /\ Rank(fetched[first]) = 0
      BY <3>3, <3>5 DEF Symmetric, Considered, Rank, IsSymmetric
    <3>7. Rank(fetched[i]) = 0 /\ i <= first
      BY <3>1, <3>6, RankTypes DEF IsBest
    <3>8. i \in Symmetric(fetched)
      BY <3>7 DEF Symmetric, Rank
    <3>9. i = first
      BY <3>2, <3>3, <3>6, <3>7, <3>8
    <3> QED BY <2>1, <3>1, <3>4, <3>9
  <2> QED BY <2>2, <2>3
<1>2. IInv => IdNamesItsKeyIfStable
  BY <1>1 DEF IdNamesItsKeyIfStable
<1> QED BY Invariant, <1>2, PTL
================================================================================
