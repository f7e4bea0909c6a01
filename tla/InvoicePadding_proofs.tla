------------------------- MODULE InvoicePadding_proofs -------------------------
(***************************************************************************)
(* Proofs about InvoicePadding, for every block size and every invoice:    *)
(* what encrypt_invoice pads, decrypt_invoice unpads, and decrypt_invoice  *)
(* accepts nothing that encrypt_invoice could not have padded.             *)
(***************************************************************************)
EXTENDS InvoicePadding, TLAPS

(* The arithmetic of a block. *)

LEMMA ModRange ==
  ASSUME NEW b \in Nat \ {0}, NEW n \in Nat
  PROVE  n % b \in 0 .. (b - 1)
  OBVIOUS

\* Filling the last block up makes whole blocks.
LEMMA FilledUp ==
  ASSUME NEW b \in Nat \ {0}, NEW n \in Nat
  PROVE  (n + (b - (n % b))) % b = 0
  OBVIOUS

\* Whole blocks, and not none of them, are a block at least.
LEMMA OneBlock ==
  ASSUME NEW b \in Nat \ {0}, NEW n \in Nat \ {0}, n % b = 0
  PROVE  n >= b
  OBVIOUS

LEMMA ModUnique ==
  ASSUME NEW b \in Nat \ {0}, NEW q \in Nat, NEW r \in 0 .. (b - 1)
  PROVE  (b * q + r) % b = r
  OBVIOUS

\* What is taken from whole blocks is what fills them up again.
LEMMA TakenAway ==
  ASSUME NEW b \in Nat \ {0}, NEW n \in Nat, n % b = 0, NEW k \in 1 .. b, k <= n
  PROVE  b - ((n - k) % b) = k
<1>1. PICK q \in Nat : n = b * q
  OBVIOUS
<1>2. CASE k = b
  <2>1. n - k = b * (q - 1)
    BY <1>1, <1>2
  <2>2. q - 1 \in Nat
    BY <1>1, <1>2
  <2>3. (b * (q - 1)) % b = 0
    BY <2>2
  <2> QED BY <1>2, <2>1, <2>3
<1>3. CASE k < b
  <2>1. PICK r \in 0 .. (b - 1) : r = b - k
    BY <1>3
  <2>2. PICK m \in Nat : m = q - 1
    BY <1>1
  <2>3. n - k = b * m + r
    BY <1>1, <2>1, <2>2
  <2>4. (b * m + r) % b = r
    BY ModUnique
  <2> QED BY <2>1, <2>3, <2>4
<1> QED BY <1>2, <1>3
--------------------------------------------------------------------------------
(* Padding and unpadding. *)

LEMMA StringFacts ==
  ASSUME NEW n \in Nat, NEW p \in Strings(n)
  PROVE  p \in Seq(Byte) /\ Len(p) = n /\ DOMAIN p = 1 .. n
  BY DEF Strings

LEMMA PadLengthRange ==
  ASSUME NEW x \in Seq(Byte)
  PROVE  PadLength(x) \in 1 .. BlockSize
  BY BlockAssumption, ModRange DEF PadLength

LEMMA PaddingFacts ==
  ASSUME NEW n \in 1 .. BlockSize
  PROVE  /\ Padding(n) \in Seq(Byte) /\ Len(Padding(n)) = n
         /\ \A i \in 1 .. n : Padding(n)[i] = n
  BY BlockAssumption, ByteAssumption DEF Padding

\* A padded invoice is the invoice, the padding, and whole blocks.
LEMMA PadFacts ==
  ASSUME NEW x \in Seq(Byte)
  PROVE  /\ Pad(x) \in Seq(Byte)
         /\ Len(Pad(x)) = Len(x) + PadLength(x)
         /\ Len(Pad(x)) % BlockSize = 0
         /\ \A i \in 1 .. Len(x) : Pad(x)[i] = x[i]
         /\ \A i \in (Len(x) + 1) .. Len(Pad(x)) : Pad(x)[i] = PadLength(x)
<1>1. PadLength(x) \in 1 .. BlockSize
  BY PadLengthRange
<1>2. /\ Padding(PadLength(x)) \in Seq(Byte)
      /\ Len(Padding(PadLength(x))) = PadLength(x)
      /\ \A i \in 1 .. PadLength(x) : Padding(PadLength(x))[i] = PadLength(x)
  BY <1>1, PaddingFacts
<1>3. /\ Pad(x) \in Seq(Byte)
      /\ Len(Pad(x)) = Len(x) + PadLength(x)
      /\ \A i \in 1 .. Len(x) : Pad(x)[i] = x[i]
  BY <1>1, <1>2, BlockAssumption DEF Pad
<1>4. Len(Pad(x)) % BlockSize = 0
  <2>1. PICK n \in Nat : n = Len(x)
    OBVIOUS
  <2>2. Len(Pad(x)) = n + (BlockSize - (n % BlockSize))
    BY <1>3, <2>1 DEF PadLength
  <2>3. (n + (BlockSize - (n % BlockSize))) % BlockSize = 0
    BY FilledUp, BlockAssumption
  <2> QED BY <2>2, <2>3
<1>5. ASSUME NEW i \in (Len(x) + 1) .. Len(Pad(x))
      PROVE  Pad(x)[i] = PadLength(x)
  <2>1. i - Len(x) \in 1 .. PadLength(x)
    BY <1>1, <1>3, BlockAssumption
  <2>2. Pad(x)[i] = Padding(PadLength(x))[i - Len(x)]
    BY <1>1, <1>2, <1>3, <2>1, BlockAssumption DEF Pad
  <2> QED BY <1>2, <2>1, <2>2
<1> QED BY <1>3, <1>4, <1>5

\* Whatever ends like a padded invoice is the padding of what is left.
LEMMA PadUnpad ==
  ASSUME NEW p \in Seq(Byte), p # <<>>, IsBlocks(p), IsPadded(p)
  PROVE  Unpad(p) \in Seq(Byte) /\ Pad(Unpad(p)) = p
<1> DEFINE n == LastByte(p)
           x == Unpad(p)
<1>1. n \in 1 .. BlockSize /\ SubSeq(p, Len(p) - n + 1, Len(p)) = Padding(n)
  BY DEF IsPadded
<1>2. Len(p) \in Nat \ {0}
  OBVIOUS
<1>3. Len(p) >= BlockSize
  BY <1>2, OneBlock, BlockAssumption DEF IsBlocks
<1> HIDE DEF n
<1>4. /\ x \in Seq(Byte) /\ Len(x) = Len(p) - n
      /\ \A i \in 1 .. Len(x) : x[i] = p[i]
  BY <1>1, <1>2, <1>3, BlockAssumption DEF Unpad, n
<1> HIDE DEF x
<1>5. BlockSize - ((Len(p) - n) % BlockSize) = n
  <2>1. PICK l \in Nat : l = Len(p)
    OBVIOUS
  <2>2. n \in 1 .. BlockSize /\ n <= l /\ l % BlockSize = 0
    BY <1>1, <1>3, <2>1, BlockAssumption DEF IsBlocks
  <2>3. BlockSize - ((l - n) % BlockSize) = n
    BY <2>2, TakenAway, BlockAssumption
  <2> QED BY <2>1, <2>3
<1>6. PadLength(x) = n
  BY <1>4, <1>5 DEF PadLength
<1>7. /\ Pad(x) \in Seq(Byte) /\ Len(Pad(x)) = Len(p)
      /\ \A i \in 1 .. Len(x) : Pad(x)[i] = x[i]
      /\ \A i \in (Len(x) + 1) .. Len(Pad(x)) : Pad(x)[i] = n
  BY <1>1, <1>4, <1>6, PadFacts, BlockAssumption
<1>8. ASSUME NEW i \in (Len(x) + 1) .. Len(p)
      PROVE  p[i] = n
  <2>1. i - (Len(p) - n) \in 1 .. n
    BY <1>1, <1>2, <1>4, BlockAssumption
  <2>2. SubSeq(p, Len(p) - n + 1, Len(p))[i - (Len(p) - n)] = p[i]
    BY <1>1, <1>2, <1>3, <2>1, BlockAssumption
  <2>3. Padding(n)[i - (Len(p) - n)] = n
    BY <1>1, <2>1, PaddingFacts
  <2> QED BY <1>1, <2>2, <2>3
<1>9. \A i \in 1 .. Len(p) : Pad(x)[i] = p[i]
  BY <1>1, <1>4, <1>7, <1>8, BlockAssumption
<1>10. Pad(x) = p
  BY <1>7, <1>9
<1> QED BY <1>4, <1>10 DEF x

\* The whole body, opened with the session's key, gives the invoice back, but for
\* the first block if the IV is another.
LEMMA OpensWhole ==
  ASSUME NEW x \in Seq(Byte), NEW rightIv \in BOOLEAN,
         NEW p \in Decrypted(Pad(x), TRUE, rightIv),
         rightIv \/ Len(x) >= BlockSize
  PROVE  /\ Ending(p) = "ok"
         /\ Len(Unpad(p)) = Len(x)
         /\ \A i \in DOMAIN x : rightIv \/ i > BlockSize => Unpad(p)[i] = x[i]
<1> DEFINE n == PadLength(x)
           b == Pad(x)
<1>1. n \in 1 .. BlockSize
  BY PadLengthRange
<1>2. /\ b \in Seq(Byte) /\ Len(b) = Len(x) + n /\ Len(b) % BlockSize = 0
      /\ \A i \in 1 .. Len(x) : b[i] = x[i]
      /\ \A i \in (Len(x) + 1) .. Len(b) : b[i] = n
  BY PadFacts
<1> HIDE DEF n, b
<1>3. p \in Strings(Len(b)) /\ \A i \in DOMAIN b : rightIv \/ i > BlockSize => p[i] = b[i]
  BY DEF Decrypted, b
<1>4. p \in Seq(Byte) /\ Len(p) = Len(x) + n
  BY <1>2, <1>3, StringFacts
<1>5. \A i \in 1 .. Len(x) : rightIv \/ i > BlockSize => p[i] = x[i]
  BY <1>1, <1>2, <1>3, BlockAssumption
<1>6. \A i \in (Len(x) + 1) .. Len(p) : p[i] = n
  BY <1>1, <1>2, <1>3, <1>4, BlockAssumption
<1>7. LastByte(p) = n
  BY <1>1, <1>4, <1>6, BlockAssumption DEF LastByte
<1>8. SubSeq(p, Len(p) - n + 1, Len(p)) = Padding(n)
  <2>1. /\ SubSeq(p, Len(x) + 1, Len(p)) \in Seq(Byte)
        /\ Len(SubSeq(p, Len(x) + 1, Len(p))) = n
        /\ \A i \in 1 .. n : SubSeq(p, Len(x) + 1, Len(p))[i] = p[Len(x) + i]
    BY <1>1, <1>4, BlockAssumption
  <2>2. \A i \in 1 .. n : p[Len(x) + i] = n
    BY <1>1, <1>4, <1>6, BlockAssumption
  <2>3. /\ Padding(n) \in Seq(Byte) /\ Len(Padding(n)) = n
        /\ \A i \in 1 .. n : Padding(n)[i] = n
    BY <1>1, PaddingFacts
  <2>4. SubSeq(p, Len(x) + 1, Len(p)) = Padding(n)
    BY <2>1, <2>2, <2>3
  <2>5. Len(p) - n = Len(x)
    BY <1>1, <1>4, BlockAssumption
  <2> QED BY <2>4, <2>5
<1>9. Ending(p) = "ok"
  <2>1. IsPadded(p)
    BY <1>1, <1>7, <1>8 DEF IsPadded
  <2>2. IsBlocks(p)
    BY <1>2, <1>4 DEF IsBlocks
  <2>3. p # <<>>
    BY <1>1, <1>4, BlockAssumption
  <2> QED BY <2>1, <2>2, <2>3 DEF Ending
<1>10. Unpad(p) = SubSeq(p, 1, Len(x))
  BY <1>1, <1>4, <1>7, BlockAssumption DEF Unpad
<1> QED BY <1>1, <1>4, <1>5, <1>9, <1>10, BlockAssumption
--------------------------------------------------------------------------------
(* The system. *)

\* Until the body is cut it is the padded invoice, and nothing has been decrypted
\* before there is a body.
BodyInv ==
  /\ plain \in Seq(Byte) /\ body \in Seq(Byte) /\ cut \in BOOLEAN
  /\ ~cut => body \in {<<>>, Pad(plain)}
  /\ result = NoResult \/ result.how # "none"
  /\ body = <<>> /\ ~cut => result = NoResult

LEMMA BodyInvHolds == Spec => []BodyInv
<1>1. Init => BodyInv
  <2> SUFFICES ASSUME Init PROVE BodyInv
    OBVIOUS
  <2>1. PICK n \in 0 .. MaxLen : plain \in Strings(n)
    BY DEF Init
  <2>2. plain \in Seq(Byte)
    BY <2>1, MaxLenAssumption, StringFacts
  <2>3. body = <<>> /\ cut = FALSE /\ result = NoResult
    BY DEF Init
  <2>4. body \in Seq(Byte)
    BY <2>3
  <2> QED BY <2>2, <2>3, <2>4 DEF BodyInv
<1>2. BodyInv /\ [Next]_vars => BodyInv'
  <2> SUFFICES ASSUME BodyInv, [Next]_vars PROVE BodyInv'
    OBVIOUS
  <2> USE DEF BodyInv
  <2>1. CASE Encrypt
    <3>1. Pad(plain) \in Seq(Byte)
      BY PadFacts
    <3> QED BY <2>1, <3>1 DEF Encrypt
  <2>2. ASSUME NEW n \in 0 .. (Len(body) - 1), Cut(n) PROVE BodyInv'
    <3>1. SubSeq(body, 1, n) \in Seq(Byte)
      OBVIOUS
    <3> QED BY <2>2, <3>1 DEF Cut
  <2>3. ASSUME NEW rightKey \in BOOLEAN, NEW rightIv \in BOOLEAN,
               Decrypt(rightKey, rightIv)
        PROVE  BodyInv'
    <3>1. result'.how # "none"
      BY <2>3 DEF Decrypt, Ending
    <3> QED BY <2>3, <3>1 DEF Decrypt
  <2>4. CASE UNCHANGED vars
    BY <2>4 DEF vars
  <2> QED BY <2>1, <2>2, <2>3, <2>4 DEF Next
<1> QED BY <1>1, <1>2, PTL DEF Spec

\* Whoever has the key and the whole body gets the invoice back; with another IV
\* all but its first block, and no error (crypto.py:89-110).
THEOREM WholeBodyDecryptsHolds == Spec => []WholeBodyDecrypts
<1>1. Init => WholeBodyDecrypts
  BY DEF Init, NoResult, WholeBodyDecrypts
<1>2. BodyInv /\ WholeBodyDecrypts /\ [Next]_vars => WholeBodyDecrypts'
  <2> SUFFICES ASSUME BodyInv, WholeBodyDecrypts, [Next]_vars
               PROVE  WholeBodyDecrypts'
    OBVIOUS
  <2>1. CASE Encrypt
    BY <2>1 DEF Encrypt, WholeBodyDecrypts
  <2>2. ASSUME NEW n \in 0 .. (Len(body) - 1), Cut(n) PROVE WholeBodyDecrypts'
    BY <2>2 DEF Cut, WholeBodyDecrypts
  <2>3. ASSUME NEW rightKey \in BOOLEAN, NEW rightIv \in BOOLEAN,
               Decrypt(rightKey, rightIv)
        PROVE  WholeBodyDecrypts'
    <3>1. /\ UNCHANGED <<plain, cut>>
          /\ opened' \in Decrypted(body, rightKey, rightIv)
          /\ result'.how = Ending(opened')
          /\ Ending(opened') = "ok" => result'.bytes = Unpad(opened')
          /\ result'.rightKey = rightKey /\ result'.rightIv = rightIv
      BY <2>3 DEF Decrypt
    <3> SUFFICES ASSUME ~cut, rightKey, rightIv \/ Len(plain) >= BlockSize
                 PROVE  /\ Ending(opened') = "ok"
                        /\ Len(Unpad(opened')) = Len(plain)
                        /\ \A i \in DOMAIN plain :
                             rightIv \/ i > BlockSize => Unpad(opened')[i] = plain[i]
      BY <3>1 DEF WholeBodyDecrypts
    <3>2. body = Pad(plain)
      BY <2>3 DEF Decrypt, BodyInv
    <3>3. opened' \in Decrypted(Pad(plain), TRUE, rightIv)
      BY <3>1, <3>2
    <3> QED BY <3>3, OpensWhole DEF BodyInv
  <2>4. CASE UNCHANGED vars
    BY <2>4 DEF vars, WholeBodyDecrypts
  <2> QED BY <2>1, <2>2, <2>3, <2>4 DEF Next
<1> QED BY <1>1, <1>2, BodyInvHolds, PTL DEF Spec

\* decrypt_invoice accepts only what encrypt_invoice could have padded, whatever
\* the key, the IV and the body (crypto.py:107-110).
THEOREM AcceptsOnlyPaddedHolds == Spec => []AcceptsOnlyPadded
<1>1. Init => AcceptsOnlyPadded
  BY DEF Init, NoResult, AcceptsOnlyPadded
<1>2. BodyInv /\ AcceptsOnlyPadded /\ [Next]_vars => AcceptsOnlyPadded'
  <2> SUFFICES ASSUME BodyInv, AcceptsOnlyPadded, [Next]_vars
               PROVE  AcceptsOnlyPadded'
    OBVIOUS
  <2>1. CASE Encrypt
    BY <2>1 DEF Encrypt, AcceptsOnlyPadded
  <2>2. ASSUME NEW n \in 0 .. (Len(body) - 1), Cut(n) PROVE AcceptsOnlyPadded'
    BY <2>2 DEF Cut, AcceptsOnlyPadded
  <2>3. ASSUME NEW rightKey \in BOOLEAN, NEW rightIv \in BOOLEAN,
               Decrypt(rightKey, rightIv)
        PROVE  AcceptsOnlyPadded'
    <3>1. /\ opened' \in Decrypted(body, rightKey, rightIv)
          /\ result'.how = Ending(opened')
          /\ Ending(opened') = "ok" => result'.bytes = Unpad(opened')
      BY <2>3 DEF Decrypt
    <3>2. opened' \in Seq(Byte)
      BY <3>1, StringFacts DEF Decrypted, BodyInv
    <3> SUFFICES ASSUME Ending(opened') = "ok"
                 PROVE  Pad(Unpad(opened')) = opened'
      BY <3>1 DEF AcceptsOnlyPadded
    <3>3. opened' # <<>> /\ IsBlocks(opened') /\ IsPadded(opened')
      BY DEF Ending
    <3> QED BY <3>2, <3>3, PadUnpad
  <2>4. CASE UNCHANGED vars
    BY <2>4 DEF vars, AcceptsOnlyPadded
  <2> QED BY <2>1, <2>2, <2>3, <2>4 DEF Next
<1> QED BY <1>1, <1>2, BodyInvHolds, PTL DEF Spec
================================================================================
