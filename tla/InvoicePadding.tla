----------------------------- MODULE InvoicePadding -----------------------------
(***************************************************************************)
(* encrypt_invoice and decrypt_invoice (crypto.py): PKCS#7 padding around  *)
(* AES in CBC mode.  AES itself is left out but for what a recipient may   *)
(* see who has another key, another IV, or not the whole body: with        *)
(* another key anything, with another IV anything in the first block, and  *)
(* a body cut at a block's end decrypts as far as it goes.                 *)
(*                                                                         *)
(* A definition named Faulty... is the code with one plausible mistake in  *)
(* it: no action uses it; it shows that a property can be violated.        *)
(***************************************************************************)
EXTENDS Integers, Sequences

CONSTANTS BlockSize,       \* 16
          Byte,            \* 0 .. 255
          MaxLen           \* bound: bytes of an invoice

ASSUME BlockAssumption  == BlockSize \in Nat \ {0}
ASSUME ByteAssumption   == Byte \subseteq Nat /\ 1 .. BlockSize \subseteq Byte
ASSUME MaxLenAssumption == MaxLen \in Nat

Strings(n) == [1 .. n -> Byte]

\* Adds nothing to whole blocks.
FaultyPadLength(x) == (BlockSize - (Len(x) % BlockSize)) % BlockSize

PadLength(x) == BlockSize - (Len(x) % BlockSize)

Padding(n) == [i \in 1 .. n |-> n]

Pad(x) == x \o Padding(PadLength(x))

LastByte(p) == p[Len(p)]

\* Looks at the last byte only.
FaultyIsPadded(p) == LastByte(p) \in 1 .. BlockSize

IsPadded(p) ==
  LET n == LastByte(p)
  IN  n \in 1 .. BlockSize /\ SubSeq(p, Len(p) - n + 1, Len(p)) = Padding(n)

Unpad(p) == SubSeq(p, 1, Len(p) - LastByte(p))

IsBlocks(p) == Len(p) % BlockSize = 0

\* What the body decrypts to with this key and this IV.
Decrypted(body, rightKey, rightIv) ==
  {p \in Strings(Len(body)) :
     rightKey => \A i \in DOMAIN body : rightIv \/ i > BlockSize => p[i] = body[i]}

VARIABLES plain,           \* the invoice
          body,            \* its ciphertext, written as what it hides
          cut,             \* some of the body is missing
          opened,          \* what the recipient's decryptor yields
          result           \* how decrypt_invoice ended, and what it returned

vars == <<plain, body, cut, opened, result>>

NoResult == [how |-> "none", bytes |-> <<>>, rightKey |-> FALSE, rightIv |-> FALSE]

Init == /\ plain \in UNION {Strings(n) : n \in 0 .. MaxLen}
        /\ body = <<>> /\ cut = FALSE /\ opened = <<>> /\ result = NoResult

\* encrypt_invoice.
Encrypt == /\ body = <<>> /\ ~cut
           /\ body' = Pad(plain)
           /\ UNCHANGED <<plain, cut, opened, result>>

\* The body reaches the recipient without its end.
Cut(n) == /\ body # <<>> /\ ~cut /\ result = NoResult
          /\ body' = SubSeq(body, 1, n) /\ cut' = TRUE
          /\ UNCHANGED <<plain, opened, result>>

\* Half a block makes the decryptor raise, an empty body the look at its last byte.
Ending(p) == IF ~IsBlocks(p) THEN "value_error"
             ELSE IF p = <<>> THEN "index_error"
             ELSE IF IsPadded(p) THEN "ok" ELSE "value_error"

\* decrypt_invoice.
Decrypt(rightKey, rightIv) ==
  /\ body # <<>> \/ cut
  /\ result = NoResult
  /\ opened' \in Decrypted(body, rightKey, rightIv)
  /\ result' = [how |-> Ending(opened'),
                bytes |-> IF Ending(opened') = "ok" THEN Unpad(opened') ELSE <<>>,
                rightKey |-> rightKey, rightIv |-> rightIv]
  /\ UNCHANGED <<plain, body, cut>>

Next == \/ Encrypt
        \/ \E n \in 0 .. (Len(body) - 1) : Cut(n)
        \/ \E rightKey, rightIv \in BOOLEAN : Decrypt(rightKey, rightIv)

Spec == Init /\ [][Next]_vars
--------------------------------------------------------------------------------
\* With the session's key and IV the recipient of the whole body gets the invoice
\* back, whatever its length; with the key and another IV an invoice of a block
\* or more is decrypted without an error all the same, right but for its first
\* block: only the hash of the plaintext tells (crypto.py:89-110).
WholeBodyDecrypts ==
  result.how # "none" /\ ~cut /\ result.rightKey
                      /\ (result.rightIv \/ Len(plain) >= BlockSize) =>
    /\ result.how = "ok"
    /\ Len(result.bytes) = Len(plain)
    /\ \A i \in DOMAIN plain :
         result.rightIv \/ i > BlockSize => result.bytes[i] = plain[i]

\* Whatever the key and the body, what decrypt_invoice returns is what it
\* decrypted less the padding encrypt_invoice would have put there: it accepts
\* nothing else (crypto.py:89-90, 107-110).
AcceptsOnlyPadded == result.how = "ok" => Pad(result.bytes) = opened
================================================================================
