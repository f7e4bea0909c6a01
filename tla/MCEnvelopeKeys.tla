----------------------------- MODULE MCEnvelopeKeys -----------------------------
(* Certificates for model checking: keys of every usage, with and without      *)
(* material and identifier.                                                    *)
EXTENDS EnvelopeKeys

SymmetricUsage == {"SymmetricKeyEncryption"}
TokenUsage     == {"KsefTokenEncryption"}

Cert(key, usage, material, id) ==
  [key |-> key, usage |-> usage, material |-> material, id |-> id]

MCCerts ==
  {Cert("k1", SymmetricUsage, "parses", "id1"), Cert("k1", SymmetricUsage, "missing", "id1"),
   Cert("k1", SymmetricUsage, "not_rsa", "id1"),
   Cert("k2", SymmetricUsage, "parses", "id2"), Cert("k2", SymmetricUsage, "parses", "none"),
   Cert("k2", SymmetricUsage, "malformed", "id2"),
   Cert("k3", TokenUsage, "parses", "id3"), Cert("k3", Tags, "parses", "id3"),
   Cert("k3", TokenUsage, "malformed", "id3"), Cert("k3", {}, "parses", "id3")}
================================================================================
