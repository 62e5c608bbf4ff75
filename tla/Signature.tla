----------------------------- MODULE Signature -----------------------------
(***************************************************************************)
(* Named keys and signatures (pkg/narinfo/signature).                      *)
(*                                                                         *)
(* Ed25519 belongs to the Go library: a signature is the pair of the key   *)
(* and what it signed, and verifies for exactly these.  A text has a name, *)
(* "" if there is none or no colon, and data of a size, -1 if the data is  *)
(* missing or no base 64.                                                  *)
(***************************************************************************)
EXTENDS Integers, Sequences

PublicKeySize == 32
PrivateKeySize == 64
SignatureSize == 64

\* encode and decode.
Encode(name, data, size) == [name |-> name, data |-> data, size |-> size]

Decode(t, dataSize) ==
  IF t.name # "" /\ t.size = dataSize THEN {[name |-> t.name, data |-> t.data]} ELSE {}

ParsePublicKey(t) == Decode(t, PublicKeySize)
LoadSecretKey(t) == Decode(t, PrivateKeySize)
ParseSignature(t) == Decode(t, SignatureSize)

SignatureText(s) == Encode(s.name, s.data, SignatureSize)

\* SecretKey.Sign, the data of a key pair being the same on both sides.
Sign(key, fingerprint) == [name |-> key.name, data |-> <<key.data, fingerprint>>]

Verify(key, fingerprint, s) == key.name = s.name /\ s.data = <<key.data, fingerprint>>

\* VerifyFirst: the first pair of a key and a signature of one name decides,
\* the keys being the outer loop.
VerifyFirst(fingerprint, sigs, keys) ==
  \E i \in DOMAIN keys, j \in DOMAIN sigs :
    /\ Verify(keys[i], fingerprint, sigs[j])
    /\ \A k \in 1 .. i - 1, l \in DOMAIN sigs : keys[k].name # sigs[l].name
    /\ \A l \in 1 .. j - 1 : keys[i].name # sigs[l].name
=============================================================================
