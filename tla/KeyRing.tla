------------------------------- MODULE KeyRing -------------------------------
(***************************************************************************)
(* What the platform-init script promises about the key material it keeps  *)
(* in Kubernetes secrets, whatever pods, retries and API calls it takes:   *)
(*   - a private key is installed once and from then on only replaced by a *)
(*     rotation, which keeps the replaced key as the previous one in the   *)
(*     same write;                                                         *)
(*   - the published public key is always taken from the private key that  *)
(*     is stored at that moment;                                           *)
(*   - the two symmetric keys of the data service are written once.        *)
(* Concrete modules are shown to implement this one.                       *)
(***************************************************************************)
CONSTANTS Material,     \* every string that can be a key
          Absent        \* no such entry in the secret

VARIABLES priv,         \* privateKey of <release>-secret-service-private-key
          prev,         \* previousPrivateKey of the same secret
          pub,          \* the private key whose public half is published
          enc,          \* encryptionKey of <release>-secrets-storage
          authn         \* secretKey of <release>-internal-authn

ring == <<priv, prev, pub, enc, authn>>

\* An empty ring, or one with a key that has been installed and published.
Init == /\ priv \in Material \cup {Absent}
        /\ pub = priv
        /\ prev = Absent
        /\ enc = Absent
        /\ authn = Absent

Install(k) == /\ priv = Absent
              /\ priv' = k
              /\ UNCHANGED <<prev, pub, enc, authn>>

Rotate(k) == /\ priv # Absent
             /\ k # priv
             /\ priv' = k
             /\ prev' = priv
             /\ UNCHANGED <<pub, enc, authn>>

Publish == /\ priv # Absent
           /\ pub' = priv
           /\ UNCHANGED <<priv, prev, enc, authn>>

SetEncryptionKey(k) == /\ enc = Absent
                       /\ enc' = k
                       /\ UNCHANGED <<priv, prev, pub, authn>>

SetAuthnKey(k) == /\ authn = Absent
                  /\ authn' = k
                  /\ UNCHANGED <<priv, prev, pub, enc>>

Next == \/ \E k \in Material : \/ Install(k)
                               \/ Rotate(k)
                               \/ SetEncryptionKey(k)
                               \/ SetAuthnKey(k)
        \/ Publish

Spec == Init /\ [][Next]_ring
=============================================================================
