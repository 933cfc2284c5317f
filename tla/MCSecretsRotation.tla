--------------------------- MODULE MCSecretsRotation ---------------------------
(* Instances of SecretsRotation for TLC.                                      *)
EXTENDS SecretsRotation

CONSTANTS j1, j2, j3, j4, k1, k2, k3, s1

TwoJobs == {j1, j2}
FourJobs == {j1, j2, j3, j4}
RsaKeys == {k1, k2, k3}
OneSecret == {s1}
Nothing == {None}

Private(priv, prev) ==
    [priv |-> priv, prev |-> prev, enc |-> None, authn |-> None]

\* The documented procedure, twice: install, rotate, unset the previous key.
Procedure == { Private(k1, None),
               Private(k2, k1), Private(k2, None),
               Private(k3, k2), Private(k3, None) }

=============================================================================
