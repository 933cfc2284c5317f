------------------------------- MODULE MCDbInit -------------------------------
(* Instances of DbInit for TLC: a password that values may set, with or      *)
(* without the internal certificate and its CA, and one or two databases.    *)
EXTENDS DbInit

CONSTANTS cert, ca, secret, tg, renku, p1

OneHook == <<secret>>
ThreeHooks == <<cert, ca, secret>>
Kinds == [s \in Names |-> IF s = cert THEN "signed" ELSE "kept"]
\* Nothing is configured, or a password.
PasswordValues ==
    {[s \in Names |-> IF s = secret THEN v ELSE None] : v \in {None, p1}}
NoValues == {[s \in Names |-> None]}
CAOrSecretLost == {<<"create", ca>>, <<"create", secret>>}
NothingLost == {}

OneDb == <<renku>>
TwoDbs == <<tg, renku>>
OnePassword == [d \in Databases |-> secret]

\* The hypothesis of the theorem about the certificate.
ASSUME SafeInterruptions
================================================================================
