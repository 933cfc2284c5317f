---------------------------- MODULE MCHookSecrets ----------------------------
(* An instance of HookSecrets for TLC: the secret of a database password     *)
(* that has no value of its own, whose creation may fail, and the gateway's   *)
(* client secret, which may be configured.                                    *)
EXTENDS HookSecrets

CONSTANTS db, gateway, p1

TwoHooks == <<db, gateway>>
TwoKinds == [s \in {db, gateway} |-> IF s = db THEN "kept" ELSE "configured"]
GatewayValues ==
    {[s \in {db, gateway} |-> IF s = gateway THEN v ELSE None] : v \in {None, p1}}
DbLost == {<<"create", db>>}
=============================================================================
