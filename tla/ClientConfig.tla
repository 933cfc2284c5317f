---------------------------- MODULE ClientConfig ----------------------------
(***************************************************************************)
(* scripts/init-realm/utils.py and the comparison in init-realm.py: what   *)
(* an OIDC client's environment means, the JSON object the script sends    *)
(* for it, what Keycloak hands back for that object, and how the two are   *)
(* compared.                                                               *)
(*                                                                         *)
(* A JSON object is a function on its keys.  The values of an attribute or *)
(* of a mapper's configuration are strings, so the boolean true is written *)
(* JTrue there, apart from the quoted "true" that Keycloak keeps.          *)
(***************************************************************************)
EXTENDS SequencesExt

CONSTANT None

JTrue == "True"
JFalse == "False"
Flows == {"device", "authorization_code", "client_credentials"}
DeviceGrant == "oauth2.device.authorization.grant.enabled"
ListKeys == {"redirectUris", "webOrigins", "protocolMappers"}

\* The object f, with the keys of g that it does not have.
Over(f, g) == [key \in DOMAIN f \cup DOMAIN g |->
                  IF key \in DOMAIN f THEN f[key] ELSE g[key]]

-----------------------------------------------------------------------------
(* The values of a client.                                                 *)

\* OIDCClient.from_env: env holds the options that are set.
FromEnv(env) ==
    Over(env,
         [kind |-> "OIDCClient", secret |-> None, base_url |-> "renku",
          oauth_flow |-> None, disable_other_oauth_flows |-> TRUE,
          attributes |-> <<>>, public_client |-> FALSE,
          service_account_roles |-> {}, service_account_realm_roles |-> {},
          client_extra_redirect_uris |-> <<>>,
          client_extra_web_origins |-> <<>>])

\* OIDCGitlabClient.from_env and OIDCAlertmanagerWebhookClient.from_env.
GitlabFromEnv(secret) ==
    FromEnv([kind |-> "OIDCGitlabClient", id |-> "gitlab", secret |-> secret,
             oauth_flow |-> "authorization_code"])
AlertmanagerFromEnv(secret) ==
    FromEnv([id |-> "alertmanager-webhook", secret |-> secret,
             oauth_flow |-> "client_credentials",
             service_account_realm_roles |-> {"alertmanager-webhook"}])

\* __post_init__, and OAuthFlow, which refuses an unknown flow.
Valid(w) ==
    /\ w.oauth_flow \in Flows
    /\ w.public_client \/ w.secret \notin {None, ""}
    /\ \/ w.oauth_flow = "client_credentials"
       \/ w.service_account_roles \cup w.service_account_realm_roles = {}

-----------------------------------------------------------------------------
(* The object that is sent.                                                *)

GetKeycloakPayload(flow, payload, disable_other_flows) ==
    LET output == IF disable_other_flows
                  THEN Over([serviceAccountsEnabled |-> FALSE,
                             standardFlowEnabled |-> FALSE], payload)
                  ELSE payload
        grant == [key \in {DeviceGrant} |-> JTrue]
    IN  CASE flow = "authorization_code" ->
                Over([standardFlowEnabled |-> TRUE], output)
          [] flow = "device" ->
                Over([attributes |-> Over(grant, output.attributes)], output)
          [] flow = "client_credentials" ->
                Over([serviceAccountsEnabled |-> TRUE], output)

\* The mappers of every client with a service account, and the last one.
Mapper(name, kind, config) ==
    [name |-> name, protocol |-> "openid-connect", protocolMapper |-> kind,
     consentRequired |-> FALSE, config |-> config]
NoteMapper(name, note) ==
    Mapper(name, "oidc-usersessionmodel-note-mapper",
           [user_session_note |-> note, claim_name |-> note,
            id_token_claim |-> JTrue, access_token_claim |-> JTrue,
            userinfo_token_claim |-> JTrue, jsonType_label |-> "String"])
AudienceMapper ==
    Mapper("renku audience for renku cli", "oidc-audience-mapper",
           [included_client_audience |-> "renku", id_token_claim |-> JFalse,
            access_token_claim |-> JTrue, userinfo_token_claim |-> JFalse])
ProtocolMappers(flow) ==
    (IF flow = "client_credentials"
     THEN << NoteMapper("Client ID", "clientId"),
             NoteMapper("Client Host", "clientHost"),
             NoteMapper("Client IP Address", "clientAddress") >>
     ELSE <<>>) \o <<AudienceMapper>>

Secret(w) == IF w.secret = None THEN <<>> ELSE [secret |-> w.secret]

GitlabToDict(w) ==
    [clientId |-> w.id, baseUrl |-> w.base_url, secret |-> w.secret,
     redirectUris |-> <<w.base_url \o "/users/auth/oauth2_generic/callback">>,
     webOrigins |-> <<>>]

\* to_dict of OIDCClient, and of OIDCGitlabClient which overrides it.
ToDict(w) ==
    IF w.kind = "OIDCGitlabClient" THEN GitlabToDict(w)
    ELSE GetKeycloakPayload(w.oauth_flow,
            Over([clientId |-> w.id, baseUrl |-> w.base_url,
                  publicClient |-> w.public_client, attributes |-> w.attributes,
                  redirectUris |-> <<w.base_url \o "/*">>
                                     \o w.client_extra_redirect_uris,
                  webOrigins |-> <<w.base_url \o "/*">>
                                     \o w.client_extra_web_origins,
                  protocolMappers |-> ProtocolMappers(w.oauth_flow)], Secret(w)),
            w.disable_other_oauth_flows)

-----------------------------------------------------------------------------
(* Keycloak: what it keeps for an object it is sent and returns for it.    *)

Quote(config) ==
    [k \in DOMAIN config |-> CASE config[k] = JTrue -> "true"
                               [] config[k] = JFalse -> "false"
                               [] OTHER -> config[k]]

StoredMapper(mapper, n) ==
    Over([id |-> n], [mapper EXCEPT !.config = Quote(@)])

\* Fields that are missing get Keycloak's defaults, booleans in attributes
\* and mappers are kept as strings, mappers get an id, lists lose their
\* order, and the secret is left out of what is returned.
Stored(dict) ==
    LET full == Over(dict, [publicClient |-> FALSE, standardFlowEnabled |-> TRUE,
                            serviceAccountsEnabled |-> FALSE,
                            attributes |-> <<>>, protocolMappers |-> <<>>])
        mappers == [n \in DOMAIN full.protocolMappers |->
                        StoredMapper(full.protocolMappers[n], n)]
    IN  [full EXCEPT !.attributes = Quote(@),
                     !.protocolMappers = Reverse(mappers),
                     !.redirectUris = Reverse(@), !.webOrigins = Reverse(@)]
Listed(stored) == [k \in DOMAIN stored \ {"secret"} |-> stored[k]]

-----------------------------------------------------------------------------
(* The comparison.                                                         *)

\* Mutant: the quotes stay.
FixJsonValuesNot(config) == config

\* _fix_json_values
FixJsonValues(config) ==
    [k \in DOMAIN config |-> CASE config[k] = "true" -> JTrue
                               [] config[k] = "false" -> JFalse
                               [] OTHER -> config[k]]

\* _check_and_create_client: the listed client with its secret, without the
\* ids of its mappers and with its booleans repaired.
Repair(mapper) ==
    [k \in DOMAIN mapper \ {"id"} |->
        IF k = "config" THEN FixJsonValues(mapper.config) ELSE mapper[k]]
Existing(listed, secret) ==
    Over([secret |-> secret,
          protocolMappers |-> [n \in DOMAIN listed.protocolMappers |->
                                  Repair(listed.protocolMappers[n])],
          attributes |-> FixJsonValues(listed.attributes)], listed)

\* Equal values of a key, lists compared after sorting.
Alike(key, x, y) == x = y \/ (key \in ListKeys /\ ToBag(x) = ToBag(y))

\* _check_existing: some key of the new object is missing or differs.
CheckExisting(existing, new) ==
    \E key \in DOMAIN new :
        key \notin DOMAIN existing \/ ~Alike(key, new[key], existing[key])

\* The same client, whatever the order of its lists.
SameClient(stored, other) ==
    /\ DOMAIN stored = DOMAIN other
    /\ \A key \in DOMAIN stored : Alike(key, stored[key], other[key])

\* An object without a string that reads as a boolean.
Plain(config) ==
    /\ config = [k \in DOMAIN config |-> config[k]]
    /\ \A k \in DOMAIN config : config[k] \notin {"true", "false"}

\* Values the comparison can judge: the flow keys are sent
\* (DISABLE_OTHER_OAUTH_FLOWS), no attribute is a string that reads as a
\* boolean, and a client without a secret is public.
Comparable(w) ==
    /\ Valid(w) /\ w.kind \in {"OIDCClient", "OIDCGitlabClient"}
    /\ w.kind = "OIDCGitlabClient" => w.oauth_flow = "authorization_code"
    /\ w.disable_other_oauth_flows
    /\ w.public_client \in BOOLEAN /\ (w.public_client <=> w.secret = None)
    /\ Plain(w.attributes)
    /\ w.oauth_flow # "device" => DeviceGrant \notin DOMAIN w.attributes
    /\ w.client_extra_redirect_uris \in Seq(STRING)
    /\ w.client_extra_web_origins \in Seq(STRING)
=============================================================================
