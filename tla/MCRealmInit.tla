----------------------------- MODULE MCRealmInit -----------------------------
(* Instances of RealmInit for TLC, with the clients as the chart's Job      *)
(* configures them.                                                         *)
EXTENDS RealmInit

CONSTANTS j1, j2

TwoJobs == {j1, j2}

\* The CLI's public client with the device flow, the notebooks' one with the
\* lists an operator may extend, the data service with its roles in
\* realm-management, and the optional ones.
Order == <<"cli", "notebooks", "dataService", "gitlab", "alertmanager">>
Core == {"cli", "notebooks", "dataService"}
ShortOrder == <<"notebooks", "dataService", "alertmanager">>
ShortCore == {"notebooks", "dataService"}
TestRoles == {"view-users", "view-realm"}
DefaultRoles == {"default-roles"}

Cli(lifespan) ==
    FromEnv([id |-> "renku-cli", public_client |-> TRUE,
             oauth_flow |-> "device",
             attributes |-> "access.token.lifespan" :> lifespan
                            @@ DeviceGrant :> JTrue])
Notebooks(secret, uris) ==
    FromEnv([id |-> "renku-jupyterserver", secret |-> secret,
             oauth_flow |-> "authorization_code",
             client_extra_redirect_uris |-> uris])
DataService(secret, roles) ==
    FromEnv([id |-> "renku-data-service", secret |-> secret,
             oauth_flow |-> "client_credentials",
             service_account_roles |-> roles])

Values(cli, notebooks, dataService, gitlab, alertmanager, demo) ==
    [clients |-> [c \in Clients |->
                    CASE c = "cli" -> cli
                      [] c = "notebooks" -> notebooks
                      [] c = "dataService" -> dataService
                      [] c = "gitlab" -> gitlab
                      [] OTHER -> alertmanager],
     demo |-> demo]

Old == Values(Cli("3600"), Notebooks("old", <<"https://a", "https://b">>),
              DataService("old", {"view-users"}), None, None, "yes")
\* Other roles for the same client data but for the order of a list, and the
\* optional clients.
MoreRoles == Values(Cli("3600"), Notebooks("old", <<"https://b", "https://a">>),
                    DataService("old", {"view-users", "view-realm"}),
                    GitlabFromEnv("old"), AlertmanagerFromEnv("old"), "no")
\* Other secrets, attributes and redirects.
New == Values(Cli("86400"), Notebooks("old", <<"https://a">>),
              DataService("new", {"view-realm"}), None, None, "yes")
\* Values the script refuses: before the clients, between them, after them.
NoSecret == Values(Cli("86400"), Notebooks("", <<>>), DataService("new", {}),
                   None, None, "no")
NoAlertSecret == Values(Cli("86400"), Notebooks("new", <<>>),
                        DataService("new", {}), None, AlertmanagerFromEnv(None),
                        "yes")
NoPassword == Values(Cli("3600"), Notebooks("old", <<>>), DataService("new", {}),
                     None, None, "noPassword")

Sound == [old |-> Old, moreRoles |-> MoreRoles, new |-> New]
All == [noSecret |-> NoSecret, noAlertSecret |-> NoAlertSecret,
        noPassword |-> NoPassword] @@ Sound

\* The hypotheses of the theorems about these properties hold here.
ASSUME ComparableValues /\ AvailableRoles
=============================================================================
