-------------------------- MODULE ClientConfigProofs --------------------------
(***************************************************************************)
(* The comparison of init-realm.py is exact: for all values it can judge   *)
(* (Comparable) it reports a difference between what Keycloak returns and  *)
(* what is sent if and only if Keycloak would make something else of what  *)
(* is sent than it has.  The lemmas say what each conversion between the   *)
(* two forms keeps: quoting, the ids of mappers, the order of lists.       *)
(***************************************************************************)
EXTENDS ClientConfig, FiniteSetTheorems, TLAPS

-----------------------------------------------------------------------------
(* Lists lose their order and nothing else.                                *)

LEMMA ReverseIsSeq ==
  ASSUME NEW S, NEW s \in Seq(S)
  PROVE  /\ Reverse(s) \in Seq(S) /\ Len(Reverse(s)) = Len(s)
         /\ \A n \in 1 .. Len(s) : Reverse(s)[n] = s[Len(s) - n + 1]
BY DEF Reverse

LEMMA ReverseKeepsBag ==
  ASSUME NEW S, NEW s \in Seq(S)
  PROVE  ToBag(Reverse(s)) = ToBag(s)
<1> DEFINE At(t, x) == {n \in DOMAIN t : t[n] = x}
<1>1. /\ DOMAIN s = 1 .. Len(s) /\ DOMAIN Reverse(s) = 1 .. Len(s)
      /\ Len(s) \in Nat
      /\ \A n \in 1 .. Len(s) : Reverse(s)[n] = s[Len(s) - n + 1]
  BY ReverseIsSeq DEF Reverse
<1>2. Range(Reverse(s)) = Range(s)
  <2>1. ASSUME NEW n \in 1 .. Len(s)
        PROVE  /\ Reverse(s)[n] \in Range(s)
               /\ s[n] \in Range(Reverse(s))
    <3>1. Len(s) - n + 1 \in 1 .. Len(s) /\ Len(s) - (Len(s) - n + 1) + 1 = n
      BY <1>1
    <3> QED
      BY <1>1, <3>1 DEF Range
  <2> QED
    BY <1>1, <2>1 DEF Range
<1>3. ASSUME NEW x
      PROVE  Cardinality(At(Reverse(s), x)) = Cardinality(At(s, x))
  <2> DEFINE f == [n \in At(s, x) |-> Len(s) - n + 1]
  <2>1. IsFiniteSet(At(s, x))
    <3>1. IsFiniteSet(1 .. Len(s)) /\ At(s, x) \subseteq 1 .. Len(s)
      BY <1>1, FS_Interval
    <3> HIDE DEF At
    <3> QED
      BY <3>1, FS_Subset
  <2>2. \A n \in At(s, x) : f[n] \in At(Reverse(s), x)
    BY <1>1
  <2>3. \A m, n \in At(s, x) : f[m] = f[n] => m = n
    BY <1>1
  <2>4. ASSUME NEW n \in At(Reverse(s), x)
        PROVE  \E m \in At(s, x) : f[m] = n
    <3>1. Len(s) - n + 1 \in At(s, x) /\ Len(s) - (Len(s) - n + 1) + 1 = n
      BY <1>1
    <3> QED
      BY <3>1
  <2>5. f \in Bijection(At(s, x), At(Reverse(s), x))
    BY <2>2, <2>3, <2>4 DEF Bijection, Injection, Surjection, IsInjective
  <2> HIDE DEF f, At
  <2>6. ExistsBijection(At(s, x), At(Reverse(s), x))
    BY <2>5 DEF ExistsBijection
  <2> QED
    BY <2>1, <2>6, FS_Bijection
<1> QED
  BY <1>2, <1>3 DEF ToBag

-----------------------------------------------------------------------------
(* Quoted booleans.                                                        *)

LEMMA FixUndoesQuote ==
  ASSUME NEW config, Plain(config)
  PROVE  FixJsonValues(Quote(config)) = config
<1>1. \A k \in DOMAIN config : FixJsonValues(Quote(config))[k] = config[k]
  BY DEF FixJsonValues, Quote, Plain, JTrue, JFalse
<1>2. DOMAIN FixJsonValues(Quote(config)) = DOMAIN config
  BY DEF FixJsonValues, Quote
<1> QED
  BY <1>1, <1>2 DEF FixJsonValues, Plain

\* Keycloak tells them apart, too.
LEMMA QuoteIsInjective ==
  ASSUME NEW a, NEW b, Plain(a), Plain(b), Quote(a) = Quote(b)
  PROVE  a = b
BY FixUndoesQuote

\* A mapper is returned with an id and quoted booleans, and repaired.
IsMapper(m) == \E name, kind, config : Plain(config) /\ m = Mapper(name, kind, config)

LEMMA RepairUndoesStored ==
  ASSUME NEW m, NEW n, IsMapper(m)
  PROVE  Repair(StoredMapper(m, n)) = m
<1>1. PICK name, kind, config : Plain(config) /\ m = Mapper(name, kind, config)
  BY DEF IsMapper
<1> DEFINE q == Quote(config)
           k == StoredMapper(m, n)
<1>2. /\ DOMAIN k = {"id", "name", "protocol", "protocolMapper",
                     "consentRequired", "config"}
      /\ k.name = name /\ k.protocol = "openid-connect"
      /\ k.protocolMapper = kind /\ k.consentRequired = FALSE
      /\ k.config = q
  BY <1>1 DEF StoredMapper, Over, Mapper
<1>3. FixJsonValues(q) = config
  BY <1>1, FixUndoesQuote
<1> HIDE DEF k, q
<1> DEFINE r == Repair(k)
<1>4. /\ DOMAIN r = {"name", "protocol", "protocolMapper", "consentRequired", "config"}
      /\ r.name = name /\ r.protocol = "openid-connect"
      /\ r.protocolMapper = kind /\ r.consentRequired = FALSE
      /\ r.config = config
      /\ r = [key \in DOMAIN r |-> r[key]]
  BY <1>2, <1>3 DEF Repair
<1> HIDE DEF r
<1>5. r = Mapper(name, kind, config)
  BY <1>4 DEF Mapper
<1> QED
  BY <1>1, <1>5 DEF k, r

LEMMA MappersAreMappers ==
  ASSUME NEW flow
  PROVE  /\ ProtocolMappers(flow) \in Seq(Range(ProtocolMappers(flow)))
         /\ DOMAIN ProtocolMappers(flow) = 1 .. Len(ProtocolMappers(flow))
         /\ \A n \in DOMAIN ProtocolMappers(flow) :
                IsMapper(ProtocolMappers(flow)[n])
<1>1. ASSUME NEW name, NEW note, note \notin {"true", "false"}
      PROVE  IsMapper(NoteMapper(name, note))
  <2> DEFINE config == [user_session_note |-> note, claim_name |-> note,
                        id_token_claim |-> JTrue, access_token_claim |-> JTrue,
                        userinfo_token_claim |-> JTrue,
                        jsonType_label |-> "String"]
  <2>1. Plain(config)
    <3>1. /\ config = [k \in DOMAIN config |-> config[k]]
          /\ \A k \in DOMAIN config : config[k] \in {note, JTrue, "String"}
      OBVIOUS
    <3> HIDE DEF config
    <3> QED
      BY <1>1, <3>1 DEF Plain, JTrue
  <2>2. NoteMapper(name, note)
            = Mapper(name, "oidc-usersessionmodel-note-mapper", config)
    BY DEF NoteMapper
  <2> HIDE DEF config
  <2> QED
    BY <2>1, <2>2 DEF IsMapper
<1>2. IsMapper(AudienceMapper)
  <2> DEFINE config == [included_client_audience |-> "renku",
                        id_token_claim |-> JFalse,
                        access_token_claim |-> JTrue,
                        userinfo_token_claim |-> JFalse]
  <2>1. Plain(config)
    <3>1. /\ config = [k \in DOMAIN config |-> config[k]]
          /\ \A k \in DOMAIN config : config[k] \in {"renku", JTrue, JFalse}
      OBVIOUS
    <3> HIDE DEF config
    <3> QED
      BY <3>1 DEF Plain, JTrue, JFalse
  <2>2. AudienceMapper = Mapper("renku audience for renku cli",
                                "oidc-audience-mapper", config)
    BY DEF AudienceMapper
  <2> HIDE DEF config
  <2> QED
    BY <2>1, <2>2 DEF IsMapper
<1> DEFINE n1 == NoteMapper("Client ID", "clientId")
           n2 == NoteMapper("Client Host", "clientHost")
           n3 == NoteMapper("Client IP Address", "clientAddress")
           a == AudienceMapper
           M == {n1, n2, n3, a}
<1>3. ProtocolMappers(flow) = (IF flow = "client_credentials"
                               THEN <<n1, n2, n3>> ELSE << >>) \o <<a>>
  BY DEF ProtocolMappers
<1>4. \A m \in M : IsMapper(m)
  BY <1>1, <1>2, Zenon
<1> HIDE DEF n1, n2, n3, a
<1>5. ProtocolMappers(flow) \in Seq(M)
  BY <1>3
<1> DEFINE p == ProtocolMappers(flow)
<1> HIDE DEF p
<1>6. p \in Seq(M) => p \in Seq(Range(p))
  BY DEF Range
<1> QED
  BY <1>4, <1>5, <1>6 DEF p

-----------------------------------------------------------------------------
(* What is sent, what is kept of it, and what is returned.                 *)

FlowKeys == {"standardFlowEnabled", "serviceAccountsEnabled"}
SentKeys == {"clientId", "baseUrl", "publicClient", "attributes",
             "redirectUris", "webOrigins", "protocolMappers"} \cup FlowKeys
GitlabKeys == {"clientId", "baseUrl", "secret", "redirectUris", "webOrigins"}

SentAttributes(w) ==
    IF w.oauth_flow = "device"
    THEN Over([key \in {DeviceGrant} |-> JTrue], w.attributes) ELSE w.attributes

LEMMA SentFields ==
  ASSUME NEW w, Comparable(w), w.kind = "OIDCClient"
  PROVE  /\ DOMAIN ToDict(w)
                = SentKeys \cup IF w.secret = None THEN {} ELSE {"secret"}
         /\ w.secret # None => ToDict(w).secret = w.secret
         /\ ToDict(w).publicClient = w.public_client
         /\ ToDict(w).attributes = SentAttributes(w)
         /\ ToDict(w).redirectUris = <<w.base_url \o "/*">>
                                        \o w.client_extra_redirect_uris
         /\ ToDict(w).webOrigins = <<w.base_url \o "/*">>
                                      \o w.client_extra_web_origins
         /\ ToDict(w).protocolMappers = ProtocolMappers(w.oauth_flow)
         /\ ToDict(w).standardFlowEnabled = (w.oauth_flow = "authorization_code")
         /\ ToDict(w).serviceAccountsEnabled = (w.oauth_flow = "client_credentials")
<1> DEFINE uris == <<w.base_url \o "/*">> \o w.client_extra_redirect_uris
           origins == <<w.base_url \o "/*">> \o w.client_extra_web_origins
           mappers == ProtocolMappers(w.oauth_flow)
           fixed == [clientId |-> w.id, baseUrl |-> w.base_url,
                     publicClient |-> w.public_client,
                     attributes |-> w.attributes, redirectUris |-> uris,
                     webOrigins |-> origins, protocolMappers |-> mappers]
           payload == Over(fixed, Secret(w))
           output == Over([serviceAccountsEnabled |-> FALSE,
                           standardFlowEnabled |-> FALSE], payload)
           extra == IF w.secret = None THEN {} ELSE {"secret"}
<1>1. ToDict(w) = GetKeycloakPayload(w.oauth_flow, payload, TRUE)
  BY DEF ToDict, Comparable
<1> HIDE DEF uris, origins, mappers
<1>2. /\ DOMAIN fixed = SentKeys \ FlowKeys
      /\ fixed.publicClient = w.public_client
      /\ fixed.attributes = w.attributes /\ fixed.redirectUris = uris
      /\ fixed.webOrigins = origins /\ fixed.protocolMappers = mappers
  BY DEF SentKeys, FlowKeys
<1>3. DOMAIN Secret(w) = extra /\ (w.secret # None => Secret(w).secret = w.secret)
  BY DEF Secret
<1> HIDE DEF fixed
<1>4. /\ DOMAIN payload = (SentKeys \ FlowKeys) \cup extra
      /\ \A key \in SentKeys \ FlowKeys : payload[key] = fixed[key]
      /\ w.secret # None => payload.secret = w.secret
  BY <1>2, <1>3 DEF Over, SentKeys, FlowKeys
<1> HIDE DEF payload
<1>5. /\ DOMAIN output = SentKeys \cup extra
      /\ output.serviceAccountsEnabled = FALSE
      /\ output.standardFlowEnabled = FALSE
      /\ \A key \in SentKeys \ FlowKeys : output[key] = fixed[key]
      /\ w.secret # None => output.secret = w.secret
  <2>1. DOMAIN [serviceAccountsEnabled |-> FALSE, standardFlowEnabled |-> FALSE]
            = FlowKeys
    BY DEF FlowKeys
  <2> QED
    BY <1>4, <2>1 DEF Over, SentKeys, FlowKeys
<1>6. GetKeycloakPayload(w.oauth_flow, payload, TRUE) =
        CASE w.oauth_flow = "authorization_code" ->
                Over([standardFlowEnabled |-> TRUE], output)
          [] w.oauth_flow = "device" ->
                Over([attributes |-> Over([key \in {DeviceGrant} |-> JTrue],
                                          output.attributes)], output)
          [] w.oauth_flow = "client_credentials" ->
                Over([serviceAccountsEnabled |-> TRUE], output)
  BY DEF GetKeycloakPayload
<1> HIDE DEF output
<1>7. output.attributes = w.attributes /\ "attributes" \in SentKeys
  BY <1>2, <1>5 DEF SentKeys, FlowKeys
<1>8. ASSUME NEW key \in SentKeys, NEW change, DOMAIN change = {key},
             ToDict(w) = Over(change, output)
      PROVE  /\ DOMAIN ToDict(w) = SentKeys \cup extra
             /\ ToDict(w)[key] = change[key]
             /\ \A k \in SentKeys \ {key} : ToDict(w)[k] = output[k]
             /\ w.secret # None => ToDict(w).secret = w.secret
  <2>1. "secret" \notin SentKeys
    BY DEF SentKeys, FlowKeys
  <2> QED
    BY <1>5, <1>8, <2>1 DEF Over
<1>9. CASE w.oauth_flow = "authorization_code"
  <2> DEFINE change == [standardFlowEnabled |-> TRUE]
  <2>1. ToDict(w) = Over(change, output)
    BY <1>1, <1>6, <1>9
  <2>2. "standardFlowEnabled" \in SentKeys
    BY DEF SentKeys, FlowKeys
  <2>3. DOMAIN change = {"standardFlowEnabled"} /\ change["standardFlowEnabled"] = TRUE
    OBVIOUS
  <2> HIDE DEF change
  <2>4. /\ DOMAIN ToDict(w) = SentKeys \cup extra
        /\ ToDict(w)["standardFlowEnabled"] = TRUE
        /\ \A k \in SentKeys \ {"standardFlowEnabled"} : ToDict(w)[k] = output[k]
        /\ w.secret # None => ToDict(w).secret = w.secret
    BY <1>8, <2>1, <2>2, <2>3
  <2> HIDE DEF extra
  <2>5. SentAttributes(w) = w.attributes
    BY <1>9 DEF SentAttributes
  <2>6. /\ ToDict(w).standardFlowEnabled = (w.oauth_flow = "authorization_code")
        /\ ToDict(w).serviceAccountsEnabled = (w.oauth_flow = "client_credentials")
    BY <1>5, <1>9, <2>4 DEF SentKeys, FlowKeys
  <2>7. /\ ToDict(w).publicClient = w.public_client
        /\ ToDict(w).attributes = w.attributes
        /\ ToDict(w).redirectUris = uris /\ ToDict(w).webOrigins = origins
        /\ ToDict(w).protocolMappers = mappers
    BY <1>2, <1>5, <2>4 DEF SentKeys, FlowKeys
  <2> QED
    BY <2>4, <2>5, <2>6, <2>7 DEF uris, origins, mappers, extra
<1>10. CASE w.oauth_flow = "device"
  <2> DEFINE change == [attributes |-> SentAttributes(w)]
  <2>1. ToDict(w) = Over(change, output)
    BY <1>1, <1>6, <1>7, <1>10 DEF SentAttributes
  <2>2. "attributes" \in SentKeys
    BY DEF SentKeys, FlowKeys
  <2>3. DOMAIN change = {"attributes"} /\ change["attributes"] = SentAttributes(w)
    OBVIOUS
  <2> HIDE DEF change
  <2>4. /\ DOMAIN ToDict(w) = SentKeys \cup extra
        /\ ToDict(w)["attributes"] = SentAttributes(w)
        /\ \A k \in SentKeys \ {"attributes"} : ToDict(w)[k] = output[k]
        /\ w.secret # None => ToDict(w).secret = w.secret
    BY <1>8, <2>1, <2>2, <2>3
  <2> HIDE DEF extra
  <2> QED
    BY <1>2, <1>5, <1>10, <2>4 DEF SentKeys, FlowKeys, uris, origins,
       mappers, extra
<1>11. CASE w.oauth_flow = "client_credentials"
  <2> DEFINE change == [serviceAccountsEnabled |-> TRUE]
  <2>1. ToDict(w) = Over(change, output)
    BY <1>1, <1>6, <1>11
  <2>2. "serviceAccountsEnabled" \in SentKeys
    BY DEF SentKeys, FlowKeys
  <2>3. DOMAIN change = {"serviceAccountsEnabled"} /\ change["serviceAccountsEnabled"] = TRUE
    OBVIOUS
  <2> HIDE DEF change
  <2>4. /\ DOMAIN ToDict(w) = SentKeys \cup extra
        /\ ToDict(w)["serviceAccountsEnabled"] = TRUE
        /\ \A k \in SentKeys \ {"serviceAccountsEnabled"} : ToDict(w)[k] = output[k]
        /\ w.secret # None => ToDict(w).secret = w.secret
    BY <1>8, <2>1, <2>2, <2>3
  <2> HIDE DEF extra
  <2>5. SentAttributes(w) = w.attributes
    BY <1>11 DEF SentAttributes
  <2>6. /\ ToDict(w).standardFlowEnabled = (w.oauth_flow = "authorization_code")
        /\ ToDict(w).serviceAccountsEnabled = (w.oauth_flow = "client_credentials")
    BY <1>5, <1>11, <2>4 DEF SentKeys, FlowKeys
  <2>7. /\ ToDict(w).publicClient = w.public_client
        /\ ToDict(w).attributes = w.attributes
        /\ ToDict(w).redirectUris = uris /\ ToDict(w).webOrigins = origins
        /\ ToDict(w).protocolMappers = mappers
    BY <1>2, <1>5, <2>4 DEF SentKeys, FlowKeys
  <2> QED
    BY <2>4, <2>5, <2>6, <2>7 DEF uris, origins, mappers, extra
<1> QED
  BY <1>9, <1>10, <1>11 DEF Comparable, Valid, Flows

\* What Keycloak keeps of an object with these keys.
LEMMA KeptFields ==
  ASSUME NEW dict, {"redirectUris", "webOrigins"} \subseteq DOMAIN dict,
         NEW full, full = Over(dict, [publicClient |-> FALSE,
                            standardFlowEnabled |-> TRUE,
                            serviceAccountsEnabled |-> FALSE,
                            attributes |-> <<>>, protocolMappers |-> <<>>])
  PROVE  /\ DOMAIN Stored(dict) = DOMAIN full
         /\ \A key \in DOMAIN full \ {"attributes", "protocolMappers",
                                        "redirectUris", "webOrigins"} :
                Stored(dict)[key] = full[key]
         /\ Stored(dict).attributes = Quote(full.attributes)
         /\ Stored(dict).protocolMappers =
                Reverse([n \in DOMAIN full.protocolMappers |->
                            StoredMapper(full.protocolMappers[n], n)])
         /\ Stored(dict).redirectUris = Reverse(full.redirectUris)
         /\ Stored(dict).webOrigins = Reverse(full.webOrigins)
<1>1. {"attributes", "protocolMappers", "redirectUris", "webOrigins"}
            \subseteq DOMAIN full
  BY DEF Over
<1> QED
  BY <1>1 DEF Stored

\* What the script compares for it.
LEMMA ExistingFields ==
  ASSUME NEW stored, {"attributes", "protocolMappers"} \subseteq DOMAIN stored,
         NEW secret, NEW x, x = Existing(Listed(stored), secret)
  PROVE  /\ DOMAIN x = DOMAIN stored \cup {"secret"}
         /\ \A key \in DOMAIN stored \ {"secret", "attributes", "protocolMappers"} :
                x[key] = stored[key]
         /\ x.secret = secret
         /\ x.attributes = FixJsonValues(stored.attributes)
         /\ x.protocolMappers = [n \in DOMAIN stored.protocolMappers |->
                                    Repair(stored.protocolMappers[n])]
BY DEF Existing, Listed, Over

-----------------------------------------------------------------------------
(* The comparison.                                                         *)

LEMMA SentIsPlain ==
  ASSUME NEW w, Comparable(w)
  PROVE  Plain(SentAttributes(w))
BY DEF Comparable, Plain, SentAttributes, Over, JTrue

\* The mappers come back in another order.
LEMMA RepairedMappers ==
  ASSUME NEW flow, NEW kept,
         kept = Reverse([n \in DOMAIN ProtocolMappers(flow) |->
                            StoredMapper(ProtocolMappers(flow)[n], n)])
  PROVE  [n \in DOMAIN kept |-> Repair(kept[n])] = Reverse(ProtocolMappers(flow))
<1> DEFINE p == ProtocolMappers(flow)
           m == [n \in DOMAIN p |-> StoredMapper(p[n], n)]
<1>1. /\ DOMAIN p = 1 .. Len(p) /\ Len(p) \in Nat
      /\ \A n \in DOMAIN p : IsMapper(p[n])
  BY MappersAreMappers
<1> HIDE DEF p
<1>2. /\ m \in Seq(Range(m)) /\ Len(m) = Len(p)
      /\ \A n \in 1 .. Len(p) : m[n] = StoredMapper(p[n], n)
  BY <1>1 DEF Range
<1> HIDE DEF m
<1>3. /\ DOMAIN kept = 1 .. Len(p)
      /\ \A n \in 1 .. Len(p) : kept[n] = m[Len(p) - n + 1]
  BY <1>2 DEF Reverse, p, m
<1>4. ASSUME NEW n \in 1 .. Len(p)
      PROVE  Repair(kept[n]) = p[Len(p) - n + 1]
  <2>1. Len(p) - n + 1 \in 1 .. Len(p)
    BY <1>1
  <2> QED
    BY <1>1, <1>2, <1>3, <2>1, RepairUndoesStored
<1>5. Reverse(p) = [n \in 1 .. Len(p) |-> p[Len(p) - n + 1]]
  BY DEF Reverse
<1> QED
  BY <1>3, <1>4, <1>5 DEF p

\* The values w, the object sent for them, and the object f kept of it.
Converted == {"attributes", "protocolMappers", "redirectUris", "webOrigins"}
KeptForm(w, sent, f) ==
    /\ DOMAIN sent = SentKeys \cup IF w.secret = None THEN {} ELSE {"secret"}
    /\ sent.publicClient = w.public_client
    /\ sent.attributes = SentAttributes(w)
    /\ sent.redirectUris = <<w.base_url \o "/*">> \o w.client_extra_redirect_uris
    /\ sent.webOrigins = <<w.base_url \o "/*">> \o w.client_extra_web_origins
    /\ sent.protocolMappers = ProtocolMappers(w.oauth_flow)
    /\ sent.standardFlowEnabled = (w.oauth_flow = "authorization_code")
    /\ sent.serviceAccountsEnabled = (w.oauth_flow = "client_credentials")
    /\ DOMAIN f = DOMAIN sent
    /\ \A key \in DOMAIN sent \ Converted : f[key] = sent[key]
    /\ f.attributes = Quote(SentAttributes(w))
    /\ f.protocolMappers =
           Reverse([n \in DOMAIN ProtocolMappers(w.oauth_flow) |->
                       StoredMapper(ProtocolMappers(w.oauth_flow)[n], n)])
    /\ f.redirectUris = Reverse(sent.redirectUris)
    /\ f.webOrigins = Reverse(sent.webOrigins)

LEMMA KeptClient ==
  ASSUME NEW w, Comparable(w), w.kind = "OIDCClient",
         NEW sent, sent = ToDict(w), NEW f, f = Stored(sent)
  PROVE  KeptForm(w, sent, f)
<1> DEFINE defaults == [publicClient |-> FALSE, standardFlowEnabled |-> TRUE,
                        serviceAccountsEnabled |-> FALSE,
                        attributes |-> <<>>, protocolMappers |-> <<>>]
           full == Over(sent, defaults)
<1>1. /\ DOMAIN sent = SentKeys \cup IF w.secret = None THEN {} ELSE {"secret"}
      /\ sent.publicClient = w.public_client
      /\ sent.attributes = SentAttributes(w)
      /\ sent.redirectUris = <<w.base_url \o "/*">> \o w.client_extra_redirect_uris
      /\ sent.webOrigins = <<w.base_url \o "/*">> \o w.client_extra_web_origins
      /\ sent.protocolMappers = ProtocolMappers(w.oauth_flow)
      /\ sent.standardFlowEnabled = (w.oauth_flow = "authorization_code")
      /\ sent.serviceAccountsEnabled = (w.oauth_flow = "client_credentials")
  BY SentFields
<1>2. DOMAIN full = DOMAIN sent /\ (\A key \in DOMAIN sent : full[key] = sent[key])
  BY <1>1 DEF Over, SentKeys, FlowKeys
<1>3. /\ {"redirectUris", "webOrigins", "attributes", "protocolMappers"}
            \subseteq DOMAIN sent
  BY <1>1 DEF SentKeys, FlowKeys
<1>4. /\ DOMAIN f = DOMAIN full
      /\ \A key \in DOMAIN full \ {"attributes", "protocolMappers",
                                     "redirectUris", "webOrigins"} :
             f[key] = full[key]
      /\ f.attributes = Quote(full.attributes)
      /\ f.protocolMappers =
             Reverse([n \in DOMAIN full.protocolMappers |->
                         StoredMapper(full.protocolMappers[n], n)])
      /\ f.redirectUris = Reverse(full.redirectUris)
      /\ f.webOrigins = Reverse(full.webOrigins)
  BY <1>3, KeptFields
<1> HIDE DEF full
<1> QED
  BY <1>1, <1>2, <1>3, <1>4 DEF KeptForm, Converted

\* The secret that get_client_secrets returns, if there is one.
SecretOf(stored) == IF "secret" \in DOMAIN stored THEN stored.secret ELSE None

\* A list is alike before and after Keycloak has had it.
LEMMA ListsAlike ==
  ASSUME NEW key \in ListKeys, NEW S, NEW a \in Seq(S), NEW b \in Seq(S)
  PROVE  Alike(key, b, Reverse(a)) <=> Alike(key, Reverse(a), Reverse(b))
BY ReverseKeepsBag DEF Alike

\* Key by key the script sees the difference that Keycloak would make.
KeyByKey(w, v, f, g, n, x) ==
    /\ \A key \in SentKeys \ {"protocolMappers"} :
            Alike(key, n[key], x[key]) <=> Alike(key, f[key], g[key])
    /\ n.serviceAccountsEnabled = x.serviceAccountsEnabled =>
            /\ Alike("protocolMappers", n.protocolMappers, x.protocolMappers)
            /\ f.protocolMappers = g.protocolMappers
    /\ w.secret # None /\ v.secret # None =>
            (Alike("secret", n.secret, x.secret)
                <=> Alike("secret", f.secret, g.secret))
    /\ DOMAIN x = SentKeys \cup {"secret"}
    /\ n.publicClient = x.publicClient => (w.secret = None <=> v.secret = None)

LEMMA ComparedClient ==
  ASSUME NEW w, NEW v, Comparable(w), Comparable(v),
         w.kind = "OIDCClient", v.kind = "OIDCClient",
         NEW f, f = Stored(ToDict(w)), NEW g, g = Stored(ToDict(v)),
         NEW n, n = ToDict(v), NEW x, x = Existing(Listed(f), SecretOf(f))
  PROVE  KeyByKey(w, v, f, g, n, x)
<1> DEFINE sent == ToDict(w)
<1>0. KeptForm(w, sent, f) /\ KeptForm(v, n, g)
  BY KeptClient
<1> HIDE DEF sent
<1>1. /\ DOMAIN sent = SentKeys \cup IF w.secret = None THEN {} ELSE {"secret"}
      /\ DOMAIN n = SentKeys \cup IF v.secret = None THEN {} ELSE {"secret"}
      /\ DOMAIN f = DOMAIN sent /\ DOMAIN g = DOMAIN n
      /\ \A key \in DOMAIN sent \ Converted : f[key] = sent[key]
      /\ \A key \in DOMAIN n \ Converted : g[key] = n[key]
  BY <1>0 DEF KeptForm
<1>2. Converted \subseteq SentKeys /\ "secret" \notin SentKeys
  BY DEF SentKeys, FlowKeys, Converted
<1>3. /\ DOMAIN x = SentKeys \cup {"secret"}
      /\ \A key \in SentKeys \ {"attributes", "protocolMappers"} : x[key] = f[key]
      /\ x.secret = SecretOf(f)
      /\ x.attributes = FixJsonValues(f.attributes)
      /\ x.protocolMappers = [m \in DOMAIN f.protocolMappers |->
                                Repair(f.protocolMappers[m])]
  <2>1. {"attributes", "protocolMappers"} \subseteq DOMAIN f
    BY <1>1, <1>2 DEF Converted
  <2>2. /\ DOMAIN x = DOMAIN f \cup {"secret"}
        /\ \A key \in DOMAIN f \ {"secret", "attributes", "protocolMappers"} :
                x[key] = f[key]
        /\ x.secret = SecretOf(f)
        /\ x.attributes = FixJsonValues(f.attributes)
        /\ x.protocolMappers = [m \in DOMAIN f.protocolMappers |->
                                  Repair(f.protocolMappers[m])]
    BY <2>1, ExistingFields
  <2> QED
    BY <1>1, <1>2, <2>2
<1>4. ASSUME NEW key \in SentKeys \ Converted
      PROVE  Alike(key, n[key], x[key]) <=> Alike(key, f[key], g[key])
  <2>1. key \notin ListKeys /\ x[key] = f[key] /\ n[key] = g[key]
    BY <1>1, <1>3 DEF ListKeys, Converted
  <2> QED
    BY <2>1 DEF Alike
<1>5. /\ n.attributes = SentAttributes(v) /\ g.attributes = Quote(SentAttributes(v))
      /\ x.attributes = SentAttributes(w) /\ f.attributes = Quote(SentAttributes(w))
  <2>1. /\ n.attributes = SentAttributes(v) /\ g.attributes = Quote(SentAttributes(v))
        /\ f.attributes = Quote(SentAttributes(w))
    BY <1>0 DEF KeptForm
  <2> QED
    BY <1>3, <2>1, SentIsPlain, FixUndoesQuote
<1>6. Alike("attributes", n.attributes, x.attributes)
        <=> Alike("attributes", f.attributes, g.attributes)
  BY <1>5, SentIsPlain, QuoteIsInjective DEF Alike, ListKeys
<1>7. ASSUME NEW key \in {"redirectUris", "webOrigins"}
      PROVE  Alike(key, n[key], x[key]) <=> Alike(key, f[key], g[key])
  <2> DEFINE S == STRING \cup {w.base_url \o "/*", v.base_url \o "/*"}
  <2>1. sent[key] \in Seq(S) /\ n[key] \in Seq(S)
    <3>1. /\ {w.client_extra_redirect_uris, w.client_extra_web_origins,
               v.client_extra_redirect_uris, v.client_extra_web_origins}
                \subseteq Seq(S)
          /\ {<<w.base_url \o "/*">>, <<v.base_url \o "/*">>} \subseteq Seq(S)
      BY DEF Comparable
    <3> HIDE DEF S
    <3>2. \A p, q \in Seq(S) : p \o q \in Seq(S)
      OBVIOUS
    <3>3. /\ sent.redirectUris = <<w.base_url \o "/*">> \o w.client_extra_redirect_uris
          /\ sent.webOrigins = <<w.base_url \o "/*">> \o w.client_extra_web_origins
          /\ n.redirectUris = <<v.base_url \o "/*">> \o v.client_extra_redirect_uris
          /\ n.webOrigins = <<v.base_url \o "/*">> \o v.client_extra_web_origins
      BY <1>0 DEF KeptForm
    <3> QED
      BY <3>1, <3>2, <3>3
  <2>2. f[key] = Reverse(sent[key]) /\ g[key] = Reverse(n[key]) /\ x[key] = f[key]
    BY <1>0, <1>2, <1>3 DEF KeptForm, Converted
  <2> HIDE DEF S
  <2> QED
    BY <2>1, <2>2, ListsAlike DEF ListKeys
<1>8. ASSUME n.serviceAccountsEnabled = x.serviceAccountsEnabled
      PROVE  /\ Alike("protocolMappers", n.protocolMappers, x.protocolMappers)
             /\ f.protocolMappers = g.protocolMappers
  <2>1. /\ n.serviceAccountsEnabled = (v.oauth_flow = "client_credentials")
        /\ x.serviceAccountsEnabled = (w.oauth_flow = "client_credentials")
    BY <1>0, <1>1, <1>3 DEF KeptForm, SentKeys, FlowKeys, Converted
  <2> DEFINE p == ProtocolMappers(v.oauth_flow)
  <2>2. ProtocolMappers(w.oauth_flow) = p
    BY <1>8, <2>1 DEF ProtocolMappers
  <2>3. /\ n.protocolMappers = p
        /\ f.protocolMappers = g.protocolMappers
        /\ f.protocolMappers = Reverse([m \in DOMAIN p |-> StoredMapper(p[m], m)])
    BY <1>0, <2>2 DEF KeptForm
  <2>4. x.protocolMappers = Reverse(p)
    BY <1>3, <2>3, RepairedMappers
  <2>5. p \in Seq(Range(p))
    BY MappersAreMappers
  <2> HIDE DEF p
  <2>6. ToBag(Reverse(p)) = ToBag(p)
    BY <2>5, ReverseKeepsBag
  <2> QED
    BY <2>3, <2>4, <2>6 DEF Alike, ListKeys
<1>9. ASSUME w.secret # None, v.secret # None
      PROVE  Alike("secret", n.secret, x.secret)
                <=> Alike("secret", f.secret, g.secret)
  <2>1. x.secret = f.secret /\ n.secret = g.secret
    BY <1>1, <1>2, <1>3, <1>9 DEF SecretOf
  <2> QED
    BY <2>1 DEF Alike, ListKeys
<1>10. n.publicClient = x.publicClient => (w.secret = None <=> v.secret = None)
  <2>1. n.publicClient = v.public_client /\ x.publicClient = w.public_client
    BY <1>0, <1>1, <1>3 DEF KeptForm, SentKeys, FlowKeys, Converted
  <2> QED
    BY <2>1 DEF Comparable
<1> QED
  BY <1>3, <1>4, <1>6, <1>7, <1>8, <1>9, <1>10 DEF KeyByKey, Converted

LEMMA ClientCompared ==
  ASSUME NEW w, NEW v, Comparable(w), Comparable(v),
         w.kind = "OIDCClient", v.kind = "OIDCClient",
         NEW f, f = Stored(ToDict(w)), NEW g, g = Stored(ToDict(v)),
         NEW n, n = ToDict(v), NEW x, x = Existing(Listed(f), SecretOf(f))
  PROVE  CheckExisting(x, n) <=> ~SameClient(f, g)
<1> DEFINE sent == ToDict(w)
           Extra(u) == IF u.secret = None THEN {} ELSE {"secret"}
<1>1. KeptForm(w, sent, f) /\ KeptForm(v, n, g)
  BY KeptClient
<1> HIDE DEF sent
<1>2. DOMAIN f = SentKeys \cup Extra(w) /\ DOMAIN g = SentKeys \cup Extra(v)
      /\ DOMAIN n = SentKeys \cup Extra(v)
  BY <1>1 DEF KeptForm
<1>3. KeyByKey(w, v, f, g, n, x)
  BY ComparedClient
<1>4. /\ {"protocolMappers", "serviceAccountsEnabled", "publicClient"} \subseteq SentKeys
      /\ "secret" \notin SentKeys
      /\ \A a, b : Alike("serviceAccountsEnabled", a, b) <=> a = b
      /\ \A a, b : Alike("publicClient", a, b) <=> a = b
      /\ \A a : Alike("protocolMappers", a, a)
  BY DEF SentKeys, FlowKeys, Alike, ListKeys
<1>5. ASSUME \A key \in SentKeys : Alike(key, n[key], x[key])
      PROVE  /\ \A key \in SentKeys : Alike(key, f[key], g[key])
             /\ w.secret = None <=> v.secret = None
  <2>1. n.serviceAccountsEnabled = x.serviceAccountsEnabled
    BY <1>4, <1>5
  <2>2. n.publicClient = x.publicClient
    BY <1>4, <1>5
  <2> QED
    BY <1>3, <1>4, <1>5, <2>1, <2>2 DEF KeyByKey
<1>6. ASSUME \A key \in SentKeys : Alike(key, f[key], g[key])
      PROVE  \A key \in SentKeys : Alike(key, n[key], x[key])
  <2>1. Alike("serviceAccountsEnabled", n.serviceAccountsEnabled,
              x.serviceAccountsEnabled)
    BY <1>3, <1>4, <1>6 DEF KeyByKey
  <2>2. n.serviceAccountsEnabled = x.serviceAccountsEnabled
    BY <1>4, <2>1
  <2> QED
    BY <1>3, <1>6, <2>2 DEF KeyByKey
<1>7. CASE \A key \in SentKeys : Alike(key, f[key], g[key])
  <2>1. /\ \A key \in SentKeys : Alike(key, n[key], x[key])
        /\ w.secret = None <=> v.secret = None
    BY <1>5, <1>6, <1>7
  <2>2. CheckExisting(x, n)
            <=> v.secret # None /\ ~Alike("secret", n.secret, x.secret)
    BY <1>2, <1>3, <1>4, <2>1 DEF CheckExisting, KeyByKey
  <2>3. SameClient(f, g)
            <=> (v.secret = None \/ Alike("secret", f.secret, g.secret))
    BY <1>2, <1>4, <1>7, <2>1 DEF SameClient
  <2> QED
    BY <1>3, <2>1, <2>2, <2>3 DEF KeyByKey
<1>8. CASE ~\A key \in SentKeys : Alike(key, f[key], g[key])
  <2>1. ~SameClient(f, g)
    BY <1>2, <1>8 DEF SameClient
  <2>2. CheckExisting(x, n)
    BY <1>2, <1>5, <1>8 DEF CheckExisting
  <2> QED
    BY <2>1, <2>2
<1> QED
  BY <1>7, <1>8

\* OIDCGitlabClient: no flows, attributes and mappers are sent, Keycloak's
\* defaults apply to every version of the client.
GitlabDefaults == [publicClient |-> FALSE, standardFlowEnabled |-> TRUE,
                   serviceAccountsEnabled |-> FALSE,
                   attributes |-> <<>>, protocolMappers |-> <<>>]

GitlabForm(sent, f) ==
    /\ DOMAIN sent = GitlabKeys
    /\ DOMAIN f = GitlabKeys \cup DOMAIN GitlabDefaults
    /\ \A key \in GitlabKeys \ {"redirectUris", "webOrigins"} : f[key] = sent[key]
    /\ f.redirectUris = Reverse(sent.redirectUris)
    /\ f.webOrigins = Reverse(sent.webOrigins)
    /\ f.attributes = Quote(<<>>)
    /\ f.protocolMappers = Reverse([n \in DOMAIN <<>> |-> StoredMapper(<<>>[n], n)])
    /\ f.publicClient = FALSE
    /\ f.standardFlowEnabled = TRUE
    /\ f.serviceAccountsEnabled = FALSE

LEMMA KeptGitlab ==
  ASSUME NEW w, NEW sent, sent = GitlabToDict(w), NEW f, f = Stored(sent)
  PROVE  GitlabForm(sent, f)
<1> DEFINE full == Over(sent, GitlabDefaults)
<1>1. DOMAIN sent = GitlabKeys
  BY DEF GitlabToDict, GitlabKeys
<1>2. /\ DOMAIN full = GitlabKeys \cup DOMAIN GitlabDefaults
      /\ \A key \in GitlabKeys : full[key] = sent[key]
      /\ full.publicClient = FALSE /\ full.standardFlowEnabled = TRUE
      /\ full.serviceAccountsEnabled = FALSE
      /\ full.attributes = <<>> /\ full.protocolMappers = <<>>
  BY <1>1 DEF Over, GitlabKeys, GitlabDefaults
<1>3. /\ {"redirectUris", "webOrigins"} \subseteq GitlabKeys
      /\ {"attributes", "protocolMappers", "publicClient", "standardFlowEnabled",
          "serviceAccountsEnabled"} = DOMAIN GitlabDefaults
      /\ GitlabKeys \cap DOMAIN GitlabDefaults = {}
  BY DEF GitlabKeys, GitlabDefaults
<1>4. /\ DOMAIN f = DOMAIN full
      /\ \A key \in DOMAIN full \ {"attributes", "protocolMappers",
                                     "redirectUris", "webOrigins"} :
             f[key] = full[key]
      /\ f.attributes = Quote(full.attributes)
      /\ f.protocolMappers =
             Reverse([n \in DOMAIN full.protocolMappers |->
                         StoredMapper(full.protocolMappers[n], n)])
      /\ f.redirectUris = Reverse(full.redirectUris)
      /\ f.webOrigins = Reverse(full.webOrigins)
  BY <1>1, <1>3, KeptFields DEF GitlabDefaults
<1> HIDE DEF full
<1> QED
  BY <1>1, <1>2, <1>3, <1>4 DEF GitlabForm

LEMMA GitlabCompared ==
  ASSUME NEW w, NEW v,
         NEW f, f = Stored(GitlabToDict(w)), NEW g, g = Stored(GitlabToDict(v)),
         NEW n, n = GitlabToDict(v), NEW x, x = Existing(Listed(f), SecretOf(f))
  PROVE  CheckExisting(x, n) <=> ~SameClient(f, g)
<1> DEFINE sent == GitlabToDict(w)
           Lists == {"redirectUris", "webOrigins"}
           Defaults == DOMAIN GitlabDefaults
<1>0. GitlabForm(sent, f) /\ GitlabForm(n, g)
  BY KeptGitlab
<1> HIDE DEF sent
<1>1. /\ DOMAIN sent = GitlabKeys /\ DOMAIN f = GitlabKeys \cup Defaults
      /\ \A key \in GitlabKeys \ Lists : f[key] = sent[key]
      /\ f.redirectUris = Reverse(sent.redirectUris)
      /\ f.webOrigins = Reverse(sent.webOrigins)
  BY <1>0 DEF GitlabForm
<1>2. /\ DOMAIN n = GitlabKeys /\ DOMAIN g = GitlabKeys \cup Defaults
      /\ \A key \in GitlabKeys \ Lists : g[key] = n[key]
      /\ g.redirectUris = Reverse(n.redirectUris)
      /\ g.webOrigins = Reverse(n.webOrigins)
  BY <1>0 DEF GitlabForm
<1>3. \A key \in Defaults : f[key] = g[key]
  <2>1. /\ f.attributes = g.attributes /\ f.protocolMappers = g.protocolMappers
        /\ f.publicClient = g.publicClient
        /\ f.standardFlowEnabled = g.standardFlowEnabled
        /\ f.serviceAccountsEnabled = g.serviceAccountsEnabled
    BY <1>0 DEF GitlabForm
  <2> QED
    BY <2>1 DEF GitlabDefaults
<1>4. /\ "secret" \in GitlabKeys
      /\ GitlabKeys \cap {"attributes", "protocolMappers"} = {}
      /\ GitlabKeys \cap ListKeys = Lists /\ Lists \subseteq GitlabKeys
      /\ {"attributes", "protocolMappers"} \subseteq Defaults
  BY DEF GitlabKeys, GitlabDefaults, ListKeys
<1> DEFINE S == {w.base_url \o "/users/auth/oauth2_generic/callback",
                 v.base_url \o "/users/auth/oauth2_generic/callback"}
<1>5. \A key \in Lists : sent[key] \in Seq(S) /\ n[key] \in Seq(S)
  <2> DEFINE a == w.base_url \o "/users/auth/oauth2_generic/callback"
             b == v.base_url \o "/users/auth/oauth2_generic/callback"
  <2> HIDE DEF a, b
  <2>1. /\ sent.redirectUris = <<a>> /\ n.redirectUris = <<b>>
        /\ sent.webOrigins = <<>> /\ n.webOrigins = <<>>
    BY DEF GitlabToDict, sent, a, b
  <2>2. {a, b} = S
    BY DEF a, b
  <2> HIDE DEF S
  <2>3. <<a>> \in Seq(S) /\ <<b>> \in Seq(S) /\ <<>> \in Seq(S)
    BY <2>2
  <2> QED
    BY <2>1, <2>3
<1> HIDE DEF Defaults, S
<1>6. DOMAIN x = DOMAIN f /\ (\A key \in GitlabKeys : x[key] = f[key])
  <2>1. {"attributes", "protocolMappers"} \subseteq DOMAIN f
    BY <1>1, <1>4
  <2>2. /\ DOMAIN x = DOMAIN f \cup {"secret"}
        /\ \A key \in DOMAIN f \ {"secret", "attributes", "protocolMappers"} :
                x[key] = f[key]
        /\ x.secret = SecretOf(f)
        /\ x.attributes = FixJsonValues(f.attributes)
        /\ x.protocolMappers = [m \in DOMAIN f.protocolMappers |->
                                  Repair(f.protocolMappers[m])]
    BY <2>1, ExistingFields
  <2> QED
    BY <1>1, <1>4, <2>2 DEF SecretOf
<1>7. ASSUME NEW key \in GitlabKeys
      PROVE  Alike(key, n[key], x[key]) <=> Alike(key, f[key], g[key])
  <2>1. CASE key \in Lists
    <3>1. f[key] = Reverse(sent[key]) /\ g[key] = Reverse(n[key])
      BY <1>1, <1>2, <2>1
    <3>2. /\ sent[key] \in Seq(S) /\ n[key] \in Seq(S) /\ key \in ListKeys
          /\ x[key] = f[key]
      BY <1>4, <1>5, <1>6, <2>1
    <3> QED
      BY <3>1, <3>2, ListsAlike
  <2>2. CASE key \notin Lists
    BY <1>1, <1>2, <1>4, <1>6, <2>2 DEF Alike
  <2> QED
    BY <2>1, <2>2
<1>8. CheckExisting(x, n)
        <=> ~\A key \in GitlabKeys : Alike(key, f[key], g[key])
  BY <1>1, <1>2, <1>6, <1>7 DEF CheckExisting
<1>9. SameClient(f, g) <=> \A key \in GitlabKeys : Alike(key, f[key], g[key])
  BY <1>1, <1>2, <1>3 DEF SameClient, Alike
<1> QED
  BY <1>8, <1>9

\* _check_existing after the repairs of _check_and_create_client reports a
\* difference if and only if what is sent would make another client than the
\* one Keycloak has, whatever values that one was created from.
THEOREM ComparisonIsExact ==
  ASSUME NEW w, NEW v, Comparable(w), Comparable(v), w.kind = v.kind,
         NEW f, f = Stored(ToDict(w))
  PROVE  CheckExisting(Existing(Listed(f), SecretOf(f)), ToDict(v))
            <=> ~SameClient(f, Stored(ToDict(v)))
<1>1. CASE w.kind = "OIDCClient"
  BY <1>1, ClientCompared
<1>2. CASE w.kind = "OIDCGitlabClient"
  <2>1. ToDict(w) = GitlabToDict(w) /\ ToDict(v) = GitlabToDict(v)
    BY <1>2 DEF ToDict
  <2> QED
    BY <2>1, GitlabCompared
<1> QED
  BY <1>1, <1>2 DEF Comparable

\* The flows of the client Keycloak makes of valid values.
LEMMA KeptFlows ==
  ASSUME NEW w, Comparable(w), NEW f, f = Stored(ToDict(w))
  PROVE  /\ f.standardFlowEnabled = (w.oauth_flow = "authorization_code")
         /\ f.serviceAccountsEnabled = (w.oauth_flow = "client_credentials")
         /\ DeviceGrant \in DOMAIN f.attributes /\ f.attributes[DeviceGrant] = "true"
                <=> w.oauth_flow = "device"
         /\ {"standardFlowEnabled", "serviceAccountsEnabled", "attributes"}
                \subseteq DOMAIN f
<1>1. CASE w.kind = "OIDCClient"
  <2> DEFINE sent == ToDict(w)
  <2>1. KeptForm(w, sent, f)
    BY <1>1, KeptClient
  <2> HIDE DEF sent
  <2>2. /\ f.standardFlowEnabled = (w.oauth_flow = "authorization_code")
        /\ f.serviceAccountsEnabled = (w.oauth_flow = "client_credentials")
        /\ f.attributes = Quote(SentAttributes(w))
        /\ {"standardFlowEnabled", "serviceAccountsEnabled", "attributes"}
               \subseteq DOMAIN f
    BY <2>1 DEF KeptForm, SentKeys, FlowKeys, Converted
  <2>3. CASE w.oauth_flow = "device"
    BY <2>2, <2>3 DEF SentAttributes, Over, Quote, JTrue, JFalse
  <2>4. CASE w.oauth_flow # "device"
    BY <2>2, <2>4 DEF SentAttributes, Quote, Comparable
  <2> QED
    BY <2>2, <2>3, <2>4
<1>2. CASE w.kind = "OIDCGitlabClient"
  <2>1. f = Stored(GitlabToDict(w)) /\ w.oauth_flow = "authorization_code"
    BY <1>2 DEF ToDict, Comparable
  <2>2. /\ f.standardFlowEnabled = TRUE /\ f.serviceAccountsEnabled = FALSE
        /\ f.attributes = Quote(<<>>)
        /\ DOMAIN f = GitlabKeys \cup DOMAIN GitlabDefaults
    BY <2>1, KeptGitlab DEF GitlabForm
  <2>3. DOMAIN f.attributes = {}
    BY <2>2 DEF Quote
  <2> QED
    BY <2>1, <2>2, <2>3 DEF GitlabDefaults
<1> QED
  BY <1>1, <1>2 DEF Comparable
=============================================================================
