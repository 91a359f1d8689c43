---------------------------- MODULE UpstreamForm ----------------------------
(***************************************************************************)
(* The Add and Edit upstream dialogs' form: what its fields show, what     *)
(* they make of a request body and which sentences stand beside them, with *)
(* what the server does with the body.                                     *)
(*                                                                         *)
(* A stored credential is its shape and the header or parameter name       *)
(* sealed in it; the browser is only told what Present says.  Custom is a  *)
(* second name for header and is left out, as are slug and description,    *)
(* which are shown and sent as the name is.                                *)
(***************************************************************************)
EXTENDS FormText, Functions

AuthTypes == {"none", "bearer", "header", "api_key", "query", "oauth"}

headerShaped(t) == t \in {"header", "api_key"}
queryShaped(t) == t = "query"

----------------------------------------------------------------------------
(* The server's side: what is stored, what is told of it, and a PATCH.     *)

\* token, header and param are typed credentials; client is a client identity
\* alone, set a token set, lapsed one that cannot be renewed; sealed opens
\* under no configured key.
Blob(shape, name) == [shape |-> shape, name |-> name]
Nothing == Blob("", "")

\* What an auth type can send.
Wanted == [bearer |-> "token", header |-> "header", api_key |-> "header",
           query |-> "param"]

StatusOf(type, blob) ==
    IF type = "none" THEN "none"
    ELSE IF blob.shape = "sealed" THEN "undecryptable"
    ELSE IF blob.shape = (IF type = "oauth" THEN "set" ELSE Wanted[type]) THEN "ok"
    ELSE IF type = "oauth" /\ blob.shape = "lapsed" THEN "expired"
    ELSE "unreadable"

\* A row as the API shows it.
Present(u) ==
    LET status == StatusOf(u.auth_type, u.stored)
    IN  [id |-> u.id, name |-> u.name, kind |-> u.kind, url |-> u.url,
         transport |-> u.transport, test_path |-> u.test_path,
         enabled |-> u.enabled, auth_type |-> u.auth_type,
         auth_configured |-> u.stored # Nothing,
         auth_status |-> status,
         header |-> IF headerShaped(u.auth_type) /\ status = "ok"
                    THEN u.stored.name ELSE "",
         param  |-> IF queryShaped(u.auth_type) /\ status = "ok"
                    THEN u.stored.name ELSE "",
         expires_at |-> u.auth_type = "oauth" /\ u.stored.shape \in {"set", "lapsed"}]

Has(b, k) == k \in DOMAIN b
Merged(u, b, k) == IF Has(b, k) THEN b[k] ELSE u[k]

urlMoves(u, b) == Has(b, "url") /\ b.url # u.url
typeMoves(u, b) == Has(b, "auth_type") /\ b.auth_type # u.auth_type
acrossOAuth(u, b) == typeMoves(u, b) /\ "oauth" \in {u.auth_type, b.auth_type}

clearAuth(u, b) ==
    \/ Has(b, "auth_type") /\ b.auth_type = "none"
    \/ u.auth_type = "oauth" /\ urlMoves(u, b) /\ ~Has(b, "auth_config")
    \/ acrossOAuth(u, b) /\ ~Has(b, "auth_config")

\* The kind rules, shared with create.
KindRules(kind, type, path) == IF kind = "http" THEN type # "oauth" ELSE path = ""

\* The shape a type's auth_config must have to be taken.
ConfigTaken(type, config) ==
    /\ type = "oauth" => config.shape = "client"
    /\ queryShaped(type) => config.shape = "param" /\ trim(config.name) # ""

PatchAccepted(u, b) ==
    LET type == Merged(u, b, "auth_type")
    IN  /\ Has(b, "name") => trim(b.name) # ""
        /\ Has(b, "transport") => b.transport = "streamable-http"
        /\ KindRules(u.kind, type, Merged(u, b, "test_path"))
        /\ ~(Has(b, "auth_type") /\ b.auth_type = "none" /\ Has(b, "auth_config"))
        /\ (typeMoves(u, b) /\ "query" \in {u.auth_type, type}) =>
              clearAuth(u, b) \/ acrossOAuth(u, b) \/ Has(b, "auth_config")
        /\ Has(b, "auth_config") => ConfigTaken(type, b.auth_config)

patchUpstream(u, b) ==
    [u EXCEPT !.name = Merged(u, b, "name"), !.url = Merged(u, b, "url"),
              !.transport = Merged(u, b, "transport"),
              !.test_path = Merged(u, b, "test_path"),
              !.enabled = Merged(u, b, "enabled"),
              !.auth_type = Merged(u, b, "auth_type"),
              !.stored = IF clearAuth(u, b) THEN Nothing
                         ELSE IF Has(b, "auth_config") THEN b.auth_config
                         ELSE @]

CreateAccepted(b) ==
    /\ trim(b.name) # "" /\ b.url # ""
    /\ KindRules(b.kind, b.auth_type, b.test_path)
    /\ b.auth_type = "none" => b.auth_config = Nothing
    /\ queryShaped(b.auth_type) => ConfigTaken("query", b.auth_config)

createUpstream(id, b) ==
    [id |-> id, name |-> trim(b.name), kind |-> b.kind, url |-> b.url,
     transport |-> b.transport, test_path |-> b.test_path,
     enabled |-> b.enabled, auth_type |-> b.auth_type, stored |-> b.auth_config]

----------------------------------------------------------------------------
(* upstream-auth.ts and oauth-connect.ts: what the row says of it.         *)

authTone(u) == CASE u.auth_status = "undecryptable" -> "broken"
                 [] u.auth_status = "unreadable"    ->
                       IF u.auth_type = "oauth" THEN "idle" ELSE "broken"
                 [] u.auth_status = "expired"       -> "held"
                 [] u.auth_status = "none"          -> "none"
                 [] OTHER                           -> "ok"

\* What Disconnect would remove; "" disables it.
revokeKind(u) == IF u.auth_type # "oauth" \/ ~u.auth_configured THEN ""
                 ELSE IF u.auth_status = "undecryptable" THEN "unreadable"
                 ELSE IF u.expires_at THEN "connected" ELSE "client"

----------------------------------------------------------------------------
(* The form.                                                               *)

DEFAULT_HEADER == "Authorization"

CONNECTION_FIELDS == {"kind", "url", "transport", "test_path", "auth_type",
                      "token", "header", "param", "value"}

blankUpstreamForm ==
    [name |-> "", kind |-> "mcp", url |-> "", transport |-> "streamable-http",
     test_path |-> "", auth_type |-> "none", token |-> "",
     header |-> DEFAULT_HEADER, param |-> "", value |-> "", client_id |-> "",
     client_secret |-> "", register_client |-> FALSE, enabled |-> TRUE,
     clear_stored |-> FALSE]

formFromUpstream(u) ==
    [blankUpstreamForm EXCEPT
        !.name = u.name, !.kind = u.kind, !.url = u.url,
        !.transport = u.transport, !.test_path = u.test_path,
        !.auth_type = u.auth_type, !.header = u.header, !.param = u.param,
        !.enabled = u.enabled]

\* An HTTP API cannot be oauth.
applyKindChange(f, kind) ==
    IF kind = "http" /\ f.auth_type = "oauth"
    THEN [f EXCEPT !.kind = kind, !.auth_type = "none", !.client_id = "",
                   !.client_secret = "", !.register_client = FALSE]
    ELSE [f EXCEPT !.kind = kind]

authConfigFrom(f) ==
    CASE f.auth_type = "bearer" /\ f.token # ""         -> Blob("token", "")
      [] headerShaped(f.auth_type) /\ f.value # ""      -> Blob("header", f.header)
      [] queryShaped(f.auth_type) /\ f.value # ""       -> Blob("param", f.param)
      [] f.auth_type = "oauth" /\ trim(f.client_id) # "" -> Blob("client", "")
      [] OTHER                                          -> Nothing

credentialTyped(f) ==
    \/ f.auth_type = "bearer" /\ trim(f.token) # ""
    \/ headerShaped(f.auth_type) /\ trim(f.value) # ""
    \/ queryShaped(f.auth_type) /\ trim(f.value) # ""
    \/ f.auth_type = "oauth" /\ trim(f.client_id) # ""

clientSecretAlone(f) ==
    f.auth_type = "oauth" /\ f.client_secret # "" /\ trim(f.client_id) = ""

upstreamCreateBody(f) ==
    [name |-> f.name, kind |-> f.kind, url |-> f.url, transport |-> f.transport,
     test_path |-> IF f.kind = "http" THEN trim(f.test_path) ELSE "",
     auth_type |-> f.auth_type, auth_config |-> authConfigFrom(f),
     enabled |-> f.enabled]

\* The keys whose value differs from the row the dialog was seeded with.
upstreamPatchBody(before, f) ==
    LET config == authConfigFrom(f)
        sent == [name |-> trim(f.name), url |-> trim(f.url),
                 transport |-> f.transport, test_path |-> trim(f.test_path),
                 auth_type |-> f.auth_type, enabled |-> f.enabled,
                 auth_config |-> [config EXCEPT !.name = trim(@)]]
        changed == {k \in {"name", "url", "transport", "enabled"} :
                       sent[k] # before[k]}
        named == config.shape \in {"header", "param"} => trim(config.name) # ""
    IN  Restrict(sent,
           changed
           \cup {k \in {"test_path"} : before.kind = "http" /\ sent[k] # before[k]}
           \cup {k \in {"auth_type"} : \/ sent[k] # before[k]
                                       \/ f.auth_type = "none" /\ f.clear_stored}
           \cup {k \in {"auth_config"} : credentialTyped(f) /\ named})

----------------------------------------------------------------------------
(* Which boxes must be filled.  Add has no row: before is blank there.     *)

credentialRequired(before, f) ==
    IF f.auth_type = "oauth" THEN FALSE
    ELSE IF f.auth_type # before.auth_type THEN f.auth_type # "none"
    ELSE \/ headerShaped(f.auth_type) /\ trim(f.header) # before.header
         \/ queryShaped(f.auth_type) /\ trim(f.param) # before.param

headerRequired(mode, before, f) ==
    /\ headerShaped(f.auth_type)
    /\ credentialTyped(f) \/ (mode = "edit" /\ credentialRequired(before, f))

paramRequired(mode, before, f) ==
    /\ queryShaped(f.auth_type)
    /\ credentialTyped(f) \/ (mode = "edit" /\ credentialRequired(before, f))

\* The credential box shown for the auth type.
CredentialBox(f) ==
    IF f.auth_type = "bearer" THEN {"token"}
    ELSE IF headerShaped(f.auth_type) \/ queryShaped(f.auth_type) THEN {"value"}
    ELSE {}

Required(mode, before, f) ==
    {"name", "url"}
    \cup {k \in {"client_id"} : f.auth_type = "oauth" /\ f.client_secret # ""}
    \cup {k \in CredentialBox(f) :
             IF mode = "edit" THEN credentialRequired(before, f)
             ELSE queryShaped(f.auth_type)}
    \cup {k \in {"header"} : headerRequired(mode, before, f)}
    \cup {k \in {"param"} : /\ queryShaped(f.auth_type)
                            /\ mode = "create" \/ paramRequired(mode, before, f)}

\* The browser's own validation of a submit: a required box is not empty, and
\* the name boxes' patterns refuse spaces.
ValidForm(mode, before, f) ==
    /\ \A k \in Required(mode, before, f) : f[k] # ""
    /\ f.url # Spaces
    /\ headerShaped(f.auth_type) => f.header # Spaces
    /\ queryShaped(f.auth_type) => f.param # Spaces

----------------------------------------------------------------------------
(* The sentences of the Edit dialog, each by what it says.                 *)

\* The help under the credential box when nothing forces a re-entry.
credentialHelp(before, f) ==
    IF f.auth_type = "oauth" THEN authTone(before)
    ELSE IF authTone(before) = "broken" THEN before.auth_status
    ELSE "blank keeps"

editCredentialDescription(before, f) ==
    CASE f.auth_type = "oauth" /\ before.auth_type # "oauth" ->
            IF before.auth_configured THEN "removes" ELSE "connect after"
      [] credentialRequired(before, f) ->
            IF f.auth_type = before.auth_type THEN "enter again" ELSE "enter"
      [] OTHER -> credentialHelp(before, f)

urlChangeDescription(before, f) ==
    IF trim(f.url) = before.url THEN ""
    ELSE IF before.auth_type # "oauth"
    THEN IF before.auth_status = "ok" THEN "moves" ELSE ""
    ELSE IF ~before.auth_configured THEN ""
    ELSE IF before.expires_at THEN "disconnects" ELSE "removes client"

\* Mutant: the sentence follows the status instead of what is stored.
RemoveDescriptionByStatus(before, f) ==
    IF before.auth_type # "none" /\ before.auth_status = "ok" /\ f.auth_type = "none"
    THEN "removes" ELSE ""

removeCredentialDescription(before, f) ==
    IF before.auth_type # "none" /\ before.auth_configured /\ f.auth_type = "none"
    THEN "removes" ELSE ""

clearStoredDescription(before, f) ==
    IF before.auth_type = "none" /\ before.auth_configured /\ f.auth_type = "none"
    THEN "removes if ticked" ELSE ""

----------------------------------------------------------------------------
(* What UpstreamFields draws.                                              *)

\* The inputs on screen.
Offered(mode, before, f) ==
    {"name", "url", "auth_type", "enabled"}
    \cup (IF mode = "create" THEN {"kind"} ELSE {})
    \cup (IF f.kind = "http" THEN {"test_path"} ELSE {"transport"})
    \cup CredentialBox(f)
    \cup (IF headerShaped(f.auth_type) THEN {"header"} ELSE {})
    \cup (IF queryShaped(f.auth_type) THEN {"param"} ELSE {})
    \cup (IF f.auth_type = "oauth" THEN {"client_id", "client_secret"} ELSE {})
    \cup {k \in {"register_client"} : f.auth_type = "oauth" /\ mode = "edit"}
    \cup {k \in {"clear_stored"} : /\ mode = "edit"
                                   /\ clearStoredDescription(before, f) # ""}

\* A select offers its options, and an unsupported stored transport its own.
OptionOf(f, k, v) ==
    /\ k = "auth_type" => ~(f.kind = "http" /\ v = "oauth")
    /\ k = "transport" => v \in {"streamable-http", f.transport}

\* The sentences that say a save removes what is stored.
Removals(before, f) ==
    {removeCredentialDescription(before, f), urlChangeDescription(before, f),
     editCredentialDescription(before, f)}
    \cap {"removes", "disconnects", "removes client"}
=============================================================================
