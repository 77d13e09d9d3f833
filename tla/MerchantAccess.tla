--------------------------- MODULE MerchantAccess ---------------------------
(***************************************************************************)
(* Who may act for which merchant: the merchant store and its credentials  *)
(* (app/services/merchant_store.py), the operator's scripts that issue     *)
(* credentials and switch scoped authentication on and off                 *)
(* (scripts/merchant_credential_admin.py,                                  *)
(* scripts/configure_phase_k_scoped_auth.py), the check of a Bearer key    *)
(* (app/services/payment_auth.py) and the webhook endpoints a merchant     *)
(* manages with it (app/api/webhook_v1.py, services/webhook_service.py).   *)
(*                                                                         *)
(* A credential stands for its identifier and its token; a key presented   *)
(* by a client is a credential's token, the legacy key of the environment  *)
(* or a wrong one.  The hash of a token is not modelled: a credential is   *)
(* known by its token.                                                     *)
(***************************************************************************)
EXTENDS Naturals, FiniteSets

CONSTANTS
    Merchants,      \* the merchants besides the legacy one
    Credentials,    \* bound: the credentials ever issued
    Endpoints,      \* bound: the webhook endpoints ever created
    Operators,      \* the runs of the operator's scripts at once
    Clients,        \* the API requests handled at once
    MaxAdminKills   \* bound: script runs that are killed

LegacyMerchant == "mrc_legacy_v1"
LegacyKey == "legacy_key"       \* PAYMENT_CREATE_API_KEY
WrongKey == "wrong_key"

ASSUME AccessAssumption ==
    /\ LegacyMerchant \notin Merchants
    /\ {LegacyKey, WrongKey} \cap Credentials = {}
    /\ MaxAdminKills \in Nat

VARIABLES
    merchants,      \* the rows of merchants; none is ever disabled
    credentials,    \* the rows of merchant_credentials
    secrets,        \* the tokens an operator holds in a file
    operator,       \* the script runs
    adminKills,
    service,        \* "running" or "stopped"
    gate,           \* PAYMENT_SCOPED_MERCHANT_AUTH_ENABLED in the env file
    settings,       \* the gate the running service read at its start
    endpoints,      \* the rows of webhook_endpoints
    client          \* the requests

accessVars == <<merchants, credentials, secrets, operator, adminKills,
                service, gate, settings, endpoints, client>>
adminVars == <<merchants, credentials, secrets, operator, adminKills>>
serverVars == <<service, gate, settings>>

NoCredential == [owner |-> "nobody", state |-> "none"]
NoEndpoint == [owner |-> "nobody", enabled |-> FALSE]
IdleOperator == [stage |-> "idle", merchant |-> "nobody", credential |-> "none",
                 gate |-> FALSE]
IdleClient == [stage |-> "idle", key |-> WrongKey, merchant |-> "nobody",
               shown |-> {}]

AccessInit ==
    /\ merchants = {LegacyMerchant}
    /\ credentials = [c \in Credentials |-> NoCredential]
    /\ secrets = {}
    /\ operator = [o \in Operators |-> IdleOperator]
    /\ adminKills = 0
    /\ service = "stopped"
    /\ gate = FALSE
    /\ settings = FALSE
    /\ endpoints = [e \in Endpoints |-> NoEndpoint]
    /\ client = [c \in Clients |-> IdleClient]

-----------------------------------------------------------------------------
(* merchant_credential_admin.py                                             *)

CreateMerchant(m) ==
    /\ m \notin merchants
    /\ merchants' = merchants \cup {m}
    /\ UNCHANGED <<credentials, secrets, operator, adminKills>>

(* create-credential reads the merchant, and inserts in a second            *)
(* transaction; an unknown merchant ends it.                                *)
BeginCredential(o, m) ==
    /\ operator[o].stage = "idle"
    /\ m \in merchants
    /\ operator' = [operator EXCEPT ![o] =
                      [IdleOperator EXCEPT !.stage = "insert", !.merchant = m]]
    /\ UNCHANGED <<merchants, credentials, secrets, adminKills>>

InsertCredential(o, c) ==
    /\ operator[o].stage = "insert"
    /\ credentials[c] = NoCredential
    /\ credentials' = [credentials EXCEPT ![c] =
                         [owner |-> operator[o].merchant, state |-> "enabled"]]
    /\ operator' = [operator EXCEPT ![o].stage = "write", ![o].credential = c]
    /\ UNCHANGED <<merchants, secrets, adminKills>>

WriteSecret(o) ==
    /\ operator[o].stage = "write"
    /\ secrets' = secrets \cup {operator[o].credential}
    /\ operator' = [operator EXCEPT ![o] = IdleOperator]
    /\ UNCHANGED <<merchants, credentials, adminKills>>

(* The file exists already, or the disk fails and the file is taken away:   *)
(* the credential has to be disabled.                                       *)
LeaveIt(run) == IdleOperator
Undo(run) == [run EXCEPT !.stage = "undo"]
SecretFails(o) ==
    /\ operator[o].stage = "write"
    /\ operator' = [operator EXCEPT ![o] = Undo(operator[o])]
    /\ UNCHANGED <<merchants, credentials, secrets, adminKills>>

(* The UPDATE of disable_credential: only an enabled row is changed, and    *)
(* the row is looked for by its identifier.                                 *)
Disable(c) ==
    credentials' = [credentials EXCEPT ![c].state =
                      IF @ = "enabled" THEN "disabled" ELSE @]

UndoCredential(o) ==
    /\ operator[o].stage = "undo"
    /\ Disable(operator[o].credential)
    /\ operator' = [operator EXCEPT ![o] = IdleOperator]
    /\ UNCHANGED <<merchants, secrets, adminKills>>

(* disable-credential, at any time, of any credential the operator sees in  *)
(* list-credentials.                                                        *)
DisableCredential(c) ==
    /\ credentials[c].state = "enabled"
    /\ Disable(c)
    /\ UNCHANGED <<merchants, secrets, operator, adminKills>>

(* The script is killed, or the disabling itself fails (a busy database):   *)
(* either way it ends where it is.                                          *)
AdminKilled(o) ==
    /\ operator[o].stage \in {"insert", "write", "undo"}
    /\ adminKills < MaxAdminKills
    /\ adminKills' = adminKills + 1
    /\ operator' = [operator EXCEPT ![o] = IdleOperator]
    /\ UNCHANGED <<merchants, credentials, secrets>>

Administer ==
    /\ \/ \E m \in Merchants : CreateMerchant(m)
       \/ \E o \in Operators :
            \/ \E m \in merchants : BeginCredential(o, m)
            \/ \E c \in Credentials : InsertCredential(o, c)
            \/ WriteSecret(o)
            \/ SecretFails(o)
            \/ UndoCredential(o)
            \/ AdminKilled(o)
       \/ \E c \in Credentials : DisableCredential(c)
    /\ UNCHANGED <<serverVars, endpoints, client>>

-----------------------------------------------------------------------------
(* configure_phase_k_scoped_auth.py: the service must be stopped, and to    *)
(* enable the gate some credential must be active; the file is replaced in  *)
(* one step of its own.                                                     *)
BeginConfigure(o, enabled) ==
    /\ operator[o].stage = "idle"
    /\ service = "stopped"
    /\ enabled => \E c \in Credentials : credentials[c].state = "enabled"
    /\ operator' = [operator EXCEPT ![o] =
                      [IdleOperator EXCEPT !.stage = "gate", !.gate = enabled]]
    /\ UNCHANGED <<merchants, credentials, secrets, adminKills, serverVars,
                   endpoints, client>>

WriteGate(o) ==
    /\ operator[o].stage = "gate"
    /\ gate' = operator[o].gate
    /\ operator' = [operator EXCEPT ![o] = IdleOperator]
    /\ UNCHANGED <<merchants, credentials, secrets, adminKills, service,
                   settings, endpoints, client>>

(* The settings are read once, when the service starts.                     *)
StartServer ==
    /\ service = "stopped"
    /\ service' = "running"
    /\ settings' = gate
    /\ UNCHANGED <<adminVars, gate, endpoints, client>>

StopServer ==
    /\ service = "running"
    /\ service' = "stopped"
    /\ client' = [c \in Clients |-> IdleClient]
    /\ UNCHANGED <<adminVars, gate, settings, endpoints>>

-----------------------------------------------------------------------------
(* require_payment_merchant_auth: the legacy key first, then, behind the    *)
(* gate, an enabled credential of an enabled merchant.                      *)
Authenticated(key) ==
    \/ key = LegacyKey
    \/ settings /\ key \in Credentials /\ credentials[key].state = "enabled"

MerchantOf(key) ==
    IF key = LegacyKey THEN LegacyMerchant ELSE credentials[key].owner

(* A request is answered 401 here and never gets further.  A key that is    *)
(* accepted becomes a merchant; the key is not looked at again.  (The       *)
(* legacy key is always configured: the gate's script insists on it.)       *)
RequestArrives(c, key) ==
    /\ service = "running"
    /\ client[c].stage = "idle"
    /\ Authenticated(key)
    /\ client' = [client EXCEPT ![c] =
                    [IdleClient EXCEPT !.stage = "accepted", !.key = key,
                                       !.merchant = MerchantOf(key)]]
    /\ UNCHANGED <<adminVars, serverVars, endpoints>>

(* The host of the URL is resolved first; a name that does not resolve, or  *)
(* a signing key that is missing, ends the request.                         *)
CreateEndpoint(c, e) ==
    /\ client[c].stage = "accepted"
    /\ endpoints[e] = NoEndpoint
    /\ endpoints' = [endpoints EXCEPT ![e] =
                       [owner |-> client[c].merchant, enabled |-> TRUE]]
    /\ client' = [client EXCEPT ![c] = IdleClient]
    /\ UNCHANGED <<adminVars, serverVars>>

RequestRefused(c) ==
    /\ client[c].stage = "accepted"
    /\ client' = [client EXCEPT ![c] = IdleClient]
    /\ UNCHANGED <<adminVars, serverVars, endpoints>>

(* WHERE endpoint_id = ? AND merchant_id = ?                                *)
AnyRow(c, e) == endpoints[e] # NoEndpoint
OwnRow(c, e) == endpoints[e] # NoEndpoint /\ endpoints[e].owner = client[c].merchant

(* A disabled endpoint may be disabled again; another merchant's is not     *)
(* found.                                                                   *)
DisableEndpoint(c, e) ==
    /\ client[c].stage = "accepted"
    /\ OwnRow(c, e)
    /\ endpoints' = [endpoints EXCEPT ![e].enabled = FALSE]
    /\ client' = [client EXCEPT ![c] = IdleClient]
    /\ UNCHANGED <<adminVars, serverVars>>

(* The merchant's endpoints, and with them their deliveries.                *)
ListEndpoints(c) ==
    /\ client[c].stage = "accepted"
    /\ client' = [client EXCEPT ![c].stage = "answering",
                                ![c].shown = {e \in Endpoints : OwnRow(c, e)}]
    /\ UNCHANGED <<adminVars, serverVars, endpoints>>

AnswerRequest(c) ==
    /\ client[c].stage = "answering"
    /\ client' = [client EXCEPT ![c] = IdleClient]
    /\ UNCHANGED <<adminVars, serverVars, endpoints>>

Serve ==
    \E c \in Clients :
      \/ \E key \in Credentials \cup {LegacyKey, WrongKey} : RequestArrives(c, key)
      \/ \E e \in Endpoints : CreateEndpoint(c, e) \/ DisableEndpoint(c, e)
      \/ RequestRefused(c)
      \/ ListEndpoints(c)
      \/ AnswerRequest(c)

AccessNext ==
    \/ Administer
    \/ \E o \in Operators :
         \/ \E enabled \in BOOLEAN : BeginConfigure(o, enabled)
         \/ WriteGate(o)
    \/ StartServer
    \/ StopServer
    \/ Serve

AccessSpec == AccessInit /\ [][AccessNext]_accessVars

-----------------------------------------------------------------------------
(* "Never leave an active credential whose one-time secret could not be     *)
(* delivered": as long as no script was killed, a credential that is        *)
(* enabled is in a file of the operator, or its script is still at it.      *)
NoUndeliveredCredential ==
    adminKills = 0 =>
      \A c \in Credentials :
        credentials[c].state = "enabled" =>
          \/ c \in secrets
          \/ \E o \in Operators : operator[o].stage \in {"write", "undo"}
                                  /\ operator[o].credential = c

(* What is done and shown for a key belongs to the merchant the key was     *)
(* issued to, however the credentials change while the request runs.        *)
TenantsApart ==
    [][\A c \in Clients :
         client'[c].stage # client[c].stage =>
           LET mine == IF client[c].stage = "idle" THEN "nobody"
                       ELSE MerchantOf(client[c].key)
           IN  /\ \A e \in Endpoints :
                    endpoints'[e] # endpoints[e] => endpoints'[e].owner = mine
               /\ \A e \in client'[c].shown : endpoints[e].owner = mine]_<<client, endpoints>>
=============================================================================
