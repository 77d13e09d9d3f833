------------------------- MODULE MerchantApiProofs --------------------------
(***************************************************************************)
(* What a merchant gets from the API: only its own rows, MerchantAccess,   *)
(* and all of them when it walks through its payments, PaymentListing.     *)
(***************************************************************************)
EXTENDS MerchantAccess, PaymentListing, FiniteSetTheorems,
        WellFoundedInduction, TLAPS

-----------------------------------------------------------------------------
(***************************************************************************)
(* Whoever acts for a merchant, for any number of merchants, credentials,  *)
(* operators and clients: a request stays inside the merchant its key was  *)
(* issued to, and no script that ends by itself leaves an enabled          *)
(* credential nobody holds.                                                *)
(*                                                                         *)
(* The first needs that the key of a running request still names the       *)
(* merchant it was exchanged for: a credential once issued is disabled but *)
(* never given to somebody else.                                           *)
(***************************************************************************)

KeyOwners == Merchants \cup {LegacyMerchant, "nobody"}

AccessTypeOK ==
  /\ merchants \subseteq KeyOwners
  /\ credentials \in [Credentials -> [owner : KeyOwners, state : {"none", "enabled", "disabled"}]]
  /\ secrets \subseteq Credentials
  /\ operator \in [Operators ->
       [stage : {"idle", "insert", "write", "undo", "gate"}, merchant : KeyOwners,
        credential : Credentials \cup {"none"}, gate : BOOLEAN]]
  /\ adminKills \in Nat
  /\ gate \in BOOLEAN
  /\ settings \in BOOLEAN
  /\ endpoints \in [Endpoints -> [owner : KeyOwners, enabled : BOOLEAN]]
  /\ client \in [Clients ->
       [stage : {"idle", "accepted", "answering"},
        key : Credentials \cup {LegacyKey, WrongKey},
        merchant : KeyOwners, shown : SUBSET Endpoints]]

(* A script that has inserted a credential knows which.                    *)
ScriptsKnowTheirs ==
  \A o \in Operators :
    operator[o].stage \in {"write", "undo"} => operator[o].credential \in Credentials

(* The key of a running request was issued, and to the merchant the        *)
(* request acts for.                                                       *)
KeysNameMerchants ==
  \A c \in Clients :
    client[c].stage # "idle" =>
      /\ client[c].merchant = MerchantOf(client[c].key)
      /\ \/ client[c].key = LegacyKey
         \/ /\ client[c].key \in Credentials
            /\ credentials[client[c].key].state # "none"

AccessInv ==
  /\ AccessTypeOK
  /\ ScriptsKnowTheirs
  /\ KeysNameMerchants
  /\ NoUndeliveredCredential

-----------------------------------------------------------------------------
(* The tables before the first merchant satisfy the invariant.             *)
LEMMA AccessInitInv == AccessInit => AccessInv
<1> SUFFICES ASSUME AccessInit PROVE AccessInv
  OBVIOUS
<1>1. /\ IdleClient \in [stage : {"idle", "accepted", "answering"},
                         key : Credentials \cup {LegacyKey, WrongKey},
                         merchant : KeyOwners, shown : SUBSET Endpoints]
      /\ IdleClient.stage = "idle"
  BY DEF IdleClient, KeyOwners
<1>2. /\ IdleOperator \in
           [stage : {"idle", "insert", "write", "undo", "gate"}, merchant : KeyOwners,
            credential : Credentials \cup {"none"}, gate : BOOLEAN]
      /\ IdleOperator.stage = "idle"
  BY DEF IdleOperator, KeyOwners
<1>3. /\ NoCredential \in [owner : KeyOwners, state : {"none", "enabled", "disabled"}]
      /\ NoCredential.state = "none"
      /\ NoEndpoint \in [owner : KeyOwners, enabled : BOOLEAN]
  BY DEF NoCredential, NoEndpoint, KeyOwners
<1>4. AccessTypeOK
  BY <1>1, <1>2, <1>3 DEF AccessInit, AccessTypeOK, KeyOwners
<1> QED
  BY <1>1, <1>2, <1>3, <1>4 DEF AccessInit, AccessInv, ScriptsKnowTheirs,
     KeysNameMerchants, NoUndeliveredCredential

(* Whatever is done to the credentials, the owner of one that was issued   *)
(* stays (merchant_store.py:146-227).                                      *)
LEMMA OwnersStay ==
  ASSUME AccessTypeOK, KeysNameMerchants, UNCHANGED client,
         DOMAIN credentials' = Credentials,
         \A c \in Credentials : credentials[c].state # "none" =>
           /\ credentials'[c].owner = credentials[c].owner
           /\ credentials'[c].state # "none"
  PROVE  KeysNameMerchants'
  BY DEF KeysNameMerchants, MerchantOf

(* A credential is disabled where it stands.                               *)
LEMMA DisableChanges ==
  ASSUME AccessTypeOK, NEW c \in Credentials, Disable(c)
  PROVE  /\ credentials' \in
              [Credentials -> [owner : KeyOwners, state : {"none", "enabled", "disabled"}]]
         /\ \A d \in Credentials :
              /\ credentials'[d].owner = credentials[d].owner
              /\ credentials'[d].state = "none" => credentials[d].state = "none"
              /\ credentials'[d].state = "enabled" =>
                   credentials[d].state = "enabled" /\ d # c
  BY DEF Disable, AccessTypeOK

(* Every step of the operator's scripts keeps the invariant                *)
(* (merchant_credential_admin.py:40-141).                                  *)
LEMMA AdministerInv == AccessInv /\ Administer => AccessInv'
<1> SUFFICES ASSUME AccessInv, Administer PROVE AccessInv'
  OBVIOUS
<1> USE DEF AccessInv
<1>1. UNCHANGED <<service, gate, settings, endpoints, client>>
  BY DEF Administer, serverVars
<1>2. CASE \E m \in Merchants : CreateMerchant(m)
  <2>1. KeysNameMerchants'
    BY <1>1, <1>2, OwnersStay DEF CreateMerchant, AccessTypeOK
  <2> QED
    BY <1>1, <1>2, <2>1 DEF CreateMerchant, AccessTypeOK, ScriptsKnowTheirs,
       NoUndeliveredCredential, KeyOwners
<1>3. CASE \E o \in Operators, m \in merchants : BeginCredential(o, m)
  <2> PICK o \in Operators, m \in merchants : BeginCredential(o, m)
    BY <1>3
  <2>1. KeysNameMerchants'
    BY <1>1, OwnersStay DEF BeginCredential, AccessTypeOK
  <2> QED
    BY <1>1, <2>1 DEF BeginCredential, AccessTypeOK, ScriptsKnowTheirs,
       NoUndeliveredCredential, IdleOperator
<1>4. CASE \E o \in Operators, c \in Credentials : InsertCredential(o, c)
  <2> PICK o \in Operators, c \in Credentials : InsertCredential(o, c)
    BY <1>4
  <2>1. KeysNameMerchants'
    BY <1>1, OwnersStay DEF InsertCredential, AccessTypeOK, NoCredential
  <2>2. AccessTypeOK' /\ ScriptsKnowTheirs'
    <3> DEFINE run == [[operator[o] EXCEPT !.stage = "write"] EXCEPT !.credential = c]
               row == [owner |-> operator[o].merchant, state |-> "enabled"]
               Rows == [stage : {"idle", "insert", "write", "undo", "gate"}, merchant : KeyOwners,
                        credential : Credentials \cup {"none"}, gate : BOOLEAN]
    <3>1. operator[o] \in Rows
      BY DEF AccessTypeOK
    <3>2. run \in Rows /\ run.credential = c
      BY <3>1
    <3>3. row \in [owner : KeyOwners, state : {"none", "enabled", "disabled"}]
      BY <3>1
    <3>4. /\ credentials' = [credentials EXCEPT ![c] = row]
          /\ UNCHANGED <<merchants, secrets, adminKills>>
      BY DEF InsertCredential
    <3>5. /\ operator' \in [Operators -> Rows]
          /\ operator'[o].credential = c
          /\ \A q \in Operators : q # o => operator'[q] = operator[q]
      <4>1. operator' = [[operator EXCEPT ![o].stage = "write"] EXCEPT ![o].credential = c]
        BY DEF InsertCredential
      <4>2. operator \in [Operators -> Rows]
        BY DEF AccessTypeOK
      <4> HIDE DEF Rows
      <4>3. operator'[o] = run /\ DOMAIN operator' = Operators
        BY <4>1, <4>2
      <4>4. operator' = [q \in Operators |-> operator'[q]]
        BY <4>1, <4>2
      <4>5. \A q \in Operators : q # o => operator'[q] = operator[q]
        BY <4>1, <4>2
      <4> QED
        BY <3>2, <4>2, <4>3, <4>4, <4>5
    <3> HIDE DEF run, row
    <3> QED
      BY <1>1, <3>2, <3>3, <3>4, <3>5 DEF AccessTypeOK, ScriptsKnowTheirs
  <2>3. /\ operator[o].stage = "insert"
        /\ operator'[o].stage = "write" /\ operator'[o].credential = c
        /\ \A q \in Operators : q # o => operator'[q] = operator[q]
        /\ \A d \in Credentials : d # c => credentials'[d] = credentials[d]
        /\ UNCHANGED <<secrets, adminKills>>
    BY DEF InsertCredential, AccessTypeOK
  <2>4. NoUndeliveredCredential'
    BY <2>3 DEF NoUndeliveredCredential
  <2> QED
    BY <2>1, <2>2, <2>4
<1>5. CASE \E o \in Operators : WriteSecret(o)
  <2> PICK o \in Operators : WriteSecret(o)
    BY <1>5
  <2>1. KeysNameMerchants'
    BY <1>1, OwnersStay DEF WriteSecret, AccessTypeOK
  <2> QED
    BY <1>1, <2>1 DEF WriteSecret, AccessTypeOK, ScriptsKnowTheirs,
       NoUndeliveredCredential, IdleOperator, KeyOwners
<1>6. CASE \E o \in Operators : SecretFails(o)
  <2> PICK o \in Operators : SecretFails(o)
    BY <1>6
  <2>1. KeysNameMerchants'
    BY <1>1, OwnersStay DEF SecretFails, AccessTypeOK
  <2> QED
    BY <1>1, <2>1 DEF SecretFails, Undo, AccessTypeOK, ScriptsKnowTheirs,
       NoUndeliveredCredential
<1>7. CASE \E o \in Operators : UndoCredential(o)
  <2> PICK o \in Operators : UndoCredential(o)
    BY <1>7
  <2> DEFINE c == operator[o].credential
  <2>1. c \in Credentials /\ Disable(c)
    BY DEF UndoCredential, ScriptsKnowTheirs
  <2>2. KeysNameMerchants'
    BY <1>1, <2>1, DisableChanges, OwnersStay DEF AccessTypeOK
  <2>3. AccessTypeOK' /\ ScriptsKnowTheirs'
    BY <1>1, <2>1, DisableChanges
       DEF UndoCredential, AccessTypeOK, ScriptsKnowTheirs, IdleOperator, KeyOwners
  <2>4. NoUndeliveredCredential'
    BY <1>1, <2>1, DisableChanges DEF UndoCredential, AccessTypeOK, NoUndeliveredCredential
  <2> QED
    BY <2>2, <2>3, <2>4
<1>8. CASE \E o \in Operators : AdminKilled(o)
  <2> PICK o \in Operators : AdminKilled(o)
    BY <1>8
  <2>1. KeysNameMerchants'
    BY <1>1, OwnersStay DEF AdminKilled, AccessTypeOK
  <2> QED
    BY <1>1, <2>1 DEF AdminKilled, AccessTypeOK, ScriptsKnowTheirs,
       NoUndeliveredCredential, IdleOperator, KeyOwners
<1>9. CASE \E c \in Credentials : DisableCredential(c)
  <2> PICK c \in Credentials : DisableCredential(c)
    BY <1>9
  <2>1. Disable(c)
    BY DEF DisableCredential
  <2>2. KeysNameMerchants'
    BY <1>1, <2>1, DisableChanges, OwnersStay DEF AccessTypeOK
  <2> QED
    BY <1>1, <2>1, <2>2, DisableChanges
       DEF DisableCredential, AccessTypeOK, ScriptsKnowTheirs, NoUndeliveredCredential
<1> QED
  BY <1>2, <1>3, <1>4, <1>5, <1>6, <1>7, <1>8, <1>9 DEF Administer

(* Switching the gate and starting and stopping the service keep it        *)
(* (configure_phase_k_scoped_auth.py, app/main.py).                        *)
LEMMA ConfigureInv ==
  ASSUME AccessInv,
         \/ \E o \in Operators : \/ \E enabled \in BOOLEAN : BeginConfigure(o, enabled)
                                 \/ WriteGate(o)
         \/ StartServer
         \/ StopServer
  PROVE  AccessInv'
<1> USE DEF AccessInv
<1>1. CASE \E o \in Operators, enabled \in BOOLEAN : BeginConfigure(o, enabled)
  <2> PICK o \in Operators, enabled \in BOOLEAN : BeginConfigure(o, enabled)
    BY <1>1
  <2>1. KeysNameMerchants'
    BY OwnersStay DEF BeginConfigure, AccessTypeOK
  <2> DEFINE run == [IdleOperator EXCEPT !.stage = "gate", !.gate = enabled]
  <2>2. /\ run \in
             [stage : {"idle", "insert", "write", "undo", "gate"}, merchant : KeyOwners,
              credential : Credentials \cup {"none"}, gate : BOOLEAN]
        /\ run.stage = "gate"
    BY DEF IdleOperator, KeyOwners
  <2>3. /\ operator[o].stage = "idle" /\ operator' = [operator EXCEPT ![o] = run]
        /\ UNCHANGED <<merchants, credentials, secrets, adminKills, service, gate,
                       settings, endpoints, client>>
    BY DEF BeginConfigure, serverVars
  <2> HIDE DEF run
  <2> QED
    BY <2>1, <2>2, <2>3 DEF AccessTypeOK, ScriptsKnowTheirs, NoUndeliveredCredential
<1>2. CASE \E o \in Operators : WriteGate(o)
  <2> PICK o \in Operators : WriteGate(o)
    BY <1>2
  <2>1. KeysNameMerchants'
    BY OwnersStay DEF WriteGate, AccessTypeOK
  <2> QED
    BY <2>1 DEF WriteGate, AccessTypeOK, ScriptsKnowTheirs,
       NoUndeliveredCredential, IdleOperator, KeyOwners
<1>3. CASE StartServer
  <2>1. KeysNameMerchants'
    BY <1>3, OwnersStay DEF StartServer, AccessTypeOK, adminVars
  <2> QED
    BY <1>3, <2>1 DEF StartServer, AccessTypeOK, ScriptsKnowTheirs,
       NoUndeliveredCredential, adminVars
<1>4. CASE StopServer
  BY <1>4 DEF StopServer, AccessTypeOK, ScriptsKnowTheirs, KeysNameMerchants,
     NoUndeliveredCredential, adminVars, IdleClient, KeyOwners, LegacyKey, WrongKey
<1> QED
  BY <1>1, <1>2, <1>3, <1>4

-----------------------------------------------------------------------------
(* One request of the server, and what it does for whom: it changes and    *)
(* shows nothing but its merchant's rows (payment_auth.py:13-60,           *)
(* webhook_service.py, the WHERE clauses of payment_store.py).             *)
LEMMA ServeTenant ==
  ASSUME AccessInv, Serve
  PROVE  /\ AccessInv'
         /\ \A c \in Clients :
              client'[c].stage # client[c].stage =>
                /\ \A e \in Endpoints : endpoints'[e] # endpoints[e] =>
                     /\ client[c].stage # "idle"
                     /\ endpoints'[e].owner = client[c].merchant
                /\ \A e \in client'[c].shown :
                     /\ client[c].stage # "idle"
                     /\ endpoints[e].owner = client[c].merchant
<1> USE DEF AccessInv
<1>1. UNCHANGED <<adminVars, serverVars>>
  BY DEF Serve, RequestArrives, CreateEndpoint, DisableEndpoint, RequestRefused,
     ListEndpoints, AnswerRequest
<1>2. ScriptsKnowTheirs' /\ NoUndeliveredCredential'
  BY <1>1 DEF ScriptsKnowTheirs, NoUndeliveredCredential, adminVars
<1> USE <1>1, <1>2 DEF adminVars, serverVars
<1>3. ASSUME NEW c \in Clients, NEW key \in Credentials \cup {LegacyKey, WrongKey},
             RequestArrives(c, key)
      PROVE  /\ AccessTypeOK' /\ KeysNameMerchants' /\ UNCHANGED endpoints
             /\ \A d \in Clients : client'[d].stage # client[d].stage =>
                  client'[d].shown = {}
  <2>1. MerchantOf(key) \in KeyOwners
    BY <1>3 DEF RequestArrives, Authenticated, MerchantOf, AccessTypeOK, KeyOwners
  <2>2. AccessTypeOK'
    BY <1>3, <2>1 DEF RequestArrives, AccessTypeOK, IdleClient
  <2>3. KeysNameMerchants'
    BY <1>3, <2>1 DEF RequestArrives, KeysNameMerchants, Authenticated, MerchantOf,
       AccessTypeOK, IdleClient
  <2> QED
    BY <1>3, <2>2, <2>3 DEF RequestArrives, AccessTypeOK, IdleClient
<1>4. ASSUME NEW c \in Clients,
             client' = [client EXCEPT ![c] = IdleClient], UNCHANGED endpoints
      PROVE  /\ AccessTypeOK' /\ KeysNameMerchants'
             /\ \A d \in Clients : client'[d].stage # client[d].stage =>
                  client'[d].shown = {}
  BY <1>4 DEF AccessTypeOK, KeysNameMerchants, MerchantOf, IdleClient, KeyOwners
<1>5. ASSUME NEW c \in Clients, NEW e \in Endpoints,
             CreateEndpoint(c, e) \/ DisableEndpoint(c, e)
      PROVE  /\ AccessTypeOK' /\ KeysNameMerchants'
             /\ \A d \in Clients : client'[d].stage # client[d].stage =>
                  /\ d = c /\ client[c].stage # "idle" /\ client'[d].shown = {}
             /\ \A f \in Endpoints : endpoints'[f] # endpoints[f] =>
                  endpoints'[f].owner = client[c].merchant
  <2>1. /\ client[c].stage = "accepted"
        /\ client' = [client EXCEPT ![c] = IdleClient]
    BY <1>5 DEF CreateEndpoint, DisableEndpoint
  <2>4. PICK row \in [owner : KeyOwners, enabled : BOOLEAN] :
          /\ row.owner = client[c].merchant
          /\ endpoints' = [endpoints EXCEPT ![e] = row]
    <3>1. CASE CreateEndpoint(c, e)
      <4> DEFINE row == [owner |-> client[c].merchant, enabled |-> TRUE]
      <4>1. row \in [owner : KeyOwners, enabled : BOOLEAN] /\ row.owner = client[c].merchant
        BY DEF AccessTypeOK
      <4>2. endpoints' = [endpoints EXCEPT ![e] = row]
        BY <3>1 DEF CreateEndpoint
      <4> QED
        BY <4>1, <4>2
    <3>2. CASE DisableEndpoint(c, e)
      <4> DEFINE row == [endpoints[e] EXCEPT !.enabled = FALSE]
      <4>1. endpoints[e] \in [owner : KeyOwners, enabled : BOOLEAN]
        BY DEF AccessTypeOK
      <4>2. row \in [owner : KeyOwners, enabled : BOOLEAN] /\ row.owner = endpoints[e].owner
        BY <4>1
      <4>3. /\ endpoints' = [endpoints EXCEPT ![e] = row]
            /\ endpoints[e].owner = client[c].merchant
        BY <3>2 DEF DisableEndpoint, OwnRow
      <4> QED
        BY <4>2, <4>3
    <3> QED
      BY <1>5, <3>1, <3>2
  <2>2. /\ \A f \in Endpoints : endpoints'[f] # endpoints[f] =>
             endpoints'[f].owner = client[c].merchant
        /\ endpoints' \in [Endpoints -> [owner : KeyOwners, enabled : BOOLEAN]]
    BY <2>4 DEF AccessTypeOK
  <2>3. AccessTypeOK' /\ KeysNameMerchants'
    BY <2>1, <2>2 DEF AccessTypeOK, KeysNameMerchants, MerchantOf, IdleClient, KeyOwners
  <2> QED
    BY <2>1, <2>2, <2>3 DEF AccessTypeOK, IdleClient
<1>6. ASSUME NEW c \in Clients, ListEndpoints(c)
      PROVE  /\ AccessTypeOK' /\ KeysNameMerchants' /\ UNCHANGED endpoints
             /\ \A d \in Clients : client'[d].stage # client[d].stage =>
                  /\ client[d].stage # "idle"
                  /\ \A e \in client'[d].shown : endpoints[e].owner = client[d].merchant
  BY <1>6 DEF ListEndpoints, OwnRow, AccessTypeOK, KeysNameMerchants, MerchantOf
<1>7. ASSUME NEW c \in Clients, RequestRefused(c) \/ AnswerRequest(c)
      PROVE  client' = [client EXCEPT ![c] = IdleClient] /\ UNCHANGED endpoints
  BY <1>7 DEF RequestRefused, AnswerRequest
<1> QED
  BY <1>3, <1>4, <1>5, <1>6, <1>7 DEF Serve

(* Every step keeps the invariant.                                         *)
LEMMA AccessStepInv == AccessInv /\ [AccessNext]_accessVars => AccessInv'
<1> SUFFICES ASSUME AccessInv, [AccessNext]_accessVars PROVE AccessInv'
  OBVIOUS
<1>1. CASE Administer
  BY <1>1, AdministerInv
<1>2. CASE Serve
  BY <1>2, ServeTenant
<1>3. CASE UNCHANGED accessVars
  BY <1>3 DEF accessVars, AccessInv, AccessTypeOK, ScriptsKnowTheirs,
     KeysNameMerchants, MerchantOf, NoUndeliveredCredential
<1> QED
  BY <1>1, <1>2, <1>3, ConfigureInv DEF AccessNext

(* Every step keeps the merchants apart.                                   *)
LEMMA StepKeepsTenantsApart ==
  ASSUME AccessInv, [AccessNext]_accessVars, NEW c \in Clients,
         client'[c].stage # client[c].stage
  PROVE  LET mine == IF client[c].stage = "idle" THEN "nobody"
                     ELSE MerchantOf(client[c].key)
         IN  /\ \A e \in Endpoints :
                  endpoints'[e] # endpoints[e] => endpoints'[e].owner = mine
             /\ \A e \in client'[c].shown : endpoints[e].owner = mine
<1>1. CASE Serve
  BY <1>1, ServeTenant DEF AccessInv, KeysNameMerchants
<1>2. CASE StopServer
  BY <1>2 DEF StopServer, IdleClient
<1>3. ASSUME ~Serve, ~StopServer
      PROVE  UNCHANGED client
  BY <1>3 DEF AccessNext, accessVars, Administer, BeginConfigure, WriteGate, StartServer
<1> QED
  BY <1>1, <1>2, <1>3

-----------------------------------------------------------------------------
(* Type correctness of the access model.                                   *)
THEOREM AccessTypeCorrect == AccessSpec => []AccessTypeOK
  BY AccessInitInv, AccessStepInv, PTL DEF AccessSpec, AccessInv

(* NoUndeliveredCredential, for any number of scripts at once: what        *)
(* create_credential_to_file (merchant_credential_admin.py:59-86) says of        *)
(* itself, "Never leave an active credential whose one-time secret could   *)
(* not be delivered", holds of every run that is not killed.               *)
THEOREM CredentialsAreDelivered == AccessSpec => []NoUndeliveredCredential
  BY AccessInitInv, AccessStepInv, PTL DEF AccessSpec, AccessInv

(* TenantsApart: whatever credentials are issued and disabled while it     *)
(* runs, a request changes and shows only what belongs to the merchant     *)
(* its key was issued to (payment_auth.py:13-60).                          *)
THEOREM MerchantsAreIsolated == AccessSpec => TenantsApart
<1>1. AccessInv /\ [AccessNext]_accessVars =>
        [\A c \in Clients :
           client'[c].stage # client[c].stage =>
             LET mine == IF client[c].stage = "idle" THEN "nobody"
                         ELSE MerchantOf(client[c].key)
             IN  /\ \A e \in Endpoints :
                      endpoints'[e] # endpoints[e] => endpoints'[e].owner = mine
                 /\ \A e \in client'[c].shown : endpoints[e].owner = mine]_<<client, endpoints>>
  BY StepKeepsTenantsApart
<1> QED
  BY <1>1, AccessInitInv, AccessStepInv, PTL DEF AccessSpec, TenantsApart

-----------------------------------------------------------------------------
(***************************************************************************)
(* Proofs about PaymentListing: a walk through the pages, with any number  *)
(* of payments, any page size and any changes between the pages.           *)
(***************************************************************************)

(* A set of naturals has a least element.                                  *)
LEMMA LeastNatural ==
  ASSUME NEW S \in SUBSET Nat, S # {} PROVE \E x \in S : \A y \in S : x <= y
<1>1. PICK x \in S : \A y \in S : ~(<<y, x>> \in OpToRel(<, Nat))
  BY WFMin, NatLessThanWellFounded
<1>2. \A y \in S : ~(y < x)
  BY <1>1 DEF OpToRel
<1> QED BY <1>2

-----------------------------------------------------------------------------
(* The order of a list.                                                    *)

Positions == [at : Nat, id : Nat]

LEMMA NewerIsAnOrder ==
  ASSUME NEW a \in Positions, NEW b \in Positions, NEW c \in Positions
  PROVE  /\ ~Newer(a, a)
         /\ Newer(a, b) => ~Newer(b, a)
         /\ Newer(a, b) /\ Newer(b, c) => Newer(a, c)
         /\ a = b \/ Newer(a, b) \/ Newer(b, a)
<1>1. a.at \in Nat /\ a.id \in Nat /\ b.at \in Nat /\ b.id \in Nat /\ c.at \in Nat /\ c.id \in Nat
  BY DEF Positions
<1>2. a.at = b.at /\ a.id = b.id => a = b
  BY DEF Positions
<1> QED BY <1>1, <1>2 DEF Newer

(* The rows of the store, typed.                                           *)
ListedOK ==
  listed \in [Ids -> [at : 0..MaxSeconds, owner : Owners \cup {"nobody"},
                      status : {"none", "waiting", "paid_confirmed"}]]

LEMMA RowsHaveAnOrder ==
  ASSUME ListedOK, NEW p \in Ids, NEW q \in Ids
  PROVE  /\ Row(p) \in Positions /\ Row(p).id = p
         /\ Row(p).at \in 0..MaxSeconds
         /\ p = q \/ Newer(Row(p), Row(q)) \/ Newer(Row(q), Row(p))
<1>1. \A x \in Ids : Row(x) \in Positions /\ Row(x).id = x /\ Row(x).at \in 0..MaxSeconds
  <2>1. \A x \in Ids : listed[x].at \in 0..MaxSeconds /\ x \in Nat
    BY ListingAssumption DEF ListedOK, Ids
  <2> QED BY <2>1, ListingAssumption DEF Row, Positions
<1>2. p = q \/ Row(p) # Row(q)
  BY <1>1
<1> QED BY <1>1, <1>2, NewerIsAnOrder

LEMMA IdsAreFinite == ASSUME NEW S \in SUBSET Ids PROVE IsFiniteSet(S) /\ Cardinality(S) \in Nat
<1>1. IsFiniteSet(Ids)
  BY ListingAssumption, FS_Interval DEF Ids
<1> QED BY <1>1, FS_Subset, FS_CardinalityType

(* Of any payments there is an oldest, and it is what OldestOf takes.      *)
LEMMA OldestExists ==
  ASSUME ListedOK, NEW page \in SUBSET Ids, page # {}
  PROVE  \E p \in page : /\ OldestOf(page) = Row(p)
                         /\ \A q \in page \ {p} : Newer(Row(q), Row(p))
<1>1. \A p \in page : Row(p) \in Positions /\ Row(p).id = p /\ Row(p).at \in Nat /\ p \in Nat
  BY RowsHaveAnOrder, ListingAssumption DEF Ids
<1> DEFINE times == { Row(p).at : p \in page }
<1>2. PICK at \in times : \A y \in times : at <= y
  <2>1. times \in SUBSET Nat /\ times # {}
    BY <1>1
  <2> HIDE DEF times
  <2> QED BY <2>1, LeastNatural
<1> DEFINE early == { p \in page : Row(p).at = at }
<1>3. PICK p \in early : \A y \in early : p <= y
  <2>1. early \in SUBSET Nat /\ early # {}
    BY <1>1, <1>2
  <2> HIDE DEF early
  <2> QED BY <2>1, LeastNatural
<1>4. ASSUME NEW q \in page \ {p} PROVE Newer(Row(q), Row(p))
  <2>1. Row(p).at = at /\ at <= Row(q).at /\ at \in Nat /\ Row(q).at \in Nat
    BY <1>1, <1>2, <1>3
  <2>2. Row(q).at = at => p <= q
    BY <1>3, <1>4
  <2>3. p \in Nat /\ q \in Nat /\ p # q /\ Row(p).id = p /\ Row(q).id = q
    BY <1>1, <1>3, <1>4
  <2> QED BY <2>1, <2>2, <2>3 DEF Newer
<1>5. p \in page /\ \A q \in page \ {p} : Newer(Row(q), Row(p))
  BY <1>3, <1>4
<1> DEFINE chosen == CHOOSE x \in page : \A q \in page \ {x} : Newer(Row(q), Row(x))
<1>6. chosen \in page /\ \A q \in page \ {chosen} : Newer(Row(q), Row(chosen))
  BY <1>5
<1>7. OldestOf(page) = Row(chosen)
  BY DEF OldestOf
<1> HIDE DEF chosen
<1> QED BY <1>6, <1>7

-----------------------------------------------------------------------------
(* Pages.                                                                  *)

(* How many of the payments at a cursor come before one of them.           *)
Before(found, p) == { q \in found : Newer(Row(q), Row(p)) }

LEMMA BeforeIsMonotone ==
  ASSUME ListedOK, NEW found \in SUBSET Ids, NEW p \in found, NEW q \in found,
         Newer(Row(q), Row(p))
  PROVE  Cardinality(Before(found, q)) < Cardinality(Before(found, p))
<1>1. Before(found, q) \subseteq Before(found, p) \ {q}
  BY RowsHaveAnOrder, NewerIsAnOrder DEF Before
<1>2. q \in Before(found, p)
  BY DEF Before
<1>3. Before(found, p) \in SUBSET Ids /\ Before(found, p) \ {q} \in SUBSET Ids
  BY DEF Before
<1>4. /\ IsFiniteSet(Before(found, p)) /\ Cardinality(Before(found, p)) \in Nat
      /\ IsFiniteSet(Before(found, p) \ {q}) /\ Cardinality(Before(found, p) \ {q}) \in Nat
  BY <1>3, IdsAreFinite
<1>5. Cardinality(Before(found, p) \ {q}) = Cardinality(Before(found, p)) - 1
  BY <1>2, <1>4, FS_RemoveElement
<1>6. Cardinality(Before(found, q)) <= Cardinality(Before(found, p) \ {q})
  BY <1>1, <1>4, FS_Subset
<1>7. Before(found, q) \in SUBSET Ids
  BY DEF Before
<1>8. Cardinality(Before(found, q)) \in Nat
  BY <1>7, IdsAreFinite
<1> QED BY <1>4, <1>5, <1>6, <1>8

(* A page is the beginning of what is left: not empty if something is, all *)
(* of it if no more is announced.                                          *)
LEMMA PageIsTheBeginning ==
  ASSUME ListedOK, NEW filter, NEW cursor
  PROVE  /\ Candidates(filter, cursor) \subseteq Ids
         /\ PageAt(filter, cursor) \subseteq Candidates(filter, cursor)
         /\ \A p \in Candidates(filter, cursor) \ PageAt(filter, cursor) :
              \A o \in PageAt(filter, cursor) : Newer(Row(o), Row(p))
         /\ HasMore(filter, cursor) => PageAt(filter, cursor) # {}
         /\ ~HasMore(filter, cursor) => PageAt(filter, cursor) = Candidates(filter, cursor)
<1> DEFINE found == Candidates(filter, cursor)
           page == PageAt(filter, cursor)
<1>1. found \subseteq Ids
  BY DEF Candidates
<1>2. page = { p \in found : Cardinality(Before(found, p)) < PageSize }
  BY DEF PageAt, Before
<1>3. /\ HasMore(filter, cursor) => Cardinality(found) > PageSize
      /\ ~HasMore(filter, cursor) => ~(Cardinality(found) > PageSize)
  BY DEF HasMore
<1> HIDE DEF found, page
<1>4. IsFiniteSet(found) /\ Cardinality(found) \in Nat
  BY <1>1, IdsAreFinite
<1>5. \A p \in found : /\ IsFiniteSet(Before(found, p))
                       /\ Cardinality(Before(found, p)) \in Nat
                       /\ Before(found, p) \subseteq found \ {p}
  <2> SUFFICES ASSUME NEW p \in found
               PROVE  /\ IsFiniteSet(Before(found, p))
                      /\ Cardinality(Before(found, p)) \in Nat
                      /\ Before(found, p) \subseteq found \ {p}
    OBVIOUS
  <2>1. Before(found, p) \in SUBSET Ids
    BY <1>1 DEF Before
  <2>2. ~Newer(Row(p), Row(p))
    BY <1>1, RowsHaveAnOrder, NewerIsAnOrder
  <2> QED BY <2>1, <2>2, IdsAreFinite DEF Before
<1>6. ASSUME NEW p \in found \ page, NEW o \in page PROVE Newer(Row(o), Row(p))
  <2>1. /\ o \in found /\ p \in found /\ o # p
        /\ Cardinality(Before(found, o)) < PageSize
        /\ ~(Cardinality(Before(found, p)) < PageSize)
    BY <1>2, <1>6
  <2>2. ~Newer(Row(p), Row(o))
    <3> SUFFICES ASSUME Newer(Row(p), Row(o)) PROVE FALSE
      OBVIOUS
    <3>1. Cardinality(Before(found, p)) < Cardinality(Before(found, o))
      BY <1>1, <2>1, BeforeIsMonotone
    <3> QED BY <1>5, <2>1, <3>1, ListingAssumption
  <2> QED BY <1>1, <2>1, <2>2, RowsHaveAnOrder
<1>7. ASSUME HasMore(filter, cursor) PROVE page # {}
  <2> DEFINE ranks == { Cardinality(Before(found, p)) : p \in found }
  <2>1. found # {}
    BY <1>3, <1>7, FS_EmptySet, ListingAssumption
  <2>2. PICK least \in ranks : \A y \in ranks : least <= y
    <3>1. ranks \in SUBSET Nat /\ ranks # {}
      BY <1>5, <2>1
    <3> HIDE DEF ranks
    <3> QED BY <3>1, LeastNatural
  <2>3. PICK p \in found : Cardinality(Before(found, p)) = least
    BY <2>2
  <2>4. Before(found, p) = {}
    <3> SUFFICES ASSUME NEW q \in Before(found, p) PROVE FALSE
      OBVIOUS
    <3>1. q \in found /\ Newer(Row(q), Row(p))
      BY DEF Before
    <3>2. Cardinality(Before(found, q)) < Cardinality(Before(found, p))
      BY <1>1, <3>1, BeforeIsMonotone
    <3>3. Cardinality(Before(found, p)) <= Cardinality(Before(found, q))
      BY <2>2, <2>3, <3>1
    <3> QED BY <1>5, <3>1, <3>2, <3>3
  <2>5. Cardinality(Before(found, p)) = 0
    BY <2>4, FS_EmptySet
  <2> QED BY <1>2, <2>5, ListingAssumption
<1>8. ASSUME ~HasMore(filter, cursor) PROVE page = found
  <2> SUFFICES ASSUME NEW p \in found PROVE Cardinality(Before(found, p)) < PageSize
    BY <1>2
  <2>1. /\ IsFiniteSet(found \ {p})
        /\ Cardinality(found \ {p}) = Cardinality(found) - 1
    BY <1>4, FS_RemoveElement
  <2>2. Cardinality(Before(found, p)) <= Cardinality(found \ {p})
    BY <1>5, <2>1, FS_Subset
  <2>3. Cardinality(found) <= PageSize
    BY <1>3, <1>4, <1>8, ListingAssumption
  <2> QED BY <1>4, <1>5, <2>1, <2>2, <2>3, ListingAssumption
<1>9. page \subseteq found
  BY <1>2
<1> QED BY <1>1, <1>6, <1>7, <1>8, <1>9 DEF found, page

-----------------------------------------------------------------------------
(* The walk.                                                               *)

Cursors == [at : 0..(MaxSeconds + 1), id : 0..MaxRows]

Walks ==
  [stage : {"rest", "walking", "done"}, filter : {"any", "waiting", "paid_confirmed"},
   cursor : Cursors, seen : [Ids -> {0, 1}]]

(* A walk has seen what is not behind its cursor, and what is behind it    *)
(* will be seen: of the due payments one of the two holds.                 *)
ListingInv ==
  /\ ListedOK
  /\ walk \in Walks
  /\ due \subseteq Ids
  /\ seconds \in 0..MaxSeconds
  /\ \A p \in Ids : walk.seen[p] = 1 =>
       /\ listed[p].owner = "mine"
       /\ walk.stage # "done" => ~AfterCursor(p, walk.cursor)
  /\ walk.stage = "walking" =>
       \A p \in due : /\ Matches(p, walk.filter)
                      /\ AfterCursor(p, walk.cursor) \/ walk.seen[p] = 1
  /\ walk.stage = "done" => \A p \in due : walk.seen[p] = 1

LEMMA RestingIsAWalk ==
  /\ Resting \in Walks /\ Resting.stage = "rest"
  /\ \A p \in Ids : Resting.seen[p] = 0
  BY ListingAssumption DEF Resting, NoCursor, Cursors, Walks

LEMMA InitListing == ListingInit => ListingInv
<1> SUFFICES ASSUME ListingInit PROVE ListingInv
  OBVIOUS
<1>1. ListedOK
  BY ListingAssumption DEF ListingInit, ListedOK, NoRow
<1> QED BY <1>1, RestingIsAWalk, ListingAssumption DEF ListingInit, ListingInv

LEMMA InsertKeepsWalk ==
  ASSUME ListingInv, NEW p \in Ids, NEW at \in 0..MaxSeconds, NEW owner \in Owners,
         InsertRow(p, at, owner)
  PROVE  ListingInv'
<1>1. /\ listed[p] = NoRow
      /\ listed' = [listed EXCEPT ![p] = [at |-> at, owner |-> owner, status |-> "waiting"]]
      /\ UNCHANGED <<seconds, walk, due>>
  BY DEF InsertRow
<1>2. ListedOK'
  BY <1>1 DEF ListingInv, ListedOK
<1>3. \A q \in Ids : walk.seen[q] = 1 \/ (walk.stage = "walking" /\ q \in due) => q # p
  BY <1>1 DEF ListingInv, NoRow, Matches
<1>4. \A q \in Ids : q # p => listed'[q] = listed[q]
  BY <1>1 DEF ListingInv, ListedOK
<1> QED BY <1>1, <1>2, <1>3, <1>4 DEF ListingInv, Matches, AfterCursor, Row

LEMMA StatusKeepsWalk ==
  ASSUME ListingInv, NEW p \in Ids, StatusChanges(p) PROVE ListingInv'
<1> DEFINE status == IF listed[p].status = "waiting" THEN "paid_confirmed" ELSE "waiting"
<1>1. /\ listed' = [listed EXCEPT ![p].status = status]
      /\ due' = IF walk.stage = "walking" /\ walk.filter # "any" THEN due \ {p} ELSE due
      /\ UNCHANGED <<seconds, walk>>
  BY DEF StatusChanges
<1>2. ListedOK'
  BY <1>1 DEF ListingInv, ListedOK
<1> HIDE DEF status
<1>3. \A q \in Ids : /\ listed'[q].at = listed[q].at
                     /\ listed'[q].owner = listed[q].owner
                     /\ q # p => listed'[q].status = listed[q].status
  BY <1>1 DEF ListingInv, ListedOK
<1>4. due' \subseteq due /\ (walk.stage = "walking" /\ walk.filter # "any" => p \notin due')
  BY <1>1
<1> QED BY <1>1, <1>2, <1>3, <1>4 DEF ListingInv, Matches, AfterCursor, Row

LEMMA BeginKeepsWalk ==
  ASSUME ListingInv, NEW filter \in {"any", "waiting", "paid_confirmed"}, BeginWalk(filter)
  PROVE  ListingInv'
<1> DEFINE c == [Resting EXCEPT !.stage = "walking", !.filter = filter]
<1>1. /\ walk' = c
      /\ due' = {p \in Ids : Matches(p, filter)}
      /\ UNCHANGED <<listed, seconds>>
  BY DEF BeginWalk
<1>2. /\ c \in Walks /\ c.stage = "walking" /\ c.filter = filter /\ c.cursor = NoCursor
      /\ \A p \in Ids : c.seen[p] = 0
  BY RestingIsAWalk DEF Walks, Resting
<1> HIDE DEF c
<1>3. \A p \in Ids : AfterCursor(p, NoCursor)
  <2>1. \A p \in Ids : Row(p).at \in 0..MaxSeconds
    BY RowsHaveAnOrder DEF ListingInv
  <2> QED BY <2>1, ListingAssumption DEF AfterCursor, Newer, NoCursor
<1>4. ListedOK'
  BY <1>1 DEF ListingInv, ListedOK
<1> QED BY <1>1, <1>2, <1>3, <1>4 DEF ListingInv, Matches, AfterCursor, Row

LEMMA EndKeepsWalk == ASSUME ListingInv, EndWalk PROVE ListingInv'
<1>1. walk' = Resting /\ due' = {} /\ UNCHANGED <<listed, seconds>>
  BY DEF EndWalk
<1>2. ListedOK'
  BY <1>1 DEF ListingInv, ListedOK
<1> QED BY <1>1, <1>2, RestingIsAWalk DEF ListingInv

LEMMA PageKeepsWalk == ASSUME ListingInv, TakePage PROVE ListingInv'
<1> DEFINE found == Candidates(walk.filter, walk.cursor)
           page == PageAt(walk.filter, walk.cursor)
           more == HasMore(walk.filter, walk.cursor)
           seen == [p \in Ids |-> IF p \in page THEN walk.seen[p] + 1 ELSE walk.seen[p]]
           c == [walk EXCEPT !.stage = IF more THEN "walking" ELSE "done",
                             !.cursor = IF more THEN OldestOf(page) ELSE NoCursor,
                             !.seen = seen]
<1>1. walk.stage = "walking" /\ walk \in Walks /\ ListedOK
  BY DEF TakePage, ListingInv
<1>2. walk' = c /\ UNCHANGED <<listed, seconds, due>>
  BY <1>1 DEF TakePage, Walks
<1>3. /\ found \subseteq Ids /\ page \subseteq found
      /\ \A p \in found \ page : \A o \in page : Newer(Row(o), Row(p))
      /\ more => page # {}
      /\ ~more => page = found
  BY <1>1, PageIsTheBeginning
<1>4. \A p \in found : Matches(p, walk.filter) /\ AfterCursor(p, walk.cursor)
  BY DEF Candidates
<1>5. \A p \in Ids : Matches(p, walk.filter) /\ AfterCursor(p, walk.cursor) => p \in found
  BY DEF Candidates
<1> HIDE DEF found, page, more
<1>6. \A p \in found : walk.seen[p] = 0
  BY <1>1, <1>3, <1>4 DEF ListingInv, Walks
<1>7. /\ seen \in [Ids -> {0, 1}]
      /\ \A p \in Ids : (seen[p] = 1) <=> (p \in page \/ walk.seen[p] = 1)
  BY <1>1, <1>3, <1>6 DEF Walks
<1> HIDE DEF seen
<1>8. \A p \in Ids : seen[p] = 1 => listed[p].owner = "mine"
  BY <1>3, <1>4, <1>7 DEF ListingInv, Matches
<1>9. CASE more
  <2>1. PICK oldest \in page : /\ OldestOf(page) = Row(oldest)
                               /\ \A q \in page \ {oldest} : Newer(Row(q), Row(oldest))
    BY <1>1, <1>3, <1>9, OldestExists
  <2>2. oldest \in Ids /\ oldest \in found /\ Row(oldest) \in Cursors
    <3>1. oldest \in Ids /\ oldest \in found
      BY <1>3
    <3>2. listed[oldest].at \in 0..(MaxSeconds + 1) /\ oldest \in 0..MaxRows
      BY <1>1, <3>1, ListingAssumption DEF ListedOK, Ids
    <3> QED BY <3>1, <3>2 DEF Row, Cursors
  <2> DEFINE cursor == Row(oldest)
  <2>3. /\ walk'.stage = "walking" /\ walk'.cursor = cursor /\ walk'.seen = seen
        /\ walk'.filter = walk.filter /\ walk' \in Walks
    BY <1>1, <1>2, <1>7, <1>9, <2>1, <2>2 DEF Walks
  <2>4. ASSUME NEW p \in Ids, seen[p] = 1 PROVE ~Newer(cursor, Row(p))
    <3>1. CASE p \in page
      BY <1>3, <2>1, <2>2, <3>1, RowsHaveAnOrder, NewerIsAnOrder, <1>1
    <3>2. CASE p \notin page
      <4>1. ~Newer(walk.cursor, Row(p))
        BY <1>1, <1>7, <2>4, <3>2 DEF ListingInv, AfterCursor
      <4>2. Newer(walk.cursor, Row(oldest))
        BY <1>4, <2>2 DEF AfterCursor
      <4>3. walk.cursor \in Positions /\ Row(p) \in Positions /\ Row(oldest) \in Positions
        <5>1. walk.cursor \in Cursors
          BY <1>1 DEF Walks
        <5>2. walk.cursor \in Positions
          BY <5>1, ListingAssumption DEF Cursors, Positions
        <5> QED BY <1>1, <2>2, <5>2, RowsHaveAnOrder
      <4> QED BY <4>1, <4>2, <4>3, NewerIsAnOrder
    <3> QED BY <3>1, <3>2
  <2>5. ASSUME NEW p \in due
        PROVE  Matches(p, walk.filter) /\ (Newer(cursor, Row(p)) \/ seen[p] = 1)
    <3>1. /\ p \in Ids /\ Matches(p, walk.filter)
          /\ AfterCursor(p, walk.cursor) \/ walk.seen[p] = 1
      BY <1>1 DEF ListingInv
    <3>2. CASE p \in page \/ walk.seen[p] = 1
      BY <1>7, <3>1, <3>2
    <3>3. CASE AfterCursor(p, walk.cursor) /\ p \notin page
      BY <1>3, <1>5, <2>1, <3>1, <3>3
    <3> QED BY <3>1, <3>2, <3>3
  <2> HIDE DEF cursor, c
  <2> QED BY <1>1, <1>2, <1>8, <2>3, <2>4, <2>5
          DEF ListingInv, ListedOK, Matches, AfterCursor, Row
<1>10. CASE ~more
  <2>1. walk'.stage = "done" /\ walk'.seen = seen /\ walk' \in Walks
    BY <1>1, <1>2, <1>7, <1>10, RestingIsAWalk DEF Walks, Resting
  <2>2. \A p \in due : p \in Ids /\ seen[p] = 1
    BY <1>1, <1>3, <1>5, <1>7, <1>10 DEF ListingInv
  <2> HIDE DEF c
  <2> QED BY <1>1, <1>2, <1>8, <2>1, <2>2 DEF ListingInv, ListedOK
<1> QED BY <1>9, <1>10

LEMMA ListingStep == ASSUME ListingInv, [ListingNext]_listingVars PROVE ListingInv'
<1>1. CASE SecondPasses
  <2>1. seconds' \in 0..MaxSeconds /\ UNCHANGED <<listed, walk, due>>
    BY <1>1, ListingAssumption DEF SecondPasses, ListingInv
  <2> QED BY <2>1 DEF ListingInv, ListedOK, Matches, AfterCursor, Row
<1>2. CASE UNCHANGED listingVars
  BY <1>2 DEF listingVars, ListingInv, ListedOK, Matches, AfterCursor, Row
<1> QED BY <1>1, <1>2, InsertKeepsWalk, StatusKeepsWalk, BeginKeepsWalk, EndKeepsWalk,
           PageKeepsWalk DEF ListingNext

(* Whoever follows the cursor to the end has seen each payment that        *)
(* matched all the way exactly once.                                       *)
THEOREM WalksAreComplete == ListingSpec => []WalkIsComplete
<1>1. ListingInv => WalkIsComplete
  BY DEF ListingInv, Walks, WalkIsComplete
<1> QED BY <1>1, InitListing, ListingStep, PTL DEF ListingSpec
=============================================================================
