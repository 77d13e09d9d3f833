----------------------------- MODULE Components -----------------------------
(***************************************************************************)
(* The components of the service that share no state with each other,      *)
(* next to each other: a behaviour chooses one of them and only that one   *)
(* moves, while the variables of the others stay as they began.  What is   *)
(* checked of a component here is what is true of it on its own; the       *)
(* components that do share state (gateway, store, watcher, chain;         *)
(* webhook worker and merchant) are composed in modules of their own.      *)
(***************************************************************************)
EXTENDS PaymentEvaluation, Operations, ElectrumXRequests, MerchantAccess,
        PaymentListing, AddressReads

VARIABLE part       \* the component that moves

Parts == {"evaluation", "database", "offhost", "requests", "access",
          "listing", "monitor", "wallet"}

componentVars ==
  <<part, vars, operationVars, requestVars, accessVars, listingVars, readVars>>

(* Of a component that stands still one initial state is enough.           *)
Still(p, state) == part \notin p => state

ComponentsInit ==
  /\ part \in Parts
  /\ Init /\ Still({"evaluation"}, required = CHOOSE n \in Policies : TRUE)
  /\ OperationsInit /\ Still({"database"}, disk = LegacyDatabase)
  /\ RequestsInit
  /\ AccessInit
  /\ ListingInit
  /\ ReadsInit /\ Still({"monitor", "wallet"}, caching)

(* The database and its backups move with the migrations, and the copies   *)
(* to the other machine with the backups: both at once are too many states *)
(* to check, and no step of a copy reads the database or the script.       *)
ComponentsNext ==
  /\ UNCHANGED part
  /\ \/ /\ part = "evaluation" /\ Next
        /\ UNCHANGED <<operationVars, requestVars, accessVars, listingVars, readVars>>
     \/ /\ part = "database" /\ OperationsNext /\ UNCHANGED offhostVars
        /\ UNCHANGED <<vars, requestVars, accessVars, listingVars, readVars>>
     \/ /\ part = "offhost" /\ OperationsNext /\ UNCHANGED migrationVars
        /\ UNCHANGED <<vars, requestVars, accessVars, listingVars, readVars>>
     \/ /\ part = "requests" /\ RequestsNext
        /\ UNCHANGED <<vars, operationVars, accessVars, listingVars, readVars>>
     \/ /\ part = "access" /\ AccessNext
        /\ UNCHANGED <<vars, operationVars, requestVars, listingVars, readVars>>
     \/ /\ part = "listing" /\ ListingNext
        /\ UNCHANGED <<vars, operationVars, requestVars, accessVars, readVars>>
     \/ /\ part = "monitor" /\ ReadsNextOn({"monitor"})
        /\ UNCHANGED <<vars, operationVars, requestVars, accessVars, listingVars>>
     \/ /\ part = "wallet" /\ ReadsNextOn(DOMAIN ROUTES \ {"monitor"})
        /\ UNCHANGED <<vars, operationVars, requestVars, accessVars, listingVars>>

ComponentsSpec == ComponentsInit /\ [][ComponentsNext]_componentVars
=============================================================================
