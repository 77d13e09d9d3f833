--------------------------- MODULE PaymentListing ---------------------------
(***************************************************************************)
(* GET /v1/payments (app/api/payment_v1.py, services/payment_gateway_      *)
(* service.py, services/payment_store.py): a merchant walks through its    *)
(* payments page by page, newest first, handing back the cursor of the     *)
(* last page.  Meanwhile payments are created, and payments change the     *)
(* status the walk may filter by.                                          *)
(*                                                                         *)
(* A payment is its number, which stands for its random identifier: the    *)
(* order of the numbers has nothing to do with the order of creation.  Its *)
(* created_at is a whole second, read before the insert is committed.      *)
(***************************************************************************)
EXTENDS Naturals, FiniteSets

CONSTANTS
    MaxRows,        \* bound: payments in the store
    MaxSeconds,     \* bound: seconds that pass
    PageSize        \* the limit of a request

ASSUME ListingAssumption ==
    /\ MaxRows \in Nat \ {0}
    /\ MaxSeconds \in Nat
    /\ PageSize \in Nat \ {0}

VARIABLES
    listed,         \* the payments of the store: created_at, owner and status
    seconds,        \* the clock, time.time() in whole seconds
    walk,           \* the merchant's walk
    due             \* the payments that matched from its beginning until now

listingVars == <<listed, seconds, walk, due>>

Ids == 1 .. MaxRows
Owners == {"mine", "theirs"}
NoRow == [at |-> 0, owner |-> "nobody", status |-> "none"]
NoCursor == [at |-> MaxSeconds + 1, id |-> 0]
Resting == [stage |-> "rest", filter |-> "any", cursor |-> NoCursor,
            seen |-> [p \in Ids |-> 0]]

ListingInit ==
    /\ listed = [p \in Ids |-> NoRow]
    /\ seconds = 0
    /\ walk = Resting
    /\ due = {}

-----------------------------------------------------------------------------
(* The order of a list, newest first: ORDER BY created_at DESC, payment_id  *)
(* DESC.                                                                    *)
Newer(a, b) == a.at > b.at \/ (a.at = b.at /\ a.id > b.id)
Row(p) == [at |-> listed[p].at, id |-> p]

EarlierSecond(p, cursor) == listed[p].at < cursor.at
AfterCursor(p, cursor) == Newer(cursor, Row(p))

Matches(p, filter) ==
    /\ listed[p].owner = "mine"
    /\ filter # "any" => listed[p].status = filter

(* The page at a cursor, and whether there is more: the store asks for one  *)
(* row more than the page holds.                                            *)
Candidates(filter, cursor) ==
    {p \in Ids : Matches(p, filter) /\ AfterCursor(p, cursor)}

PageAt(filter, cursor) ==
    LET found == Candidates(filter, cursor)
    IN  {p \in found :
           Cardinality({q \in found : Newer(Row(q), Row(p))}) < PageSize}

HasMore(filter, cursor) == Cardinality(Candidates(filter, cursor)) > PageSize

OldestOf(page) ==
    Row(CHOOSE p \in page : \A q \in page \ {p} : Newer(Row(q), Row(p)))

-----------------------------------------------------------------------------
InsertRow(p, at, owner) ==
    /\ listed[p] = NoRow
    /\ at \in {seconds, seconds - 1} \cap Nat
    /\ listed' = [listed EXCEPT ![p] = [at |-> at, owner |-> owner,
                                    status |-> "waiting"]]
    /\ UNCHANGED <<seconds, walk, due>>

(* The watcher finds the payment, or a reorg takes it away again; a payment *)
(* that leaves the filter is no longer due.                                 *)
StatusChanges(p) ==
    /\ listed[p].owner = "mine"
    /\ listed' = [listed EXCEPT ![p].status =
                  IF @ = "waiting" THEN "paid_confirmed" ELSE "waiting"]
    /\ due' = IF walk.stage = "walking" /\ walk.filter # "any"
                THEN due \ {p} ELSE due
    /\ UNCHANGED <<seconds, walk>>

SecondPasses ==
    /\ seconds < MaxSeconds
    /\ seconds' = seconds + 1
    /\ UNCHANGED <<listed, walk, due>>

(* The first request has no cursor.                                         *)
BeginWalk(filter) ==
    /\ walk.stage = "rest"
    /\ walk' = [Resting EXCEPT !.stage = "walking", !.filter = filter]
    /\ due' = {p \in Ids : Matches(p, filter)}
    /\ UNCHANGED <<listed, seconds>>

TakePage ==
    /\ walk.stage = "walking"
    /\ LET page == PageAt(walk.filter, walk.cursor)
           more == HasMore(walk.filter, walk.cursor)
       IN  walk' = [walk EXCEPT
                      !.stage = IF more THEN "walking" ELSE "done",
                      !.cursor = IF more THEN OldestOf(page) ELSE NoCursor,
                      !.seen = [p \in Ids |->
                                  IF p \in page THEN @[p] + 1 ELSE @[p]]]
    /\ UNCHANGED <<listed, seconds, due>>

EndWalk ==
    /\ walk.stage = "done"
    /\ walk' = Resting
    /\ due' = {}
    /\ UNCHANGED <<listed, seconds>>

ListingNext ==
    \/ \E p \in Ids, at \in 0 .. MaxSeconds, owner \in Owners :
         InsertRow(p, at, owner)
    \/ \E p \in Ids : StatusChanges(p)
    \/ SecondPasses
    \/ \E filter \in {"any", "waiting", "paid_confirmed"} : BeginWalk(filter)
    \/ TakePage
    \/ EndWalk

ListingSpec == ListingInit /\ [][ListingNext]_listingVars

-----------------------------------------------------------------------------
(* A merchant that follows the cursor to the end has seen every payment     *)
(* that matched all the way exactly once, and no payment twice, whatever    *)
(* was created or changed between the pages.                                *)
WalkIsComplete ==
    /\ \A p \in Ids : walk.seen[p] <= 1
    /\ walk.stage = "done" => \A p \in due : walk.seen[p] = 1
=============================================================================
