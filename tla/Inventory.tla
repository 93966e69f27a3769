----------------------------- MODULE Inventory -----------------------------
(***************************************************************************)
(* What the warehouse consumer promises the callers of Warehouse::reserve,  *)
(* without transactions, locks or connections: a reservation and the stock  *)
(* it takes are one step, and a refusal tells the truth when it is given.   *)
(* Warehouse implements this specification.                                 *)
(***************************************************************************)
EXTENDS Integers

CONSTANTS Call, Workload, Supply

VARIABLES request,       \* the id, SKU and quantity each call asks for
          stock,         \* units available, by SKU
          reservations,  \* the calls whose reservation is recorded
          told           \* the answer to each call

vars == <<request, stock, reservations, told>>

Reserved(c) == \E d \in reservations : request[d].id = request[c].id

Init ==
    /\ request \in Workload
    /\ stock = Supply /\ reservations = {}
    /\ told = [c \in Call |-> "none"]

(* The one step in which a call takes effect: never more than there is,     *)
(* never twice under one id, and never after a negative answer.             *)
Take(c) ==
    /\ told[c] \in {"none", "unknown"} /\ ~Reserved(c)
    /\ request[c].sku \in DOMAIN stock
    /\ request[c].quantity \in 1..stock[request[c].sku]
    /\ stock' = [stock EXCEPT ![request[c].sku] = @ - request[c].quantity]
    /\ reservations' = reservations \cup {c}
    /\ \/ UNCHANGED told
       \/ told[c] = "none" /\ told' = [told EXCEPT ![c] = "ok"]
    /\ UNCHANGED request

(* A refusal is true when it is given; a failure says that nothing was      *)
(* done and nothing will be; "unknown" says nothing.                        *)
Refuse(c) ==
    /\ told[c] = "none" /\ c \notin reservations
    /\ \E a \in {"insufficient", "duplicate", "not_found", "failed", "dropped", "unknown"} :
         /\ a = "insufficient" =>
              \/ request[c].quantity <= 0
              \/ /\ request[c].sku \in DOMAIN stock
                 /\ stock[request[c].sku] < request[c].quantity
         /\ a = "duplicate" => Reserved(c)
         /\ a = "not_found" => request[c].sku \notin DOMAIN stock
         /\ told' = [told EXCEPT ![c] = a]
    /\ UNCHANGED <<request, stock, reservations>>

Next == \E c \in Call : Take(c) \/ Refuse(c)

Spec == Init /\ [][Next]_vars

=============================================================================
