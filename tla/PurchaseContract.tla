---------------------------- MODULE PurchaseContract ----------------------------
(***************************************************************************)
(* What a purchase promises to who asked for it, whichever supplier serves *)
(* it and however it fails: an order is placed only under an attempt that  *)
(* is on record, an attempt is closed once and with a verdict the supplier *)
(* bears out, and who asked is told "bought" only for keys in the stock.   *)
(***************************************************************************)
EXTENDS FiniteSets

CONSTANTS Buys, Suppliers, Codes

VARIABLES
  status,    \* of the attempt of a buy at a supplier
  placed,    \* the attempts whose order the supplier accepted
  stock,     \* the codes saved as keys
  served,    \* the codes each buy has saved, or found saved
  told       \* what who asked was told

vars == <<status, placed, stock, served, told>>

Verdicts == {"success", "failed", "timeout"}

Init ==
  /\ status = [a \in Buys \X Suppliers |-> "none"]
  /\ placed = {}
  /\ stock \subseteq Codes
  /\ served = [b \in Buys |-> {}]
  /\ told = [b \in Buys |-> "nothing"]

Record(a) ==
  /\ status[a] = "none"
  /\ told[a[1]] = "nothing"
  /\ status' = [status EXCEPT ![a] = "pending"]
  /\ UNCHANGED <<placed, stock, served, told>>

Place(a) ==
  /\ status[a] = "pending"
  /\ a \notin placed
  /\ placed' = placed \union {a}
  /\ UNCHANGED <<status, stock, served, told>>

Save(a, c) ==
  /\ status[a] = "pending"
  /\ a \in placed
  /\ stock' = stock \union {c}
  /\ served' = [served EXCEPT ![a[1]] = @ \union {c}]
  /\ UNCHANGED <<status, placed, told>>

Close(a, verdict) ==
  /\ status[a] = "pending"
  /\ verdict # "failed" => a \in placed
  /\ status' = [status EXCEPT ![a] = verdict]
  /\ UNCHANGED <<placed, stock, served, told>>

Tell(b) ==
  /\ told[b] = "nothing"
  /\ told' = [told EXCEPT ![b] = IF served[b] # {} THEN "bought" ELSE "refused"]
  /\ UNCHANGED <<status, placed, stock, served>>

Next ==
  \/ \E a \in Buys \X Suppliers :
       \/ Record(a) \/ Place(a)
       \/ \E c \in Codes : Save(a, c)
       \/ \E verdict \in Verdicts : Close(a, verdict)
  \/ \E b \in Buys : Tell(b)

Spec == Init /\ [][Next]_vars
===============================================================================
