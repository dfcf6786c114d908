------------------------------ MODULE MarketOrders ------------------------------
(***************************************************************************)
(* What the Kinguin, G2A and Digiseller handlers share: each names its     *)
(* reservation by an id of the marketplace (external_reservation_id), the  *)
(* rows and the stock are common, and what a marketplace has been handed   *)
(* cannot be taken back, whatever this system records afterwards.          *)
(***************************************************************************)
EXTENDS ReservationExpiry

CONSTANTS
  MarketOf,   \* the marketplace of each reservation
  Quantity,   \* keys each reservation asks for
  Overlap     \* whether requests about one reservation overlap each other and the sweep

ASSUME MarketOfType == MarketOf \in [Reservations -> {"kinguin", "g2a", "digiseller"}]
ASSUME QuantityType == Quantity \in [Reservations -> Nat \ {0}]
ASSUME OverlapType == Overlap \in BOOLEAN

VARIABLES
  given,     \* the keys the marketplace of each reservation has been handed
  ordered,   \* G2A: rows whose external_order_id names an order of G2A's
  items,     \* G2A: the (reservation, key) provisions each return still has to take
  strayed    \* rows of other marketplaces that a return of G2A's took a key from

marketVars == <<given, ordered, items, strayed>>

MarketInit ==
  /\ given = [r \in Reservations |-> {}] /\ ordered = {}
  /\ items = [t \in Workers |-> {}] /\ strayed = {}

MarketTypeOK ==
  /\ given \in [Reservations -> SUBSET Keys] /\ ordered \subseteq Reservations
  /\ items \in [Workers -> SUBSET (Reservations \X Keys)] /\ strayed \subseteq Reservations

Market(r, m) == MarketOf[r] = m

Awaiting(r) == \E t \in Workers : \E p \in items[t] : p[1] = r

MayStart(r) == Overlap \/ ~(Working(r) \/ Awaiting(r))

\* A request about r starts at label l with locals j, having only read so far.
Begin(t, r, l, j) ==
  /\ MayStart(r)
  /\ Start(t, l, [j EXCEPT !.row = r])
  /\ UNCHANGED <<dbVars, marketVars>>

\* key operations hand nothing to a marketplace
Within(step) == step /\ UNCHANGED marketVars

Give(r, S) == given' = [given EXCEPT ![r] = @ \union S] /\ UNCHANGED <<ordered, items, strayed>>

\* The answer carries the keys of the task; a lost one hands over nothing.
Answer(t, done) ==
  /\ pc[t] = "reply"
  /\ \/ Give(Row(t), job[t].keys)
     \/ CanFail("market") /\ UNCHANGED marketVars
  /\ Goto(t, done)
  /\ UNCHANGED dbVars
===============================================================================
