--------------------------- MODULE Procurement_proofs ---------------------------
(***************************************************************************)
(* PurchaseInv is an invariant of the purchases, for any number of buys,   *)
(* suppliers and codes, any offers and any faults.  With it: what the runs *)
(* check of Procurement, and that it implements PurchaseContract.          *)
(***************************************************************************)
EXTENDS Procurement, SequenceTheorems, FiniteSetTheorems, TLAPS

-------------------------------------------------------------------------------
(* The inductive invariant, per buy.                                         *)

States == {"idle", "next", "done"} \union Served
Verdicts == {"success", "failed", "timeout"}
Answers == {"nothing", "bought", "refused"}

\* A buy and its locals
Locals ==
  [at : States, todo : Seq(Suppliers \X Nat), gated : BOOLEAN,
   from : Suppliers \union {NoSupplier}, cost : Nat,
   got : SUBSET Codes, left : SUBSET Codes, saved : SUBSET Codes, lost : SUBSET Codes,
   verdict : Verdicts, told : Answers]

Types ==
  /\ offer \in Offers /\ allowed \in BOOLEAN
  /\ status \in [Attempts -> {"none", "pending"} \union Verdicts]
  /\ order \in [Attempts -> {"none", "open", "completed", "failed"}]
  /\ codes \in [Attempts -> SUBSET Codes]
  /\ stock \in SUBSET Codes
  /\ buy \in [Buys -> Locals]
  /\ \A b \in Buys : buy[b].at \in Served \/ buy[b].saved # {} => buy[b].from \in Suppliers

\* Neither is there a row nor an order of the buy at this supplier.
Fresh(b, p) == status[<<b, p>>] = "none" /\ order[<<b, p>>] = "none"

\* The candidates left, their prices and their order
Candidates(todo) == {todo[i][1] : i \in DOMAIN todo}
Prices(todo) == {todo[i][2] : i \in DOMAIN todo}
Distinct(todo) == \A i, k \in DOMAIN todo : i # k => todo[i][1] # todo[k][1]
Rising(todo) == \A i, k \in DOMAIN todo : i < k => todo[i][2] <= todo[k][2]

\* The candidates left were not asked before.
Untried(b) ==
  /\ At(b, "idle") => buy[b].todo = << >> /\ (\A p \in Suppliers : Fresh(b, p))
  /\ Distinct(buy[b].todo)
  /\ \A p \in Candidates(buy[b].todo) :
       /\ Fresh(b, p)
       /\ buy[b].at \in Served => p # buy[b].from

\* The row and the order of the current attempt, by how far the buy has come
Placed(b) ==
  /\ buy[b].at \in {"guard", "quote", "record"} => Fresh(b, buy[b].from)
  /\ buy[b].at \in {"order", "poll", "save", "close"} => status[Attempt(b)] = "pending"
  /\ At(b, "order") => order[Attempt(b)] = "none"
  /\ buy[b].at \in {"poll", "save"} => order[Attempt(b)] # "none"
  /\ At(b, "close") /\ buy[b].verdict # "failed" => order[Attempt(b)] # "none"

\* Where the codes are that a supplier's answer handed over
Accounted(b) ==
  /\ buy[b].saved \subseteq stock
  /\ buy[b].at \notin {"save", "close", "ended", "done"} => buy[b].saved = {}
  /\ buy[b].got \subseteq buy[b].saved \union buy[b].lost \union
                           (IF At(b, "save") THEN buy[b].left ELSE {})

\* Who asked is told once, at the end, and the truth.
Answered(b) ==
  /\ At(b, "done") <=> buy[b].told # "nothing"
  /\ buy[b].told = "bought" => buy[b].saved # {}

\* The candidates are in the order of their prices, none above the ceiling.
Affordable(price) == price + MinMargin + Fees <= SalePrice

Sorted(b) ==
  /\ Rising(buy[b].todo)
  /\ buy[b].gated => \A price \in Prices(buy[b].todo) : Affordable(price)
  /\ buy[b].at \in Served /\ b \notin Manual =>
       /\ buy[b].gated => Affordable(buy[b].cost)
       /\ \A price \in Prices(buy[b].todo) : buy[b].cost <= price

BuyInv(b) == Untried(b) /\ Placed(b) /\ Accounted(b) /\ Answered(b) /\ Sorted(b)

PurchaseInv == Types /\ OrdersAreRecorded /\ \A b \in Buys : BuyInv(b)

-------------------------------------------------------------------------------
(* Lists of candidates                                                       *)

\* A list of offers names suppliers and their prices.
LEMMA CandidatesType ==
  ASSUME NEW todo \in Seq(Suppliers \X Nat)
  PROVE  Candidates(todo) \subseteq Suppliers /\ Prices(todo) \subseteq Nat
  BY DEF Candidates, Prices

\* The empty list has no candidates, and is in any order.
LEMMA NoCandidates ==
  /\ Candidates(<< >>) = {} /\ Prices(<< >>) = {}
  /\ Distinct(<< >>) /\ Rising(<< >>)
  BY DEF Candidates, Prices, Distinct, Rising

\* The first of them is none of the others, and not dearer than they are.
LEMMA RestOfCandidates ==
  ASSUME NEW todo \in Seq(Suppliers \X Nat), todo # << >>, Distinct(todo), Rising(todo)
  PROVE  /\ Head(todo)[1] \in Candidates(todo) /\ Head(todo)[2] \in Prices(todo)
         /\ Tail(todo) \in Seq(Suppliers \X Nat)
         /\ Distinct(Tail(todo)) /\ Rising(Tail(todo))
         /\ Candidates(Tail(todo)) \subseteq Candidates(todo) \ {Head(todo)[1]}
         /\ Prices(Tail(todo)) \subseteq Prices(todo)
         /\ \A price \in Prices(Tail(todo)) : Head(todo)[2] <= price
<1> DEFINE rest == Tail(todo)
           D == DOMAIN rest
<1>1. /\ rest \in Seq(Suppliers \X Nat)
      /\ Len(todo) \in Nat /\ DOMAIN todo = 1..Len(todo)
      /\ D = 1 .. (Len(todo) - 1) /\ 1 \in DOMAIN todo
      /\ Head(todo) = todo[1]
      /\ \A i \in D : rest[i] = todo[i + 1]
  BY HeadTailProperties, LenProperties, EmptySeq
<1>2. \A i \in D : i + 1 \in DOMAIN todo /\ 1 # i + 1 /\ 1 < i + 1
  BY <1>1
<1>3. \A i, k \in D : (i # k => i + 1 # k + 1) /\ (i < k => i + 1 < k + 1)
  BY <1>1
<1> HIDE DEF rest, D
<1>4. \A i \in D :
        /\ rest[i][1] = todo[i + 1][1] /\ rest[i][2] = todo[i + 1][2]
        /\ todo[1][1] # todo[i + 1][1] /\ todo[1][2] <= todo[i + 1][2]
  BY <1>1, <1>2 DEF Distinct, Rising
<1>5. ASSUME NEW i \in D, NEW k \in D
      PROVE  /\ i # k => rest[i][1] # rest[k][1]
             /\ i < k => rest[i][2] <= rest[k][2]
  <2>1. /\ i # k => todo[i + 1][1] # todo[k + 1][1]
        /\ i < k => todo[i + 1][2] <= todo[k + 1][2]
    BY <1>2, <1>3 DEF Distinct, Rising
  <2> QED
    BY <1>4, <2>1
<1>6. Distinct(rest) /\ Rising(rest)
  <2>1. Distinct(rest)
    BY <1>5 DEF Distinct, D
  <2>2. Rising(rest)
    BY <1>5 DEF Rising, D
  <2> QED
    BY <2>1, <2>2
<1>7. Candidates(rest) \subseteq Candidates(todo) \ {Head(todo)[1]}
  BY <1>1, <1>2, <1>4 DEF Candidates, D
<1>8. /\ Prices(rest) \subseteq Prices(todo)
      /\ \A price \in Prices(rest) : Head(todo)[2] <= price
  BY <1>1, <1>2, <1>4 DEF Prices, D
<1>9. Head(todo)[1] \in Candidates(todo) /\ Head(todo)[2] \in Prices(todo)
  BY <1>1 DEF Candidates, Prices
<1> QED
  BY <1>1, <1>6, <1>7, <1>8, <1>9 DEF rest

-------------------------------------------------------------------------------
(* What a step of a buy leaves alone.                                        *)

OnlyOf(b) ==
  /\ \A c \in Buys \ {b} :
       /\ buy'[c] = buy[c]
       /\ \A p \in Suppliers : /\ status'[<<c, p>>] = status[<<c, p>>]
                               /\ order'[<<c, p>>] = order[<<c, p>>]
                               /\ codes'[<<c, p>>] = codes[<<c, p>>]
  /\ stock \subseteq stock'

\* The other buys do not notice it.
LEMMA OthersKeep ==
  ASSUME PurchaseInv, NEW b \in Buys, NEW c \in Buys \ {b}, OnlyOf(b)
  PROVE  BuyInv(c)'
<1>1. /\ buy'[c] = buy[c] /\ stock \subseteq stock'
      /\ \A p \in Suppliers : /\ status'[<<c, p>>] = status[<<c, p>>]
                              /\ order'[<<c, p>>] = order[<<c, p>>]
                              /\ codes'[<<c, p>>] = codes[<<c, p>>]
  BY DEF OnlyOf
<1>2. BuyInv(c) /\ Types
  BY DEF PurchaseInv
<1>3. buy[c] \in Locals /\ (buy[c].at \in Served \/ buy[c].saved # {} => buy[c].from \in Suppliers)
  BY <1>2 DEF Types
<1>4. Candidates(buy[c].todo) \subseteq Suppliers
  BY <1>3, CandidatesType DEF Locals
<1>5. Untried(c)'
  BY <1>1, <1>2, <1>3, <1>4 DEF BuyInv, Untried, Fresh, At
<1>6. Placed(c)'
  BY <1>1, <1>2, <1>3 DEF BuyInv, Placed, Fresh, At, Attempt, Served
<1>7. Accounted(c)'
  BY <1>1, <1>2, <1>3 DEF BuyInv, Accounted, At, Attempt, Served
<1>8. Answered(c)' /\ Sorted(c)'
  BY <1>1, <1>2 DEF BuyInv, Answered, Sorted, At, Affordable
<1> QED
  BY <1>5, <1>6, <1>7, <1>8 DEF BuyInv


\* The tables of the database and of the suppliers stay as they are.
Tables == <<offer, allowed, status, order, codes, stock>>

\* The locals of a buy that a step may leave alone, all together
Ranking(b) == <<buy[b].todo, buy[b].gated, buy[b].from, buy[b].cost>>
Delivery(b) == <<buy[b].got, buy[b].left, buy[b].saved, buy[b].lost>>

\* A buy moves on, and nothing else happens to it.
LEMMA Moves ==
  ASSUME Types, NEW b \in Buys, NEW l \in States, Move(b, l)
  PROVE  /\ buy' \in [Buys -> Locals]
         /\ \A c \in Buys \ {b} : buy'[c] = buy[c]
         /\ buy'[b].at = l /\ buy'[b].told = buy[b].told /\ buy'[b].verdict = buy[b].verdict
         /\ Ranking(b)' = Ranking(b) /\ Delivery(b)' = Delivery(b)
  BY ZenonT(60) DEF Types, Move, Locals, Ranking, Delivery

\* What an answer to the buyer changes.
LEMMA Tells ==
  ASSUME Types, NEW b \in Buys, NEW what \in Answers, Told(b, what)
  PROVE  /\ buy' \in [Buys -> Locals]
         /\ \A c \in Buys \ {b} : buy'[c] = buy[c]
         /\ buy'[b].at = "done" /\ buy'[b].told = what /\ buy'[b].verdict = buy[b].verdict
         /\ Ranking(b)' = Ranking(b) /\ Delivery(b)' = Delivery(b)
<1>1. "done" \in States
  BY DEF States
<1> QED
  BY <1>1, ZenonT(60) DEF Types, Told, Locals, Ranking, Delivery

\* What deciding how the order ends changes.
LEMMA Closes ==
  ASSUME Types, NEW b \in Buys, NEW v \in Verdicts, Closing(b, v)
  PROVE  /\ buy' \in [Buys -> Locals]
         /\ \A c \in Buys \ {b} : buy'[c] = buy[c]
         /\ buy'[b].at = "close" /\ buy'[b].told = buy[b].told /\ buy'[b].verdict = v
         /\ Ranking(b)' = Ranking(b) /\ Delivery(b)' = Delivery(b)
<1>1. "close" \in States
  BY DEF States, Served
<1> QED
  BY <1>1, ZenonT(60) DEF Types, Closing, Locals, Ranking, Delivery

\* A refusal ends a manual buy and sends a JIT buy to its next candidate.
LEMMA Refuses ==
  ASSUME Types, NEW b \in Buys, Refused(b)
  PROVE  /\ buy' \in [Buys -> Locals]
         /\ \A c \in Buys \ {b} : buy'[c] = buy[c]
         /\ \/ buy'[b].at = "done" /\ buy'[b].told = "refused"
            \/ buy'[b].at = "next" /\ buy'[b].told = buy[b].told
         /\ Ranking(b)' = Ranking(b) /\ Delivery(b)' = Delivery(b)
<1>1. "next" \in States /\ "refused" \in Answers
  BY DEF States, Answers
<1> QED
  BY <1>1, Moves, Tells DEF Refused

\* One step of buy b keeps the invariant if it leaves b in order.
LEMMA StepKeeps ==
  ASSUME PurchaseInv, NEW b \in Buys, OnlyOf(b), Types', OrdersAreRecorded', BuyInv(b)'
  PROVE  PurchaseInv'
<1>1. \A c \in Buys \ {b} : BuyInv(c)'
  BY OthersKeep
<1> QED
  BY <1>1 DEF PurchaseInv

-------------------------------------------------------------------------------
(* The actions                                                               *)

\* A refusal before anything was saved, with no effect on the tables.
LEMMA RefusalKeeps ==
  ASSUME PurchaseInv, NEW b \in Buys, buy[b].saved = {}, Refused(b), UNCHANGED Tables,
         buy[b].at \in {"guard", "quote", "record", "ended"}
  PROVE  PurchaseInv'
<1>1. Types /\ BuyInv(b) /\ OrdersAreRecorded
  BY DEF PurchaseInv
<1>2. /\ buy' \in [Buys -> Locals]
      /\ \A c \in Buys \ {b} : buy'[c] = buy[c]
      /\ \/ buy'[b].at = "done" /\ buy'[b].told = "refused"
         \/ buy'[b].at = "next" /\ buy'[b].told = buy[b].told
      /\ Ranking(b)' = Ranking(b) /\ Delivery(b)' = Delivery(b)
  BY <1>1, Refuses
<1>3. buy'[b].at \notin Served
  BY <1>2 DEF Served
<1>4. /\ Types' /\ OnlyOf(b) /\ OrdersAreRecorded'
  BY <1>1, <1>2, <1>3 DEF Types, Tables, OnlyOf, OrdersAreRecorded, Ranking, Delivery
<1>5. Untried(b)'
  BY <1>1, <1>2, <1>3 DEF BuyInv, Untried, Fresh, Tables, At, Ranking
<1>6. Placed(b)'
  BY <1>2, <1>3 DEF Placed, At
<1>7. Accounted(b)'
  BY <1>1, <1>2 DEF BuyInv, Accounted, Tables, At, Delivery
<1>8. Answered(b)'
  BY <1>1, <1>2 DEF BuyInv, Answered, At
<1>9. Sorted(b)'
  BY <1>1, <1>2, <1>3 DEF BuyInv, Sorted, Affordable, Ranking
<1> QED
  BY <1>1, <1>4, <1>5, <1>6, <1>7, <1>8, <1>9, StepKeeps DEF BuyInv

\* The checks before the order: on, with no effect on the tables.
LEMMA CheckKeeps ==
  ASSUME PurchaseInv, NEW b \in Buys, NEW l \in {"quote", "record"}, Move(b, l),
         UNCHANGED Tables, buy[b].at \in {"guard", "quote"}
  PROVE  PurchaseInv'
<1>1. Types /\ BuyInv(b) /\ OrdersAreRecorded /\ l \in States
  BY DEF PurchaseInv, States, Served
<1>2. /\ buy' \in [Buys -> Locals]
      /\ \A c \in Buys \ {b} : buy'[c] = buy[c]
      /\ buy'[b].at = l /\ buy'[b].told = buy[b].told
      /\ Ranking(b)' = Ranking(b) /\ Delivery(b)' = Delivery(b)
  BY <1>1, Moves
<1>3. buy[b].at \in Served /\ buy'[b].at \in Served
  BY <1>2 DEF Served
<1>4. /\ Types' /\ OnlyOf(b) /\ OrdersAreRecorded'
  BY <1>1, <1>2, <1>3 DEF Types, Tables, OnlyOf, OrdersAreRecorded, Ranking, Delivery
<1>5. Untried(b)'
  BY <1>1, <1>2, <1>3 DEF BuyInv, Untried, Fresh, Tables, At, Ranking
<1>6. Placed(b)'
  BY <1>1, <1>2 DEF BuyInv, Placed, Fresh, Tables, At, Ranking
<1>7. Accounted(b)'
  BY <1>1, <1>2 DEF BuyInv, Accounted, Tables, At, Delivery
<1>8. Answered(b)'
  BY <1>1, <1>2 DEF BuyInv, Answered, At
<1>9. Sorted(b)'
  BY <1>1, <1>2, <1>3 DEF BuyInv, Sorted, Affordable, Ranking
<1> QED
  BY <1>1, <1>4, <1>5, <1>6, <1>7, <1>8, <1>9, StepKeeps DEF BuyInv

\* Nothing is saved before there is an order.
LEMMA NothingSaved ==
  ASSUME PurchaseInv, NEW b \in Buys, buy[b].at \in {"guard", "quote", "record", "order", "poll"}
  PROVE  buy[b].saved = {}
  BY DEF PurchaseInv, BuyInv, Accounted

\* Guardrails and quotes leave the tables alone.
LEMMA ChecksKeep ==
  ASSUME PurchaseInv, NEW b \in Buys,
         Guardrails(b) \/ BambooQuote(b) \/ AppRouteEstimate(b) \/ WgcardsChecks(b)
  PROVE  PurchaseInv'
<1>1. /\ buy[b].at \in {"guard", "quote"} /\ UNCHANGED Tables
      /\ Refused(b) \/ (\E l \in {"quote", "record"} : Move(b, l))
  BY DEF Guardrails, BambooQuote, AppRouteEstimate, WgcardsChecks, Tables, IsAt, At
<1> QED
  BY <1>1, RefusalKeeps, CheckKeeps, NothingSaved

\* No order without a row: either the attempt is on record or the purchase is refused.
LEMMA RecordKeeps ==
  ASSUME PurchaseInv, NEW b \in Buys, RecordAttempt(b)
  PROVE  PurchaseInv'
<1>1. CASE UNCHANGED status /\ Refused(b)
  BY <1>1, RefusalKeeps, NothingSaved DEF RecordAttempt, Tables, At
<1>2. CASE status' = [status EXCEPT ![Attempt(b)] = "pending"] /\ Move(b, "order")
  <2>1. Types /\ BuyInv(b) /\ OrdersAreRecorded /\ "order" \in States
    BY DEF PurchaseInv, States, Served
  <2>2. /\ buy' \in [Buys -> Locals]
        /\ \A c \in Buys \ {b} : buy'[c] = buy[c]
        /\ buy'[b].at = "order" /\ buy'[b].told = buy[b].told
        /\ Ranking(b)' = Ranking(b) /\ Delivery(b)' = Delivery(b)
    BY <1>2, <2>1, Moves
  <2>3. /\ buy[b].at = "record" /\ buy'[b].at \in Served /\ buy[b].at \in Served
        /\ UNCHANGED <<offer, allowed, order, codes, stock>>
    BY <2>2 DEF RecordAttempt, At, Served
  <2>4. buy[b].from \in Suppliers /\ Attempt(b) \in Attempts /\ Fresh(b, buy[b].from)
    BY <2>1, <2>3 DEF Types, Attempt, Attempts, BuyInv, Placed
  <2>5. /\ status' \in [Attempts -> {"none", "pending"} \union Verdicts]
        /\ status'[Attempt(b)] = "pending"
        /\ \A a \in Attempts : a # Attempt(b) => status'[a] = status[a]
    BY <1>2, <2>1, <2>4 DEF Types
  <2>6. \A p \in Suppliers : p # buy[b].from => status'[<<b, p>>] = status[<<b, p>>]
    BY <2>5 DEF Attempt, Attempts
  <2>7. Types' /\ OrdersAreRecorded'
    BY <2>1, <2>2, <2>3, <2>5 DEF Types, OrdersAreRecorded, Ranking, Delivery
  <2>8. OnlyOf(b)
    BY <2>2, <2>3, <2>5 DEF OnlyOf, Attempt, Attempts
  <2>9. Candidates(buy[b].todo) \subseteq Suppliers
    BY <2>1, CandidatesType DEF Types, Locals
  <2>10. Untried(b)'
    <3>1. \A p \in Candidates(buy[b].todo) : Fresh(b, p) /\ p # buy[b].from
      BY <2>1, <2>3 DEF BuyInv, Untried
    <3>2. \A p \in Candidates(buy[b].todo) : Fresh(b, p)'
      <4>1. ASSUME NEW p \in Candidates(buy[b].todo)
            PROVE  Fresh(b, p)'
        <5>1. p \in Suppliers /\ p # buy[b].from /\ Fresh(b, p) /\ order' = order
          BY <2>3, <2>9, <3>1
        <5> QED
          BY <2>6, <5>1 DEF Fresh
      <4> QED
        BY <4>1
    <3> QED
      BY <2>1, <2>2, <3>1, <3>2 DEF BuyInv, Untried, At, Ranking
  <2>11. Placed(b)'
    BY <2>1, <2>2, <2>3, <2>4, <2>5 DEF Placed, Fresh, At, Attempt, Ranking
  <2>12. Accounted(b)'
    BY <2>1, <2>2, <2>3, <2>5, <2>6 DEF BuyInv, Accounted, At, Attempt, Delivery
  <2>13. Answered(b)' /\ Sorted(b)'
    BY <2>1, <2>2, <2>3 DEF BuyInv, Answered, Sorted, Affordable, At, Ranking, Delivery
  <2> QED
    BY <2>1, <2>7, <2>8, <2>10, <2>11, <2>12, <2>13, StepKeeps DEF BuyInv
<1> QED
  BY <1>1, <1>2 DEF RecordAttempt

\* The attempt of a buy is at its supplier: what an order changes.
LEMMA Ordering ==
  ASSUME PurchaseInv, NEW b \in Buys, At(b, "order"),
         order' \in {order, [order EXCEPT ![Attempt(b)] = "open"]}
  PROVE  /\ Attempt(b) \in Attempts
         /\ order' \in [Attempts -> {"none", "open", "completed", "failed"}]
         /\ \A a \in Attempts : a # Attempt(b) => order'[a] = order[a]
         /\ order'[Attempt(b)] # "none" => status[Attempt(b)] # "none"
<1>1. Types /\ buy[b].from \in Suppliers /\ status[Attempt(b)] = "pending"
  BY DEF PurchaseInv, Types, At, Served, BuyInv, Placed
<1> QED
  BY <1>1 DEF Types, Attempt, Attempts

\* The order is placed, or the attempt ends in failure.
LEMMA OrderKeeps ==
  ASSUME PurchaseInv, NEW b \in Buys, At(b, "order"),
         UNCHANGED <<offer, allowed, status, codes, stock>>,
         \/ OrderTaken(b)
         \/ Closing(b, "failed") /\ order' \in {order, [order EXCEPT ![Attempt(b)] = "open"]}
  PROVE  PurchaseInv'
<1>1. /\ Types /\ BuyInv(b) /\ OrdersAreRecorded
      /\ "poll" \in States /\ "failed" \in Verdicts
      /\ buy[b].saved = {}
  BY NothingSaved DEF PurchaseInv, States, Served, Verdicts, At
<1>2. /\ buy' \in [Buys -> Locals]
      /\ \A c \in Buys \ {b} : buy'[c] = buy[c]
      /\ \/ buy'[b].at = "poll" /\ order' = [order EXCEPT ![Attempt(b)] = "open"]
         \/ buy'[b].at = "close" /\ buy'[b].verdict = "failed"
      /\ buy'[b].told = buy[b].told
      /\ Ranking(b)' = Ranking(b) /\ Delivery(b)' = Delivery(b)
  BY <1>1, Moves, Closes DEF OrderTaken
<1>3. order' \in {order, [order EXCEPT ![Attempt(b)] = "open"]}
  BY DEF OrderTaken
<1>4. /\ Attempt(b) \in Attempts
      /\ order' \in [Attempts -> {"none", "open", "completed", "failed"}]
      /\ \A a \in Attempts : a # Attempt(b) => order'[a] = order[a]
      /\ order'[Attempt(b)] # "none" => status[Attempt(b)] # "none"
  BY <1>3, Ordering
<1>5. buy[b].at \in Served /\ buy'[b].at \in Served /\ buy[b].from \in Suppliers
  BY <1>1, <1>2 DEF At, Served, Types
<1>6. \A p \in Suppliers : p # buy[b].from => order'[<<b, p>>] = order[<<b, p>>]
  BY <1>4 DEF Attempt, Attempts
<1>7. Types' /\ OrdersAreRecorded'
  BY <1>1, <1>2, <1>4, <1>5 DEF Types, OrdersAreRecorded, Ranking, Delivery
<1>8. OnlyOf(b)
  BY <1>2, <1>4 DEF OnlyOf, Attempt, Attempts
<1>9. Candidates(buy[b].todo) \subseteq Suppliers
  BY <1>1, CandidatesType DEF Types, Locals
<1>10. Untried(b)'
  <2>1. \A p \in Candidates(buy[b].todo) : Fresh(b, p) /\ p # buy[b].from
    BY <1>1, <1>5 DEF BuyInv, Untried
  <2>2. \A p \in Candidates(buy[b].todo) : Fresh(b, p)'
    BY <1>6, <1>9, <2>1 DEF Fresh
  <2> QED
    BY <1>1, <1>2, <2>1, <2>2 DEF BuyInv, Untried, At, Ranking
<1>11. buy'[b].at = "poll" => order'[Attempt(b)] = "open"
  BY <1>1, <1>2, <1>4 DEF Types
<1>12. Placed(b)'
  BY <1>1, <1>2, <1>5, <1>11 DEF BuyInv, Placed, At, Attempt, Ranking
<1>13. Accounted(b)'
  BY <1>1, <1>2 DEF BuyInv, Accounted, At, Attempt, Delivery
<1>14. Answered(b)' /\ Sorted(b)'
  BY <1>1, <1>2, <1>5 DEF BuyInv, Answered, Sorted, Affordable, At, Ranking, Delivery
<1> QED
  BY <1>1, <1>7, <1>8, <1>10, <1>12, <1>13, <1>14, StepKeeps DEF BuyInv

\* An order is placed, refused, or its answer is lost.
LEMMA OrdersKeep ==
  ASSUME PurchaseInv, NEW b \in Buys, BambooCheckout(b) \/ AppRouteOrder(b) \/ WgcardsOrder(b)
  PROVE  PurchaseInv'
  BY OrderKeeps DEF BambooCheckout, AppRouteOrder, WgcardsOrder, OrderErred, IsAt

\* Codes of an order are handed over.
LEMMA DeliveryKeeps ==
  ASSUME PurchaseInv, NEW b \in Buys, At(b, "poll"), Delivered(b), UNCHANGED Tables
  PROVE  PurchaseInv'
<1>1. /\ Types /\ BuyInv(b) /\ OrdersAreRecorded
      /\ "save" \in States /\ buy[b].saved = {} /\ buy[b].from \in Suppliers
  BY NothingSaved DEF PurchaseInv, States, Served, At, Types
<1>2. PICK S \in SUBSET Codes :
        buy' = [buy EXCEPT ![b].at = "save", ![b].got = S, ![b].left = S]
  BY <1>1 DEF Delivered, Types, Attempt, Attempts
<1>3. /\ buy' \in [Buys -> Locals]
      /\ \A c \in Buys \ {b} : buy'[c] = buy[c]
      /\ buy'[b].at = "save" /\ buy'[b].told = buy[b].told
      /\ Ranking(b)' = Ranking(b)
      /\ buy'[b].left = S /\ buy'[b].got = S
      /\ buy'[b].saved = buy[b].saved /\ buy'[b].lost = buy[b].lost
  BY <1>1, <1>2, ZenonT(60) DEF Types, Locals, Ranking
<1>4. buy[b].at \in Served /\ buy'[b].at \in Served
  BY <1>3 DEF At, Served
<1>5. /\ Types' /\ OnlyOf(b) /\ OrdersAreRecorded'
  BY <1>1, <1>3, <1>4 DEF Types, Tables, OnlyOf, OrdersAreRecorded, Ranking
<1>6. Untried(b)'
  BY <1>1, <1>3, <1>4 DEF BuyInv, Untried, Fresh, Tables, At, Ranking
<1>7. Placed(b)'
  BY <1>1, <1>3 DEF BuyInv, Placed, Fresh, Tables, At, Attempt, Ranking
<1>8. Accounted(b)'
  BY <1>1, <1>3 DEF BuyInv, Accounted, Tables, At, Attempt, Ranking
<1>9. Answered(b)' /\ Sorted(b)'
  BY <1>1, <1>3, <1>4 DEF BuyInv, Answered, Sorted, Affordable, At, Ranking
<1> QED
  BY <1>1, <1>5, <1>6, <1>7, <1>8, <1>9, StepKeeps DEF BuyInv

\* The attempt is about to be closed, and no code is left to save.
LEMMA ClosingKeeps ==
  ASSUME PurchaseInv, NEW b \in Buys, NEW v \in Verdicts, Closing(b, v), UNCHANGED Tables,
         buy[b].at \in {"poll", "save"}, At(b, "save") => buy[b].left = {},
         At(b, "poll") => v # "success"
  PROVE  PurchaseInv'
<1>1. Types /\ BuyInv(b) /\ OrdersAreRecorded
  BY DEF PurchaseInv
<1>2. /\ buy' \in [Buys -> Locals]
      /\ \A c \in Buys \ {b} : buy'[c] = buy[c]
      /\ buy'[b].at = "close" /\ buy'[b].told = buy[b].told /\ buy'[b].verdict = v
      /\ Ranking(b)' = Ranking(b) /\ Delivery(b)' = Delivery(b)
  BY <1>1, Closes
<1>3. buy[b].at \in Served /\ buy'[b].at \in Served
  BY <1>2 DEF Served
<1>4. /\ Types' /\ OnlyOf(b) /\ OrdersAreRecorded'
  BY <1>1, <1>2, <1>3 DEF Types, Tables, OnlyOf, OrdersAreRecorded, Ranking, Delivery
<1>5. Untried(b)'
  BY <1>1, <1>2, <1>3 DEF BuyInv, Untried, Fresh, Tables, At, Ranking
<1>6. Placed(b)'
  BY <1>1, <1>2 DEF BuyInv, Placed, Fresh, Tables, At, Attempt, Ranking
<1>7. buy[b].got \subseteq buy[b].saved \union buy[b].lost
  BY <1>1 DEF BuyInv, Accounted
<1>8. Accounted(b)'
  BY <1>1, <1>2, <1>7 DEF BuyInv, Accounted, Tables, At, Delivery
<1>9. Answered(b)' /\ Sorted(b)'
  BY <1>1, <1>2, <1>3 DEF BuyInv, Answered, Sorted, Affordable, At, Ranking, Delivery
<1> QED
  BY <1>1, <1>4, <1>5, <1>6, <1>8, <1>9, StepKeeps DEF BuyInv

\* A poll finds the codes, waits, or gives the order up.
LEMMA PollsKeep ==
  ASSUME PurchaseInv, NEW b \in Buys, BambooPoll(b) \/ AppRoutePoll(b) \/ WgcardsPoll(b)
  PROVE  PurchaseInv'
<1>1. /\ At(b, "poll") /\ UNCHANGED Tables
      /\ Delivered(b) \/ (\E v \in {"timeout", "failed"} : Closing(b, v))
  BY DEF BambooPoll, AppRoutePoll, WgcardsPoll, WindowOver, Tables, IsAt
<1> QED
  BY <1>1, DeliveryKeeps, ClosingKeeps DEF At, Verdicts

\* The last code is saved, and the order is to be closed.
LEMMA AllSavedKeeps ==
  ASSUME PurchaseInv, NEW b \in Buys, AllSaved(b)
  PROVE  PurchaseInv'
  BY ClosingKeeps DEF AllSaved, At, Verdicts, Tables

\* One code moves from what was delivered into stock, or its saving fails.
LEMMA SaveKeeps ==
  ASSUME PurchaseInv, NEW b \in Buys, SaveCode(b)
  PROVE  PurchaseInv'
<1>1. /\ Types /\ BuyInv(b) /\ OrdersAreRecorded /\ buy[b] \in Locals
      /\ At(b, "save") /\ buy[b].from \in Suppliers
      /\ UNCHANGED <<offer, allowed, status, order, codes>>
  BY DEF PurchaseInv, SaveCode, Types, At, Served
<1>2. PICK code \in buy[b].left :
        \/ /\ stock' = stock \union {code}
           /\ buy' = [buy EXCEPT ![b].left = @ \ {code}, ![b].saved = @ \union {code}]
        \/ /\ stock' = stock
           /\ buy' = [buy EXCEPT ![b].left = @ \ {code}, ![b].lost = @ \union {code}]
  BY DEF SaveCode
<1>3. /\ code \in Codes /\ buy[b].left \ {code} \in SUBSET Codes
      /\ buy[b].saved \union {code} \in SUBSET Codes /\ buy[b].lost \union {code} \in SUBSET Codes
  BY <1>1, <1>2 DEF Locals
<1>4. /\ buy' \in [Buys -> Locals]
      /\ \A c \in Buys \ {b} : buy'[c] = buy[c]
      /\ buy'[b].at = "save" /\ buy'[b].told = buy[b].told
      /\ Ranking(b)' = Ranking(b)
      /\ buy'[b].left = buy[b].left \ {code} /\ buy'[b].got = buy[b].got
      /\ \/ /\ buy'[b].saved = buy[b].saved \union {code}
            /\ buy'[b].lost = buy[b].lost /\ stock' = stock \union {code}
         \/ /\ buy'[b].saved = buy[b].saved
            /\ buy'[b].lost = buy[b].lost \union {code} /\ stock' = stock
  <2>1. buy \in [Buys -> Locals] /\ buy[b].at = "save"
    BY <1>1 DEF At, Types
  <2>2. CASE /\ stock' = stock \union {code}
             /\ buy' = [buy EXCEPT ![b].left = @ \ {code}, ![b].saved = @ \union {code}]
    BY <1>3, <2>1, <2>2, ZenonT(60) DEF Locals, Ranking
  <2>3. CASE /\ stock' = stock
             /\ buy' = [buy EXCEPT ![b].left = @ \ {code}, ![b].lost = @ \union {code}]
    BY <1>3, <2>1, <2>3, ZenonT(60) DEF Locals, Ranking
  <2> QED
    BY <1>2, <2>2, <2>3
<1>5. buy[b].at \in Served /\ buy'[b].at \in Served
  BY <1>1, <1>4 DEF At, Served
<1>6. stock' \in SUBSET Codes /\ stock \subseteq stock'
  BY <1>1, <1>3, <1>4 DEF Types
<1>7. \A c \in Buys : buy'[c].saved # {} => c = b \/ buy[c].saved # {}
  BY <1>4
<1>8. Types' /\ OrdersAreRecorded'
  BY <1>1, <1>4, <1>5, <1>6, <1>7 DEF Types, OrdersAreRecorded, Ranking
<1>9. OnlyOf(b)
  BY <1>1, <1>4, <1>6 DEF OnlyOf
<1>10. Untried(b)'
  BY <1>1, <1>4, <1>5 DEF BuyInv, Untried, Fresh, At, Ranking
<1>11. Placed(b)'
  BY <1>1, <1>4 DEF BuyInv, Placed, Fresh, At, Attempt, Ranking
<1>12. Accounted(b)'
  <2>1. buy'[b].saved \subseteq stock'
    BY <1>1, <1>4 DEF BuyInv, Accounted
  <2>2. buy'[b].got \subseteq buy'[b].left \union buy'[b].saved \union buy'[b].lost
    BY <1>1, <1>4 DEF BuyInv, Accounted
  <2> QED
    BY <1>4, <2>1, <2>2 DEF Accounted, At
<1>13. Answered(b)' /\ Sorted(b)'
  <2>1. buy[b].saved # {} => buy'[b].saved # {}
    BY <1>4
  <2> QED
    BY <1>1, <1>4, <1>5, <2>1 DEF BuyInv, Answered, Sorted, Affordable, At, Ranking
<1> QED
  BY <1>1, <1>8, <1>9, <1>10, <1>11, <1>12, <1>13, StepKeeps DEF BuyInv

\* The attempt is closed, or its row stays pending.
LEMMA FinalizeKeeps ==
  ASSUME PurchaseInv, NEW b \in Buys, Finalize(b)
  PROVE  PurchaseInv'
<1>1. /\ Types /\ BuyInv(b) /\ OrdersAreRecorded /\ "ended" \in States
      /\ buy[b].at = "close" /\ buy[b].from \in Suppliers /\ buy[b] \in Locals
      /\ UNCHANGED <<offer, allowed, order, codes, stock>>
  BY DEF PurchaseInv, States, Served, Finalize, At, Types
<1>2. /\ buy' \in [Buys -> Locals]
      /\ \A c \in Buys \ {b} : buy'[c] = buy[c]
      /\ buy'[b].at = "ended" /\ buy'[b].told = buy[b].told
      /\ Ranking(b)' = Ranking(b) /\ Delivery(b)' = Delivery(b)
  BY <1>1, Moves DEF Finalize
<1>3. Attempt(b) \in Attempts /\ buy[b].verdict \in Verdicts
  BY <1>1 DEF Attempt, Attempts, Locals
<1>4. /\ status' \in [Attempts -> {"none", "pending"} \union Verdicts]
      /\ status'[Attempt(b)] \in {status[Attempt(b)], buy[b].verdict}
      /\ \A a \in Attempts : a # Attempt(b) => status'[a] = status[a]
  BY <1>1, <1>3 DEF Finalize, Types
<1>5. \A p \in Suppliers : p # buy[b].from => status'[<<b, p>>] = status[<<b, p>>]
  BY <1>4 DEF Attempt, Attempts
<1>6. buy[b].at \in Served /\ buy'[b].at \in Served
  BY <1>1, <1>2 DEF Served
<1>7. status'[Attempt(b)] # "none"
  BY <1>1, <1>3, <1>4 DEF BuyInv, Placed, Verdicts
<1>8. Types'
  BY <1>1, <1>2, <1>4 DEF Types, Ranking, Delivery
<1>9. OrdersAreRecorded'
  BY <1>1, <1>4, <1>7 DEF OrdersAreRecorded
<1>10. OnlyOf(b)
  BY <1>1, <1>2, <1>4 DEF OnlyOf, Attempt, Attempts
<1>11. Candidates(buy[b].todo) \subseteq Suppliers
  BY <1>1, CandidatesType DEF Locals
<1>12. Untried(b)'
  <2>1. \A p \in Candidates(buy[b].todo) : Fresh(b, p) /\ p # buy[b].from
    BY <1>1, <1>6 DEF BuyInv, Untried
  <2>2. \A p \in Candidates(buy[b].todo) : Fresh(b, p)'
    BY <1>1, <1>5, <1>11, <2>1 DEF Fresh
  <2> QED
    BY <1>1, <1>2, <2>1, <2>2 DEF BuyInv, Untried, At, Ranking
<1>13. Placed(b)'
  BY <1>2 DEF Placed, At
<1>14. Accounted(b)'
  BY <1>1, <1>2 DEF BuyInv, Accounted, At, Delivery
<1>15. Answered(b)' /\ Sorted(b)'
  BY <1>1, <1>2, <1>6 DEF BuyInv, Answered, Sorted, Affordable, At, Ranking, Delivery
<1> QED
  BY <1>1, <1>8, <1>9, <1>10, <1>12, <1>13, <1>14, <1>15, StepKeeps DEF BuyInv

\* Whoever asked is told of what was saved.
LEMMA ConcludeKeeps ==
  ASSUME PurchaseInv, NEW b \in Buys, Conclude(b)
  PROVE  PurchaseInv'
<1>1. CASE buy[b].saved = {}
  BY <1>1, RefusalKeeps DEF Conclude, At, Tables
<1>2. CASE buy[b].saved # {}
  <2>1. /\ Types /\ BuyInv(b) /\ OrdersAreRecorded /\ "bought" \in Answers
        /\ UNCHANGED Tables /\ Told(b, "bought") /\ At(b, "ended")
    BY <1>2 DEF PurchaseInv, Answers, Conclude, Tables
  <2>2. /\ buy' \in [Buys -> Locals]
        /\ \A c \in Buys \ {b} : buy'[c] = buy[c]
        /\ buy'[b].at = "done" /\ buy'[b].told = "bought"
        /\ Ranking(b)' = Ranking(b) /\ Delivery(b)' = Delivery(b)
    BY <2>1, Tells
  <2>3. buy'[b].at \notin Served
    BY <2>2 DEF Served
  <2>4. Types' /\ OnlyOf(b) /\ OrdersAreRecorded'
    BY <2>1, <2>2, <2>3 DEF Types, Tables, OnlyOf, OrdersAreRecorded, Ranking, Delivery
  <2>5. Untried(b)'
    BY <2>1, <2>2, <2>3 DEF BuyInv, Untried, Fresh, Tables, At, Ranking
  <2>6. Placed(b)'
    BY <2>2, <2>3 DEF Placed, At
  <2>7. Accounted(b)'
    BY <2>1, <2>2 DEF BuyInv, Accounted, Tables, At, Attempt, Ranking, Delivery
  <2>8. Answered(b)' /\ Sorted(b)'
    BY <1>2, <2>1, <2>2, <2>3 DEF BuyInv, Answered, Sorted, Affordable, At, Ranking, Delivery
  <2> QED
    BY <2>1, <2>4, <2>5, <2>6, <2>7, <2>8, StepKeeps DEF BuyInv
<1> QED
  BY <1>1, <1>2

\* A manual buy asks the supplier it names, which it has not asked before.
LEMMA AskKeeps ==
  ASSUME PurchaseInv, NEW b \in Buys, AskManually(b)
  PROVE  PurchaseInv'
<1>1. /\ Types /\ BuyInv(b) /\ OrdersAreRecorded /\ "guard" \in States
      /\ At(b, "idle") /\ b \in Manual /\ UNCHANGED Tables
  BY DEF PurchaseInv, AskManually, States, Served, Tables
<1>2. PICK p \in Suppliers : buy' = [buy EXCEPT ![b].at = "guard", ![b].from = p]
  BY DEF AskManually
<1>3. /\ buy' \in [Buys -> Locals]
      /\ \A c \in Buys \ {b} : buy'[c] = buy[c]
      /\ buy'[b].at = "guard" /\ buy'[b].from = p /\ buy'[b].told = buy[b].told
      /\ buy'[b].todo = buy[b].todo /\ buy'[b].gated = buy[b].gated
      /\ Delivery(b)' = Delivery(b)
  BY <1>1, <1>2, ZenonT(60) DEF Types, Locals, Delivery
<1>4. Fresh(b, p) /\ buy[b].todo = << >>
  BY <1>1 DEF BuyInv, Untried
<1>5. Types' /\ OnlyOf(b) /\ OrdersAreRecorded'
  BY <1>1, <1>3 DEF Types, Tables, OnlyOf, OrdersAreRecorded
<1>6. /\ Distinct(buy'[b].todo) /\ Rising(buy'[b].todo)
      /\ Candidates(buy'[b].todo) = {} /\ Prices(buy'[b].todo) = {}
  BY <1>3, <1>4, NoCandidates
<1>7. Untried(b)'
  BY <1>3, <1>6 DEF Untried, At
<1>8. Placed(b)'
  BY <1>1, <1>3, <1>4 DEF Placed, Fresh, Tables, At
<1>9. Accounted(b)'
  BY <1>1, <1>3 DEF BuyInv, Accounted, Tables, At, Delivery
<1>10. Answered(b)' /\ Sorted(b)'
  BY <1>1, <1>3, <1>6 DEF BuyInv, Answered, Sorted, At, Delivery
<1> QED
  BY <1>1, <1>5, <1>7, <1>8, <1>9, <1>10, StepKeeps DEF BuyInv

\* The candidates of a JIT buy: distinct suppliers, by price, within the ceiling.
LEMMA RankedCandidates ==
  ASSUME Types, NEW known \in SUBSET Amounts, NEW s \in Ranked(known)
  PROVE  LET todo == [i \in DOMAIN s |-> <<s[i], offer[s[i]].price>>] IN
         /\ todo \in Seq(Suppliers \X Nat)
         /\ Distinct(todo) /\ Rising(todo)
         /\ known = Amounts => \A price \in Prices(todo) : Affordable(price)
<1> DEFINE n == Cardinality(Fit(known))
           todo == [i \in DOMAIN s |-> <<s[i], offer[s[i]].price>>]
<1>1. Fit(known) \subseteq Suppliers
  BY DEF Fit
<1>2. n \in Nat
  BY <1>1, SuppliersFinite, FS_Subset, FS_CardinalityType
<1>3. /\ s \in [1..n -> Fit(known)] /\ DOMAIN s = 1..n
      /\ \A i, k \in DOMAIN s : i < k => s[i] # s[k] /\ offer[s[i]].price <= offer[s[k]].price
  BY DEF Ranked
<1> HIDE DEF n
<1>4. \A i \in 1..n : s[i] \in Suppliers /\ offer[s[i]].price \in Nat
  BY <1>1, <1>3, OffersType DEF Types
<1>5. todo \in [1..n -> Suppliers \X Nat]
  BY <1>3, <1>4
<1>6. todo \in Seq(Suppliers \X Nat)
  BY <1>2, <1>5
<1>7. ASSUME known = Amounts, NEW i \in 1..n
      PROVE  Affordable(offer[s[i]].price)
  <2>1. WithinCeiling(offer[s[i]].price, known)
    BY <1>3 DEF Fit
  <2>2. offer[s[i]].price <= SalePrice - MinMargin - Fees
    BY <1>7, <2>1 DEF WithinCeiling, Amounts
  <2>3. SalePrice \in Nat /\ MinMargin \in Nat /\ Fees \in Nat
    BY AmountType
  <2> QED
    BY <1>4, <2>2, <2>3 DEF Affordable
<1>8. \A i, k \in 1..n : i # k => s[i] # s[k]
  BY <1>2, <1>3
<1>9. DOMAIN todo = 1..n /\ \A i \in 1..n : todo[i][1] = s[i] /\ todo[i][2] = offer[s[i]].price
  BY <1>3
<1> HIDE DEF todo
<1>10. Distinct(todo) /\ Rising(todo)
  BY <1>3, <1>8, <1>9 DEF Distinct, Rising
<1>11. known = Amounts => \A price \in Prices(todo) : Affordable(price)
  BY <1>7, <1>9 DEF Prices
<1> QED
  BY <1>6, <1>10, <1>11 DEF todo

\* Ranking the suppliers: the candidates rise in price and none comes twice.
LEMMA RouteKeeps ==
  ASSUME PurchaseInv, NEW b \in Buys, Route(b)
  PROVE  PurchaseInv'
<1>1. /\ Types /\ BuyInv(b) /\ OrdersAreRecorded /\ "next" \in States
      /\ At(b, "idle") /\ UNCHANGED Tables
  BY DEF PurchaseInv, Route, States, Tables
<1>2. PICK known \in Converted : \E s \in Ranked(known) :
        buy' = [buy EXCEPT ![b].at = "next", ![b].gated = (known = Amounts),
                           ![b].todo = [i \in DOMAIN s |-> <<s[i], offer[s[i]].price>>]]
  BY DEF Route
<1>3. PICK s \in Ranked(known) :
        buy' = [buy EXCEPT ![b].at = "next", ![b].gated = (known = Amounts),
                           ![b].todo = [i \in DOMAIN s |-> <<s[i], offer[s[i]].price>>]]
  BY <1>2
<1> DEFINE todo == [i \in DOMAIN s |-> <<s[i], offer[s[i]].price>>]
           gated == known = Amounts
<1>4. known \in SUBSET Amounts
  BY DEF Converted
<1>5. /\ todo \in Seq(Suppliers \X Nat)
      /\ Distinct(todo) /\ Rising(todo)
      /\ gated => \A price \in Prices(todo) : Affordable(price)
      /\ gated \in BOOLEAN
  BY <1>1, <1>4, RankedCandidates
<1>6. Candidates(todo) \subseteq Suppliers
  BY <1>5, CandidatesType
<1>7. /\ buy' \in [Buys -> Locals]
      /\ \A c \in Buys \ {b} : buy'[c] = buy[c]
      /\ buy'[b].at = "next" /\ buy'[b].told = buy[b].told
      /\ buy'[b].todo = todo /\ buy'[b].gated = gated
      /\ buy'[b].from = buy[b].from /\ Delivery(b)' = Delivery(b)
  <2>1. buy' = [buy EXCEPT ![b].at = "next", ![b].gated = gated, ![b].todo = todo]
    BY <1>3
  <2> HIDE DEF todo, gated
  <2>2. buy \in [Buys -> Locals] /\ buy[b] \in Locals
    BY <1>1 DEF Types
  <2>3. [buy[b] EXCEPT !.at = "next", !.gated = gated, !.todo = todo] \in Locals
    BY <1>1, <1>5, <2>2 DEF Locals
  <2> QED
    BY <1>1, <1>5, <2>1, <2>2, <2>3 DEF Locals, Delivery
<1> HIDE DEF todo, gated
<1>8. buy'[b].at \notin Served
  BY <1>7 DEF Served
<1>9. Types' /\ OnlyOf(b) /\ OrdersAreRecorded'
  BY <1>1, <1>7, <1>8 DEF Types, Tables, OnlyOf, OrdersAreRecorded, Delivery
<1>10. Untried(b)'
  <2>1. \A p \in Suppliers : Fresh(b, p)'
    BY <1>1 DEF BuyInv, Untried, Fresh, Tables
  <2> QED
    BY <1>5, <1>7, <1>8, <1>6, <2>1 DEF Untried, Fresh, At
<1>11. Placed(b)'
  BY <1>7, <1>8 DEF Placed, At
<1>12. Accounted(b)'
  BY <1>1, <1>7 DEF BuyInv, Accounted, Tables, At, Delivery
<1>13. Answered(b)'
  BY <1>1, <1>7 DEF BuyInv, Answered, At, Delivery
<1>14. Sorted(b)'
  BY <1>5, <1>7, <1>8 DEF Sorted, Affordable
<1> QED
  BY <1>1, <1>9, <1>10, <1>11, <1>12, <1>13, <1>14, StepKeeps DEF BuyInv

\* The candidate asked next is not dearer than those left, and not one of them.
LEMMA NextKeeps ==
  ASSUME PurchaseInv, NEW b \in Buys, NextCandidate(b)
  PROVE  PurchaseInv'
<1> DEFINE todo == buy[b].todo
<1>1. /\ Types /\ BuyInv(b) /\ OrdersAreRecorded /\ buy[b] \in Locals
      /\ At(b, "next") /\ UNCHANGED Tables
      /\ todo \in Seq(Suppliers \X Nat)
      /\ "guard" \in States /\ "refused" \in Answers
  BY DEF PurchaseInv, Types, Locals, NextCandidate, Tables, States, Served, Answers
<1>2. CASE Told(b, "refused")
  <2>1. /\ buy' \in [Buys -> Locals]
        /\ \A c \in Buys \ {b} : buy'[c] = buy[c]
        /\ buy'[b].at = "done" /\ buy'[b].told = "refused"
        /\ Ranking(b)' = Ranking(b) /\ Delivery(b)' = Delivery(b)
    BY <1>1, <1>2, Tells
  <2>2. buy'[b].at \notin Served
    BY <2>1 DEF Served
  <2>3. Types' /\ OnlyOf(b) /\ OrdersAreRecorded'
    BY <1>1, <2>1, <2>2 DEF Types, Tables, OnlyOf, OrdersAreRecorded, Ranking, Delivery
  <2>4. Untried(b)'
    BY <1>1, <2>1, <2>2 DEF BuyInv, Untried, Fresh, Tables, At, Ranking
  <2>5. Placed(b)'
    BY <2>1, <2>2 DEF Placed, At
  <2>6. Accounted(b)'
    BY <1>1, <2>1 DEF BuyInv, Accounted, Tables, At, Delivery
  <2>7. Answered(b)' /\ Sorted(b)'
    BY <1>1, <2>1, <2>2 DEF BuyInv, Answered, Sorted, Affordable, At, Ranking, Delivery
  <2> QED
    BY <1>1, <2>3, <2>4, <2>6, <2>7, <2>5, StepKeeps DEF BuyInv
<1>3. CASE todo # << >> /\ ~ Told(b, "refused")
  <2>1. Distinct(todo) /\ Rising(todo)
    BY <1>1 DEF BuyInv, Untried, Sorted
  <2>2. /\ Head(todo)[1] \in Candidates(todo) /\ Head(todo)[2] \in Prices(todo)
        /\ Tail(todo) \in Seq(Suppliers \X Nat)
        /\ Distinct(Tail(todo)) /\ Rising(Tail(todo))
        /\ Candidates(Tail(todo)) \subseteq Candidates(todo) \ {Head(todo)[1]}
        /\ Prices(Tail(todo)) \subseteq Prices(todo)
        /\ \A price \in Prices(Tail(todo)) : Head(todo)[2] <= price
    BY <1>1, <1>3, <2>1, RestOfCandidates
  <2>3. Head(todo)[1] \in Suppliers /\ Head(todo)[2] \in Nat
    BY <1>1, <2>2, CandidatesType
  <2>4. /\ buy' \in [Buys -> Locals]
        /\ \A c \in Buys \ {b} : buy'[c] = buy[c]
        /\ buy'[b].told = buy[b].told /\ buy'[b].gated = buy[b].gated
        /\ buy'[b].todo = Tail(todo) /\ Delivery(b)' = Delivery(b)
        /\ \/ /\ buy'[b].at = "guard" /\ buy'[b].from = Head(todo)[1]
              /\ buy'[b].cost = Head(todo)[2]
           \/ buy'[b].at = "next"
    <3>1. CASE buy' = [buy EXCEPT ![b].at = "guard", ![b].from = Head(todo)[1],
                                  ![b].cost = Head(todo)[2], ![b].todo = Tail(todo)]
      BY <1>1, <2>2, <2>3, <3>1 DEF Types, Locals, Delivery
    <3>2. CASE buy' = [buy EXCEPT ![b].todo = Tail(todo)]
      BY <1>1, <2>2, <3>2 DEF Types, Locals, Delivery, At
    <3> QED
      BY <1>3, <3>1, <3>2 DEF NextCandidate
  <2>5. \A p \in Candidates(todo) : Fresh(b, p)'
    <3>1. \A p \in Candidates(todo) : Fresh(b, p)
      BY <1>1 DEF BuyInv, Untried
    <3> QED
      <4>1. UNCHANGED <<status, order>>
        BY <1>1 DEF Tables
      <4> QED
        BY <3>1, <4>1 DEF Fresh
  <2>6. buy'[b].at = "next" => buy'[b].at \notin Served
    BY DEF Served
  <2>7. buy[b].saved = {}
    BY <1>1 DEF BuyInv, Accounted, At
  <2>8. Types' /\ OnlyOf(b) /\ OrdersAreRecorded'
    BY <1>1, <2>3, <2>4, <2>6, <2>7 DEF Types, Tables, OnlyOf, OrdersAreRecorded, Delivery
  <2>9. Untried(b)'
    BY <2>2, <2>4, <2>5, <2>6 DEF Untried, At
  <2>10. Placed(b)'
    BY <2>2, <2>4, <2>5 DEF Placed, At
  <2>11. Accounted(b)'
    BY <1>1, <2>4 DEF BuyInv, Accounted, Tables, At, Delivery
  <2>12. Answered(b)'
    BY <1>1, <2>4 DEF BuyInv, Answered, At, Delivery
  <2>13. Sorted(b)'
    BY <1>1, <2>2, <2>4, <2>6 DEF BuyInv, Sorted, Affordable
  <2> QED
    BY <1>1, <2>8, <2>9, <2>10, <2>11, <2>12, <2>13, StepKeeps DEF BuyInv
<1> QED
  BY <1>2, <1>3 DEF NextCandidate

-------------------------------------------------------------------------------
(* Around the purchase                                                       *)

\* The supplier answers an order that is still polled.
LEMMA CompleteKeeps ==
  ASSUME PurchaseInv, NEW a \in Attempts, Complete(a)
  PROVE  /\ PurchaseInv'
         /\ \A x \in Attempts : order'[x] # "none" <=> order[x] # "none"
<1>1. PICK b \in Buys, p \in Suppliers : a = <<b, p>>
  BY DEF Attempts
<1>2. /\ Types /\ BuyInv(b) /\ OrdersAreRecorded
      /\ buy[b].at = "poll" /\ buy[b].from = p /\ Attempt(b) = a
      /\ order[a] = "open" /\ buy[b].saved = {} /\ status[a] = "pending"
      /\ UNCHANGED <<offer, allowed, status, stock, buy>>
  <2>1. buy[b].at = "poll" /\ Attempt(b) = a
    BY <1>1 DEF Complete, At
  <2> QED
    BY <1>1, <2>1 DEF PurchaseInv, Complete, BuyInv, Placed, Accounted, Attempt
<1>3. /\ order' \in [Attempts -> {"none", "open", "completed", "failed"}]
      /\ codes' \in [Attempts -> SUBSET Codes]
      /\ order'[a] \in {"completed", "failed"}
      /\ \A x \in Attempts : x # a => order'[x] = order[x] /\ codes'[x] = codes[x]
  BY <1>2 DEF Complete, Types
<1>4. \A q \in Suppliers : q # p => order'[<<b, q>>] = order[<<b, q>>]
                                    /\ codes'[<<b, q>>] = codes[<<b, q>>]
  BY <1>1, <1>3 DEF Attempts
<1>5. OnlyOf(b)
  BY <1>1, <1>2, <1>3 DEF OnlyOf, Attempts
<1>6. Types' /\ OrdersAreRecorded'
  BY <1>2, <1>3 DEF Types, OrdersAreRecorded
<1>7. Untried(b)'
  <2>1. \A q \in Candidates(buy[b].todo) : Fresh(b, q) /\ q # p /\ q \in Suppliers
    BY <1>2, CandidatesType DEF BuyInv, Untried, Types, Locals, Served
  <2>2. \A q \in Candidates(buy[b].todo) : Fresh(b, q)'
    BY <1>2, <1>4, <2>1 DEF Fresh
  <2> QED
    BY <1>2, <2>1, <2>2 DEF BuyInv, Untried, At
<1>8. Placed(b)'
  BY <1>2, <1>3 DEF Placed, At, Attempt
<1>9. Accounted(b)'
  BY <1>1, <1>2, <1>4 DEF BuyInv, Accounted, At
<1>10. Answered(b)' /\ Sorted(b)'
  BY <1>2 DEF BuyInv, Answered, Sorted, At
<1>11. \A x \in Attempts : order'[x] # "none" <=> order[x] # "none"
  BY <1>2, <1>3
<1> QED
  BY <1>2, <1>5, <1>6, <1>7, <1>8, <1>9, <1>10, <1>11, StepKeeps DEF BuyInv

\* Neither the administrator's ban nor a stuttering step touches a purchase.
LEMMA BanKeeps ==
  ASSUME PurchaseInv, allowed' \in BOOLEAN, UNCHANGED <<offer, status, order, codes, stock, buy>>
  PROVE  PurchaseInv'
<1>1. Types' /\ OrdersAreRecorded'
  BY DEF PurchaseInv, Types, OrdersAreRecorded
<1>2. ASSUME NEW b \in Buys
      PROVE  BuyInv(b)'
  <2>1. BuyInv(b)
    BY DEF PurchaseInv
  <2>2. Untried(b)' /\ Placed(b)'
    BY <2>1 DEF BuyInv, Untried, Placed, Fresh, At, Attempt
  <2>3. Accounted(b)' /\ Answered(b)' /\ Sorted(b)'
    BY <2>1 DEF BuyInv, Accounted, Answered, Sorted, At, Attempt
  <2> QED
    BY <2>2, <2>3 DEF BuyInv
<1> QED
  BY <1>1, <1>2 DEF PurchaseInv

\* Nothing is bought in the beginning.
LEMMA InitInv == Init => PurchaseInv
<1> SUFFICES ASSUME Init
             PROVE  PurchaseInv
  OBVIOUS
<1>1. Idle \in Locals
  BY DEF Idle, Locals, States, Verdicts, Answers
<1>2. Types
  BY <1>1 DEF Init, Types, Idle, Served
<1>3. OrdersAreRecorded
  BY DEF Init, OrdersAreRecorded
<1>4. ASSUME NEW b \in Buys
      PROVE  BuyInv(b)
  <2>1. /\ buy[b] = Idle
        /\ \A p \in Suppliers : Fresh(b, p) /\ status[<<b, p>>] = "none"
    BY DEF Init, Fresh, Attempts
  <2>2. buy[b].todo = << >> /\ Distinct(buy[b].todo) /\ Candidates(buy[b].todo) = {}
    BY <2>1, NoCandidates DEF Idle
  <2>3. Untried(b)
    BY <2>1, <2>2 DEF Untried
  <2>4. /\ buy[b].at = "idle" /\ buy[b].saved = {} /\ buy[b].got = {} /\ buy[b].told = "nothing"
        /\ buy[b].at \notin Served
    BY <2>1 DEF Idle, Served
  <2>5. Placed(b) /\ Accounted(b) /\ Answered(b)
    BY <2>1, <2>4 DEF Placed, Accounted, Answered, At
  <2>6. Sorted(b)
    BY <2>1, NoCandidates DEF Sorted, Idle, Served
  <2> QED
    BY <2>6, <2>5, <2>3 DEF BuyInv
<1> QED
  BY <1>2, <1>3, <1>4 DEF PurchaseInv

\* Every step of every purchase keeps the invariant.
LEMMA NextInv == PurchaseInv /\ [Next]_vars => PurchaseInv'
<1> SUFFICES ASSUME PurchaseInv, [Next]_vars
             PROVE  PurchaseInv'
  OBVIOUS
<1>1. ASSUME NEW b \in Buys, Buying(b)
      PROVE  PurchaseInv'
  BY <1>1, RouteKeeps, NextKeeps, AskKeeps, ChecksKeep, RecordKeeps, OrdersKeep, PollsKeep,
     SaveKeeps, AllSavedKeeps, FinalizeKeeps, ConcludeKeeps DEF Buying
<1>2. ASSUME NEW a \in Attempts, Complete(a)
      PROVE  PurchaseInv'
  BY <1>2, CompleteKeeps
<1>3. CASE Forbid
  BY <1>3, BanKeeps DEF Forbid
<1>4. CASE UNCHANGED vars
  BY <1>4, BanKeeps DEF vars, PurchaseInv, Types
<1> QED
  BY <1>1, <1>2, <1>3, <1>4 DEF Next

-------------------------------------------------------------------------------
(* What follows                                                              *)

\* PurchaseInv holds of every reachable state.
THEOREM PurchaseInvariant == Spec => []PurchaseInv
  BY InitInv, NextInv, PTL DEF Spec

\* The state keeps its type, and whoever is past the router has a supplier.
THEOREM ProcurementTypes == Spec => []ProcurementTypeOK
<1>1. PurchaseInv => ProcurementTypeOK
  BY DEF PurchaseInv, Types, Locals, States, Verdicts, Answers, ProcurementTypeOK
<1> QED
  BY <1>1, PurchaseInvariant, PTL

\* No order is at a supplier without an attempt on record.
THEOREM OrdersRecorded == Spec => []OrdersAreRecorded
<1>1. PurchaseInv => OrdersAreRecorded
  BY DEF PurchaseInv
<1> QED
  BY <1>1, PurchaseInvariant, PTL

\* What a manual purchase was handed is in the stock or in failed_ingestions.
THEOREM NothingReceivedIsLost == Spec => []NoReceivedCodeIsLost
<1>1. PurchaseInv => NoReceivedCodeIsLost
  BY ManualType DEF PurchaseInv, BuyInv, Accounted, At, NoReceivedCodeIsLost
<1> QED
  BY <1>1, PurchaseInvariant, PTL

\* A JIT buy asks the cheapest of the suppliers left, and none above the ceiling.
THEOREM CheapestIsFirst == Spec => []CheapestFirst
<1>1. PurchaseInv => CheapestFirst
  <2> SUFFICES ASSUME PurchaseInv, NEW b \in Buys \ Manual, buy[b].at \in Served
               PROVE  /\ buy[b].gated => buy[b].cost + MinMargin + Fees <= SalePrice
                      /\ \A i \in DOMAIN buy[b].todo : buy[b].cost <= buy[b].todo[i][2]
    BY DEF CheapestFirst
  <2>1. Sorted(b)
    BY DEF PurchaseInv, BuyInv
  <2> QED
    BY <2>1 DEF Sorted, Affordable, Prices
<1> QED
  BY <1>1, PurchaseInvariant, PTL

\* What a step may do to the orders: place one for a buy that has come to its order.
LEMMA OrderSteps ==
  ASSUME PurchaseInv, [Next]_vars
  PROVE  \/ \A a \in Attempts : order'[a] # "none" <=> order[a] # "none"
         \/ \E b \in Buys : /\ At(b, "order")
                            /\ order' \in {order, [order EXCEPT ![Attempt(b)] = "open"]}
<1>1. ASSUME NEW b \in Buys, Buying(b), order' # order
      PROVE  At(b, "order") /\ order' \in {order, [order EXCEPT ![Attempt(b)] = "open"]}
  BY <1>1 DEF Buying, Route, NextCandidate, AskManually, Guardrails, BambooQuote, AppRouteEstimate,
     WgcardsChecks, RecordAttempt, BambooCheckout, AppRouteOrder, WgcardsOrder, OrderTaken, OrderErred,
     BambooPoll, AppRoutePoll, WgcardsPoll, SaveCode, AllSaved, Finalize, Conclude, IsAt
<1>2. ASSUME NEW a \in Attempts, Complete(a)
      PROVE  \A x \in Attempts : order'[x] # "none" <=> order[x] # "none"
  BY <1>2, CompleteKeeps
<1> QED
  BY <1>1, <1>2 DEF Next, Forbid, vars

\* A buy with a code in the stock orders nothing more.
THEOREM SuppliedBuysStop == Spec => StopsOnceSupplied
<1>1. ASSUME PurchaseInv, [Next]_vars, NEW c \in Buys, buy[c].saved # {},
             NEW p \in Suppliers, order[<<c, p>>] = "none"
      PROVE  order'[<<c, p>>] = "none"
  <2>1. CASE \A a \in Attempts : order'[a] # "none" <=> order[a] # "none"
    BY <1>1, <2>1 DEF Attempts
  <2>2. ASSUME NEW b \in Buys, At(b, "order"),
               order' \in {order, [order EXCEPT ![Attempt(b)] = "open"]}
        PROVE  order'[<<c, p>>] = "none"
    <3>1. b # c
      BY <1>1, <2>2, NothingSaved DEF At
    <3>2. <<c, p>> \in Attempts /\ <<c, p>> # Attempt(b)
      BY <3>1 DEF Attempts, Attempt
    <3> QED
      BY <1>1, <2>2, <3>2, Ordering
  <2> QED
    BY <1>1, <2>1, <2>2, OrderSteps
<1>2. PurchaseInv /\ [Next]_vars =>
        [\A b \in Buys : buy[b].saved # {} =>
           \A p \in Suppliers : order[<<b, p>>] = "none" => order'[<<b, p>>] = "none"]_vars
  BY <1>1
<1> QED
  BY <1>2, PurchaseInvariant, PTL DEF Spec, StopsOnceSupplied

-------------------------------------------------------------------------------
(* The refinement of PurchaseContract                                        *)

\* What a step looks like that the contract does not see.
LEMMA Unseen ==
  ASSUME PurchaseInv, UNCHANGED <<status, stock>>,
         \A a \in Attempts : order'[a] # "none" <=> order[a] # "none",
         \A c \in Buys : buy'[c].saved = buy[c].saved /\ buy'[c].told = buy[c].told
  PROVE  UNCHANGED Contract!vars
  BY DEF Contract!vars

\* A refusal before anything was saved tells an administrator so.
LEMMA RefusalTold ==
  ASSUME PurchaseInv, NEW b \in Buys, ~ At(b, "done"), buy[b].saved = {},
         Refused(b) \/ Told(b, "refused"), UNCHANGED <<status, order, stock>>
  PROVE  Contract!Next \/ UNCHANGED Contract!vars
<1>1. /\ Types /\ buy[b].told = "nothing" /\ "refused" \in Answers
  BY DEF PurchaseInv, BuyInv, Answered, Answers
<1>2. CASE Told(b, "refused")
  <2>1. /\ \A c \in Buys \ {b} : buy'[c] = buy[c]
        /\ buy'[b].told = "refused" /\ buy'[b].saved = {}
    BY <1>1, <1>2, Tells DEF Delivery
  <2>2. Contract!Tell(b)
    BY <1>1, <2>1 DEF Contract!Tell
  <2> QED
    BY <2>2 DEF Contract!Next
<1>3. CASE Move(b, "next")
  <2>1. "next" \in States
    BY DEF States
  <2>2. \A c \in Buys : buy'[c].saved = buy[c].saved /\ buy'[c].told = buy[c].told
    BY <1>1, <1>3, <2>1, Moves DEF Delivery
  <2> QED
    BY <2>2, Unseen
<1> QED
  BY <1>2, <1>3 DEF Refused

\* The checks, the ranking, the polls and the conclusion show in the answer at most.
LEMMA QuietSteps ==
  ASSUME PurchaseInv, NEW b \in Buys,
         \/ Route(b) \/ AskManually(b) \/ AllSaved(b)
         \/ BambooPoll(b) \/ AppRoutePoll(b) \/ WgcardsPoll(b)
  PROVE  UNCHANGED Contract!vars
<1>1. Types /\ UNCHANGED <<status, order, stock>>
  BY DEF PurchaseInv, Route, AskManually, AllSaved, BambooPoll, AppRoutePoll, WgcardsPoll
<1>2. \A c \in Buys : buy'[c].saved = buy[c].saved /\ buy'[c].told = buy[c].told
  <2>1. ASSUME NEW gated, NEW todo,
               buy' = [buy EXCEPT ![b].at = "next", ![b].gated = gated, ![b].todo = todo]
        PROVE  \A c \in Buys : buy'[c].saved = buy[c].saved /\ buy'[c].told = buy[c].told
    BY <1>1, <2>1 DEF Types, Locals
  <2>2. ASSUME NEW p, buy' = [buy EXCEPT ![b].at = "guard", ![b].from = p]
        PROVE  \A c \in Buys : buy'[c].saved = buy[c].saved /\ buy'[c].told = buy[c].told
    BY <1>1, <2>2 DEF Types, Locals
  <2>3. CASE \E v \in Verdicts : Closing(b, v)
    BY <1>1, <2>3, Closes DEF Delivery
  <2>4. CASE Delivered(b)
    BY <1>1, <2>4 DEF Delivered, Types, Locals
  <2> QED
    BY <2>1, <2>3, <2>4, <2>2 DEF Route, AskManually, AllSaved, BambooPoll, AppRoutePoll,
       WgcardsPoll, WindowOver, Verdicts
<1> QED
  BY <1>1, <1>2, Unseen

\* Taking the next candidate changes nothing that the contract speaks of, or refuses.
LEMMA CandidateRefines ==
  ASSUME PurchaseInv, NEW b \in Buys, NextCandidate(b)
  PROVE  Contract!Next \/ UNCHANGED Contract!vars
<1>1. /\ Types /\ At(b, "next") /\ ~ At(b, "done") /\ buy[b].saved = {}
      /\ UNCHANGED <<status, order, stock>>
  BY DEF PurchaseInv, NextCandidate, BuyInv, Accounted, At
<1>2. CASE Told(b, "refused")
  BY <1>1, <1>2, RefusalTold
<1>3. CASE ~ Told(b, "refused")
  <2>1. ASSUME NEW p, NEW cost, NEW todo,
               buy' = [buy EXCEPT ![b].at = "guard", ![b].from = p, ![b].cost = cost,
                                  ![b].todo = todo]
        PROVE  \A c \in Buys : buy'[c].saved = buy[c].saved /\ buy'[c].told = buy[c].told
    BY <1>1, <2>1 DEF Types, Locals
  <2>2. ASSUME NEW todo, buy' = [buy EXCEPT ![b].todo = todo]
        PROVE  \A c \in Buys : buy'[c].saved = buy[c].saved /\ buy'[c].told = buy[c].told
    BY <1>1, <2>2 DEF Types, Locals
  <2>3. \A c \in Buys : buy'[c].saved = buy[c].saved /\ buy'[c].told = buy[c].told
    BY <1>3, <2>1, <2>2 DEF NextCandidate
  <2> QED
    BY <1>1, <2>3, Unseen
<1> QED
  BY <1>2, <1>3

\* Nor do guardrails and quotes.
LEMMA ChecksRefine ==
  ASSUME PurchaseInv, NEW b \in Buys,
         Guardrails(b) \/ BambooQuote(b) \/ AppRouteEstimate(b) \/ WgcardsChecks(b)
  PROVE  Contract!Next \/ UNCHANGED Contract!vars
<1>1. /\ buy[b].at \in {"guard", "quote"} /\ UNCHANGED <<status, order, stock>>
      /\ Refused(b) \/ (\E l \in {"quote", "record"} : Move(b, l))
  BY DEF Guardrails, BambooQuote, AppRouteEstimate, WgcardsChecks, IsAt, At
<1>2. CASE Refused(b)
  BY <1>1, <1>2, RefusalTold, NothingSaved DEF At
<1>3. ASSUME NEW l \in {"quote", "record"}, Move(b, l)
      PROVE  UNCHANGED Contract!vars
  <2>1. Types /\ l \in States
    BY DEF PurchaseInv, States, Served
  <2>2. \A c \in Buys : buy'[c].saved = buy[c].saved /\ buy'[c].told = buy[c].told
    BY <1>3, <2>1, Moves DEF Delivery
  <2> QED
    BY <1>1, <2>2, Unseen
<1> QED
  BY <1>1, <1>2, <1>3

\* A row is written once for each attempt of a buy that was not answered yet.
LEMMA RecordRefines ==
  ASSUME PurchaseInv, NEW b \in Buys, RecordAttempt(b)
  PROVE  Contract!Next \/ UNCHANGED Contract!vars
<1>1. CASE UNCHANGED status /\ Refused(b)
  BY <1>1, RefusalTold, NothingSaved DEF RecordAttempt, At
<1>2. CASE status' = [status EXCEPT ![Attempt(b)] = "pending"] /\ Move(b, "order")
  <2>1. /\ Types /\ "order" \in States /\ buy[b].at = "record"
        /\ Answered(b) /\ Placed(b) /\ UNCHANGED <<order, stock>>
    BY DEF PurchaseInv, BuyInv, States, Served, RecordAttempt, At
  <2>2. /\ Attempt(b) \in Buys \X Suppliers /\ Attempt(b)[1] = b
        /\ status[Attempt(b)] = "none" /\ buy[b].told = "nothing"
    BY <2>1 DEF Types, Served, Attempt, Placed, Fresh, Answered, At
  <2>3. \A c \in Buys : buy'[c].saved = buy[c].saved /\ buy'[c].told = buy[c].told
    BY <1>2, <2>1, Moves DEF Delivery
  <2>4. Contract!Record(Attempt(b))
    BY <1>2, <2>1, <2>2, <2>3 DEF Contract!Record
  <2> QED
    BY <2>2, <2>4 DEF Contract!Next
<1> QED
  BY <1>1, <1>2 DEF RecordAttempt

\* An order is placed for an attempt on record that has none.
LEMMA OrderRefines ==
  ASSUME PurchaseInv, NEW b \in Buys, BambooCheckout(b) \/ AppRouteOrder(b) \/ WgcardsOrder(b)
  PROVE  Contract!Next \/ UNCHANGED Contract!vars
<1>1. /\ At(b, "order") /\ Types /\ Placed(b) /\ UNCHANGED <<status, stock>>
      /\ OrderTaken(b) \/ (/\ Closing(b, "failed")
                           /\ order' \in {order, [order EXCEPT ![Attempt(b)] = "open"]})
      /\ "poll" \in States /\ "failed" \in Verdicts
  BY DEF BambooCheckout, AppRouteOrder, WgcardsOrder, OrderErred, IsAt, PurchaseInv, BuyInv,
     States, Served, Verdicts
<1>2. \A c \in Buys : buy'[c].saved = buy[c].saved /\ buy'[c].told = buy[c].told
  BY <1>1, Moves, Closes DEF OrderTaken, Delivery
<1>3. CASE order' = order
  BY <1>1, <1>2, <1>3, Unseen
<1>4. CASE order' = [order EXCEPT ![Attempt(b)] = "open"]
  <2>1. PICK a \in Buys \X Suppliers : a = Attempt(b)
    BY <1>1 DEF Types, Served, At, Attempt
  <2>2. a \in Attempts /\ status[a] = "pending" /\ order[a] = "none"
    BY <1>1, <2>1 DEF At, Attempts, Placed
  <2>3. {x \in Attempts : order'[x] # "none"} = {x \in Attempts : order[x] # "none"} \union {a}
    BY <1>1, <1>4, <2>1, <2>2 DEF Types
  <2>4. /\ [c \in Buys |-> buy'[c].saved] = [c \in Buys |-> buy[c].saved]
        /\ [c \in Buys |-> buy'[c].told] = [c \in Buys |-> buy[c].told]
    BY <1>2
  <2>5. a \notin {x \in Attempts : order[x] # "none"}
    BY <2>2
  <2>6. Contract!Place(a)
    BY <1>1, <2>2, <2>3, <2>4, <2>5 DEF Contract!Place
  <2> QED
    BY <2>6 DEF Contract!Next
<1> QED
  BY <1>1, <1>3, <1>4 DEF OrderTaken

\* Saving a code is the step of the contract that stocks it.
LEMMA SaveRefines ==
  ASSUME PurchaseInv, NEW b \in Buys, SaveCode(b)
  PROVE  Contract!Next \/ UNCHANGED Contract!vars
<1>1. /\ Types /\ Placed(b) /\ buy[b] \in Locals /\ buy \in [Buys -> Locals]
      /\ buy[b].at = "save" /\ UNCHANGED <<status, order>>
  BY DEF PurchaseInv, BuyInv, SaveCode, Types, At
<1>2. PICK code \in buy[b].left :
        \/ /\ stock' = stock \union {code}
           /\ buy' = [buy EXCEPT ![b].left = @ \ {code}, ![b].saved = @ \union {code}]
        \/ /\ stock' = stock
           /\ buy' = [buy EXCEPT ![b].left = @ \ {code}, ![b].lost = @ \union {code}]
  BY DEF SaveCode
<1>3. CASE /\ stock' = stock \union {code}
           /\ buy' = [buy EXCEPT ![b].left = @ \ {code}, ![b].saved = @ \union {code}]
  <2>1. /\ Attempt(b) \in Attempts /\ Attempt(b)[1] = b
        /\ status[Attempt(b)] = "pending" /\ order[Attempt(b)] # "none"
    BY <1>1 DEF Types, Served, At, Attempt, Attempts, Placed
  <2>2. /\ \A c \in Buys : buy'[c].told = buy[c].told
        /\ \A c \in Buys \ {b} : buy'[c].saved = buy[c].saved
        /\ buy'[b].saved = buy[b].saved \union {code}
    BY <1>1, <1>3 DEF Locals
  <2>3. code \in Codes
    BY <1>1, <1>2 DEF Locals
  <2>4. /\ [c \in Buys |-> buy'[c].saved] =
             [[c \in Buys |-> buy[c].saved] EXCEPT ![Attempt(b)[1]] = @ \union {code}]
        /\ [c \in Buys |-> buy'[c].told] = [c \in Buys |-> buy[c].told]
    BY <2>1, <2>2
  <2>5. Contract!Save(Attempt(b), code)
    BY <1>1, <1>3, <2>1, <2>4 DEF Contract!Save
  <2> QED
    BY <2>1, <2>3, <2>5 DEF Contract!Next, Attempts
<1>4. CASE /\ stock' = stock
           /\ buy' = [buy EXCEPT ![b].left = @ \ {code}, ![b].lost = @ \union {code}]
  <2>1. \A c \in Buys : buy'[c].saved = buy[c].saved /\ buy'[c].told = buy[c].told
    BY <1>1, <1>4 DEF Locals
  <2> QED
    BY <1>1, <1>4, <2>1, Unseen
<1> QED
  BY <1>2, <1>3, <1>4

\* An attempt is closed once, and in anything but failure only with an order.
LEMMA FinalizeRefines ==
  ASSUME PurchaseInv, NEW b \in Buys, Finalize(b)
  PROVE  Contract!Next \/ UNCHANGED Contract!vars
<1>1. /\ Types /\ Placed(b) /\ buy[b] \in Locals /\ "ended" \in States
      /\ buy[b].at = "close" /\ UNCHANGED <<order, stock>>
  BY DEF PurchaseInv, BuyInv, Finalize, Types, At, States, Served
<1>2. \A c \in Buys : buy'[c].saved = buy[c].saved /\ buy'[c].told = buy[c].told
  BY <1>1, Moves DEF Finalize, Delivery
<1>3. CASE UNCHANGED status
  BY <1>1, <1>2, <1>3, Unseen
<1>4. CASE status' = [status EXCEPT ![Attempt(b)] = buy[b].verdict]
  <2>1. /\ Attempt(b) \in Attempts /\ status[Attempt(b)] = "pending"
        /\ buy[b].verdict \in Contract!Verdicts
        /\ buy[b].verdict # "failed" => order[Attempt(b)] # "none"
    BY <1>1 DEF Types, Served, At, Attempt, Attempts, Placed, Locals, Verdicts, Contract!Verdicts
  <2>2. Contract!Close(Attempt(b), buy[b].verdict)
    BY <1>1, <1>2, <1>4, <2>1 DEF Contract!Close
  <2> QED
    BY <2>1, <2>2 DEF Contract!Next, Attempts
<1> QED
  BY <1>3, <1>4 DEF Finalize

\* The answer to the buyer is the one the contract gives.
LEMMA ConcludeRefines ==
  ASSUME PurchaseInv, NEW b \in Buys, Conclude(b)
  PROVE  Contract!Next \/ UNCHANGED Contract!vars
<1>1. /\ Types /\ Answered(b) /\ At(b, "ended") /\ ~ At(b, "done") /\ "bought" \in Answers
      /\ UNCHANGED <<status, order, stock>>
  BY DEF PurchaseInv, BuyInv, Conclude, At, Answers
<1>2. CASE buy[b].saved = {}
  BY <1>1, <1>2, RefusalTold DEF Conclude
<1>3. CASE buy[b].saved # {}
  <2>1. /\ \A c \in Buys \ {b} : buy'[c] = buy[c]
        /\ buy'[b].told = "bought" /\ buy'[b].saved = buy[b].saved
        /\ buy[b].told = "nothing"
    BY <1>1, <1>3, Tells DEF Conclude, Delivery, Answered
  <2>2. Contract!Tell(b)
    BY <1>1, <1>3, <2>1 DEF Contract!Tell
  <2> QED
    BY <2>2 DEF Contract!Next
<1> QED
  BY <1>2, <1>3

\* Every purchase keeps the contract: an order is placed only under an attempt on
\* record, an attempt is closed once, and "bought" is told only for keys in the stock.
THEOREM PurchaseRefines == Spec => ContractKept
<1>1. Init => Contract!Init
  BY DEF Init, Idle, Attempts, Contract!Init
<1>2. PurchaseInv /\ [Next]_vars => [Contract!Next]_(Contract!vars)
  <2> SUFFICES ASSUME PurchaseInv, [Next]_vars
               PROVE  Contract!Next \/ UNCHANGED Contract!vars
    OBVIOUS
  <2>1. ASSUME NEW b \in Buys, Buying(b)
        PROVE  Contract!Next \/ UNCHANGED Contract!vars
    BY <2>1, QuietSteps, CandidateRefines, ChecksRefine, RecordRefines, OrderRefines, SaveRefines,
       FinalizeRefines, ConcludeRefines DEF Buying
  <2>2. ASSUME NEW a \in Attempts, Complete(a)
        PROVE  UNCHANGED Contract!vars
    <3>1. UNCHANGED <<status, stock, buy>>
      BY <2>2 DEF Complete
    <3>2. \A x \in Attempts : order'[x] # "none" <=> order[x] # "none"
      BY <2>2, CompleteKeeps
    <3> QED
      BY <3>1, <3>2, Unseen
  <2>3. CASE Forbid \/ UNCHANGED vars
    BY <2>3, Unseen DEF Forbid, vars
  <2> QED
    BY <2>1, <2>2, <2>3 DEF Next
<1> QED
  BY <1>1, <1>2, PurchaseInvariant, PTL DEF Spec, ContractKept, Contract!Spec
===============================================================================
