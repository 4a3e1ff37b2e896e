---------------------------- MODULE PaymentProofs ----------------------------
(***************************************************************************)
(* What Payment promises of money, entitlements and coupons, proved for    *)
(* any number of buyers, orders, coupons and handlers, either gateway and  *)
(* Redis failing or not.                                                   *)
(*                                                                         *)
(* No property is inductive.  That an order is paid only with money taken  *)
(* rests on what each handler found out before it came to its write: a     *)
(* notification, a query or a refund carries that knowledge from one await *)
(* to the next.  So the invariant says what a handler knows at each await  *)
(* (Knows), and a step of one handler leaves the others what they know,    *)
(* because no step takes back what was paid, who placed an order, or whose *)
(* an entitlement is (Kept), and because of the two row locks (Alone).     *)
(***************************************************************************)
EXTENDS Payment, FiniteSetTheorems, SequenceTheorems, TLAPS

Exists(o) == order[o].status # "none"

(* The buyer of o holds the product, or had a refund for it taken up.      *)
Covered(o) ==
  \/ Holds(order[o].buyer)
  \/ \E p \in OrderId : order[p].buyer = order[o].buyer /\ bill[p] \in TakenUp

AtAnOrder == {"lapse", "relapse", "setKey", "prepay", "paying", "settle", "credit", "query",
              "refunding", "gateway", "rollback", "revoke"}
ForABuyer == {"find", "refind", "lapse", "relapse", "lock", "insert", "setKey",
              "claim", "spend", "give"}
Refunding == {"refunding", "gateway", "rollback"}

Knows(w) ==
  LET r == req[w] IN
  /\ r.pc \in ForABuyer => r.buyer \in Buyers
  /\ r.pc \in AtAnOrder => r.order \in OrderId
  /\ r.pc \in AtAnOrder \ {"settle"} => Exists(r.order)
  /\ r.pc \in Refunding \cup {"settle", "credit", "revoke"} => bill[r.order] \in Taken
  /\ r.pc = "revoke" => bill[r.order] \in TakenUp
  /\ r.pc \in Refunding => Covered(r.order)
  /\ r.pc = "credit" /\ r.held => Covered(r.order)
  /\ r.pc = "credit" /\ ~r.held => ActiveFrom(r.order) = {}
  /\ r.pc \in {"claim", "spend"} => r.code \in Coupons
  /\ r.pc = "spend" => coupon[r.code] = None
  /\ r.pc = "close" => \A o \in r.rows : Exists(o)

(* The row of an order is locked by one handler, that of a coupon too.     *)
Alone ==
  \A v, w \in Workers : v # w =>
    /\ ~ (At(v, "credit") /\ At(w, "credit") /\ req[v].order = req[w].order)
    /\ ~ (At(v, "spend") /\ At(w, "spend") /\ req[v].code = req[w].code)

Orders ==
  \A o \in OrderId :
    /\ IF Exists(o) THEN order[o].buyer \in Buyers ELSE order[o].buyer = None
    /\ order[o].status = "refunded" => bill[o] \in TakenUp /\ ActiveFrom(o) = {}
    /\ order[o].status \in {"paid", "refunding"} => bill[o] \in Taken
    /\ order[o].status = "paid" => Covered(o)
    /\ deployment.gateway = "free" => bill[o] # "prepaid"

Grants ==
  \A k \in DOMAIN entitlement :
    LET e == entitlement[k] IN
    /\ e.source \in OrderId =>
         bill[e.source] \in Taken /\ Exists(e.source) /\ order[e.source].buyer = e.buyer
    /\ e.source \in Coupons => coupon[e.source] = e.buyer

OneActive == \A o \in OrderId : \A j, k \in ActiveFrom(o) : j = k

PaymentInv ==
  TypeOK /\ Orders /\ Grants /\ OneActive /\ Alone /\ \A w \in Workers : Knows(w)

-----------------------------------------------------------------------------
(* What no step takes back.                                                *)
Kept ==
  /\ \A o \in OrderId : Exists(o) => Exists(o)' /\ order'[o].buyer = order[o].buyer
  /\ \A o \in OrderId : bill[o] \in Taken => bill'[o] \in Taken
  /\ \A o \in OrderId : bill[o] \in TakenUp => bill'[o] \in TakenUp
  /\ \A k \in DOMAIN entitlement :
       /\ k \in DOMAIN entitlement'
       /\ entitlement'[k].buyer = entitlement[k].buyer
       /\ entitlement'[k].source = entitlement[k].source
       /\ entitlement'[k].active => entitlement[k].active
       /\ entitlement[k].active => \/ entitlement'[k].active
                                  \/ /\ entitlement[k].source \in OrderId
                                     /\ bill[entitlement[k].source] \in TakenUp

(* Whoever was covered stays so: an entitlement ends only by a refund of   *)
(* the order it came from.                                                 *)
LEMMA CoveredKept ==
  ASSUME PaymentInv, Kept, NEW o \in OrderId, Exists(o), Covered(o)
  PROVE  Covered(o)'
<1>1. order'[o].buyer = order[o].buyer /\ order[o].buyer # None
  BY PaymentAssumption DEF Kept, PaymentInv, Orders
<1>2. CASE Holds(order[o].buyer)
  <2>1. PICK k \in DOMAIN entitlement :
          entitlement[k].buyer = order[o].buyer /\ entitlement[k].active
    BY <1>2 DEF Holds
  <2>2. CASE entitlement'[k].active
    BY <1>1, <2>1, <2>2 DEF Kept, Covered, Holds
  <2>3. CASE entitlement[k].source \in OrderId /\ bill[entitlement[k].source] \in TakenUp
    <3> DEFINE p == entitlement[k].source
    <3>1. p \in OrderId /\ bill'[p] \in TakenUp
      BY <2>3 DEF Kept
    <3>2. order'[p].buyer = order'[o].buyer
      BY <1>1, <2>1, <2>3 DEF Kept, PaymentInv, Grants
    <3> QED
      BY <3>1, <3>2 DEF Covered
  <2> QED
    BY <2>1, <2>2, <2>3 DEF Kept
<1>3. ASSUME NEW p \in OrderId, order[p].buyer = order[o].buyer, bill[p] \in TakenUp
      PROVE  Covered(o)'
  <2>1. order'[p].buyer = order'[o].buyer /\ bill'[p] \in TakenUp
    BY <1>1, <1>3 DEF Kept, PaymentInv, Orders
  <2> QED
    BY <2>1 DEF Covered
<1> QED
  BY <1>2, <1>3 DEF Covered

(* A handler that does not move knows what it knew, if nobody wrote under  *)
(* the lock it holds.                                                      *)
LEMMA KnowsKept ==
  ASSUME PaymentInv, Kept, NEW v \in Workers, req'[v] = req[v],
         At(v, "credit") => ActiveFrom(req[v].order)' \subseteq ActiveFrom(req[v].order),
         At(v, "spend") => coupon'[req[v].code] = coupon[req[v].code]
  PROVE  Knows(v)'
<1> DEFINE r == req[v]
<1>1. Knows(v) /\ req'[v] = r /\ r \in Request
  BY DEF PaymentInv, TypeOK
<1>2. r.pc \in AtAnOrder \ {"settle"} => Exists(r.order)'
  BY <1>1 DEF Knows, Kept, AtAnOrder
<1>3. /\ r.pc \in Refunding => Covered(r.order)'
      /\ r.pc = "credit" /\ r.held => Covered(r.order)'
  BY <1>1, CoveredKept DEF Knows, AtAnOrder, Refunding
<1>4. /\ r.pc \in Refunding \cup {"settle", "credit", "revoke"} => bill'[r.order] \in Taken
      /\ r.pc = "revoke" => bill'[r.order] \in TakenUp
  BY <1>1 DEF Knows, Kept, AtAnOrder, Refunding
<1>5. r.pc = "close" => \A o \in r.rows : Exists(o)'
  BY <1>1 DEF Knows, Kept, Request
<1> QED
  BY <1>1, <1>2, <1>3, <1>4, <1>5 DEF Knows, At

(* A step of w keeps the invariant if its tables are in order, w knows     *)
(* what it should afterwards, and no other handler holds the lock under    *)
(* which it wrote or has now.                                              *)
LEMMA OneMoves ==
  ASSUME PaymentInv, TypeOK', Kept, Orders', Grants', OneActive',
         NEW w \in Workers, Knows(w)', \A v \in Workers \ {w} : req'[v] = req[v],
         \A o \in OrderId : ActiveFrom(o)' \subseteq ActiveFrom(o)
                           \/ \A v \in Workers \ {w} : ~ (At(v, "credit") /\ req[v].order = o),
         \A c \in Coupons : coupon'[c] = coupon[c]
                           \/ \A v \in Workers \ {w} : ~ (At(v, "spend") /\ req[v].code = c),
         \A v \in Workers \ {w} :
           /\ ~ (At(w, "credit")' /\ At(v, "credit") /\ req[v].order = req'[w].order)
           /\ ~ (At(w, "spend")' /\ At(v, "spend") /\ req[v].code = req'[w].code)
  PROVE  PaymentInv'
<1>1. ASSUME NEW v \in Workers \ {w}
      PROVE  Knows(v)'
  <2>1. Knows(v) /\ req'[v] = req[v]
    BY DEF PaymentInv
  <2>2. At(v, "credit") => ActiveFrom(req[v].order)' \subseteq ActiveFrom(req[v].order)
    BY <2>1 DEF Knows, At, AtAnOrder, ActiveFrom
  <2>3. At(v, "spend") => coupon'[req[v].code] = coupon[req[v].code]
    BY <2>1 DEF Knows, At
  <2> QED
    BY <2>1, <2>2, <2>3, KnowsKept
<1>2. Alone'
  BY DEF Alone, At, PaymentInv
<1> QED
  BY <1>1, <1>2 DEF PaymentInv

(* A step of no handler.                                                   *)
LEMMA NoneMoves ==
  ASSUME PaymentInv, TypeOK', Kept, Orders', Grants', OneActive', UNCHANGED req,
         \A o \in OrderId : ActiveFrom(o)' \subseteq ActiveFrom(o), UNCHANGED coupon
  PROVE  PaymentInv'
<1>1. ASSUME NEW v \in Workers
      PROVE  Knows(v)'
  <2>1. Knows(v) /\ req'[v] = req[v]
    BY DEF PaymentInv
  <2>2. At(v, "credit") => ActiveFrom(req[v].order)' \subseteq ActiveFrom(req[v].order)
    BY <2>1 DEF Knows, At, AtAnOrder, ActiveFrom
  <2> QED
    BY <2>1, <2>2, KnowsKept
<1>2. Alone'
  BY DEF Alone, At, PaymentInv
<1> QED
  BY <1>1, <1>2 DEF PaymentInv

-----------------------------------------------------------------------------
(* Steps that only read the tables.                                        *)
LEMMA IdleIs ==
  /\ Idle \in Request /\ Idle.pc = "idle" /\ Idle.buyer = None /\ Idle.order = None
  /\ Idle.code = None /\ Idle.held = FALSE /\ Idle.rows = {}
BY DEF Idle, Request, Steps

ledger == <<deployment, order, bill, entitlement, coupon>>

LEMMA TablesSame ==
  ASSUME PaymentInv, UNCHANGED ledger
  PROVE  /\ Kept /\ Orders' /\ Grants' /\ OneActive'
         /\ \A o \in OrderId : ActiveFrom(o)' = ActiveFrom(o)
         /\ \A o \in OrderId : Covered(o)' = Covered(o) /\ Exists(o)' = Exists(o)
<1>1. UNCHANGED <<deployment, order, bill, entitlement, coupon>>
  BY DEF ledger
<1>2. Kept
  BY <1>1 DEF Kept, Exists
<1>3. \A o \in OrderId : ActiveFrom(o)' = ActiveFrom(o) /\ Exists(o)' = Exists(o)
  BY <1>1 DEF ActiveFrom, Exists
<1>4. \A o \in OrderId : Covered(o)' = Covered(o)
  BY <1>1 DEF Covered, Holds
<1>5. Orders' /\ Grants' /\ OneActive'
  BY <1>1, <1>3, <1>4 DEF Orders, Grants, OneActive, PaymentInv, Exists
<1> QED
  BY <1>2, <1>3, <1>4, <1>5

LEMMA OnlyReads ==
  ASSUME PaymentInv, UNCHANGED ledger, reuseKey' \in SUBSET Buyers,
         NEW w \in Workers, NEW r \in Request, req' = [req EXCEPT ![w] = r], Knows(w)',
         r.pc = "credit" => Unlocked(r.order), r.pc = "spend" => ~ Claimed(r.code)
  PROVE  PaymentInv'
<1>1. TypeOK' /\ req'[w] = r /\ \A v \in Workers \ {w} : req'[v] = req[v]
  BY DEF PaymentInv, TypeOK, ledger
<1>2. \A v \in Workers \ {w} :
        /\ ~ (At(w, "credit")' /\ At(v, "credit") /\ req[v].order = req'[w].order)
        /\ ~ (At(w, "spend")' /\ At(v, "spend") /\ req[v].code = req'[w].code)
  BY <1>1 DEF At, Unlocked, Claimed
<1>3. \A c \in Coupons : coupon'[c] = coupon[c]
  BY DEF ledger
<1> QED
  BY <1>1, <1>2, <1>3, TablesSame, OneMoves

LEMMA ReturnKeeps ==
  ASSUME PaymentInv, UNCHANGED <<tables, deployment>>, NEW w \in Workers, Return(w)
  PROVE  PaymentInv'
<1>1. req' = [req EXCEPT ![w] = Idle] /\ req'[w] = Idle
  BY DEF Return, PaymentInv, TypeOK
<1>2. Knows(w)'
  BY <1>1, IdleIs DEF Knows, ForABuyer, AtAnOrder, Refunding
<1>3. UNCHANGED ledger /\ reuseKey' \in SUBSET Buyers
  BY DEF tables, ledger, PaymentInv, TypeOK
<1> QED
  BY <1>1, <1>2, <1>3, IdleIs, OnlyReads, Zenon

LEMMA ReceiveKeeps ==
  ASSUME PaymentInv, UNCHANGED deployment, NEW w \in Workers, Receive(w)
  PROVE  PaymentInv'
<1>1. UNCHANGED <<tables, ledger>> /\ reuseKey' \in SUBSET Buyers
  BY Zenon DEF Receive, StartCreate, StartGrant, StartRedeem, StartNotify, StartRecover, StartRefund,
         StartCloseOverdue, tables, ledger, PaymentInv, TypeOK
<1>2. deployment.buyers \subseteq Buyers /\ deployment.coupons \subseteq Coupons
  BY PaymentAssumption DEF PaymentInv, TypeOK, Deployment
<1> USE DEF Request, Steps
<1>3. ASSUME NEW b \in deployment.buyers, StartCreate(w, b) \/ StartGrant(w, b)
      PROVE  PaymentInv'
  <2>1. PICK pc \in {"find", "give"} : req' = [req EXCEPT ![w] = [Idle EXCEPT !.pc = pc, !.buyer = b]]
    BY <1>3 DEF StartCreate, StartGrant, Start
  <2> DEFINE r == [Idle EXCEPT !.pc = pc, !.buyer = b]
  <2>2. r \in Request /\ r.pc = pc /\ r.buyer = b
    BY <1>2, IdleIs
  <2>3. req' = [req EXCEPT ![w] = r] /\ req'[w] = r
    BY <2>1 DEF PaymentInv, TypeOK
  <2> HIDE DEF r
  <2>4. Knows(w)'
    BY <1>2, <2>2, <2>3 DEF Knows, ForABuyer, AtAnOrder, Refunding
  <2> QED
    BY <1>1, <2>2, <2>3, <2>4, OnlyReads
<1>4. ASSUME NEW b \in deployment.buyers, NEW c \in deployment.coupons, StartRedeem(w, b, c)
      PROVE  PaymentInv'
  <2> DEFINE r == [Idle EXCEPT !.pc = "claim", !.buyer = b, !.code = c]
  <2>1. r \in Request /\ r.pc = "claim" /\ r.buyer = b /\ r.code = c
    BY <1>2, IdleIs
  <2>2. req' = [req EXCEPT ![w] = r] /\ req'[w] = r
    BY <1>4 DEF StartRedeem, Start, PaymentInv, TypeOK
  <2> HIDE DEF r
  <2>3. Knows(w)'
    BY <1>2, <2>1, <2>2 DEF Knows, ForABuyer, AtAnOrder, Refunding
  <2> QED
    BY <1>1, <2>1, <2>2, <2>3, OnlyReads
<1>5. ASSUME NEW o \in OrderId, StartNotify(w, o) \/ StartRecover(w, o) \/ StartRefund(w, o)
      PROVE  PaymentInv'
  <2>1. PICK pc \in {"settle", "query", "refunding"} :
          /\ req' = [req EXCEPT ![w] = [Idle EXCEPT !.pc = pc, !.order = o]]
          /\ pc = "settle" => bill[o] \in Taken
          /\ pc = "query" => Exists(o)
          /\ pc = "refunding" => order[o].status = "paid"
    BY <1>5 DEF StartNotify, StartRecover, StartRefund, Start, Taken, Exists
  <2> DEFINE r == [Idle EXCEPT !.pc = pc, !.order = o]
  <2>2. r \in Request /\ r.pc = pc /\ r.order = o
    BY IdleIs
  <2>3. req' = [req EXCEPT ![w] = r] /\ req'[w] = r
    BY <2>1 DEF PaymentInv, TypeOK
  <2>4. pc = "refunding" => Exists(o) /\ bill[o] \in Taken /\ Covered(o)
    BY <2>1 DEF PaymentInv, Orders, Exists
  <2>5. bill'[o] = bill[o] /\ Exists(o)' = Exists(o) /\ Covered(o)' = Covered(o)
    BY <1>1, TablesSame DEF tables
  <2> HIDE DEF r
  <2>6. Knows(w)'
    BY <2>1, <2>2, <2>3, <2>4, <2>5 DEF Knows, ForABuyer, AtAnOrder, Refunding
  <2> QED
    BY <1>1, <2>2, <2>3, <2>6, OnlyReads
<1>6. CASE StartCloseOverdue(w)
  <2> DEFINE rows == {o \in OrderId : order[o].status \in Open /\ order[o].due}
             r == [Idle EXCEPT !.pc = "close", !.rows = rows]
  <2>1. r \in Request /\ r.pc = "close" /\ r.rows = rows
    BY IdleIs
  <2>2. req' = [req EXCEPT ![w] = r] /\ req'[w] = r
    BY <1>6 DEF StartCloseOverdue, Start, PaymentInv, TypeOK
  <2>3. \A o \in rows : Exists(o)'
    BY <1>1, TablesSame DEF Open, Exists
  <2> HIDE DEF r
  <2>4. Knows(w)'
    BY <2>1, <2>2, <2>3 DEF Knows, ForABuyer, AtAnOrder, Refunding
  <2> QED
    BY <1>1, <2>1, <2>2, <2>4, OnlyReads
<1> QED
  BY <1>3, <1>4, <1>5, <1>6 DEF Receive

(* create: what it finds, and the key it takes.                            *)
LEMMA FindOpenOrderKeeps ==
  ASSUME PaymentInv, UNCHANGED deployment, NEW w \in Workers,
         NEW pc \in {"find", "refind"}, NEW lapse \in {"lapse", "relapse"},
         NEW absent \in {"lock", "insert"}, FindOpenOrder(w, pc, lapse, absent)
  PROVE  PaymentInv'
<1> DEFINE q == req[w]
<1>1. q \in Request /\ q.pc = pc /\ q.buyer \in Buyers
  BY DEF PaymentInv, TypeOK, FindOpenOrder, At, Knows, ForABuyer
<1>2. UNCHANGED ledger /\ reuseKey' \in SUBSET Buyers
  BY DEF FindOpenOrder, tables, ledger, PaymentInv, TypeOK
<1>3. CASE req' = [req EXCEPT ![w].pc = absent]
  <2> DEFINE r == [q EXCEPT !.pc = absent]
  <2>1. r \in Request /\ r.pc = absent /\ r.buyer = q.buyer
    BY <1>1 DEF Request, Steps
  <2>2. req' = [req EXCEPT ![w] = r] /\ req'[w] = r
    BY <1>3 DEF PaymentInv, TypeOK
  <2> HIDE DEF q, r
  <2>3. Knows(w)'
    BY <1>1, <2>1, <2>2 DEF Knows, ForABuyer, AtAnOrder, Refunding
  <2> QED
    BY <1>2, <2>1, <2>2, <2>3, OnlyReads
<1>4. ASSUME NEW o \in OpenOrders(q.buyer), NEW to \in {lapse, "prepay"},
             req' = [req EXCEPT ![w].order = o, ![w].pc = to]
      PROVE  PaymentInv'
  <2> DEFINE r == [q EXCEPT !.order = o, !.pc = to]
  <2>1. r \in Request /\ r.pc = to /\ r.buyer = q.buyer /\ r.order = o
    BY <1>1 DEF Request, Steps, OpenOrders
  <2>2. req' = [req EXCEPT ![w] = r] /\ req'[w] = r
    BY <1>4 DEF PaymentInv, TypeOK
  <2>3. o \in OrderId /\ Exists(o)'
    BY <1>2, TablesSame DEF OpenOrders, Open, Exists
  <2> HIDE DEF q, r
  <2>4. Knows(w)'
    BY <1>1, <2>1, <2>2, <2>3 DEF Knows, ForABuyer, AtAnOrder, Refunding
  <2> QED
    BY <1>2, <2>1, <2>2, <2>4, OnlyReads
<1> QED
  BY <1>3, <1>4 DEF FindOpenOrder, Goto

LEMMA TakeReuseKeyKeeps ==
  ASSUME PaymentInv, UNCHANGED deployment, NEW w \in Workers, TakeReuseKey(w)
  PROVE  PaymentInv'
<1> DEFINE q == req[w]
<1>1. q \in Request /\ q.pc = "lock" /\ q.buyer \in Buyers
  BY DEF PaymentInv, TypeOK, TakeReuseKey, At, Knows, ForABuyer
<1>2. UNCHANGED ledger /\ reuseKey' \in SUBSET Buyers
  BY <1>1 DEF TakeReuseKey, ledger, PaymentInv, TypeOK
<1>3. PICK pc \in {"insert", "refind"} : req' = [req EXCEPT ![w].pc = pc]
  BY DEF TakeReuseKey, Goto
<1> DEFINE r == [q EXCEPT !.pc = pc]
<1>4. r \in Request /\ r.pc = pc /\ r.buyer = q.buyer
  BY <1>1 DEF Request, Steps
<1>5. req' = [req EXCEPT ![w] = r] /\ req'[w] = r
  BY <1>3 DEF PaymentInv, TypeOK
<1> HIDE DEF q, r
<1>6. Knows(w)'
  BY <1>1, <1>4, <1>5 DEF Knows, ForABuyer, AtAnOrder, Refunding
<1> QED
  BY <1>2, <1>4, <1>5, <1>6, OnlyReads

LEMMA SetReuseKeyKeeps ==
  ASSUME PaymentInv, UNCHANGED deployment, NEW w \in Workers, SetReuseKey(w)
  PROVE  PaymentInv'
<1> DEFINE q == req[w]  r == [q EXCEPT !.pc = "prepay"]
<1>1. /\ q \in Request /\ q.pc = "setKey" /\ q.buyer \in Buyers
      /\ q.order \in OrderId /\ Exists(q.order)
  BY DEF PaymentInv, TypeOK, SetReuseKey, At, Knows, AtAnOrder, ForABuyer
<1>2. UNCHANGED ledger /\ reuseKey' \in SUBSET Buyers
  BY <1>1 DEF SetReuseKey, ledger, PaymentInv, TypeOK
<1>3. r \in Request /\ r.pc = "prepay" /\ r.order = q.order
  BY <1>1 DEF Request, Steps
<1>4. req' = [req EXCEPT ![w] = r] /\ req'[w] = r
  BY DEF SetReuseKey, Goto, PaymentInv, TypeOK
<1> HIDE DEF q, r
<1>5. Knows(w)'
  BY <1>1, <1>2, <1>3, <1>4, TablesSame DEF Knows, ForABuyer, AtAnOrder, Refunding
<1> QED
  BY <1>2, <1>3, <1>4, <1>5, OnlyReads

(* A payment asked for again, under the lock of its row.                   *)
LEMMA QueryOrderKeeps ==
  ASSUME PaymentInv, UNCHANGED deployment, NEW w \in Workers, QueryOrder(w)
  PROVE  PaymentInv'
<1> DEFINE q == req[w]  r == [q EXCEPT !.pc = "settle"]
<1>1. q \in Request /\ q.order \in OrderId
  BY DEF PaymentInv, TypeOK, QueryOrder, At, Knows, AtAnOrder
<1>2. UNCHANGED <<tables, ledger>> /\ reuseKey' \in SUBSET Buyers
  BY DEF QueryOrder, tables, ledger, PaymentInv, TypeOK
<1>3. CASE Return(w)
  BY <1>2, <1>3, ReturnKeeps DEF ledger
<1>4. CASE bill[q.order] \in {"success", "reversing"} /\ Goto(w, "settle")
  <2>1. r \in Request /\ r.pc = "settle" /\ r.order = q.order
    BY <1>1 DEF Request, Steps
  <2>2. req' = [req EXCEPT ![w] = r] /\ req'[w] = r
    BY <1>4 DEF Goto, PaymentInv, TypeOK
  <2>3. bill'[q.order] \in Taken
    BY <1>2, <1>4 DEF tables, Taken
  <2> HIDE DEF q, r
  <2>4. Knows(w)'
    BY <1>1, <2>1, <2>2, <2>3 DEF Knows, ForABuyer, AtAnOrder, Refunding
  <2> QED
    BY <1>2, <2>1, <2>2, <2>4, OnlyReads
<1> QED
  BY <1>3, <1>4 DEF QueryOrder

LEMMA SettleKeeps ==
  ASSUME PaymentInv, UNCHANGED deployment, NEW w \in Workers, Settle(w)
  PROVE  PaymentInv'
<1>0. PICK o \in OrderId : req[w].order = o
  BY DEF PaymentInv, Settle, At, Knows, AtAnOrder
<1> DEFINE q == req[w]  held == Holds(order[o].buyer)
           r == [q EXCEPT !.pc = "credit", !.held = held]
<1>1. q \in Request /\ q.order = o /\ Exists(o) /\ bill[o] \in Taken /\ Unlocked(o)
  BY <1>0 DEF PaymentInv, TypeOK, Settle, At, Knows, Exists
<1>2. UNCHANGED <<tables, ledger>> /\ reuseKey' \in SUBSET Buyers
  BY DEF Settle, tables, ledger, PaymentInv, TypeOK
<1>3. CASE Return(w)
  BY <1>2, <1>3, ReturnKeeps DEF ledger
<1>4. CASE req' = [req EXCEPT ![w].pc = "credit", ![w].held = held]
  <2>1. held \in BOOLEAN
    BY DEF Holds
  <2>2. r \in Request /\ r.pc = "credit" /\ r.order = o /\ r.held = held
    BY <1>1, <2>1 DEF Request, Steps
  <2>3. req' = [req EXCEPT ![w] = r] /\ req'[w] = r
    BY <1>4 DEF PaymentInv, TypeOK
  <2>4. /\ held => Covered(o)
        /\ ~ held => ActiveFrom(o) = {}
    BY <1>1 DEF Covered, Holds, ActiveFrom, PaymentInv, Grants
  <2>5. bill'[o] \in Taken /\ Exists(o)' /\ Covered(o)' = Covered(o)
        /\ ActiveFrom(o)' = ActiveFrom(o)
    BY <1>1, <1>2, TablesSame DEF tables
  <2> HIDE DEF q, r, held
  <2>6. Knows(w)'
    BY <1>1, <2>2, <2>3, <2>4, <2>5 DEF Knows, ForABuyer, AtAnOrder, Refunding
  <2> QED
    BY <1>1, <1>2, <2>2, <2>3, <2>6, OnlyReads
<1> QED
  BY <1>0, <1>3, <1>4 DEF Settle

LEMMA ClaimCouponKeeps ==
  ASSUME PaymentInv, UNCHANGED deployment, NEW w \in Workers, ClaimCoupon(w)
  PROVE  PaymentInv'
<1> DEFINE q == req[w]  held == Holds(q.buyer)
           r == [q EXCEPT !.pc = "spend", !.held = held]
<1>1. q \in Request /\ q.code \in Coupons /\ q.buyer \in Buyers /\ ~ Claimed(q.code)
  BY DEF PaymentInv, TypeOK, ClaimCoupon, At, Knows, ForABuyer
<1>2. UNCHANGED <<tables, ledger>> /\ reuseKey' \in SUBSET Buyers
  BY DEF ClaimCoupon, tables, ledger, PaymentInv, TypeOK
<1>3. CASE Return(w)
  BY <1>2, <1>3, ReturnKeeps DEF ledger
<1>4. CASE coupon[q.code] = None /\ req' = [req EXCEPT ![w].pc = "spend", ![w].held = held]
  <2>1. held \in BOOLEAN
    BY DEF Holds
  <2>2. r \in Request /\ r.pc = "spend" /\ r.code = q.code /\ r.buyer = q.buyer
    BY <1>1, <2>1 DEF Request, Steps
  <2>3. req' = [req EXCEPT ![w] = r] /\ req'[w] = r
    BY <1>4 DEF PaymentInv, TypeOK
  <2>4. coupon'[q.code] = None
    BY <1>2, <1>4 DEF tables
  <2> HIDE DEF q, r, held
  <2>5. Knows(w)'
    BY <1>1, <2>2, <2>3, <2>4 DEF Knows, ForABuyer, AtAnOrder, Refunding
  <2> QED
    BY <1>1, <1>2, <2>2, <2>3, <2>5, OnlyReads
<1> QED
  BY <1>3, <1>4 DEF ClaimCoupon

-----------------------------------------------------------------------------
(* Writes to orders that leave money and entitlements alone: a status is   *)
(* moved, to "paid" or "refunding" only by one who knows of the money.     *)
LEMMA OrdersMove ==
  ASSUME PaymentInv, UNCHANGED <<deployment, bill, entitlement, coupon>>,
         order' \in [OrderId -> Order],
         \A p \in OrderId : Exists(p) => Exists(p)' /\ order'[p].buyer = order[p].buyer,
         \A p \in OrderId : IF Exists(p)' THEN order'[p].buyer \in Buyers
                                          ELSE order'[p].buyer = None,
         \A p \in OrderId :
           \/ order'[p].status = order[p].status
           \/ order'[p].status \in {"created", "paying", "closed"}
           \/ order'[p].status = "refunding" /\ bill[p] \in Taken
           \/ order'[p].status = "paid" /\ bill[p] \in Taken /\ Exists(p) /\ Covered(p)
  PROVE  /\ Kept /\ Orders' /\ Grants' /\ OneActive'
         /\ \A o \in OrderId : ActiveFrom(o)' = ActiveFrom(o)
<1>1. Kept
  BY DEF Kept
<1>2. \A o \in OrderId : ActiveFrom(o)' = ActiveFrom(o)
  BY DEF ActiveFrom
<1>3. \A p \in OrderId : Exists(p) /\ Covered(p) => Covered(p)'
  BY <1>1, CoveredKept
<1>4. ASSUME NEW p \in OrderId
      PROVE  /\ order'[p].status = "refunded" => bill'[p] \in TakenUp /\ ActiveFrom(p)' = {}
             /\ order'[p].status \in {"paid", "refunding"} => bill'[p] \in Taken
             /\ order'[p].status = "paid" => Covered(p)'
             /\ deployment'.gateway = "free" => bill'[p] # "prepaid"
  BY <1>2, <1>3 DEF PaymentInv, Orders, Exists
<1>5. Orders'
  BY <1>4 DEF Orders
<1>6. Grants' /\ OneActive'
  BY <1>2 DEF PaymentInv, Grants, OneActive
<1> QED
  BY <1>1, <1>2, <1>5, <1>6

LEMMA SetStatusMoves ==
  ASSUME PaymentInv, UNCHANGED <<deployment, bill, entitlement, coupon>>,
         NEW o \in OrderId, Exists(o), NEW status \in OrderStatus \ {"refunded"},
         status \in {"paid", "refunding"} => bill[o] \in Taken,
         status = "paid" => Covered(o), SetStatus(o, status)
  PROVE  /\ Kept /\ Orders' /\ Grants' /\ OneActive'
         /\ order' \in [OrderId -> Order]
         /\ \A p \in OrderId : ActiveFrom(p)' = ActiveFrom(p)
<1>1. order \in [OrderId -> Order] /\ order' = [order EXCEPT ![o].status = status]
  BY DEF PaymentInv, TypeOK, SetStatus
<1>2. \A p \in OrderId : order'[p].status = IF p = o THEN status ELSE order[p].status
  BY <1>1 DEF Order
<1>3. \A p \in OrderId : order'[p].buyer = order[p].buyer
  BY <1>1 DEF Order
<1>4. order' \in [OrderId -> Order]
  BY <1>1 DEF Order
<1>5. \A p \in OrderId : Exists(p)' = Exists(p)
  BY <1>2 DEF Exists, OrderStatus, Open
<1>6. \A p \in OrderId : IF Exists(p) THEN order[p].buyer \in Buyers ELSE order[p].buyer = None
  BY DEF PaymentInv, Orders
<1>7. \A p \in OrderId :
        \/ order'[p].status = order[p].status
        \/ order'[p].status \in {"created", "paying", "closed"}
        \/ order'[p].status = "refunding" /\ bill[p] \in Taken
        \/ order'[p].status = "paid" /\ bill[p] \in Taken /\ Exists(p) /\ Covered(p)
  BY <1>2 DEF OrderStatus, Open
<1> QED
  BY <1>3, <1>4, <1>5, <1>6, <1>7, OrdersMove

(* A handler that writes orders only.                                      *)
LEMMA OrderWriterKeeps ==
  ASSUME PaymentInv, UNCHANGED <<deployment, bill, entitlement, coupon>>,
         reuseKey' \in SUBSET Buyers, order' \in [OrderId -> Order],
         Kept, Orders', Grants', OneActive',
         \A p \in OrderId : ActiveFrom(p)' = ActiveFrom(p),
         NEW w \in Workers, NEW r \in Request, req' = [req EXCEPT ![w] = r], Knows(w)',
         r.pc \notin {"credit", "spend"}
  PROVE  PaymentInv'
<1>1. TypeOK' /\ req'[w] = r /\ \A v \in Workers \ {w} : req'[v] = req[v]
  BY DEF PaymentInv, TypeOK
<1>2. ~ At(w, "credit")' /\ ~ At(w, "spend")'
  BY <1>1 DEF At
<1> QED
  BY <1>1, <1>2, OneMoves

LEMMA CloseFoundKeeps ==
  ASSUME PaymentInv, UNCHANGED deployment, NEW w \in Workers,
         NEW lapse \in {"lapse", "relapse"}, NEW absent \in {"lock", "insert"},
         CloseFound(w, lapse, absent)
  PROVE  PaymentInv'
<1> DEFINE q == req[w]  r == [q EXCEPT !.pc = absent, !.order = None]
<1>1. /\ q \in Request /\ q.pc = lapse /\ q.buyer \in Buyers
      /\ q.order \in OrderId /\ Exists(q.order)
  BY DEF PaymentInv, TypeOK, CloseFound, At, Knows, AtAnOrder, ForABuyer
<1>2. /\ UNCHANGED <<deployment, bill, entitlement, coupon>> /\ reuseKey' \in SUBSET Buyers
      /\ SetStatus(q.order, "closed")
  BY DEF CloseFound, PaymentInv, TypeOK
<1>3. /\ Kept /\ Orders' /\ Grants' /\ OneActive' /\ order' \in [OrderId -> Order]
      /\ \A p \in OrderId : ActiveFrom(p)' = ActiveFrom(p)
  BY <1>1, <1>2, SetStatusMoves DEF OrderStatus
<1>4. r \in Request /\ r.pc = absent /\ r.buyer = q.buyer
  BY <1>1 DEF Request, Steps
<1>5. req' = [req EXCEPT ![w] = r] /\ req'[w] = r
  BY DEF CloseFound, PaymentInv, TypeOK
<1> HIDE DEF q, r
<1>6. Knows(w)'
  BY <1>1, <1>4, <1>5 DEF Knows, ForABuyer, AtAnOrder, Refunding
<1> QED
  BY <1>2, <1>3, <1>4, <1>5, <1>6, OrderWriterKeeps

LEMMA MarkPayingKeeps ==
  ASSUME PaymentInv, UNCHANGED deployment, NEW w \in Workers, MarkPaying(w)
  PROVE  PaymentInv'
<1> DEFINE q == req[w]
<1>1. q.order \in OrderId /\ Exists(q.order)
  BY DEF PaymentInv, MarkPaying, At, Knows, AtAnOrder
<1>2. /\ UNCHANGED <<deployment, bill, entitlement, coupon>> /\ reuseKey' \in SUBSET Buyers
      /\ SetStatus(q.order, "paying")
  BY DEF MarkPaying, PaymentInv, TypeOK
<1>3. /\ Kept /\ Orders' /\ Grants' /\ OneActive' /\ order' \in [OrderId -> Order]
      /\ \A p \in OrderId : ActiveFrom(p)' = ActiveFrom(p)
  BY <1>1, <1>2, SetStatusMoves DEF OrderStatus, Open
<1>4. req' = [req EXCEPT ![w] = Idle] /\ req'[w] = Idle
  BY DEF MarkPaying, Return, PaymentInv, TypeOK
<1>5. Knows(w)'
  BY <1>4, IdleIs DEF Knows, ForABuyer, AtAnOrder, Refunding
<1> QED
  BY <1>2, <1>3, <1>4, <1>5, IdleIs, OrderWriterKeeps

LEMMA MarkRefundingKeeps ==
  ASSUME PaymentInv, UNCHANGED deployment, NEW w \in Workers, MarkRefunding(w)
  PROVE  PaymentInv'
<1>0. PICK o \in OrderId : req[w].order = o
  BY DEF PaymentInv, MarkRefunding, At, Knows, AtAnOrder
<1> DEFINE q == req[w]  r == [q EXCEPT !.pc = "gateway"]
<1>1. q \in Request /\ q.order = o /\ Exists(o) /\ bill[o] \in Taken /\ Covered(o)
  BY <1>0 DEF PaymentInv, TypeOK, MarkRefunding, At, Knows, AtAnOrder, Refunding
<1>2. /\ UNCHANGED <<deployment, bill, entitlement, coupon>> /\ reuseKey' \in SUBSET Buyers
      /\ SetStatus(o, "refunding")
  BY <1>0 DEF MarkRefunding, PaymentInv, TypeOK
<1>3. /\ Kept /\ Orders' /\ Grants' /\ OneActive' /\ order' \in [OrderId -> Order]
      /\ \A p \in OrderId : ActiveFrom(p)' = ActiveFrom(p)
  BY <1>1, <1>2, SetStatusMoves DEF OrderStatus
<1>4. r \in Request /\ r.pc = "gateway" /\ r.order = o
  BY <1>1 DEF Request, Steps
<1>5. req' = [req EXCEPT ![w] = r] /\ req'[w] = r
  BY DEF MarkRefunding, Goto, PaymentInv, TypeOK
<1>6. Exists(o)' /\ bill'[o] \in Taken /\ Covered(o)'
  BY <1>1, <1>2, <1>3, CoveredKept DEF Kept
<1> HIDE DEF q, r
<1>7. Knows(w)'
  BY <1>4, <1>5, <1>6 DEF Knows, ForABuyer, AtAnOrder, Refunding
<1> QED
  BY <1>2, <1>3, <1>4, <1>5, <1>7, OrderWriterKeeps

LEMMA RollBackRefundKeeps ==
  ASSUME PaymentInv, UNCHANGED deployment, NEW w \in Workers, RollBackRefund(w)
  PROVE  PaymentInv'
<1> DEFINE q == req[w]
<1>1. q.order \in OrderId /\ Exists(q.order) /\ bill[q.order] \in Taken /\ Covered(q.order)
  BY DEF PaymentInv, RollBackRefund, At, Knows, AtAnOrder, Refunding
<1>2. /\ UNCHANGED <<deployment, bill, entitlement, coupon>> /\ reuseKey' \in SUBSET Buyers
      /\ SetStatus(q.order, "paid")
  BY DEF RollBackRefund, PaymentInv, TypeOK
<1>3. /\ Kept /\ Orders' /\ Grants' /\ OneActive' /\ order' \in [OrderId -> Order]
      /\ \A p \in OrderId : ActiveFrom(p)' = ActiveFrom(p)
  BY <1>1, <1>2, SetStatusMoves DEF OrderStatus
<1>4. req' = [req EXCEPT ![w] = Idle] /\ req'[w] = Idle
  BY DEF RollBackRefund, Return, PaymentInv, TypeOK
<1>5. Knows(w)'
  BY <1>4, IdleIs DEF Knows, ForABuyer, AtAnOrder, Refunding
<1> QED
  BY <1>2, <1>3, <1>4, <1>5, IdleIs, OrderWriterKeeps

LEMMA InsertOrderKeeps ==
  ASSUME PaymentInv, UNCHANGED deployment, NEW w \in Workers, InsertOrder(w)
  PROVE  PaymentInv'
<1>1. deployment.orders \subseteq OrderId
  BY PaymentAssumption DEF PaymentInv, TypeOK, Deployment
<1>2. PICK o \in OrderId :
        /\ order[o].status = "none"
        /\ order' = [order EXCEPT ![o] = [status |-> "created", buyer |-> req[w].buyer, due |-> FALSE]]
        /\ req' = [req EXCEPT ![w].pc = "setKey", ![w].order = o]
  BY <1>1 DEF InsertOrder
<1> DEFINE q == req[w]  r == [q EXCEPT !.pc = "setKey", !.order = o]
           new == [status |-> "created", buyer |-> q.buyer, due |-> FALSE]
<1>3. q \in Request /\ q.buyer \in Buyers
  BY DEF PaymentInv, TypeOK, InsertOrder, At, Knows, ForABuyer
<1>4. new \in Order
  BY <1>3 DEF Order, OrderStatus, Open
<1>5. /\ UNCHANGED <<deployment, bill, entitlement, coupon>> /\ reuseKey' \in SUBSET Buyers
      /\ order' \in [OrderId -> Order]
  BY <1>2, <1>4 DEF InsertOrder, PaymentInv, TypeOK
<1>6. \A p \in OrderId : order'[p] = IF p = o THEN new ELSE order[p]
  BY <1>2 DEF PaymentInv, TypeOK
<1>7. \A p \in OrderId : Exists(p) => Exists(p)' /\ order'[p].buyer = order[p].buyer
  BY <1>2, <1>6 DEF Exists
<1>8. \A p \in OrderId : IF Exists(p)' THEN order'[p].buyer \in Buyers
                                        ELSE order'[p].buyer = None
  BY <1>3, <1>6 DEF Exists, PaymentInv, Orders
<1>9. \A p \in OrderId :
        order'[p].status = order[p].status \/ order'[p].status \in {"created", "paying", "closed"}
  BY <1>6
<1>10. /\ Kept /\ Orders' /\ Grants' /\ OneActive'
       /\ \A p \in OrderId : ActiveFrom(p)' = ActiveFrom(p)
  BY <1>5, <1>7, <1>8, <1>9, OrdersMove
<1>11. r \in Request /\ r.pc = "setKey" /\ r.order = o /\ r.buyer = q.buyer
  BY <1>3 DEF Request, Steps
<1>12. req' = [req EXCEPT ![w] = r] /\ req'[w] = r
  BY <1>2 DEF PaymentInv, TypeOK
<1>13. Exists(o)'
  BY <1>6 DEF Exists
<1> HIDE DEF q, r
<1>14. Knows(w)'
  BY <1>3, <1>11, <1>12, <1>13 DEF Knows, ForABuyer, AtAnOrder, Refunding
<1> QED
  BY <1>5, <1>10, <1>11, <1>12, <1>14, OrderWriterKeeps

LEMMA CloseOverdueKeeps ==
  ASSUME PaymentInv, UNCHANGED deployment, NEW w \in Workers, CloseOverdue(w)
  PROVE  PaymentInv'
<1> DEFINE rows == req[w].rows
<1>1. /\ order \in [OrderId -> Order] /\ \A o \in rows : Exists(o)
      /\ \A p \in OrderId : IF Exists(p) THEN order[p].buyer \in Buyers ELSE order[p].buyer = None
  BY DEF PaymentInv, TypeOK, CloseOverdue, At, Knows, Orders
<1>2. \A p \in OrderId :
        order'[p] = IF p \in rows THEN [order[p] EXCEPT !.status = "closed"] ELSE order[p]
  BY DEF CloseOverdue
<1>3. \A p \in OrderId :
        /\ order'[p] \in Order /\ order'[p].buyer = order[p].buyer
        /\ order'[p].status = IF p \in rows THEN "closed" ELSE order[p].status
  BY <1>1, <1>2, ZenonT(60) DEF Order, OrderStatus
<1>4. order' \in [OrderId -> Order]
  BY <1>3 DEF CloseOverdue
<1>5. UNCHANGED <<deployment, bill, entitlement, coupon>> /\ reuseKey' \in SUBSET Buyers
  BY DEF CloseOverdue, PaymentInv, TypeOK
<1>6. \A p \in OrderId : Exists(p)' = Exists(p)
  BY <1>1, <1>3 DEF Exists
<1> HIDE DEF rows
<1>7. /\ Kept /\ Orders' /\ Grants' /\ OneActive'
      /\ \A p \in OrderId : ActiveFrom(p)' = ActiveFrom(p)
  BY <1>1, <1>3, <1>4, <1>5, <1>6, OrdersMove
<1>8. req' = [req EXCEPT ![w] = Idle] /\ req'[w] = Idle
  BY DEF CloseOverdue, Return, PaymentInv, TypeOK
<1>9. Knows(w)'
  BY <1>8, IdleIs DEF Knows, ForABuyer, AtAnOrder, Refunding
<1> QED
  BY <1>4, <1>5, <1>7, <1>8, <1>9, IdleIs, OrderWriterKeeps

LEMMA OrderFallsDueKeeps ==
  ASSUME PaymentInv, UNCHANGED deployment, NEW o \in OrderId, OrderFallsDue(o)
  PROVE  PaymentInv'
<1>1. /\ order \in [OrderId -> Order]
      /\ \A p \in OrderId : IF Exists(p) THEN order[p].buyer \in Buyers ELSE order[p].buyer = None
  BY DEF PaymentInv, TypeOK, Orders
<1>2. order' \in [OrderId -> Order]
  BY <1>1 DEF OrderFallsDue, Order
<1>3. \A p \in OrderId : order'[p].status = order[p].status /\ order'[p].buyer = order[p].buyer
  BY <1>1 DEF OrderFallsDue, Order
<1>4. UNCHANGED <<deployment, bill, entitlement, coupon, reuseKey, req>>
  BY DEF OrderFallsDue
<1>5. \A p \in OrderId : Exists(p)' = Exists(p)
  BY <1>3 DEF Exists
<1>6. /\ Kept /\ Orders' /\ Grants' /\ OneActive'
      /\ \A p \in OrderId : ActiveFrom(p)' = ActiveFrom(p)
  BY <1>1, <1>2, <1>3, <1>4, <1>5, OrdersMove
<1>7. TypeOK'
  BY <1>2, <1>4 DEF PaymentInv, TypeOK
<1> QED
  BY <1>4, <1>6, <1>7, NoneMoves

LEMMA ReuseKeyExpiresKeeps ==
  ASSUME PaymentInv, UNCHANGED deployment, NEW b \in Buyers, ReuseKeyExpires(b)
  PROVE  PaymentInv'
<1>1. UNCHANGED ledger /\ UNCHANGED <<coupon, req>> /\ TypeOK'
  BY DEF ReuseKeyExpires, ledger, PaymentInv, TypeOK
<1> QED
  BY <1>1, TablesSame, NoneMoves

-----------------------------------------------------------------------------
(* What happens at the gateway: money comes once, and goes back at most once*)
LEMMA BillMoves ==
  ASSUME PaymentInv, UNCHANGED <<deployment, order, entitlement, coupon>>,
         bill' \in [OrderId -> BillState],
         \A p \in OrderId : bill[p] \in Taken => bill'[p] \in Taken,
         \A p \in OrderId : bill[p] \in TakenUp => bill'[p] \in TakenUp,
         deployment.gateway = "free" => \A p \in OrderId : bill'[p] # "prepaid"
  PROVE  /\ Kept /\ Orders' /\ Grants' /\ OneActive'
         /\ \A o \in OrderId : ActiveFrom(o)' = ActiveFrom(o)
<1>2. Kept
  BY DEF Kept, Exists
<1>3. \A o \in OrderId : ActiveFrom(o)' = ActiveFrom(o) /\ Exists(o)' = Exists(o)
  BY DEF ActiveFrom, Exists
<1>4. \A p \in OrderId : Exists(p) /\ Covered(p) => Covered(p)'
  BY <1>2, CoveredKept
<1>5. ASSUME NEW p \in OrderId
      PROVE  /\ order'[p].status = "refunded" => bill'[p] \in TakenUp /\ ActiveFrom(p)' = {}
             /\ order'[p].status \in {"paid", "refunding"} => bill'[p] \in Taken
             /\ order'[p].status = "paid" => Covered(p)'
             /\ deployment'.gateway = "free" => bill'[p] # "prepaid"
             /\ IF Exists(p)' THEN order'[p].buyer \in Buyers ELSE order'[p].buyer = None
  BY <1>3, <1>4 DEF PaymentInv, Orders, Exists
<1>6. Orders'
  BY <1>5 DEF Orders
<1>7. Grants' /\ OneActive'
  BY <1>3 DEF PaymentInv, Grants, OneActive, Exists
<1> QED
  BY <1>2, <1>3, <1>6, <1>7

LEMMA BillWriterKeeps ==
  ASSUME PaymentInv, UNCHANGED <<deployment, order, entitlement, coupon, reuseKey>>,
         bill' \in [OrderId -> BillState], Kept, Orders', Grants', OneActive',
         \A p \in OrderId : ActiveFrom(p)' = ActiveFrom(p),
         NEW w \in Workers, NEW r \in Request, req' = [req EXCEPT ![w] = r], Knows(w)',
         r.pc \notin {"credit", "spend"}
  PROVE  PaymentInv'
<1>1. TypeOK' /\ req'[w] = r /\ \A v \in Workers \ {w} : req'[v] = req[v]
  BY DEF PaymentInv, TypeOK
<1>2. ~ At(w, "credit")' /\ ~ At(w, "spend")'
  BY <1>1 DEF At
<1> QED
  BY <1>1, <1>2, OneMoves

LEMMA PrepayKeeps ==
  ASSUME PaymentInv, UNCHANGED deployment, NEW w \in Workers, Prepay(w)
  PROVE  PaymentInv'
<1>0. PICK o \in OrderId : req[w].order = o
  BY DEF PaymentInv, Prepay, At, Knows, AtAnOrder
<1> DEFINE q == req[w]
<1>1. q \in Request /\ q.order = o /\ Exists(o) /\ bill \in [OrderId -> BillState]
  BY <1>0 DEF PaymentInv, TypeOK, Prepay, At, Knows, AtAnOrder
<1>2. PICK pc \in {"settle", "paying"} :
        /\ req' = [req EXCEPT ![w].pc = pc]
        /\ IF pc = "settle"
           THEN /\ deployment.gateway = "free"
                /\ bill' = [bill EXCEPT ![o] = IF @ = "none" THEN "success" ELSE @]
           ELSE /\ deployment.gateway # "free" /\ bill[o] \in {"none", "prepaid"}
                /\ bill' = [bill EXCEPT ![o] = "prepaid"]
  BY <1>0 DEF Prepay, Goto
<1> DEFINE r == [q EXCEPT !.pc = pc]
<1>3. UNCHANGED <<deployment, order, entitlement, coupon, reuseKey>>
  BY DEF Prepay
<1>4. bill' \in [OrderId -> BillState]
  BY <1>1, <1>2 DEF BillState
<1>5. pc = "settle" => bill'[o] \in Taken
  BY <1>1, <1>2 DEF PaymentInv, Orders, BillState, Taken
<1>6. /\ \A p \in OrderId : bill[p] \in Taken => bill'[p] = bill[p]
      /\ deployment.gateway = "free" => \A p \in OrderId : bill'[p] # "prepaid"
  BY <1>1, <1>2 DEF Taken, PaymentInv, Orders
<1>7. /\ Kept /\ Orders' /\ Grants' /\ OneActive'
      /\ \A p \in OrderId : ActiveFrom(p)' = ActiveFrom(p)
  BY <1>3, <1>4, <1>6, BillMoves DEF Taken, TakenUp
<1>8. r \in Request /\ r.pc = pc /\ r.order = o
  BY <1>1 DEF Request, Steps
<1>9. req' = [req EXCEPT ![w] = r] /\ req'[w] = r
  BY <1>2 DEF PaymentInv, TypeOK
<1>10. Exists(o)'
  BY <1>1, <1>7 DEF Kept
<1> HIDE DEF q, r
<1>11. Knows(w)'
  BY <1>5, <1>8, <1>9, <1>10 DEF Knows, ForABuyer, AtAnOrder, Refunding
<1> QED
  BY <1>3, <1>4, <1>7, <1>8, <1>9, <1>11, BillWriterKeeps

LEMMA GatewayRefundKeeps ==
  ASSUME PaymentInv, UNCHANGED deployment, NEW w \in Workers, GatewayRefund(w)
  PROVE  PaymentInv'
<1>0. PICK o \in OrderId : req[w].order = o
  BY DEF PaymentInv, GatewayRefund, At, Knows, AtAnOrder
<1> DEFINE q == req[w]
<1>1. /\ q \in Request /\ q.order = o /\ bill \in [OrderId -> BillState]
      /\ Exists(o) /\ bill[o] \in Taken /\ Covered(o)
  BY <1>0 DEF PaymentInv, TypeOK, GatewayRefund, At, Knows, AtAnOrder, Refunding
<1>2. PICK pc \in {"revoke", "rollback"} :
        /\ req' = [req EXCEPT ![w].pc = pc]
        /\ \/ \E state \in TakenUp : bill' = [bill EXCEPT ![o] = state]
           \/ pc = "rollback" /\ bill' = bill
  BY <1>0 DEF GatewayRefund, AfterRefund, TakenUp, Goto
<1> DEFINE r == [q EXCEPT !.pc = pc]
<1>3. UNCHANGED <<deployment, order, entitlement, coupon, reuseKey>>
  BY DEF GatewayRefund
<1>4. bill' \in [OrderId -> BillState] /\ bill'[o] \in Taken /\ (pc = "revoke" => bill'[o] \in TakenUp)
  BY <1>1, <1>2 DEF BillState, Taken, TakenUp
<1>5. \A p \in OrderId : bill'[p] = bill[p] \/ (p = o /\ bill'[p] \in TakenUp)
  BY <1>1, <1>2
<1>6. /\ Kept /\ Orders' /\ Grants' /\ OneActive'
      /\ \A p \in OrderId : ActiveFrom(p)' = ActiveFrom(p)
  BY <1>3, <1>4, <1>5, BillMoves DEF PaymentInv, Orders, Taken, TakenUp
<1>7. r \in Request /\ r.pc = pc /\ r.order = o
  BY <1>1 DEF Request, Steps
<1>8. req' = [req EXCEPT ![w] = r] /\ req'[w] = r
  BY <1>2 DEF PaymentInv, TypeOK
<1>9. Exists(o)' /\ Covered(o)'
  BY <1>1, <1>6, CoveredKept DEF Kept
<1> HIDE DEF q, r
<1>10. Knows(w)'
  BY <1>4, <1>7, <1>8, <1>9 DEF Knows, ForABuyer, AtAnOrder, Refunding
<1> QED
  BY <1>3, <1>4, <1>6, <1>7, <1>8, <1>10, BillWriterKeeps

LEMMA BuyerPaysKeeps ==
  ASSUME PaymentInv, UNCHANGED deployment, NEW o \in OrderId, BuyerPays(o)
  PROVE  PaymentInv'
<1>1. UNCHANGED <<deployment, order, entitlement, coupon, reuseKey, req>>
  BY DEF BuyerPays
<1>2. bill' \in [OrderId -> BillState]
  BY DEF BuyerPays, PaymentInv, TypeOK, BillState
<1>3. \A p \in OrderId : bill'[p] = bill[p] \/ (bill'[p] = "success" /\ bill[p] = "prepaid")
  BY DEF BuyerPays, PaymentInv, TypeOK
<1>4. /\ Kept /\ Orders' /\ Grants' /\ OneActive'
      /\ \A p \in OrderId : ActiveFrom(p)' = ActiveFrom(p)
  BY <1>1, <1>2, <1>3, BillMoves DEF Taken, TakenUp, PaymentInv, Orders
<1>5. TypeOK'
  BY <1>1, <1>2 DEF PaymentInv, TypeOK
<1> QED
  BY <1>1, <1>4, <1>5, NoneMoves

LEMMA MoneyReturnsKeeps ==
  ASSUME PaymentInv, UNCHANGED deployment, NEW o \in OrderId, MoneyReturns(o)
  PROVE  PaymentInv'
<1>1. UNCHANGED <<deployment, order, entitlement, coupon, reuseKey, req>>
  BY DEF MoneyReturns
<1>2. bill' \in [OrderId -> BillState]
  BY DEF MoneyReturns, PaymentInv, TypeOK, BillState
<1>3. \A p \in OrderId : bill'[p] = bill[p] \/ (bill'[p] = "returned" /\ bill[p] = "reversing")
  BY DEF MoneyReturns, PaymentInv, TypeOK
<1>4. /\ Kept /\ Orders' /\ Grants' /\ OneActive'
      /\ \A p \in OrderId : ActiveFrom(p)' = ActiveFrom(p)
  BY <1>1, <1>2, <1>3, BillMoves DEF Taken, TakenUp, PaymentInv, Orders
<1>5. TypeOK'
  BY <1>1, <1>2 DEF PaymentInv, TypeOK
<1> QED
  BY <1>1, <1>4, <1>5, NoneMoves

-----------------------------------------------------------------------------
(* The transactions that write entitlements.                               *)

(* A grant leaves every row as it is and adds at most one.                 *)
LEMMA GrantAdds ==
  ASSUME PaymentInv, NEW b \in Buyers, NEW source \in Source, NEW held \in BOOLEAN,
         Grant(b, source, held)
  PROVE  /\ entitlement' \in Seq(Entitlement)
         /\ \A k \in DOMAIN entitlement : k \in DOMAIN entitlement' /\ entitlement'[k] = entitlement[k]
         /\ \A k \in DOMAIN entitlement' :
              \/ k \in DOMAIN entitlement
              \/ /\ ~ held /\ k = Len(entitlement) + 1
                 /\ entitlement'[k] = [buyer |-> b, source |-> source, active |-> TRUE]
         /\ ~ held => \E k \in DOMAIN entitlement' :
                        /\ k = Len(entitlement) + 1
                        /\ entitlement'[k] = [buyer |-> b, source |-> source, active |-> TRUE]
<1> DEFINE e == [buyer |-> b, source |-> source, active |-> TRUE]
<1>1. entitlement \in Seq(Entitlement) /\ e \in Entitlement
  BY DEF PaymentInv, TypeOK, Entitlement
<1>2. CASE held
  BY <1>1, <1>2 DEF Grant
<1>3. CASE ~ held
  <2>1. entitlement' = Append(entitlement, e)
    BY <1>3 DEF Grant
  <2> HIDE DEF e
  <2>2. /\ entitlement' \in Seq(Entitlement) /\ Len(entitlement') = Len(entitlement) + 1
        /\ Len(entitlement) \in Nat
        /\ \A k \in 1 .. Len(entitlement) : entitlement'[k] = entitlement[k]
        /\ entitlement'[Len(entitlement) + 1] = e
    BY <1>1, <2>1, AppendProperties, LenProperties
  <2>3. DOMAIN entitlement = 1 .. Len(entitlement) /\ DOMAIN entitlement' = 1 .. Len(entitlement')
    BY <1>1, <2>2, LenProperties
  <2> QED
    BY <1>3, <2>2, <2>3 DEF e
<1> QED
  BY <1>2, <1>3

(* So it keeps what is kept, and only its own source may gain an active    *)
(* entitlement.                                                            *)
LEMMA GrantKeepsRows ==
  ASSUME PaymentInv, NEW b \in Buyers, NEW source \in Source, NEW held \in BOOLEAN,
         Grant(b, source, held), UNCHANGED bill,
         \A o \in OrderId : Exists(o) => Exists(o)' /\ order'[o].buyer = order[o].buyer
  PROVE  /\ Kept
         /\ \A o \in OrderId : o # source \/ held => ActiveFrom(o)' = ActiveFrom(o)
         /\ ~ held => Holds(b)'
         /\ \A o \in OrderId : ActiveFrom(o)' \subseteq ActiveFrom(o) \cup {Len(entitlement) + 1}
<1>1. Kept
  BY GrantAdds DEF Kept
<1>2. \A o \in OrderId : o # source \/ held => ActiveFrom(o)' = ActiveFrom(o)
  BY GrantAdds DEF ActiveFrom
<1>3. ~ held => Holds(b)'
  BY GrantAdds DEF Holds
<1>4. \A o \in OrderId : ActiveFrom(o)' \subseteq ActiveFrom(o) \cup {Len(entitlement) + 1}
  BY GrantAdds DEF ActiveFrom
<1> QED
  BY <1>1, <1>2, <1>3, <1>4

LEMMA CommitSettleKeeps ==
  ASSUME PaymentInv, UNCHANGED deployment, NEW w \in Workers, CommitSettle(w)
  PROVE  PaymentInv'
<1>0. PICK o \in OrderId, held \in BOOLEAN, b \in Buyers :
        req[w].order = o /\ req[w].held = held /\ order[o].buyer = b
  BY DEF PaymentInv, TypeOK, Request, Orders, CommitSettle, At, Knows, AtAnOrder
<1>1. /\ Exists(o) /\ bill[o] \in Taken
      /\ held => Covered(o)
      /\ ~ held => ActiveFrom(o) = {}
  BY <1>0 DEF PaymentInv, CommitSettle, At, Knows, AtAnOrder, Refunding
<1>2. /\ UNCHANGED <<deployment, bill, coupon, reuseKey>> /\ Grant(b, o, held)
      /\ order' = [order EXCEPT ![o].status = "paid"] /\ order \in [OrderId -> Order]
      /\ req' = [req EXCEPT ![w] = Idle] /\ req'[w] = Idle
  BY <1>0 DEF CommitSettle, Return, PaymentInv, TypeOK
<1>3. /\ order' \in [OrderId -> Order]
      /\ \A p \in OrderId : /\ order'[p].status = IF p = o THEN "paid" ELSE order[p].status
                            /\ order'[p].buyer = order[p].buyer
  BY <1>2 DEF Order, OrderStatus
<1>4. \A p \in OrderId : Exists(p)' = Exists(p)
  BY <1>1, <1>3 DEF Exists
<1>5. o \in Source /\ o \notin Coupons
  BY PaymentAssumption DEF Source
<1>6. /\ Kept /\ (~ held => Holds(b)')
      /\ \A p \in OrderId : p # o \/ held => ActiveFrom(p)' = ActiveFrom(p)
      /\ \A p \in OrderId : ActiveFrom(p)' \subseteq ActiveFrom(p) \cup {Len(entitlement) + 1}
  BY <1>2, <1>3, <1>4, <1>5, GrantKeepsRows
<1>7. Covered(o)'
  BY <1>0, <1>1, <1>3, <1>6, CoveredKept DEF Covered
<1>8. ASSUME NEW p \in OrderId
      PROVE  /\ IF Exists(p)' THEN order'[p].buyer \in Buyers ELSE order'[p].buyer = None
             /\ order'[p].status = "refunded" => bill'[p] \in TakenUp /\ ActiveFrom(p)' = {}
             /\ order'[p].status \in {"paid", "refunding"} => bill'[p] \in Taken
             /\ order'[p].status = "paid" => Covered(p)'
             /\ deployment'.gateway = "free" => bill'[p] # "prepaid"
  <2>1. CASE p = o
    BY <1>1, <1>2, <1>3, <1>4, <1>7, <2>1 DEF PaymentInv, Orders
  <2>2. CASE p # o
    <3>1. order'[p].status = order[p].status /\ ActiveFrom(p)' = ActiveFrom(p) /\ bill'[p] = bill[p]
      BY <1>2, <1>3, <1>6, <2>2
    <3>2. order[p].status = "paid" => Covered(p)'
      BY <1>6, CoveredKept DEF PaymentInv, Orders, Exists
    <3> QED
      BY <1>2, <1>3, <1>4, <3>1, <3>2 DEF PaymentInv, Orders
  <2> QED
    BY <2>1, <2>2
<1>9. Orders'
  BY <1>8 DEF Orders
<1>10. Grants'
  <2>1. entitlement' \in Seq(Entitlement)
    BY <1>2, <1>5, GrantAdds
  <2>2. ASSUME NEW k \in DOMAIN entitlement'
        PROVE  LET e == entitlement'[k] IN
               /\ e.source \in OrderId =>
                    /\ bill'[e.source] \in Taken /\ order'[e.source].status # "none"
                    /\ order'[e.source].buyer = e.buyer
               /\ e.source \in Coupons => coupon'[e.source] = e.buyer
    <3>1. CASE k \in DOMAIN entitlement
      BY <1>2, <1>3, <1>5, <3>1, GrantAdds DEF PaymentInv, Grants, Exists
    <3>2. CASE entitlement'[k] = [buyer |-> b, source |-> o, active |-> TRUE]
      BY <1>0, <1>1, <1>2, <1>3, <1>5, <3>2
    <3> QED
      BY <1>2, <1>5, <3>1, <3>2, GrantAdds
  <2> QED
    BY <2>2 DEF Grants, Exists
<1>11. OneActive'
  BY <1>1, <1>6 DEF PaymentInv, OneActive
<1>12. TypeOK'
  BY <1>2, <1>3, <1>5, GrantAdds, IdleIs DEF PaymentInv, TypeOK
<1>13. Knows(w)' /\ ~ At(w, "credit")' /\ ~ At(w, "spend")'
  BY <1>2, IdleIs DEF Knows, ForABuyer, AtAnOrder, Refunding, At
<1>14. \A v \in Workers \ {w} : req'[v] = req[v] /\ ~ (At(v, "credit") /\ req[v].order = o)
  BY <1>0, <1>2 DEF PaymentInv, TypeOK, Alone, CommitSettle
<1>15. \A p \in OrderId : ActiveFrom(p)' \subseteq ActiveFrom(p)
                         \/ \A v \in Workers \ {w} : ~ (At(v, "credit") /\ req[v].order = p)
  BY <1>6, <1>14
<1> QED
  BY <1>2, <1>6, <1>9, <1>10, <1>11, <1>12, <1>13, <1>14, <1>15, OneMoves

(* A revocation changes no row but for ending what came from o.            *)
LEMMA RevokeEnds ==
  ASSUME PaymentInv, NEW o \in OrderId, RevokeBySource(o)
  PROVE  /\ entitlement' \in Seq(Entitlement) /\ DOMAIN entitlement' = DOMAIN entitlement
         /\ \A k \in DOMAIN entitlement :
              /\ entitlement'[k].buyer = entitlement[k].buyer
              /\ entitlement'[k].source = entitlement[k].source
              /\ entitlement'[k].active = (entitlement[k].source # o /\ entitlement[k].active)
<1>1. entitlement \in Seq(Entitlement)
  BY DEF PaymentInv, TypeOK
<1>2. PICK n \in Nat : entitlement \in [1 .. n -> Entitlement]
  BY <1>1, SeqDef
<1>3. /\ DOMAIN entitlement' = 1 .. n
      /\ \A k \in 1 .. n :
           entitlement'[k] = IF entitlement[k].source = o
                             THEN [entitlement[k] EXCEPT !.active = FALSE] ELSE entitlement[k]
  BY <1>2 DEF RevokeBySource
<1>4. \A k \in 1 .. n :
        /\ entitlement'[k] \in Entitlement
        /\ entitlement'[k].buyer = entitlement[k].buyer
        /\ entitlement'[k].source = entitlement[k].source
        /\ entitlement'[k].active = (entitlement[k].source # o /\ entitlement[k].active)
  BY <1>2, <1>3 DEF Entitlement
<1>5. entitlement' \in [1 .. n -> Entitlement]
  BY <1>2, <1>3, <1>4 DEF RevokeBySource
<1>6. entitlement' \in Seq(Entitlement)
  BY <1>5, SeqDef
<1> QED
  BY <1>2, <1>3, <1>4, <1>6

LEMMA CommitRefundKeeps ==
  ASSUME PaymentInv, UNCHANGED deployment, NEW w \in Workers, CommitRefund(w)
  PROVE  PaymentInv'
<1>0. PICK o \in OrderId : req[w].order = o
  BY DEF PaymentInv, CommitRefund, At, Knows, AtAnOrder
<1>1. Exists(o) /\ bill[o] \in TakenUp /\ Unlocked(o)
  BY <1>0 DEF PaymentInv, CommitRefund, SetStatus, At, Knows, AtAnOrder
<1>2. /\ UNCHANGED <<deployment, bill, coupon, reuseKey>> /\ RevokeBySource(o)
      /\ order' = [order EXCEPT ![o].status = "refunded"] /\ order \in [OrderId -> Order]
      /\ req' = [req EXCEPT ![w] = Idle] /\ req'[w] = Idle
  BY <1>0 DEF CommitRefund, SetStatus, Return, PaymentInv, TypeOK
<1>3. /\ order' \in [OrderId -> Order]
      /\ \A p \in OrderId : /\ order'[p].status = IF p = o THEN "refunded" ELSE order[p].status
                            /\ order'[p].buyer = order[p].buyer
  BY <1>2 DEF Order, OrderStatus
<1>4. \A p \in OrderId : Exists(p)' = Exists(p)
  BY <1>1, <1>3 DEF Exists
<1>5. Kept
  BY <1>1, <1>2, <1>3, <1>4, RevokeEnds DEF Kept
<1>6. /\ ActiveFrom(o)' = {}
      /\ \A p \in OrderId : ActiveFrom(p)' \subseteq ActiveFrom(p)
  BY <1>2, RevokeEnds DEF ActiveFrom
<1>7. ASSUME NEW p \in OrderId
      PROVE  /\ IF Exists(p)' THEN order'[p].buyer \in Buyers ELSE order'[p].buyer = None
             /\ order'[p].status = "refunded" => bill'[p] \in TakenUp /\ ActiveFrom(p)' = {}
             /\ order'[p].status \in {"paid", "refunding"} => bill'[p] \in Taken
             /\ order'[p].status = "paid" => Covered(p)'
             /\ deployment'.gateway = "free" => bill'[p] # "prepaid"
  <2>1. CASE p = o
    BY <1>1, <1>2, <1>3, <1>4, <1>6, <2>1 DEF PaymentInv, Orders
  <2>2. CASE p # o
    <3>1. order'[p].status = order[p].status /\ ActiveFrom(p)' \subseteq ActiveFrom(p)
          /\ bill'[p] = bill[p]
      BY <1>2, <1>3, <1>6, <2>2
    <3>2. order[p].status = "paid" => Covered(p)'
      BY <1>5, CoveredKept DEF PaymentInv, Orders, Exists
    <3> QED
      BY <1>2, <1>3, <1>4, <3>1, <3>2 DEF PaymentInv, Orders
  <2> QED
    BY <2>1, <2>2
<1>8. Orders'
  BY <1>7 DEF Orders
<1>9. Grants'
  <2>1. ASSUME NEW k \in DOMAIN entitlement'
        PROVE  LET e == entitlement'[k] IN
               /\ e.source \in OrderId =>
                    /\ bill'[e.source] \in Taken /\ order'[e.source].status # "none"
                    /\ order'[e.source].buyer = e.buyer
               /\ e.source \in Coupons => coupon'[e.source] = e.buyer
    BY <1>2, <1>3, RevokeEnds DEF PaymentInv, Grants, Exists
  <2> QED
    BY <2>1 DEF Grants, Exists
<1>10. OneActive'
  BY <1>6 DEF PaymentInv, OneActive
<1>11. TypeOK'
  BY <1>2, <1>3, RevokeEnds, IdleIs DEF PaymentInv, TypeOK
<1>12. Knows(w)' /\ ~ At(w, "credit")' /\ ~ At(w, "spend")'
  BY <1>2, IdleIs DEF Knows, ForABuyer, AtAnOrder, Refunding, At
<1>13. \A v \in Workers \ {w} : req'[v] = req[v]
  BY <1>2 DEF PaymentInv, TypeOK
<1> QED
  BY <1>2, <1>5, <1>6, <1>8, <1>9, <1>10, <1>11, <1>12, <1>13, OneMoves

(* An entitlement that comes from no order: only the tables of coupons and *)
(* entitlements change.                                                    *)
LEMMA GrantElsewhere ==
  ASSUME PaymentInv, UNCHANGED <<deployment, order, bill, reuseKey>>,
         coupon' \in [Coupons -> Buyers \cup {None}],
         NEW b \in Buyers, NEW source \in Source \ OrderId, NEW held \in BOOLEAN,
         Grant(b, source, held),
         \A c \in Coupons \ {source} : coupon'[c] = coupon[c],
         source \in Coupons => coupon[source] = None /\ coupon'[source] = b,
         NEW w \in Workers, Return(w),
         \A v \in Workers \ {w} : ~ (At(v, "spend") /\ req[v].code = source)
  PROVE  PaymentInv'
<1>1. /\ \A p \in OrderId : Exists(p)' = Exists(p)
      /\ \A p \in OrderId : order'[p].buyer = order[p].buyer
  BY DEF Exists
<1>2. /\ Kept /\ \A p \in OrderId : ActiveFrom(p)' = ActiveFrom(p)
  BY <1>1, GrantKeepsRows
<1>3. ASSUME NEW p \in OrderId
      PROVE  /\ IF Exists(p)' THEN order'[p].buyer \in Buyers ELSE order'[p].buyer = None
             /\ order'[p].status = "refunded" => bill'[p] \in TakenUp /\ ActiveFrom(p)' = {}
             /\ order'[p].status \in {"paid", "refunding"} => bill'[p] \in Taken
             /\ order'[p].status = "paid" => Covered(p)'
             /\ deployment'.gateway = "free" => bill'[p] # "prepaid"
  <2>1. order[p].status = "paid" => Covered(p)'
    BY <1>2, CoveredKept DEF PaymentInv, Orders, Exists
  <2> QED
    BY <1>1, <1>2, <2>1 DEF PaymentInv, Orders
<1>4. Orders'
  BY <1>3 DEF Orders
<1>5. Grants'
  <2>1. ASSUME NEW k \in DOMAIN entitlement'
        PROVE  LET e == entitlement'[k] IN
               /\ e.source \in OrderId =>
                    /\ bill'[e.source] \in Taken /\ order'[e.source].status # "none"
                    /\ order'[e.source].buyer = e.buyer
               /\ e.source \in Coupons => coupon'[e.source] = e.buyer
    <3>1. CASE k \in DOMAIN entitlement
      <4>1. entitlement'[k] = entitlement[k] /\ entitlement[k].buyer \in Buyers
        <5>1. PICK n \in Nat : entitlement \in [1 .. n -> Entitlement]
          BY SeqDef DEF PaymentInv, TypeOK
        <5>2. entitlement[k] \in Entitlement
          BY <3>1, <5>1
        <5> QED
          BY <3>1, <5>2, GrantAdds DEF Entitlement
      <4>2. entitlement[k].source \in Coupons => entitlement[k].source # source
        BY <3>1, <4>1, PaymentAssumption DEF PaymentInv, Grants
      <4> QED
        BY <3>1, <4>1, <4>2 DEF PaymentInv, Grants, Exists
    <3>2. CASE entitlement'[k] = [buyer |-> b, source |-> source, active |-> TRUE]
      BY <3>2
    <3> QED
      BY <3>1, <3>2, GrantAdds
  <2> QED
    BY <2>1 DEF Grants, Exists
<1>6. OneActive'
  BY <1>2 DEF PaymentInv, OneActive
<1>7. req' = [req EXCEPT ![w] = Idle] /\ req'[w] = Idle /\ \A v \in Workers \ {w} : req'[v] = req[v]
  BY DEF Return, PaymentInv, TypeOK
<1>8. TypeOK'
  BY <1>7, GrantAdds, IdleIs DEF PaymentInv, TypeOK
<1>9. Knows(w)' /\ ~ At(w, "credit")' /\ ~ At(w, "spend")'
  BY <1>7, IdleIs DEF Knows, ForABuyer, AtAnOrder, Refunding, At
<1>10. \A c \in Coupons : coupon'[c] = coupon[c]
                         \/ \A v \in Workers \ {w} : ~ (At(v, "spend") /\ req[v].code = c)
  OBVIOUS
<1> QED
  BY <1>2, <1>4, <1>5, <1>6, <1>7, <1>8, <1>9, <1>10, OneMoves

LEMMA CommitRedeemKeeps ==
  ASSUME PaymentInv, UNCHANGED deployment, NEW w \in Workers, CommitRedeem(w)
  PROVE  PaymentInv'
<1>1. PICK b \in Buyers, c \in Coupons, held \in BOOLEAN :
        req[w].buyer = b /\ req[w].code = c /\ req[w].held = held /\ coupon[c] = None
  BY DEF PaymentInv, TypeOK, Request, CommitRedeem, At, Knows, ForABuyer
<1>2. /\ UNCHANGED <<deployment, order, bill, reuseKey>> /\ Grant(b, c, held) /\ Return(w)
      /\ coupon \in [Coupons -> Buyers \cup {None}] /\ coupon' = [coupon EXCEPT ![c] = b]
  BY <1>1 DEF CommitRedeem, PaymentInv, TypeOK
<1>3. /\ coupon' \in [Coupons -> Buyers \cup {None}] /\ coupon'[c] = b
      /\ \A d \in Coupons \ {c} : coupon'[d] = coupon[d]
  BY <1>2
<1>4. c \in Source \ OrderId
  BY PaymentAssumption DEF Source
<1>5. \A v \in Workers \ {w} : ~ (At(v, "spend") /\ req[v].code = c)
  BY <1>1 DEF PaymentInv, Alone, CommitRedeem
<1> QED
  BY <1>1, <1>2, <1>3, <1>4, <1>5, GrantElsewhere

LEMMA CommitGrantKeeps ==
  ASSUME PaymentInv, UNCHANGED deployment, NEW w \in Workers, CommitGrant(w)
  PROVE  PaymentInv'
<1>1. PICK b \in Buyers, held \in BOOLEAN : req[w].buyer = b /\ req[w].held = held
  BY DEF PaymentInv, TypeOK, Request, CommitGrant, At, Knows, ForABuyer
<1>2. /\ UNCHANGED <<deployment, order, bill, coupon, reuseKey>> /\ Grant(b, None, held) /\ Return(w)
      /\ coupon \in [Coupons -> Buyers \cup {None}]
  BY <1>1 DEF CommitGrant, PaymentInv, TypeOK
<1>3. None \in Source \ OrderId /\ None \notin Coupons
  BY PaymentAssumption DEF Source
<1>4. \A v \in Workers \ {w} : ~ (At(v, "spend") /\ req[v].code = None)
  BY <1>3 DEF PaymentInv, Knows, At
<1> QED
  BY <1>1, <1>2, <1>3, <1>4, GrantElsewhere

-----------------------------------------------------------------------------
(* Every step.                                                             *)
LEMMA ContinueKeeps ==
  ASSUME PaymentInv, UNCHANGED deployment, NEW w \in Workers, Continue(w)
  PROVE  PaymentInv'
<1>1. ASSUME FindOpenOrder(w, "find", "lapse", "lock")
             \/ FindOpenOrder(w, "refind", "relapse", "insert")
      PROVE  PaymentInv'
  BY <1>1, FindOpenOrderKeeps
<1>2. ASSUME CloseFound(w, "lapse", "lock") \/ CloseFound(w, "relapse", "insert")
      PROVE  PaymentInv'
  BY <1>2, CloseFoundKeeps
<1>3. ASSUME TakeReuseKey(w) \/ InsertOrder(w) \/ SetReuseKey(w) \/ Prepay(w) \/ MarkPaying(w)
      PROVE  PaymentInv'
  BY <1>3, TakeReuseKeyKeeps, InsertOrderKeeps, SetReuseKeyKeeps, PrepayKeeps, MarkPayingKeeps
<1>4. ASSUME QueryOrder(w) \/ Settle(w) \/ CommitSettle(w)
      PROVE  PaymentInv'
  BY <1>4, QueryOrderKeeps, SettleKeeps, CommitSettleKeeps
<1>5. ASSUME MarkRefunding(w) \/ GatewayRefund(w) \/ RollBackRefund(w) \/ CommitRefund(w)
      PROVE  PaymentInv'
  BY <1>5, MarkRefundingKeeps, GatewayRefundKeeps, RollBackRefundKeeps, CommitRefundKeeps
<1>6. ASSUME CloseOverdue(w) \/ ClaimCoupon(w) \/ CommitRedeem(w) \/ CommitGrant(w)
      PROVE  PaymentInv'
  BY <1>6, CloseOverdueKeeps, ClaimCouponKeeps, CommitRedeemKeeps, CommitGrantKeeps
<1> QED
  BY <1>1, <1>2, <1>3, <1>4, <1>5, <1>6 DEF Continue

LEMMA NextKeeps ==
  ASSUME PaymentInv, [Next]_vars
  PROVE  PaymentInv'
<1>1. CASE UNCHANGED vars
  <2>1. UNCHANGED <<ledger, tables, req, reuseKey, coupon>> /\ TypeOK'
    BY <1>1 DEF vars, tables, ledger, PaymentInv, TypeOK
  <2> QED
    BY <2>1, TablesSame, NoneMoves
<1>2. ASSUME NEW w \in Workers, Fail(w), UNCHANGED deployment
      PROVE  PaymentInv'
  BY <1>2, ReturnKeeps DEF Fail
<1> QED
  BY <1>1, <1>2, ReceiveKeeps, ContinueKeeps, ReuseKeyExpiresKeeps, OrderFallsDueKeeps,
     BuyerPaysKeeps, MoneyReturnsKeeps DEF Next

LEMMA InitKeeps ==
  ASSUME Init
  PROVE  PaymentInv
<1>1. TypeOK
  <2>1. << >> \in Seq(Entitlement)
    OBVIOUS
  <2>2. order \in [OrderId -> Order] /\ bill \in [OrderId -> BillState]
    BY DEF Init, Order, BillState
  <2>3. req \in [Workers -> Request]
    BY IdleIs DEF Init
  <2> QED
    BY <2>1, <2>2, <2>3 DEF Init, TypeOK
<1>2. entitlement = << >> /\ DOMAIN entitlement = {}
  BY DEF Init
<1>3. \A o \in OrderId : ~ Exists(o) /\ order[o].buyer = None /\ bill[o] = "none" /\ ActiveFrom(o) = {}
  BY <1>2 DEF Init, Exists, ActiveFrom
<1>4. Orders /\ Grants /\ OneActive
  BY <1>2, <1>3 DEF Orders, Grants, OneActive, Exists
<1>5. \A w \in Workers : req[w].pc = "idle"
  BY IdleIs DEF Init
<1>6. Alone /\ \A w \in Workers : Knows(w)
  BY <1>5 DEF Alone, At, Knows, ForABuyer, AtAnOrder, Refunding
<1> QED
  BY <1>1, <1>4, <1>6 DEF PaymentInv

(* The inductive invariant holds in every state of every behaviour.        *)
THEOREM Invariant == Spec => []PaymentInv
<1>1. Init => PaymentInv
  BY InitKeeps
<1>2. PaymentInv /\ [Next]_vars => PaymentInv'
  BY NextKeeps
<1> QED
  BY <1>1, <1>2, PTL DEF Spec

(* Every row and every local variable of a handler has its type: no        *)
(* handler of order.service.ts reaches a write with an id it never read.   *)
THEOREM TypeCorrect == Spec => []TypeOK
<1>1. PaymentInv => TypeOK
  BY DEF PaymentInv
<1> QED
  BY <1>1, Invariant, PTL

(* No order counts as paid or refunding without the gateway having taken   *)
(* the money, nor as refunded without its having taken up the refund,      *)
(* whatever handlers overlap, fail or repeat (settle, recover, refund).    *)
THEOREM StatusesFollowTheGateway == Spec => []StatusFollowsGateway
<1>1. PaymentInv => StatusFollowsGateway
  BY DEF PaymentInv, Orders, StatusFollowsGateway
<1> QED
  BY <1>1, Invariant, PTL

(* Every entitlement names an order that was paid and placed by its owner, *)
(* or a coupon its owner spent, or neither (entitlement.grant's callers).  *)
THEOREM EntitlementsAreBacked == Spec => []BackedEntitlement
<1>1. PaymentInv => BackedEntitlement
  BY DEF PaymentInv, Grants, BackedEntitlement
<1> QED
  BY <1>1, Invariant, PTL

(* A refunded order has no active entitlement: a settle that read the      *)
(* order before the refund marked it still holds the row (refund).         *)
THEOREM RefundsTakeBack == Spec => []RefundTakesBack
<1>1. PaymentInv => RefundTakesBack
  BY DEF PaymentInv, Orders, RefundTakesBack
<1> QED
  BY <1>1, Invariant, PTL

(* Whoever paid holds the product or had a refund taken up (settle skips   *)
(* the grant only for a holder, and revocation names its own order).       *)
THEOREM PaidHaveAccess == Spec => []PaidHasAccess
<1>1. PaymentInv => PaidHasAccess
  BY DEF PaymentInv, Orders, PaidHasAccess, Covered
<1> QED
  BY <1>1, Invariant, PTL

(* An order backs at most one active entitlement, however often it is      *)
(* notified and recovered (settle's lock and grant's lookup).              *)
THEOREM OrdersGrantOnce == Spec => []OneGrantPerOrder
<1>1. ASSUME PaymentInv, NEW o \in OrderId
      PROVE  Cardinality(ActiveFrom(o)) <= 1
  <2>1. CASE ActiveFrom(o) = {}
    BY <2>1, FS_EmptySet
  <2>2. CASE ActiveFrom(o) # {}
    <3>1. PICK k : ActiveFrom(o) = {k}
      BY <1>1, <2>2 DEF PaymentInv, OneActive
    <3> QED
      BY <3>1, FS_Singleton
  <2> QED
    BY <2>1, <2>2
<1>2. PaymentInv => OneGrantPerOrder
  BY <1>1 DEF OneGrantPerOrder
<1> QED
  BY <1>2, Invariant, PTL

(* A spent coupon keeps its user: of two redemptions that found it unused, *)
(* the second waits for the first's row and then gives up (claim).         *)
THEOREM CouponsSpentOnce == Spec => CouponSpentOnce
<1>1. ASSUME PaymentInv, [Next]_vars, NEW c \in Coupons, coupon[c] # None
      PROVE  coupon'[c] = coupon[c]
  <2>1. CASE UNCHANGED coupon
    BY <2>1
  <2>2. ASSUME NEW w \in Workers, CommitRedeem(w)
        PROVE  coupon'[c] = coupon[c]
    BY <1>1, <2>2, SMTT(30) DEF CommitRedeem, PaymentInv, TypeOK, Knows, At
  <2>3. UNCHANGED coupon \/ \E w \in Workers : CommitRedeem(w)
    BY <1>1, ZenonT(60) DEF Next, vars, tables, Receive, Continue, Fail, ReuseKeyExpires, OrderFallsDue,
       BuyerPays, MoneyReturns, StartCreate, StartGrant, StartRedeem, StartNotify, StartRecover, StartRefund,
       StartCloseOverdue, FindOpenOrder, CloseFound, TakeReuseKey, InsertOrder, SetReuseKey,
       Prepay, MarkPaying, QueryOrder, Settle, CommitSettle, MarkRefunding, GatewayRefund,
       RollBackRefund, CommitRefund, CloseOverdue, ClaimCoupon, CommitGrant
  <2> QED
    BY <2>1, <2>2, <2>3
<1>2. PaymentInv /\ [Next]_vars =>
        [\A c \in Coupons : coupon[c] # None => coupon'[c] = coupon[c]]_vars
  BY <1>1
<1> QED
  BY <1>2, Invariant, PTL DEF Spec, CouponSpentOnce
=============================================================================
