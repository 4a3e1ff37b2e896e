------------------------------- MODULE Payment -------------------------------
(***************************************************************************)
(* Orders, entitlements and coupons: order.service.ts, entitlement.service *)
(* and coupon.service of server/src/modules/payment, with the close-overdue*)
(* job.                                                                    *)
(*                                                                         *)
(* Every lookup of the code is keyed by a user and a product together; a   *)
(* Buyer is such a pair.  Amounts are equal throughout: a notification     *)
(* with another amount is refused and changes nothing.  A worker w is one  *)
(* handler in flight, one step per await; a step that stands for a whole   *)
(* transaction says so.  The gateway is external: bill[o] is what it knows *)
(* of order o.                                                             *)
(***************************************************************************)
EXTENDS Naturals, Sequences, FiniteSets

CONSTANTS
  Buyers,    (* Pairs of a user and a product.                              *)
  OrderId,   (* Ids of table order; numbers, the later id being the larger. *)
  Coupons,   (* Codes of table coupon, all for the product of every buyer.  *)
  Workers,   (* Handlers that may be in flight together.                    *)
  Deployments, (* What is deployed, and who uses it; see Deployment.        *)
  None,      (* SQL NULL; as a source, the default of a manual grant.       *)
  MaxRows    (* Bound: rows of table entitlement in this instance.          *)

AllHandlers == {"create", "notify", "recover", "refund", "close", "redeem", "grant"}

(* gateway is PAYMENT_GATEWAY (mock is a drill of wechat, not modelled);   *)
(* calls, buyers, orders and coupons bound what happens.                   *)
Deployment == [gateway : {"free", "wechat"}, redisFails : BOOLEAN, calls : SUBSET AllHandlers,
               buyers : SUBSET Buyers, orders : SUBSET OrderId, coupons : SUBSET Coupons]

ASSUME PaymentAssumption ==
  /\ OrderId \subseteq Nat
  /\ None \notin Buyers \cup OrderId \cup Coupons
  /\ Coupons \cap OrderId = {}
  /\ Deployments \subseteq Deployment
  /\ MaxRows \in Nat

VARIABLES
  deployment,  (* Chosen at the start.                                     *)
  order,       (* Table order.                                             *)
  bill,        (* bill[o]: the gateway's view of order o.                  *)
  entitlement, (* Table entitlement, by id.                                *)
  coupon,      (* coupon[c]: who used it.                                  *)
  reuseKey,    (* Buyers whose reuse key is set in Redis.                  *)
  req          (* req[w]: the handler worker w is running.                 *)

tables == <<order, bill, entitlement, coupon, reuseKey>>
vars == <<deployment, tables, req>>

-----------------------------------------------------------------------------

Open == {"created", "paying"}
OrderStatus == Open \cup {"paid", "closed", "refunding", "refunded"}

(* due stands for expire_at <= now; status "none" is no row.               *)
Order == [status : OrderStatus \cup {"none"}, buyer : Buyers \cup {None}, due : BOOLEAN]

Source == OrderId \cup Coupons \cup {None}
Entitlement == [buyer : Buyers, source : Source, active : BOOLEAN]

(* success: the buyer has paid.  reversing: the gateway has taken a refund *)
(* up, which is under way, stuck or closed; returned: it went through, and *)
(* the buyer has the money back.                                           *)
BillState == {"none", "prepaid", "success", "reversing", "returned"}

(* The buyer has paid; and the gateway has taken a refund up.              *)
Taken    == {"success", "reversing", "returned"}
TakenUp  == {"reversing", "returned"}

Steps == {"idle", "find", "lapse", "lock", "refind", "relapse", "insert", "setKey",
          "prepay", "paying", "settle", "credit", "query", "refunding",
          "gateway", "rollback", "revoke", "close", "claim", "spend", "give"}

(* held is what the handler read of the buyer's entitlements.              *)
Request == [pc    : Steps,
            buyer : Buyers \cup {None},
            order : OrderId \cup {None},
            code  : Coupons \cup {None},
            held  : BOOLEAN,
            rows  : SUBSET OrderId]

Idle == [pc |-> "idle", buyer |-> None, order |-> None, code |-> None,
         held |-> FALSE, rows |-> {}]

TypeOK ==
  /\ deployment  \in Deployments
  /\ order       \in [OrderId -> Order]
  /\ bill        \in [OrderId -> BillState]
  /\ entitlement \in Seq(Entitlement)
  /\ coupon      \in [Coupons -> Buyers \cup {None}]
  /\ reuseKey    \in SUBSET Buyers
  /\ req         \in [Workers -> Request]

Init ==
  /\ deployment \in Deployments
  /\ order = [o \in OrderId |-> [status |-> "none", buyer |-> None, due |-> FALSE]]
  /\ bill = [o \in OrderId |-> "none"]
  /\ entitlement = << >>
  /\ coupon = [c \in Coupons |-> None]
  /\ reuseKey = {}
  /\ req = [w \in Workers |-> Idle]

-----------------------------------------------------------------------------

Start(w, op, r) == req[w] = Idle /\ op \in deployment.calls /\ req' = [req EXCEPT ![w] = r]
At(w, pc) == req[w].pc = pc
Goto(w, pc) == req' = [req EXCEPT ![w].pc = pc]
Return(w) == req' = [req EXCEPT ![w] = Idle]

(* Mutant: the row is read without a lock.                                 *)
UnlockedAlways(o) == o \in OrderId

(* settle holds a pessimistic_write lock on its order row from the moment  *)
(* it has read it until it commits; every other write to the row waits.    *)
Unlocked(o) == \A w \in Workers : ~(At(w, "credit") /\ req[w].order = o)

SetStatus(o, status) ==
  /\ Unlocked(o)
  /\ order' = [order EXCEPT ![o].status = status]

(* entitlement.grant: does the buyer hold an active entitlement ...        *)
Holds(b) == \E k \in DOMAIN entitlement : entitlement[k].buyer = b /\ entitlement[k].active

(* ... and, if the handler saw none, a new row.                            *)
Grant(b, source, held) ==
  IF held THEN UNCHANGED entitlement
  ELSE /\ Len(entitlement) < MaxRows
       /\ entitlement' = Append(entitlement, [buyer |-> b, source |-> source, active |-> TRUE])

(* The handler stops between two awaits; an open transaction rolls back.   *)
Fail(w) ==
  /\ req[w] # Idle
  /\ Return(w)
  /\ UNCHANGED tables

-----------------------------------------------------------------------------
(* create: reuse the open order, else insert one under a Redis key; prepay.*)

StartCreate(w, b) ==
  /\ Start(w, "create", [Idle EXCEPT !.pc = "find", !.buyer = b])
  /\ UNCHANGED tables

OpenOrders(b) == {o \in OrderId : order[o].buyer = b /\ order[o].status \in Open}

(* findOpenOrder: the newest open order, closed instead when it is due.    *)
FindOpenOrder(w, pc, lapse, absent) ==
  LET found == OpenOrders(req[w].buyer) IN
  /\ At(w, pc)
  /\ IF found = {} THEN Goto(w, absent)
     ELSE \E o \in found :
       /\ \A p \in found : p <= o
       /\ req' = [req EXCEPT ![w].order = o,
                             ![w].pc = IF order[o].due THEN lapse ELSE "prepay"]
  /\ UNCHANGED tables

(* Its UPDATE is by id, whatever the status has become.                    *)
CloseFound(w, lapse, absent) ==
  /\ At(w, lapse)
  /\ SetStatus(req[w].order, "closed")
  /\ req' = [req EXCEPT ![w].pc = absent, ![w].order = None]
  /\ UNCHANGED <<bill, entitlement, coupon, reuseKey>>

(* SET NX EX; on an error of Redis the answer is the one for a taken key.  *)
TakeReuseKey(w) ==
  /\ At(w, "lock")
  /\ \/ /\ req[w].buyer \notin reuseKey
        /\ reuseKey' = reuseKey \cup {req[w].buyer}
        /\ Goto(w, "insert")
     \/ /\ req[w].buyer \in reuseKey \/ deployment.redisFails
        /\ Goto(w, "refind")
        /\ UNCHANGED reuseKey
  /\ UNCHANGED <<order, bill, entitlement, coupon>>

InsertOrder(w) ==
  /\ At(w, "insert")
  /\ \E o \in deployment.orders :
       /\ order[o].status = "none"
       /\ \A p \in deployment.orders : order[p].status = "none" => o <= p
       /\ order' = [order EXCEPT ![o] =
            [status |-> "created", buyer |-> req[w].buyer, due |-> FALSE]]
       /\ req' = [req EXCEPT ![w].pc = "setKey", ![w].order = o]
  /\ UNCHANGED <<bill, entitlement, coupon, reuseKey>>

SetReuseKey(w) ==
  /\ At(w, "setKey")
  /\ reuseKey' = reuseKey \cup {req[w].buyer}
  /\ Goto(w, "prepay")
  /\ UNCHANGED <<order, bill, entitlement, coupon>>

(* The free gateway settles at once; WeChat gives a prepay id, unless the  *)
(* order has been paid there already.                                      *)
Prepay(w) ==
  LET o == req[w].order IN
  /\ At(w, "prepay")
  /\ IF deployment.gateway = "free"
     THEN /\ bill' = [bill EXCEPT ![o] = IF @ = "none" THEN "success" ELSE @]
          /\ Goto(w, "settle")
     ELSE /\ bill[o] \in {"none", "prepaid"}
          /\ bill' = [bill EXCEPT ![o] = "prepaid"]
          /\ Goto(w, "paying")
  /\ UNCHANGED <<order, entitlement, coupon, reuseKey>>

MarkPaying(w) ==
  /\ At(w, "paying")
  /\ SetStatus(req[w].order, "paying")
  /\ Return(w)
  /\ UNCHANGED <<bill, entitlement, coupon, reuseKey>>

(* The TTL of the key, the 30 minutes of the order, the buyer's payment.   *)
ReuseKeyExpires(b) ==
  /\ b \in reuseKey
  /\ reuseKey' = reuseKey \ {b}
  /\ UNCHANGED <<order, bill, entitlement, coupon, req>>

OrderFallsDue(o) ==
  /\ order[o].status \in Open
  /\ ~order[o].due
  /\ order' = [order EXCEPT ![o].due = TRUE]
  /\ UNCHANGED <<bill, entitlement, coupon, reuseKey, req>>

BuyerPays(o) ==
  /\ bill[o] = "prepaid"
  /\ bill' = [bill EXCEPT ![o] = "success"]
  /\ UNCHANGED <<order, entitlement, coupon, reuseKey, req>>

-----------------------------------------------------------------------------
(* handleNotify, recover, settle.                                          *)

(* A verified SUCCESS notification: sent once paid, any number of times,   *)
(* at any later time.  The free gateway accepts none.                      *)
StartNotify(w, o) ==
  /\ deployment.gateway # "free"
  /\ bill[o] \in Taken
  /\ Start(w, "notify", [Idle EXCEPT !.pc = "settle", !.order = o])
  /\ UNCHANGED tables

(* recover asks the gateway about an order it does not see as paid.        *)
StartRecover(w, o) ==
  /\ deployment.gateway = "wechat"
  /\ order[o].status \notin {"none", "paid"}
  /\ Start(w, "recover", [Idle EXCEPT !.pc = "query", !.order = o])
  /\ UNCHANGED tables

(* Mutant: the trade state in the answer is not looked at.                 *)
QueryOrderTrusting(w) == At(w, "query") /\ Goto(w, "settle") /\ UNCHANGED tables

(* With a refund taken up the trade state is REFUND; whether it is SUCCESS *)
(* again when that refund is closed is left open.                          *)
QueryOrder(w) ==
  /\ At(w, "query")
  /\ \/ bill[req[w].order] \in {"success", "reversing"} /\ Goto(w, "settle")
     \/ bill[req[w].order] # "success" /\ Return(w)
  /\ UNCHANGED tables

(* The transaction locks the order; a paid one is answered as a duplicate. *)
Settle(w) ==
  LET o == req[w].order IN
  /\ At(w, "settle")
  /\ Unlocked(o)
  /\ order[o].status # "none"
  /\ IF order[o].status = "paid" THEN Return(w)
     ELSE req' = [req EXCEPT ![w].pc = "credit", ![w].held = Holds(order[o].buyer)]
  /\ UNCHANGED tables

(* Mutant: the grant is left out of the transaction.                       *)
CommitSettleBare(w) ==
  LET o == req[w].order IN
  /\ At(w, "credit")
  /\ order' = [order EXCEPT ![o].status = "paid"]
  /\ Return(w)
  /\ UNCHANGED <<bill, entitlement, coupon, reuseKey>>

(* ... its commit: the order is paid from whatever status it was in.       *)
CommitSettle(w) ==
  LET o == req[w].order IN
  /\ At(w, "credit")
  /\ order' = [order EXCEPT ![o].status = "paid"]
  /\ Grant(order[o].buyer, o, req[w].held)
  /\ Return(w)
  /\ UNCHANGED <<bill, coupon, reuseKey>>

-----------------------------------------------------------------------------
(* refund: mark, ask the gateway, then close the order and the entitlement.*)

StartRefund(w, o) ==
  /\ order[o].status = "paid"
  /\ Start(w, "refund", [Idle EXCEPT !.pc = "refunding", !.order = o])
  /\ UNCHANGED tables

MarkRefunding(w) ==
  /\ At(w, "refunding")
  /\ SetStatus(req[w].order, "refunding")
  /\ Goto(w, "gateway")
  /\ UNCHANGED <<bill, entitlement, coupon, reuseKey>>

(* out_refund_no is the same every time: the gateway pays back once.  The  *)
(* answer has a status (PROCESSING, SUCCESS, ABNORMAL, CLOSED; the free    *)
(* gateway's is SUCCESS), which nobody reads.                              *)
AfterRefund(o) ==
  IF deployment.gateway = "free" \/ bill[o] = "returned" THEN {"returned"} ELSE TakenUp

(* The gateway may refuse, and its answer may be lost on the way.          *)
GatewayRefund(w) ==
  LET o == req[w].order IN
  /\ At(w, "gateway")
  /\ \/ /\ bill[o] \in Taken
        /\ \E state \in AfterRefund(o) : bill' = [bill EXCEPT ![o] = state]
        /\ Goto(w, "revoke") \/ (deployment.gateway = "wechat" /\ Goto(w, "rollback"))
     \/ deployment.gateway = "wechat" /\ Goto(w, "rollback") /\ UNCHANGED bill
  /\ UNCHANGED <<order, entitlement, coupon, reuseKey>>

(* A refund that was under way goes through; no code hears of it.          *)
MoneyReturns(o) ==
  /\ bill[o] = "reversing"
  /\ bill' = [bill EXCEPT ![o] = "returned"]
  /\ UNCHANGED <<order, entitlement, coupon, reuseKey, req>>

RollBackRefund(w) ==
  /\ At(w, "rollback")
  /\ SetStatus(req[w].order, "paid")
  /\ Return(w)
  /\ UNCHANGED <<bill, entitlement, coupon, reuseKey>>

(* Mutant: the revocation is left to a later step that may never come.     *)
RevokeLater(o) == o \in OrderId /\ UNCHANGED entitlement

(* revokeBySourceRef                                                       *)
RevokeBySource(o) ==
  entitlement' = [k \in DOMAIN entitlement |->
    IF entitlement[k].source = o THEN [entitlement[k] EXCEPT !.active = FALSE]
                                 ELSE entitlement[k]]

(* One transaction.                                                        *)
CommitRefund(w) ==
  /\ At(w, "revoke")
  /\ SetStatus(req[w].order, "refunded")
  /\ RevokeBySource(req[w].order)
  /\ Return(w)
  /\ UNCHANGED <<bill, coupon, reuseKey>>

-----------------------------------------------------------------------------
(* closeOverdue.                                                           *)

StartCloseOverdue(w) ==
  LET rows == {o \in OrderId : order[o].status \in Open /\ order[o].due} IN
  /\ rows # {}
  /\ Start(w, "close", [Idle EXCEPT !.pc = "close", !.rows = rows])
  /\ UNCHANGED tables

(* The UPDATE is by the ids selected before, whatever their status is now. *)
CloseOverdue(w) ==
  /\ At(w, "close")
  /\ \A o \in req[w].rows : Unlocked(o)
  /\ order' = [o \in OrderId |->
       IF o \in req[w].rows THEN [order[o] EXCEPT !.status = "closed"] ELSE order[o]]
  /\ Return(w)
  /\ UNCHANGED <<bill, entitlement, coupon, reuseKey>>

-----------------------------------------------------------------------------
(* Coupons and manual grants: one transaction each, its reads before its   *)
(* commit.                                                                 *)

StartRedeem(w, b, c) ==
  /\ coupon[c] = None
  /\ Start(w, "redeem", [Idle EXCEPT !.pc = "claim", !.buyer = b, !.code = c])
  /\ UNCHANGED tables

(* The claiming UPDATE holds the coupon's row until the commit.            *)
Claimed(c) == \E w \in Workers : At(w, "spend") /\ req[w].code = c

(* Mutant: the coupon is claimed by id alone.                              *)
ClaimCouponById(w) ==
  /\ At(w, "claim")
  /\ ~Claimed(req[w].code)
  /\ req' = [req EXCEPT ![w].pc = "spend", ![w].held = Holds(req[w].buyer)]
  /\ UNCHANGED tables

(* where status = unused                                                   *)
ClaimCoupon(w) ==
  LET c == req[w].code IN
  /\ At(w, "claim")
  /\ ~Claimed(c)
  /\ IF coupon[c] # None THEN Return(w)
     ELSE req' = [req EXCEPT ![w].pc = "spend", ![w].held = Holds(req[w].buyer)]
  /\ UNCHANGED tables

(* Mutant: the transaction that gives the entitlement misses the claim.    *)
CommitRedeemUnspent(w) ==
  /\ At(w, "spend")
  /\ Grant(req[w].buyer, req[w].code, req[w].held)
  /\ Return(w)
  /\ UNCHANGED <<order, bill, coupon, reuseKey>>

CommitRedeem(w) ==
  /\ At(w, "spend")
  /\ coupon' = [coupon EXCEPT ![req[w].code] = req[w].buyer]
  /\ Grant(req[w].buyer, req[w].code, req[w].held)
  /\ Return(w)
  /\ UNCHANGED <<order, bill, reuseKey>>

(* grantManually: its lookup, which a holder stops at, and its commit.     *)
StartGrant(w, b) ==
  /\ ~Holds(b)
  /\ Start(w, "grant", [Idle EXCEPT !.pc = "give", !.buyer = b])
  /\ UNCHANGED tables

CommitGrant(w) ==
  /\ At(w, "give")
  /\ Grant(req[w].buyer, None, req[w].held)
  /\ Return(w)
  /\ UNCHANGED <<order, bill, coupon, reuseKey>>

-----------------------------------------------------------------------------

Receive(w) ==
  \/ \E b \in deployment.buyers : StartCreate(w, b) \/ StartGrant(w, b)
  \/ \E b \in deployment.buyers, c \in deployment.coupons : StartRedeem(w, b, c)
  \/ \E o \in OrderId : StartNotify(w, o) \/ StartRecover(w, o) \/ StartRefund(w, o)
  \/ StartCloseOverdue(w)

Continue(w) ==
  \/ FindOpenOrder(w, "find", "lapse", "lock")
  \/ FindOpenOrder(w, "refind", "relapse", "insert")
  \/ CloseFound(w, "lapse", "lock")
  \/ CloseFound(w, "relapse", "insert")
  \/ TakeReuseKey(w)  \/ InsertOrder(w)    \/ SetReuseKey(w)   \/ Prepay(w)
  \/ MarkPaying(w)    \/ QueryOrder(w)     \/ Settle(w)        \/ CommitSettle(w)
  \/ MarkRefunding(w) \/ GatewayRefund(w)  \/ RollBackRefund(w) \/ CommitRefund(w)
  \/ CloseOverdue(w)  \/ ClaimCoupon(w)    \/ CommitRedeem(w)  \/ CommitGrant(w)

Next ==
  /\ \/ \E w \in Workers : Receive(w) \/ Continue(w) \/ Fail(w)
     \/ \E b \in Buyers : ReuseKeyExpires(b)
     \/ \E o \in OrderId : OrderFallsDue(o) \/ BuyerPays(o) \/ MoneyReturns(o)
  /\ UNCHANGED deployment

Spec == Init /\ [][Next]_vars

-----------------------------------------------------------------------------
(* What holds.                                                             *)

ActiveFrom(source) ==
  {k \in DOMAIN entitlement : entitlement[k].source = source /\ entitlement[k].active}

(* E2: however often and however concurrently an order is notified,        *)
(* recovered, refunded and notified again, it backs at most one active     *)
(* entitlement (settle's row lock, its status test and grant's lookup).    *)
OneGrantPerOrder == \A o \in OrderId : Cardinality(ActiveFrom(o)) <= 1

(* An entitlement that names an order was paid for, and belongs to the one *)
(* who placed it; one that names a coupon, to the one who used the coupon. *)
BackedEntitlement ==
  \A k \in DOMAIN entitlement :
    LET e == entitlement[k] IN
    /\ e.source \in OrderId =>
         bill[e.source] \in Taken /\ order[e.source].buyer = e.buyer
    /\ e.source \in Coupons => coupon[e.source] = e.buyer

(* E8: a coupon is spent once and its user does not change, whoever else   *)
(* redeems it at the same time (claim).                                    *)
CouponSpentOnce ==
  [][\A c \in Coupons : coupon[c] # None => coupon'[c] = coupon[c]]_vars

(* E10: no order is refunded while the entitlement it paid for is active   *)
(* (refund's transaction against settle's).                                *)
RefundTakesBack ==
  \A o \in OrderId : order[o].status = "refunded" => ActiveFrom(o) = {}

(* Whoever has a paid order holds the product (api.md: paid is "已到账，权益 *)
(* 已发"), unless the gateway took up a refund of theirs for this product:  *)
(* settle pays and grants in one transaction, and grant skips only a buyer *)
(* who holds.                                                              *)
PaidHasAccess ==
  \A o \in OrderId : order[o].status = "paid" =>
    \/ Holds(order[o].buyer)
    \/ \E p \in OrderId : order[p].buyer = order[o].buyer /\ bill[p] \in TakenUp

(* An order counts as paid or refunding only after the gateway took the    *)
(* money, and as refunded only after it took the refund up, whatever the   *)
(* answer that was lost, refused or repeated on the way: status follows    *)
(* the gateway, it never runs ahead of it.                                 *)
StatusFollowsGateway ==
  \A o \in OrderId :
    /\ order[o].status \in {"paid", "refunding"} => bill[o] \in Taken
    /\ order[o].status = "refunded" => bill[o] \in TakenUp

-----------------------------------------------------------------------------
(* What comments and documents say, and the code does not keep.            *)

(* ADR-007: "命中已处理订单时直接返回 success，不重复发权益（E2）".        *)
RefundedIsProcessed ==
  [][\A o \in OrderId : order[o].status = "refunded" => order'[o].status = "refunded"]_vars

(* api.md:1865: "网关退款成功后才置 `refunded` 并收回权益".  refund takes any   *)
(* answer for a success: its status may be PROCESSING, and may end ABNORMAL *)
(* or CLOSED, with the entitlement gone and the money kept.                *)
RefundedIsPaidBack ==
  \A o \in OrderId : order[o].status = "refunded" => bill[o] = "returned"
=============================================================================
