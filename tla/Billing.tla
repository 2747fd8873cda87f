------------------------------ MODULE Billing ------------------------------
(***************************************************************************)
(* Orders, payments and subscriptions of one customer                      *)
(* (internal/service/orders.go, internal/store/orders.go, plans.go,        *)
(* multiplan.go, coupons.go, jobs.go): checkout, balance and gateway       *)
(* payment, repeated and late notifications, renewal, stacking, replacing  *)
(* and queueing of plans, the refund of a queued plan, and the jobs that   *)
(* cancel stale orders, expire subscriptions and start queued ones.        *)
(*                                                                         *)
(* Every plan has one price; periods are counted, not dated.  Whether a    *)
(* subscription is usable, has spent its quota or is past its end is left  *)
(* to chance (Lapse).  One inviter earns a share of every order; credit    *)
(* for the rest of a replaced plan (the surplus setting) is off.           *)
(***************************************************************************)
EXTENDS Integers, Sequences, SequencesExt, FiniteSets, FiniteSetsExt

CONSTANTS Plans,        \* plans on offer
          Endless,      \* plans that end with their quota: no expiry, no reset
          Price,        \* list price of a plan
          Discount,     \* what the coupon takes off
          MaxUses,      \* uses of the coupon
          Percent,      \* the inviter's share
          Money,        \* the customer's balance at the start
          Checkouts,    \* ways of buying: with coupon? at a gateway? queued?
          MaxOrders,    \* bound: orders
          LateRepeats   \* may a gateway repeat itself after a refund?

ASSUME BillingConstants ==
  /\ \A v \in {Price, Discount, MaxUses, Percent, Money, MaxOrders} : v \in Nat
  /\ Discount < Price /\ Percent <= 100 /\ MaxUses > 0
  /\ Plans # {} /\ Endless \subseteq Plans
  /\ Checkouts \subseteq [coupon : BOOLEAN, gateway : BOOLEAN, queue : BOOLEAN]
  /\ LateRepeats \in BOOLEAN

VARIABLES
  single,       \* the single-plan setting
  order,        \* orders, by id
  subs,         \* subscriptions, by id
  balance,      \* users.balance_cents of the customer
  earned,       \* what commissions added to the inviter's account
  commissions,  \* orders with a row in commissions
  used,         \* coupons.used
  job,          \* where the housekeeping job is
  due           \* the queued subscription the job is about to start, or 0

billingVars == <<single, order, subs, balance, earned, commissions, used, job, due>>

Ids == 1..MaxOrders
With(statuses) == {o \in Ids : order[o].status \in statuses}
NoOrder == [status |-> "none", plan |-> CHOOSE p \in Plans : TRUE, amount |-> 0, coupon |-> FALSE,
            gateway |-> FALSE, queue |-> FALSE, sent |-> FALSE]

\* domain.Subscription.Usable
Usable(ss, s) == ss[s].status = "active" /\ ss[s].life = "usable"
-----------------------------------------------------------------------------
(* Granting a plan.                                                        *)

\* grantTx, renewal: the latest active subscription to the plan, if its end has
\* not passed; 0 otherwise.
Renewable(ss, p) ==
  LET mine == {s \in 1..Len(ss) : ss[s].plan = p /\ ss[s].status = "active"}
  IN  IF mine # {} /\ ss[Max(mine)].life # "past" THEN Max(mine) ELSE 0

\* grantTx: a renewal adds a period, and may or may not make a spent quota
\* usable again; otherwise the plan is queued behind a usable subscription,
\* replaces the active ones or is added to them.
Granted(ss, o, mode, life) ==
  LET p == order[o].plan
      r == Renewable(ss, p)
      cleared == IF mode # "replace" THEN ss
                 ELSE [s \in DOMAIN ss |-> IF ss[s].status = "active"
                                           THEN [ss[s] EXCEPT !.status = "expired"] ELSE ss[s]]
  IN  IF r # 0 THEN [ss EXCEPT ![r].periods = @ + 1,
                               ![r].life = IF @ = "spent" THEN life ELSE @]
      ELSE IF mode = "queue" /\ \E s \in 1..Len(ss) : Usable(ss, s)
      THEN Append(ss, [plan |-> p, status |-> "queued", life |-> "usable", periods |-> 1, order |-> o])
      ELSE Append(cleared, [plan |-> p, status |-> "active", life |-> "usable", periods |-> 1, order |-> 0])

\* orderGrantMode
Mode(o) == IF single THEN "replace" ELSE IF order[o].queue THEN "queue" ELSE "stack"

Share(o) == (order[o].amount * Percent) \div 100

\* The grant and paidHooksTx: coupon use and commission (INSERT OR IGNORE).
GrantAndHooks(o) ==
  /\ \E life \in {"usable", "spent"} : subs' = Granted(subs, o, Mode(o), life)
  /\ used' = IF order[o].coupon /\ used < MaxUses THEN used + 1 ELSE used
  /\ IF Share(o) > 0 /\ o \notin commissions
     THEN commissions' = commissions \cup {o} /\ earned' = earned + Share(o)
     ELSE UNCHANGED <<commissions, earned>>
-----------------------------------------------------------------------------
(* The customer.                                                           *)

\* CouponReservations and Coupon.Usable
CouponLeft ==
  /\ used < MaxUses
  /\ Cardinality({o \in With({"pending", "paid", "refunded"}) : order[o].coupon}) < MaxUses

\* CreateWith up to the insert: Price reads the coupon's use, the queue choice
\* is refused for a plan the customer has.
Quote(o, p, c) ==
  LET amount == IF c.coupon THEN Price - Discount ELSE Price
  IN  /\ o = Cardinality(Ids \ With({"none"})) + 1
      /\ c.coupon => CouponLeft
      /\ c.queue => ~\E s \in 1..Len(subs) : subs[s].plan = p /\ Usable(subs, s)
      /\ order' = [order EXCEPT ![o] = [status |-> "quoted", plan |-> p, amount |-> amount, coupon |-> c.coupon,
                                        gateway |-> c.gateway, queue |-> c.queue, sent |-> FALSE]]
      /\ UNCHANGED <<single, subs, balance, earned, commissions, used, job, due>>

\* CreateOrder
Place(o) ==
  /\ order[o].status = "quoted"
  /\ order' = [order EXCEPT ![o].status = "pending"]
  /\ UNCHANGED <<single, subs, balance, earned, commissions, used, job, due>>

\* PayWithBalance
PayWithBalance(o) ==
  /\ ~order[o].gateway /\ order[o].status = "pending"
  /\ balance >= order[o].amount
  /\ balance' = balance - order[o].amount
  /\ order' = [order EXCEPT ![o].status = "paid"]
  /\ GrantAndHooks(o)
  /\ UNCHANGED <<single, job, due>>

\* DiscardPendingOrder after a refused balance payment.
Discard(o) ==
  /\ ~order[o].gateway /\ order[o].status = "pending"
  /\ balance < order[o].amount
  /\ order' = [order EXCEPT ![o].status = "discarded"]
  /\ UNCHANGED <<single, subs, balance, earned, commissions, used, job, due>>

\* The customer pays at the gateway, maybe in a tab left open for too long.
PayAtGateway(o) ==
  /\ order[o].gateway /\ order[o].status \in {"pending", "cancelled"} /\ ~order[o].sent
  /\ order' = [order EXCEPT ![o].sent = TRUE]
  /\ UNCHANGED <<single, subs, balance, earned, commissions, used, job, due>>

\* Settle and MarkPaid for a verified notification, which gateways repeat.  The
\* update of the order applies to pending and cancelled ones; only a paid one
\* ends the call.
Notify(o) ==
  /\ order[o].sent
  /\ order[o].status # "paid"
  /\ order[o].status = "refunded" => LateRepeats /\ Len(subs) <= MaxOrders
  /\ order' = IF order[o].status \in {"pending", "cancelled"}
              THEN [order EXCEPT ![o].status = "paid"] ELSE order
  /\ GrantAndHooks(o)
  /\ UNCHANGED <<single, balance, job, due>>

\* Mutant: the list price comes back, not what was paid.
RefundListPrice(o) == Price

Refund(o) == order[o].amount

\* Mutant: the commission stays when the order is refunded.
ReversedCouponOnly(o) ==
  /\ used' = IF order[o].coupon /\ used > 0 THEN used - 1 ELSE used
  /\ UNCHANGED <<earned, commissions>>

\* reverseOrderHooksTx
Reversed(o) ==
  /\ used' = IF order[o].coupon /\ used > 0 THEN used - 1 ELSE used
  /\ earned' = IF o \in commissions THEN earned - Share(o) ELSE earned
  /\ commissions' = commissions \ {o}

\* CancelQueued, by the customer or the operator.
CancelQueued(s) ==
  LET o == subs[s].order
  IN  /\ subs[s].status = "queued"
      /\ subs' = [subs EXCEPT ![s].status = "cancelled"]
      /\ IF order[o].status = "paid"
         THEN /\ order' = [order EXCEPT ![o].status = "refunded"]
              /\ balance' = balance + Refund(o)
              /\ Reversed(o)
         ELSE UNCHANGED <<order, balance, used, earned, commissions>>
      /\ UNCHANGED <<single, job, due>>
-----------------------------------------------------------------------------
(* The jobs, once a minute, in this order.                                 *)

\* CancelStaleOrders: any pending order may be old enough.
CancelStale ==
  /\ job = "cancel" /\ job' = "expire"
  /\ \E old \in SUBSET With({"pending"}) :
       order' = [o \in Ids |-> IF o \in old THEN [order[o] EXCEPT !.status = "cancelled"] ELSE order[o]]
  /\ UNCHANGED <<single, subs, balance, earned, commissions, used, due>>

ExpireSubscriptions ==
  /\ job = "expire" /\ job' = "promote"
  /\ subs' = [s \in DOMAIN subs |-> IF subs[s].status = "active" /\ subs[s].life = "past"
                                    THEN [subs[s] EXCEPT !.status = "expired"] ELSE subs[s]]
  /\ UNCHANGED <<single, order, balance, earned, commissions, used, due>>

\* Mutant: any active subscription keeps the queue waiting, spent ones too.
HeldUp == \E s \in 1..Len(subs) : subs[s].status = "active"

Occupied == \E s \in 1..Len(subs) : Usable(subs, s)

\* PromoteQueued reads which subscription to start ...
PromoteQueued ==
  LET queued == {s \in 1..Len(subs) : subs[s].status = "queued"}
  IN  /\ job = "promote" /\ job' = "start"
      /\ due' = IF queued = {} \/ Occupied THEN 0 ELSE Min(queued)
      /\ UNCHANGED <<single, order, subs, balance, earned, commissions, used>>

\* Mutant: the status is not looked at again.
StartAnyway ==
  /\ job = "start" /\ job' = "reset"
  /\ subs' = IF due = 0 THEN subs ELSE [subs EXCEPT ![due].status = "active", ![due].life = "usable"]
  /\ due' = 0
  /\ UNCHANGED <<single, order, balance, earned, commissions, used>>

\* ... and starts it in a statement of its own (startSubscription).
StartSubscription ==
  /\ job = "start" /\ job' = "reset"
  /\ subs' = IF due # 0 /\ subs[due].status = "queued"
             THEN [subs EXCEPT ![due].status = "active", ![due].life = "usable"] ELSE subs
  /\ due' = 0
  /\ UNCHANGED <<single, order, balance, earned, commissions, used>>

\* ResetQuotas: any spent quota may be at its reset.
ResetQuotas ==
  /\ job = "reset" /\ job' = "cancel"
  /\ \E reset \in SUBSET {s \in 1..Len(subs) : /\ subs[s].status = "active" /\ subs[s].life = "spent"
                                              /\ subs[s].plan \notin Endless} :
       subs' = [s \in DOMAIN subs |-> IF s \in reset THEN [subs[s] EXCEPT !.life = "usable"] ELSE subs[s]]
  /\ UNCHANGED <<single, order, balance, earned, commissions, used, due>>

Job == CancelStale \/ ExpireSubscriptions \/ PromoteQueued \/ StartSubscription \/ ResetQuotas

\* Traffic uses the quota up, or time passes.
Lapse(s, life) ==
  /\ s \in 1..Len(subs)
  /\ subs[s].status = "active"
  /\ life = "past" => subs[s].plan \notin Endless
  /\ <<subs[s].life, life>> \in {<<"usable", "spent">>, <<"usable", "past">>, <<"spent", "past">>}
  /\ subs' = [subs EXCEPT ![s].life = life]
  /\ UNCHANGED <<single, order, balance, earned, commissions, used, job, due>>
-----------------------------------------------------------------------------
\* The customer has a plan the operator granted.
BillingInit ==
  /\ single \in BOOLEAN
  /\ order = [o \in Ids |-> NoOrder]
  /\ subs = <<[plan |-> NoOrder.plan, status |-> "active", life |-> "usable", periods |-> 1, order |-> 0]>>
  /\ balance = Money
  /\ earned = 0 /\ commissions = {} /\ used = 0
  /\ job = "cancel" /\ due = 0

BillingNext ==
  \/ Job
  \/ \E o \in Ids :
       \/ \E p \in Plans, c \in Checkouts : Quote(o, p, c)
       \/ Place(o) \/ PayWithBalance(o) \/ Discard(o) \/ PayAtGateway(o) \/ Notify(o)
  \/ \E s \in 1..Len(subs) : CancelQueued(s) \/ \E life \in {"spent", "past"} : Lapse(s, life)

\* The job runs every minute, every subscription comes to its end.
Ends(s) == Lapse(s, "past") \/ (Lapse(s, "spent") /\ subs[s].plan \in Endless)
BillingFairness ==
  WF_billingVars(Job) /\ \A s \in 1..(MaxOrders + 1) : WF_billingVars(Ends(s))

BillingSpec == BillingInit /\ [][BillingNext]_billingVars /\ BillingFairness

\* A value of Checkouts for the runs, five of the eight ways of buying: each
\* choice with and without queueing or a gateway, the coupon where it meets a
\* refund.
Way(c, g, q) == [coupon |-> c, gateway |-> g, queue |-> q]
SomeCheckouts == {Way(FALSE, FALSE, FALSE), Way(FALSE, TRUE, FALSE), Way(FALSE, TRUE, TRUE),
                  Way(TRUE, TRUE, TRUE), Way(TRUE, FALSE, TRUE)}
-----------------------------------------------------------------------------
\* The sum of f over S, counted one by one.
Total(f, S) == Cardinality(UNION {{x} \X (1..f[x]) : x \in S})

Held == {s \in 1..Len(subs) : subs[s].status # "cancelled"}
Periods == [s \in 1..Len(subs) |-> subs[s].periods]
Amounts == [o \in Ids |-> order[o].amount]
Shares == [o \in Ids |-> Share(o)]

\* Every period a customer holds was granted at the start or belongs to an order
\* that is paid and not refunded, whatever notifications, cancellations and jobs
\* interleave (MarkPaid, CancelQueued, PromoteQueued).
PeriodsArePaidFor == Total(Periods, Held) = 1 + Cardinality(With({"paid"}))

\* The customer's balance is what was there, less what paid orders took from it,
\* plus what gateways received for orders refunded since: a refund returns what
\* was paid and nothing is refunded twice.
MoneyAddsUp ==
  balance + Total(Amounts, With({"paid"}))
    = Money + Total(Amounts, {o \in With({"paid", "refunded"}) : order[o].gateway})

\* "Cancelling a queued plan reverses its commissions and releases its coupon
\* use" (docs/BILLING.md): the inviter has the shares of the paid orders and of
\* no others, and no use of the coupon is counted that no paid order made.
HooksFollowOrders ==
  /\ commissions = {o \in With({"paid"}) : Share(o) > 0}
  /\ earned = Total(Shares, commissions)
  /\ used <= Cardinality({o \in With({"paid"}) : order[o].coupon})

\* A queued plan starts, or is cancelled, in the end: the customer is not kept
\* waiting by subscriptions that are of no use any more (PromoteQueued).
QueueMoves ==
  \A n \in 1..(MaxOrders + 1) :
    []<>(Len(subs) >= n => subs[n].status # "queued")

\* "Settlement is idempotent under repeated callbacks" (docs/BILLING.md): a
\* notification for an order that was settled before grants nothing.
SettlesOnce ==
  [][\A o \in With({"paid", "refunded"}) : Notify(o) => UNCHANGED <<subs, earned, used>>]_billingVars
=============================================================================
