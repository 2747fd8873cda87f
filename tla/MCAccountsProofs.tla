-------------------------- MODULE MCAccountsProofs --------------------------
(***************************************************************************)
(* The books of Billing balance for every number of orders, every set of   *)
(* plans, every price, discount, share and starting balance, as long as no *)
(* gateway repeats a notification after the refund (LateRepeats).  Traffic *)
(* accounting is well formed and implements TrafficLedger, for any number  *)
(* of generations, batches, pairings and copies in flight.  Each is proved *)
(* by itself; side by side they keep their books.                          *)
(***************************************************************************)
EXTENDS MCAccounts, ProofFacts

-----------------------------------------------------------------------------
(* Sums.                                                                   *)

\* The things counted are finitely many.
LEMMA CountedFinite ==
  ASSUME NEW S, IsFiniteSet(S), NEW f, \A x \in S : f[x] \in Nat
  PROVE  IsFiniteSet(UNION {{x} \X (1..f[x]) : x \in S})
  <1> DEFINE g == [x \in S |-> {x} \X (1..f[x])]
             R == {{x} \X (1..f[x]) : x \in S}
  <1>1. g \in Surjection(S, R)
    BY Zenon DEF Surjection
  <1>2. IsFiniteSet(R)
    <2> HIDE DEF g, R
    <2> QED BY <1>1, FS_Surjection
  <1>3. \A T \in R : IsFiniteSet(T)
    <2> SUFFICES ASSUME NEW x \in S PROVE IsFiniteSet({x} \X (1..f[x]))
      OBVIOUS
    <2>1. IsFiniteSet({x})
      BY FS_Singleton
    <2>2. IsFiniteSet(1..f[x])
      BY FS_Interval
    <2> QED BY <2>1, <2>2, FS_Product
  <1> QED BY <1>2, <1>3, FS_UNION

\* A total is a natural number; of nothing it is zero.
LEMMA TotalType ==
  ASSUME NEW S, IsFiniteSet(S), NEW f, \A x \in S : f[x] \in Nat
  PROVE  Total(f, S) \in Nat
  BY CountedFinite, FS_CardinalityType DEF Total

LEMMA TotalEmpty ==
  ASSUME NEW f
  PROVE  Total(f, {}) = 0
  <1>1. UNION {{x} \X (1..f[x]) : x \in {}} = {}
    OBVIOUS
  <1> QED BY <1>1, FS_EmptySet DEF Total

\* One more member adds its number.
LEMMA TotalAdd ==
  ASSUME NEW S, IsFiniteSet(S), NEW f, NEW a, a \notin S, f[a] \in Nat,
         \A x \in S : f[x] \in Nat
  PROVE  Total(f, S \cup {a}) = Total(f, S) + f[a]
  <1> DEFINE A == UNION {{x} \X (1..f[x]) : x \in S}
             B == {a} \X (1..f[a])
  <1>1. UNION {{x} \X (1..f[x]) : x \in S \cup {a}} = A \cup B
    BY Zenon
  <1>2. A \cap B = {}
    <2> SUFFICES ASSUME NEW e \in A, e \in B PROVE FALSE
      OBVIOUS
    <2>1. PICK x \in S : e \in {x} \X (1..f[x])
      BY Zenon
    <2>2. e[1] = x
      BY <2>1
    <2>3. e[1] = a
      OBVIOUS
    <2> QED BY <2>2, <2>3
  <1>3. IsFiniteSet(A)
    BY CountedFinite
  <1>4. IsFiniteSet(B) /\ Cardinality(B) = f[a]
    <2>1. IsFiniteSet({a}) /\ Cardinality({a}) = 1
      BY FS_Singleton
    <2>2. IsFiniteSet(1..f[a]) /\ Cardinality(1..f[a]) = f[a]
      <3>1. ASSUME NEW n \in Nat PROVE IsFiniteSet(1..n) /\ Cardinality(1..n) = n
        <4>1. IsFiniteSet(1..n) /\ Cardinality(1..n) = IF 1 > n THEN 0 ELSE n - 1 + 1
          BY FS_Interval
        <4> QED BY <4>1
      <3> QED BY <3>1
    <2>3. Cardinality(B) = Cardinality({a}) * Cardinality(1..f[a]) /\ IsFiniteSet(B)
      BY <2>1, <2>2, FS_Product
    <2> HIDE DEF B
    <2> QED BY <2>1, <2>2, <2>3
  <1>5. Cardinality(A) \in Nat
    BY <1>3, FS_CardinalityType
  <1>6. Total(f, S) = Cardinality(A) /\ Total(f, S \cup {a}) = Cardinality(A \cup B)
    BY <1>1 DEF Total
  <1> HIDE DEF A, B
  <1>7. Cardinality(A \cup B) = Cardinality(A) + Cardinality(B) - Cardinality(A \cap B)
    BY <1>3, <1>4, FS_Union
  <1> QED BY <1>2, <1>4, <1>5, <1>6, <1>7, FS_EmptySet

\* One member less takes its number away.
LEMMA TotalRemove ==
  ASSUME NEW S, IsFiniteSet(S), NEW f, NEW a \in S, \A x \in S : f[x] \in Nat
  PROVE  Total(f, S) = Total(f, S \ {a}) + f[a]
  <1>1. IsFiniteSet(S \ {a})
    BY FS_RemoveElement
  <1>2. (S \ {a}) \cup {a} = S
    OBVIOUS
  <1>3. Total(f, (S \ {a}) \cup {a}) = Total(f, S \ {a}) + f[a]
    BY <1>1, TotalAdd
  <1> QED BY <1>2, <1>3

\* Only the numbers of the members count.
LEMMA TotalSame ==
  ASSUME NEW S, NEW f, NEW g, \A x \in S : f[x] = g[x]
  PROVE  Total(f, S) = Total(g, S)
  <1>1. {{x} \X (1..f[x]) : x \in S} = {{x} \X (1..g[x]) : x \in S}
    OBVIOUS
  <1> QED BY <1>1 DEF Total

\* A member whose number grows by one makes the total grow by one.
LEMMA TotalBump ==
  ASSUME NEW S, IsFiniteSet(S), NEW f, NEW g, NEW a \in S,
         \A x \in S : f[x] \in Nat /\ g[x] \in Nat,
         \A x \in S \ {a} : f[x] = g[x], g[a] = f[a] + 1
  PROVE  Total(g, S) = Total(f, S) + 1
  <1>1. Total(f, S) = Total(f, S \ {a}) + f[a] /\ Total(g, S) = Total(g, S \ {a}) + g[a]
    BY TotalRemove
  <1>2. Total(f, S \ {a}) = Total(g, S \ {a})
    BY TotalSame
  <1>3. Total(f, S \ {a}) \in Nat
    BY FS_RemoveElement, TotalType
  <1> QED BY <1>1, <1>2, <1>3
-----------------------------------------------------------------------------
(* The inductive invariant.                                                *)

OrderRow ==
  [status : {"none", "quoted", "pending", "discarded", "cancelled", "paid", "refunded"},
   plan : Plans, amount : Nat, coupon : BOOLEAN, gateway : BOOLEAN, queue : BOOLEAN, sent : BOOLEAN]

SubRow ==
  [plan : Plans, status : {"active", "queued", "expired", "cancelled"},
   life : {"usable", "spent", "past"}, periods : Nat \ {0}, order : 0..MaxOrders]

BillingTypeOK ==
  /\ single \in BOOLEAN
  /\ order \in [Ids -> OrderRow]
  /\ subs \in Seq(SubRow)
  /\ balance \in Nat /\ earned \in Int
  /\ commissions \subseteq Ids
  /\ used \in 0..MaxUses
  /\ job \in {"cancel", "expire", "promote", "start", "reset"}
  /\ due \in 0..Len(subs)

\* Order ids are handed out one after the other.
InSequence ==
  \A o, p \in Ids : p < o /\ order[o].status # "none" => order[p].status # "none"

\* What a gateway was paid for was placed and never discarded.
SentWasPlaced ==
  \A o \in Ids : order[o].sent => /\ order[o].gateway
                                  /\ order[o].status \in {"pending", "cancelled", "paid", "refunded"}

\* A subscription that names an order was granted by it, and no other names it;
\* while it waits it holds the one period the order paid for.
Linked ==
  \A s \in 1..Len(subs) :
    LET o == subs[s].order
    IN  /\ o # 0 => order[o].status \in {"paid", "refunded"}
        /\ o # 0 => \A t \in 1..Len(subs) : subs[t].order = o => t = s
        /\ subs[s].status = "queued" => /\ subs[s].periods = 1
                                        /\ o # 0 /\ order[o].status = "paid"

BooksBalance == PeriodsArePaidFor /\ MoneyAddsUp /\ HooksFollowOrders

BillingInv == BillingTypeOK /\ InSequence /\ SentWasPlaced /\ Linked /\ BooksBalance

\* The subscriptions as a function.
LEMMA SubsFunction ==
  ASSUME BillingTypeOK
  PROVE  Len(subs) \in Nat /\ subs \in [1..Len(subs) -> SubRow]
  BY LenProperties DEF BillingTypeOK

\* The orders are finitely many, and so are those of any kind.
LEMMA OrdersFinite == IsFiniteSet(Ids) /\ \A T : T \subseteq Ids => IsFiniteSet(T)
  <1>1. IsFiniteSet(Ids)
    BY BillingConstants, FS_Interval DEF Ids
  <1>2. ASSUME NEW T, T \subseteq Ids PROVE IsFiniteSet(T)
    BY <1>1, <1>2, FS_Subset
  <1> QED BY <1>1, <1>2

LEMMA HeldFinite ==
  ASSUME BillingTypeOK
  PROVE  IsFiniteSet(Held)
  <1>1. IsFiniteSet(1..Len(subs))
    BY SubsFunction, FS_Interval
  <1>2. Held \subseteq 1..Len(subs)
    BY DEF Held
  <1> QED BY <1>1, <1>2, FS_Subset

\* The inviter's share of an order is a natural number that depends on what was
\* paid for it.
LEMMA ShareType ==
  ASSUME NEW a \in Nat
  PROVE  (a * Percent) \div 100 \in Nat
  <1>1. Percent \in Nat
    BY BillingConstants
  <1>2. a * Percent \in Nat
    BY <1>1
  <1> DEFINE m == a * Percent
  <1>3. m \in Nat
    BY <1>2
  <1> HIDE DEF m
  <1>4. m \div 100 \in Nat
    BY <1>3
  <1> QED BY <1>4 DEF m

LEMMA SharesAreNat ==
  ASSUME BillingTypeOK
  PROVE  /\ \A o \in Ids : Share(o) \in Nat /\ Shares[o] = Share(o)
         /\ \A o \in Ids : Amounts[o] \in Nat /\ Amounts[o] = order[o].amount
         /\ \A s \in 1..Len(subs) : Periods[s] \in Nat /\ Periods[s] = subs[s].periods
  <1>1. \A o \in Ids : order[o].amount \in Nat
    BY DEF BillingTypeOK, OrderRow
  <1>2. \A o \in Ids : Share(o) \in Nat
    BY <1>1, ShareType DEF Share
  <1>3. \A s \in 1..Len(subs) : subs[s].periods \in Nat
    BY SubsFunction DEF SubRow
  <1> QED BY <1>1, <1>2, <1>3 DEF Shares, Amounts, Periods

\* The same for the state after a step.
LEMMA NextNumbers ==
  ASSUME BillingTypeOK'
  PROVE  /\ \A o \in Ids : Share(o)' \in Nat /\ Shares'[o] = Share(o)'
         /\ \A o \in Ids : Amounts'[o] \in Nat /\ Amounts'[o] = order'[o].amount
         /\ \A s \in 1..Len(subs') : Periods'[s] \in Nat /\ Periods'[s] = subs'[s].periods
         /\ Len(subs') \in Nat /\ subs' \in [1..Len(subs') -> SubRow]
  <1>1. \A o \in Ids : order'[o].amount \in Nat
    BY DEF BillingTypeOK, OrderRow
  <1>2. \A o \in Ids : Share(o)' \in Nat
    BY <1>1, ShareType DEF Share
  <1>3. Len(subs') \in Nat /\ subs' \in [1..Len(subs') -> SubRow]
    BY LenProperties DEF BillingTypeOK
  <1>4. \A s \in 1..Len(subs') : subs'[s].periods \in Nat
    BY <1>3 DEF SubRow
  <1> QED BY <1>1, <1>2, <1>3, <1>4 DEF Shares, Amounts, Periods

-----------------------------------------------------------------------------
(* What a step may do to the orders and to the subscriptions, and what it  *)
(* does to the three books.                                                *)

\* Nothing that was paid changes, nothing is paid or refunded.
OrdersKept ==
  \A o \in Ids :
    /\ order'[o].status = "paid" <=> order[o].status = "paid"
    /\ order'[o].status = "refunded" <=> order[o].status = "refunded"
    /\ order[o].status \in {"paid", "refunded"} =>
         /\ order'[o].amount = order[o].amount
         /\ order'[o].gateway = order[o].gateway
         /\ order'[o].coupon = order[o].coupon

\* The order becomes what is said, nothing else about the orders changes.
Becomes(o, status) ==
  /\ order \in [Ids -> OrderRow] /\ order' \in [Ids -> OrderRow]
  /\ order'[o].status = status
  /\ \A p \in Ids \ {o} : order'[p].status = order[p].status
  /\ \A p \in Ids : /\ order'[p].amount = order[p].amount
                    /\ order'[p].gateway = order[p].gateway
                    /\ order'[p].coupon = order[p].coupon

\* No subscription is granted, extended or cancelled.
SubsKept ==
  /\ Len(subs') = Len(subs)
  /\ \A s \in 1..Len(subs) : /\ subs'[s].periods = subs[s].periods
                             /\ subs'[s].status = "cancelled" <=> subs[s].status = "cancelled"

\* One subscription in force has a period more.
SubExtended ==
  /\ Len(subs') = Len(subs)
  /\ \E r \in 1..Len(subs) :
       /\ subs[r].status = "active"
       /\ subs'[r].periods = subs[r].periods + 1
       /\ \A s \in 1..Len(subs) \ {r} : subs'[s].periods = subs[s].periods
  /\ \A s \in 1..Len(subs) : subs'[s].status = subs[s].status /\ subs'[s].order = subs[s].order

\* One subscription is new, in force at once or waiting on behalf of the order.
SubAdded(o) ==
  /\ Len(subs') = Len(subs) + 1
  /\ subs'[Len(subs) + 1].periods = 1
  /\ \/ subs'[Len(subs) + 1].status = "active" /\ subs'[Len(subs) + 1].order = 0
     \/ subs'[Len(subs) + 1].status = "queued" /\ subs'[Len(subs) + 1].order = o
  /\ \A s \in 1..Len(subs) :
       /\ subs'[s].periods = subs[s].periods /\ subs'[s].order = subs[s].order
       /\ \/ subs'[s].status = subs[s].status
          \/ subs[s].status = "active" /\ subs'[s].status = "expired"

LEMMA PeriodsKept ==
  ASSUME BillingTypeOK, BillingTypeOK', SubsKept
  PROVE  Total(Periods, Held)' = Total(Periods, Held)
  <1>1. Held' = Held
    BY DEF SubsKept, Held
  <1>2. \A s \in Held : Periods'[s] = Periods[s]
    BY SharesAreNat, NextNumbers DEF SubsKept, Held
  <1>3. Total(Periods', Held) = Total(Periods, Held)
    BY <1>2, TotalSame
  <1> QED BY <1>1, <1>3 DEF Total

LEMMA PeriodsExtended ==
  ASSUME BillingTypeOK, BillingTypeOK', SubExtended
  PROVE  Total(Periods, Held)' = Total(Periods, Held) + 1
  <1>1. Held' = Held
    BY DEF SubExtended, Held
  <1>2. PICK r \in 1..Len(subs) :
          /\ subs[r].status = "active"
          /\ subs'[r].periods = subs[r].periods + 1
          /\ \A s \in 1..Len(subs) \ {r} : subs'[s].periods = subs[s].periods
    BY DEF SubExtended
  <1>3. r \in Held
    BY <1>2 DEF Held
  <1>4. \A s \in Held : Periods[s] \in Nat /\ Periods'[s] \in Nat
    BY SharesAreNat, NextNumbers DEF SubExtended, Held
  <1>5. \A s \in Held \ {r} : Periods[s] = Periods'[s]
    BY <1>2, SharesAreNat, NextNumbers DEF SubExtended, Held
  <1>6. Periods'[r] = Periods[r] + 1
    BY <1>2, SharesAreNat, NextNumbers DEF SubExtended
  <1>7. Total(Periods', Held) = Total(Periods, Held) + 1
    BY <1>3, <1>4, <1>5, <1>6, HeldFinite, TotalBump
  <1> QED BY <1>1, <1>7 DEF Total

LEMMA PeriodsAdded ==
  ASSUME BillingTypeOK, BillingTypeOK', NEW o, SubAdded(o)
  PROVE  Total(Periods, Held)' = Total(Periods, Held) + 1
  <1> DEFINE n == Len(subs) + 1
  <1>0. Len(subs) \in Nat /\ n \in 1..Len(subs')
    BY SubsFunction DEF SubAdded
  <1>1. Held' = Held \cup {n}
    BY <1>0 DEF SubAdded, Held
  <1>2. n \notin Held
    BY <1>0 DEF Held
  <1>3. Periods'[n] = 1
    BY <1>0, NextNumbers DEF SubAdded
  <1>4. \A s \in Held : Periods'[s] = Periods[s] /\ Periods'[s] \in Nat
    <2> TAKE s \in Held
    <2>1. s \in 1..Len(subs) /\ s \in 1..Len(subs')
      BY <1>0 DEF Held, SubAdded
    <2> QED BY <2>1, SharesAreNat, NextNumbers DEF SubAdded
  <1> HIDE DEF n
  <1>5. Total(Periods', Held \cup {n}) = Total(Periods', Held) + 1
    BY <1>2, <1>3, <1>4, HeldFinite, TotalAdd
  <1>6. Total(Periods', Held) = Total(Periods, Held)
    BY <1>4, TotalSame
  <1> QED BY <1>1, <1>5, <1>6 DEF Total

\* A waiting subscription is cancelled.
SubCancelled(q) ==
  /\ Len(subs') = Len(subs)
  /\ q \in 1..Len(subs) /\ subs[q].status = "queued" /\ subs'[q].status = "cancelled"
  /\ \A s \in 1..Len(subs) \ {q} : subs'[s].status = subs[s].status
  /\ \A s \in 1..Len(subs) : subs'[s].periods = subs[s].periods /\ subs'[s].order = subs[s].order

LEMMA PeriodsCancelled ==
  ASSUME BillingTypeOK, BillingTypeOK', NEW q, SubCancelled(q), subs[q].periods = 1
  PROVE  Total(Periods, Held)' = Total(Periods, Held) - 1
  <1>1. Held' = Held \ {q} /\ q \in Held
    BY DEF SubCancelled, Held
  <1>2. Periods[q] = 1 /\ \A s \in Held : Periods[s] \in Nat /\ Periods'[s] = Periods[s]
    BY SharesAreNat, NextNumbers DEF SubCancelled, Held
  <1>3. Total(Periods, Held) = Total(Periods, Held \ {q}) + 1
    BY <1>1, <1>2, HeldFinite, TotalRemove
  <1>4. Total(Periods', Held \ {q}) = Total(Periods, Held \ {q})
    BY <1>2, TotalSame
  <1>5. Total(Periods, Held \ {q}) \in Nat
    <2>1. IsFiniteSet(Held \ {q})
      BY HeldFinite, FS_RemoveElement
    <2> QED BY <1>2, <2>1, TotalType
  <1> QED BY <1>1, <1>3, <1>4, <1>5 DEF Total

\* The orders that took money from the balance or a gateway, and those whose
\* money came through a gateway.
Paid == With({"paid"})
Received == {o \in With({"paid", "refunded"}) : order[o].gateway}

LEMMA PaidFinite ==
  /\ Paid \subseteq Ids /\ Received \subseteq Ids
  /\ IsFiniteSet(Paid) /\ IsFiniteSet(Received)
  BY OrdersFinite DEF Paid, Received, With

\* Settling an order: it is paid, and received if it came through a gateway.
LEMMA SettledOrders ==
  ASSUME NEW o \in Ids, Becomes(o, "paid"), order[o].status \notin {"paid", "refunded"}
  PROVE  /\ Paid' = Paid \cup {o} /\ o \notin Paid
         /\ o \notin Received
         /\ Received' = IF order[o].gateway THEN Received \cup {o} ELSE Received
  BY DEF Becomes, Paid, Received, With

LEMMA RefundedOrders ==
  ASSUME NEW o \in Ids, Becomes(o, "refunded"), order[o].status = "paid"
  PROVE  /\ Paid' = Paid \ {o} /\ o \in Paid
         /\ Received' = Received
  BY DEF Becomes, Paid, Received, With

LEMMA PaidCount ==
  ASSUME NEW o \in Ids
  PROVE  /\ Cardinality(Paid) \in Nat
         /\ Becomes(o, "paid") /\ order[o].status \notin {"paid", "refunded"} =>
              Cardinality(Paid') = Cardinality(Paid) + 1
         /\ Becomes(o, "refunded") /\ order[o].status = "paid" =>
              Cardinality(Paid') = Cardinality(Paid) - 1
  <1>1. Cardinality(Paid) \in Nat
    BY PaidFinite, FS_CardinalityType
  <1>2. ASSUME Becomes(o, "paid"), order[o].status \notin {"paid", "refunded"}
        PROVE  Cardinality(Paid') = Cardinality(Paid) + 1
    BY <1>2, SettledOrders, PaidFinite, FS_AddElement
  <1>3. ASSUME Becomes(o, "refunded"), order[o].status = "paid"
        PROVE  Cardinality(Paid') = Cardinality(Paid) - 1
    BY <1>3, RefundedOrders, PaidFinite, FS_RemoveElement
  <1> QED BY <1>1, <1>2, <1>3

\* Amounts do not change with what becomes of an order.
LEMMA AmountsKept ==
  ASSUME NEW o \in Ids, NEW st, Becomes(o, st)
  PROVE  Amounts' = Amounts /\ Shares' = Shares /\ \A p \in Ids : Share(p)' = Share(p)
  <1>1. \A p \in Ids : order'[p].amount = order[p].amount
    BY DEF Becomes
  <1>2. \A p \in Ids : Share(p)' = Share(p)
    BY <1>1 DEF Share
  <1> QED BY <1>1, <1>2 DEF Amounts, Shares

LEMMA TakenIsNat ==
  ASSUME BillingTypeOK
  PROVE  Total(Amounts, Paid) \in Nat /\ Total(Amounts, Received) \in Nat
  BY SharesAreNat, PaidFinite, TotalType

\* A payment from the balance, and a payment at a gateway.
LEMMA MoneySettled ==
  ASSUME BillingTypeOK, MoneyAddsUp, NEW o \in Ids,
         Becomes(o, "paid"), order[o].status \notin {"paid", "refunded"},
         balance' = IF order[o].gateway THEN balance ELSE balance - order[o].amount
  PROVE  MoneyAddsUp'
  <1>0. /\ Paid' = Paid \cup {o} /\ o \notin Paid
        /\ o \notin Received
        /\ Received' = IF order[o].gateway THEN Received \cup {o} ELSE Received
    BY SettledOrders
  <1>n. \A p \in Ids : Amounts[p] \in Nat
    BY SharesAreNat
  <1>1. balance + Total(Amounts, Paid) = Money + Total(Amounts, Received)
    BY DEF MoneyAddsUp, Paid, Received
  <1>2. Total(Amounts, Paid \cup {o}) = Total(Amounts, Paid) + Amounts[o]
    BY <1>0, <1>n, PaidFinite, TotalAdd
  <1>3. Total(Amounts, Received \cup {o}) = Total(Amounts, Received) + Amounts[o]
    BY <1>0, <1>n, PaidFinite, TotalAdd
  <1>4. Amounts' = Amounts
    BY AmountsKept
  <1>5. Amounts[o] = order[o].amount /\ Amounts[o] \in Nat
    BY SharesAreNat
  <1>6. balance \in Int /\ Money \in Int
    BY BillingConstants DEF BillingTypeOK
  <1>7. balance' + Total(Amounts', Paid') = Money + Total(Amounts', Received')
    <2>1. CASE order[o].gateway
      BY <1>0, <1>1, <1>2, <1>3, <1>4, <1>5, <1>6, <2>1, TakenIsNat
    <2>2. CASE ~order[o].gateway
      BY <1>0, <1>1, <1>2, <1>3, <1>4, <1>5, <1>6, <2>2, TakenIsNat
    <2> QED BY <2>1, <2>2
  <1> QED BY <1>7 DEF MoneyAddsUp, Paid, Received, Total

\* A refund gives back to the balance what the order took.
LEMMA MoneyRefunded ==
  ASSUME BillingTypeOK, MoneyAddsUp, NEW o \in Ids,
         Becomes(o, "refunded"), order[o].status = "paid",
         balance' = balance + order[o].amount
  PROVE  MoneyAddsUp'
  <1>1. balance + Total(Amounts, Paid) = Money + Total(Amounts, Received)
    BY DEF MoneyAddsUp, Paid, Received
  <1>2. Total(Amounts, Paid) = Total(Amounts, Paid \ {o}) + Amounts[o]
    BY RefundedOrders, SharesAreNat, PaidFinite, TotalRemove
  <1>3. Amounts' = Amounts
    BY AmountsKept
  <1>4. Amounts[o] = order[o].amount /\ Amounts[o] \in Nat
    BY SharesAreNat
  <1>5. balance \in Int /\ Money \in Int
    BY BillingConstants DEF BillingTypeOK
  <1>6. Total(Amounts, Paid \ {o}) \in Nat
    <2>1. IsFiniteSet(Paid \ {o})
      BY PaidFinite, FS_RemoveElement
    <2> QED BY <2>1, SharesAreNat, PaidFinite, TotalType
  <1>7. balance' + Total(Amounts', Paid') = Money + Total(Amounts', Received')
    BY <1>1, <1>2, <1>3, <1>4, <1>5, <1>6, RefundedOrders, TakenIsNat
  <1> QED BY <1>7 DEF MoneyAddsUp, Paid, Received, Total

\* Paid orders that used the coupon.
Redeemed == {o \in Paid : order[o].coupon}

\* The hooks of a payment credit the order's share once and count its coupon.
LEMMA HooksSettled ==
  ASSUME BillingTypeOK, HooksFollowOrders, NEW o \in Ids,
         Becomes(o, "paid"), order[o].status \notin {"paid", "refunded"},
         used' = (IF order[o].coupon /\ used < MaxUses THEN used + 1 ELSE used),
         IF Share(o) > 0 /\ o \notin commissions
         THEN commissions' = commissions \cup {o} /\ earned' = earned + Share(o)
         ELSE UNCHANGED <<commissions, earned>>
  PROVE  HooksFollowOrders'
  <1>0. Paid' = Paid \cup {o} /\ o \notin Paid
    BY SettledOrders
  <1>1. /\ commissions = {p \in Paid : Share(p) > 0} /\ earned = Total(Shares, commissions)
        /\ used <= Cardinality(Redeemed)
    BY DEF HooksFollowOrders, Paid, Redeemed
  <1>2. Shares' = Shares /\ \A p \in Ids : Share(p)' = Share(p)
    BY AmountsKept
  <1>3. /\ \A p \in Ids : Shares[p] \in Nat /\ Shares[p] = Share(p)
        /\ IsFiniteSet(commissions) /\ commissions \subseteq Ids
    BY SharesAreNat, OrdersFinite DEF BillingTypeOK
  <1>4. commissions' = {p \in Paid' : Share(p)' > 0}
    <2>1. \A p \in Paid' : Share(p)' = Share(p)
      BY <1>0, <1>2, PaidFinite
    <2>2. {p \in Paid' : Share(p)' > 0} = {p \in Paid \cup {o} : Share(p) > 0}
      BY <1>0, <2>1
    <2> QED BY <1>0, <1>1, <2>2
  <1>5. earned' = Total(Shares', commissions')
    <2>1. o \notin commissions
      BY <1>0, <1>1
    <2>2. Total(Shares, commissions \cup {o}) = Total(Shares, commissions) + Shares[o]
      BY <1>3, <2>1, TotalAdd
    <2> QED BY <1>1, <1>2, <1>3, <2>1, <2>2
  <1>6. used' <= Cardinality(Redeemed')
    <2>1. /\ IsFiniteSet(Redeemed) /\ o \notin Redeemed
      BY <1>0, PaidFinite, OrdersFinite DEF Redeemed
    <2>2. Redeemed' = IF order[o].coupon THEN Redeemed \cup {o} ELSE Redeemed
      BY <1>0, PaidFinite DEF Redeemed, Becomes
    <2>3. Cardinality(Redeemed \cup {o}) = Cardinality(Redeemed) + 1
      BY <2>1, FS_AddElement
    <2>4. Cardinality(Redeemed) \in Nat /\ used \in Int
      BY <2>1, FS_CardinalityType DEF BillingTypeOK
    <2> QED BY <1>1, <2>2, <2>3, <2>4
  <1> QED BY <1>4, <1>5, <1>6 DEF HooksFollowOrders, Paid, Redeemed, Total

\* Reversing them takes both back.
LEMMA HooksReversed ==
  ASSUME BillingTypeOK, HooksFollowOrders, NEW o \in Ids,
         Becomes(o, "refunded"), order[o].status = "paid", Reversed(o)
  PROVE  HooksFollowOrders'
  <1>0. Paid' = Paid \ {o} /\ o \in Paid
    BY RefundedOrders
  <1>1. /\ commissions = {p \in Paid : Share(p) > 0} /\ earned = Total(Shares, commissions)
        /\ used <= Cardinality(Redeemed)
    BY DEF HooksFollowOrders, Paid, Redeemed
  <1>2. Shares' = Shares /\ \A p \in Ids : Share(p)' = Share(p)
    BY AmountsKept
  <1>3. /\ \A p \in Ids : Shares[p] \in Nat /\ Shares[p] = Share(p)
        /\ IsFiniteSet(commissions) /\ commissions \subseteq Ids
    BY SharesAreNat, OrdersFinite DEF BillingTypeOK
  <1>4. commissions' = {p \in Paid' : Share(p)' > 0}
    <2>1. \A p \in Paid' : Share(p)' = Share(p)
      BY <1>0, <1>2, PaidFinite
    <2>2. {p \in Paid' : Share(p)' > 0} = {p \in Paid \ {o} : Share(p) > 0}
      BY <1>0, <2>1
    <2>3. commissions' = commissions \ {o}
      BY DEF Reversed
    <2> QED BY <1>1, <2>2, <2>3
  <1>5. earned' = Total(Shares', commissions')
    <2>1. CASE o \in commissions
      <3>1. Total(Shares, commissions) = Total(Shares, commissions \ {o}) + Shares[o]
        BY <1>3, <2>1, TotalRemove
      <3>2. Total(Shares, commissions \ {o}) \in Nat
        <4>1. IsFiniteSet(commissions \ {o})
          BY <1>3, FS_RemoveElement
        <4> QED BY <1>3, <4>1, TotalType
      <3>3. earned' = earned - Share(o) /\ commissions' = commissions \ {o}
        BY <2>1 DEF Reversed
      <3> QED BY <1>1, <1>2, <1>3, <3>1, <3>2, <3>3
    <2>2. CASE o \notin commissions
      <3>1. commissions' = commissions /\ earned' = earned
        BY <2>2 DEF Reversed
      <3> QED BY <1>1, <1>2, <3>1
    <2> QED BY <2>1, <2>2
  <1>6. used' <= Cardinality(Redeemed')
    <2>1. IsFiniteSet(Redeemed)
      BY PaidFinite, OrdersFinite DEF Redeemed
    <2>2. Redeemed' = IF order[o].coupon THEN Redeemed \ {o} ELSE Redeemed
      BY <1>0, PaidFinite DEF Redeemed, Becomes
    <2>3. order[o].coupon => Cardinality(Redeemed \ {o}) = Cardinality(Redeemed) - 1
      BY <1>0, <2>1, FS_RemoveElement DEF Redeemed
    <2>4. Cardinality(Redeemed) \in Nat /\ Cardinality(Redeemed \ {o}) \in Nat
      <3>1. IsFiniteSet(Redeemed \ {o})
        BY <2>1, FS_RemoveElement
      <3> QED BY <2>1, <3>1, FS_CardinalityType
    <2>u. used \in Nat
      BY BillingConstants DEF BillingTypeOK
    <2>5. used' = IF order[o].coupon /\ used > 0 THEN used - 1 ELSE used
      BY DEF Reversed
    <2> QED BY <1>1, <2>2, <2>3, <2>4, <2>5, <2>u
  <1> QED BY <1>4, <1>5, <1>6 DEF HooksFollowOrders, Paid, Redeemed, Total

\* A step that pays for nothing, refunds nothing and moves no money keeps all
\* three books.
LEMMA BooksKept ==
  ASSUME BillingTypeOK, BillingTypeOK', BooksBalance, OrdersKept, SubsKept,
         UNCHANGED <<balance, earned, commissions, used>>
  PROVE  BooksBalance'
  <1>1. Paid' = Paid /\ Received' = Received /\ Redeemed' = Redeemed
    <2>1. With({"paid"})' = With({"paid"}) /\ With({"paid", "refunded"})' = With({"paid", "refunded"})
      BY DEF OrdersKept, With
    <2> QED BY <2>1 DEF OrdersKept, Paid, Received, Redeemed, With
  <1>2. \A o \in Paid \cup Received : order'[o].amount = order[o].amount
    BY DEF OrdersKept, Paid, Received, With
  <1>3. \A o \in Paid \cup Received : Amounts'[o] = Amounts[o]
    BY <1>2, PaidFinite DEF Amounts
  <1>4. \A o \in Paid : Share(o)' = Share(o) /\ Shares'[o] = Shares[o]
    BY <1>2, PaidFinite DEF Share, Shares
  <1>5. PeriodsArePaidFor'
    BY <1>1, PeriodsKept DEF BooksBalance, PeriodsArePaidFor, Paid
  <1>6. MoneyAddsUp'
    <2>1. Total(Amounts', Paid) = Total(Amounts, Paid) /\ Total(Amounts', Received) = Total(Amounts, Received)
      BY <1>3, TotalSame
    <2> QED BY <1>1, <2>1 DEF BooksBalance, MoneyAddsUp, Paid, Received, Total
  <1>7. HooksFollowOrders'
    <2>1. commissions = {o \in Paid : Share(o) > 0}
      BY DEF BooksBalance, HooksFollowOrders, Paid
    <2>2. commissions' = {o \in Paid' : Share(o)' > 0}
      BY <1>1, <1>4, <2>1
    <2>3. Total(Shares', commissions) = Total(Shares, commissions)
      BY <1>4, <2>1, TotalSame
    <2> QED BY <1>1, <2>2, <2>3 DEF BooksBalance, HooksFollowOrders, Paid, Redeemed, Total
  <1> QED BY <1>5, <1>6, <1>7 DEF BooksBalance
-----------------------------------------------------------------------------
(* The steps.                                                              *)

\* A grant extends a subscription in force or adds one (grantTx).
LEMMA GrantEffect ==
  ASSUME BillingTypeOK, NEW o \in Ids, NEW mode, NEW life \in {"usable", "spent"},
         subs' = Granted(subs, o, mode, life)
  PROVE  subs' \in Seq(SubRow) /\ Len(subs') >= Len(subs) /\ (SubExtended \/ SubAdded(o))
  <1> DEFINE p == order[o].plan
             r == Renewable(subs, p)
             row == [plan |-> p, status |-> "active", life |-> "usable", periods |-> 1, order |-> 0]
             waits == [plan |-> p, status |-> "queued", life |-> "usable", periods |-> 1, order |-> o]
             cleared == IF mode # "replace" THEN subs
                        ELSE [s \in DOMAIN subs |-> IF subs[s].status = "active"
                                                    THEN [subs[s] EXCEPT !.status = "expired"] ELSE subs[s]]
  <1>1. Len(subs) \in Nat /\ subs \in [1..Len(subs) -> SubRow] /\ p \in Plans
    BY SubsFunction DEF BillingTypeOK, OrderRow
  <1>2. row \in SubRow /\ waits \in SubRow
    BY <1>1, BillingConstants DEF SubRow, Ids
  <1>3. CASE r # 0
    <2> DEFINE mine == {s \in 1..Len(subs) : subs[s].plan = p /\ subs[s].status = "active"}
    <2>1. r = Max(mine) /\ mine # {}
      BY <1>3 DEF Renewable
    <2>2. r \in mine
      BY <1>1, <2>1, MaxInSet
    <2>3. subs' = [subs EXCEPT ![r].periods = @ + 1, ![r].life = IF @ = "spent" THEN life ELSE @]
      BY <1>3 DEF Granted
    <2>4. r \in 1..Len(subs) /\ subs[r].status = "active" /\ subs[r] \in SubRow
      BY <1>1, <2>2
    <2> HIDE DEF r
    <2>5. subs' \in [1..Len(subs) -> SubRow]
      <3> DEFINE more == subs[r].periods + 1
                 then == IF subs[r].life = "spent" THEN life ELSE subs[r].life
                 longer == [subs[r] EXCEPT !.periods = more, !.life = then]
      <3>1. longer \in SubRow
        <4>1. more \in Nat \ {0} /\ then \in {"usable", "spent", "past"}
          BY <2>4 DEF SubRow
        <4> HIDE DEF more, then
        <4> QED BY <2>4, <4>1 DEF SubRow
      <3>2. subs' = [subs EXCEPT ![r] = longer]
        BY <1>1, <2>3, <2>4 DEF SubRow
      <3> HIDE DEF longer
      <3> QED BY <1>1, <2>4, <3>1, <3>2
    <2>6. subs' \in Seq(SubRow) /\ Len(subs') = Len(subs)
      BY <1>1, <2>5, RowsAreSeq
    <2>7. /\ subs'[r].periods = subs[r].periods + 1
          /\ \A s \in 1..Len(subs) \ {r} : subs'[s] = subs[s]
          /\ subs'[r].status = subs[r].status /\ subs'[r].order = subs[r].order
      BY <1>1, <2>3, <2>4 DEF SubRow
    <2>8. SubExtended
      BY <2>4, <2>6, <2>7 DEF SubExtended
    <2> QED BY <1>1, <2>6, <2>8
  <1>4. CASE r = 0 /\ mode = "queue" /\ \E s \in 1..Len(subs) : Usable(subs, s)
    <2>1. subs' = Append(subs, waits)
      BY <1>4 DEF Granted
    <2>2. /\ subs' \in Seq(SubRow) /\ Len(subs') = Len(subs) + 1
          /\ \A s \in 1..Len(subs) : subs'[s] = subs[s]
          /\ subs'[Len(subs) + 1] = waits
      BY <1>2, <2>1, AppendProperties DEF BillingTypeOK
    <2>3. SubAdded(o)
      BY <2>2 DEF SubAdded
    <2> QED BY <1>1, <2>2, <2>3
  <1>5. CASE r = 0 /\ ~(mode = "queue" /\ \E s \in 1..Len(subs) : Usable(subs, s))
    <2>1. subs' = Append(cleared, row)
      BY <1>5 DEF Granted
    <2>2. cleared \in [1..Len(subs) -> SubRow]
      BY <1>1 DEF SubRow
    <2>3. \A s \in 1..Len(subs) :
            /\ cleared[s].periods = subs[s].periods /\ cleared[s].order = subs[s].order
            /\ \/ cleared[s].status = subs[s].status
               \/ subs[s].status = "active" /\ cleared[s].status = "expired"
      BY <1>1 DEF SubRow
    <2> HIDE DEF cleared
    <2>4. cleared \in Seq(SubRow) /\ Len(cleared) = Len(subs)
      BY <1>1, <2>2, RowsAreSeq
    <2>5. /\ subs' \in Seq(SubRow) /\ Len(subs') = Len(cleared) + 1
          /\ \A s \in 1..Len(cleared) : subs'[s] = cleared[s]
          /\ subs'[Len(cleared) + 1] = row
      BY <1>2, <2>1, <2>4, AppendProperties
    <2>6. SubAdded(o)
      BY <2>3, <2>4, <2>5 DEF SubAdded
    <2> QED BY <1>1, <2>4, <2>5, <2>6
  <1> QED BY <1>3, <1>4, <1>5

\* A grant on behalf of an order that is being paid leaves every subscription
\* with its own order.
LEMMA GrantLinks ==
  ASSUME BillingTypeOK, Linked, NEW o \in Ids, Becomes(o, "paid"),
         order[o].status \notin {"paid", "refunded"}, SubExtended \/ SubAdded(o)
  PROVE  Linked'
  <1>0. /\ Len(subs) \in Nat /\ \A s \in 1..Len(subs) : subs[s].order \in 0..MaxOrders
        /\ o # 0 /\ Ids = 1..MaxOrders /\ MaxOrders \in Nat
    BY SubsFunction, BillingConstants DEF SubRow, Ids
  <1>1. \A s \in 1..Len(subs) : subs[s].order # o
    BY <1>0 DEF Linked
  <1>2. \A p \in Ids : p # o => order'[p].status = order[p].status
    BY DEF Becomes
  <1>3. order'[o].status = "paid"
    BY DEF Becomes
  <1>4. CASE SubExtended
    <2> SUFFICES ASSUME NEW s \in 1..Len(subs)
                 PROVE  /\ subs'[s].order # 0 => order'[subs'[s].order].status \in {"paid", "refunded"}
                        /\ subs'[s].order # 0 =>
                             \A t \in 1..Len(subs) : subs'[t].order = subs'[s].order => t = s
                        /\ subs'[s].status = "queued" =>
                             /\ subs'[s].periods = 1
                             /\ subs'[s].order # 0 /\ order'[subs'[s].order].status = "paid"
      BY <1>4 DEF SubExtended, Linked
    <2>1. subs'[s].order = subs[s].order /\ subs'[s].status = subs[s].status
      BY <1>4 DEF SubExtended
    <2>2. subs[s].status = "queued" => subs'[s].periods = subs[s].periods
      BY <1>4 DEF SubExtended
    <2>3. subs[s].order # 0 => order'[subs[s].order].status = order[subs[s].order].status
      BY <1>0, <1>1, <1>2
    <2>4. \A t \in 1..Len(subs) : subs'[t].order = subs[t].order
      BY <1>4 DEF SubExtended
    <2> QED BY <2>1, <2>2, <2>3, <2>4 DEF Linked
  <1>5. CASE SubAdded(o)
    <2> DEFINE n == Len(subs) + 1
    <2>1. Len(subs') = n /\ n \notin 1..Len(subs) /\ 1..Len(subs') = 1..Len(subs) \cup {n}
      BY <1>0, <1>5 DEF SubAdded
    <2>2. \A t \in 1..Len(subs) : subs'[t].order = subs[t].order
      BY <1>5 DEF SubAdded
    <2>3. subs'[n].order \in {0, o} /\ (subs'[n].status = "queued" => subs'[n].periods = 1 /\ subs'[n].order = o)
      BY <1>5 DEF SubAdded
    <2>4. \A t \in 1..Len(subs) : subs[t].order # 0 => order'[subs[t].order].status = order[subs[t].order].status
      BY <1>0, <1>1, <1>2
    <2> HIDE DEF n
    <2>5. ASSUME NEW s \in 1..Len(subs') PROVE
            /\ subs'[s].order # 0 => order'[subs'[s].order].status \in {"paid", "refunded"}
            /\ subs'[s].order # 0 => \A t \in 1..Len(subs') : subs'[t].order = subs'[s].order => t = s
            /\ subs'[s].status = "queued" =>
                 /\ subs'[s].periods = 1 /\ subs'[s].order # 0 /\ order'[subs'[s].order].status = "paid"
      <3>1. CASE s = n
        BY <1>0, <1>1, <1>3, <2>1, <2>2, <2>3, <3>1
      <3>2. CASE s \in 1..Len(subs)
        <4>1. subs'[s].order = subs[s].order /\ subs'[s].order # o
          BY <1>1, <2>2, <3>2
        <4>2. subs'[s].status = "queued" => subs[s].status = "queued" /\ subs'[s].periods = subs[s].periods
          BY <1>5, <3>2 DEF SubAdded
        <4>3. subs'[s].order # 0 => \A t \in 1..Len(subs') : subs'[t].order = subs'[s].order => t = s
          <5> SUFFICES ASSUME subs'[s].order # 0, NEW t \in 1..Len(subs'), subs'[t].order = subs'[s].order
                       PROVE  t = s
            OBVIOUS
          <5>1. t # n
            BY <2>3, <4>1
          <5>2. t \in 1..Len(subs) /\ subs[t].order = subs[s].order
            BY <2>1, <2>2, <4>1, <5>1
          <5> QED BY <3>2, <4>1, <5>2 DEF Linked
        <4> QED BY <2>4, <3>2, <4>1, <4>2, <4>3 DEF Linked
      <3> QED BY <2>1, <3>1, <3>2
    <2> QED BY <2>5 DEF Linked
  <1> QED BY <1>4, <1>5

\* A payment, at the gateway or from the balance, with its grant and hooks.
LEMMA PayStep ==
  ASSUME BillingInv, NEW o \in Ids, order[o].status \in {"pending", "cancelled"},
         order' = [order EXCEPT ![o].status = "paid"], GrantAndHooks(o),
         balance' = (IF order[o].gateway THEN balance ELSE balance - order[o].amount),
         ~order[o].gateway => balance >= order[o].amount, UNCHANGED <<single, job, due>>
  PROVE  BillingInv'
  <1>0. BillingTypeOK /\ InSequence /\ SentWasPlaced /\ Linked /\ PeriodsArePaidFor /\ MoneyAddsUp /\ HooksFollowOrders
    BY DEF BillingInv, BooksBalance
  <1>1. /\ order' \in [Ids -> OrderRow] /\ order \in [Ids -> OrderRow] /\ Becomes(o, "paid")
        /\ \A p \in Ids : order'[p].sent = order[p].sent
    BY <1>0 DEF BillingTypeOK, OrderRow, Becomes
  <1>2. PICK life \in {"usable", "spent"} : subs' = Granted(subs, o, Mode(o), life)
    BY DEF GrantAndHooks
  <1>3. subs' \in Seq(SubRow) /\ Len(subs') >= Len(subs) /\ (SubExtended \/ SubAdded(o))
    BY <1>0, <1>2, GrantEffect
  <1>4. balance' \in Nat
    <2>1. order[o].amount \in Nat /\ balance \in Nat /\ order[o].gateway \in BOOLEAN
      BY <1>0 DEF BillingTypeOK, OrderRow
    <2> QED BY <2>1
  <1>5. used' \in 0..MaxUses /\ commissions' \subseteq Ids /\ earned' \in Int
    <2>1. Share(o) \in Int
      BY <1>0, SharesAreNat
    <2>2. used \in 0..MaxUses /\ commissions \subseteq Ids /\ earned \in Int /\ MaxUses \in Nat
      BY <1>0, BillingConstants DEF BillingTypeOK
    <2>3. used' = (IF order[o].coupon /\ used < MaxUses THEN used + 1 ELSE used)
      BY DEF GrantAndHooks
    <2>4. \/ commissions' = commissions \cup {o} /\ earned' = earned + Share(o)
          \/ commissions' = commissions /\ earned' = earned
      BY DEF GrantAndHooks
    <2>5. used' \in 0..MaxUses
      BY <2>2, <2>3
    <2>6. commissions' \subseteq Ids /\ earned' \in Int
      BY <2>1, <2>2, <2>4
    <2> QED BY <2>5, <2>6
  <1>6. due' \in 0..Len(subs')
    <2>1. Len(subs) \in Nat /\ due \in 0..Len(subs) /\ due' = due
      BY <1>0, SubsFunction DEF BillingTypeOK
    <2>2. Len(subs') \in Nat
      BY <1>3, LenProperties
    <2> QED BY <1>3, <2>1, <2>2
  <1>7. BillingTypeOK'
    <2>1. single' \in BOOLEAN /\ job' \in {"cancel", "expire", "promote", "start", "reset"}
      BY <1>0, Zenon DEF BillingTypeOK
    <2> QED BY <1>1, <1>3, <1>4, <1>5, <1>6, <2>1 DEF BillingTypeOK
  <1>8. InSequence' /\ SentWasPlaced'
    BY <1>0, <1>1 DEF Becomes, InSequence, SentWasPlaced
  <1>9. Linked'
    BY <1>0, <1>1, <1>3, GrantLinks
  <1>10. PeriodsArePaidFor'
    <2>1. Total(Periods, Held)' = Total(Periods, Held) + 1
      BY <1>0, <1>3, <1>7, PeriodsExtended, PeriodsAdded
    <2>2. Cardinality(Paid') = Cardinality(Paid) + 1 /\ Cardinality(Paid) \in Nat
      BY <1>1, PaidCount
    <2> QED BY <1>0, <2>1, <2>2 DEF PeriodsArePaidFor, Paid
  <1>11. MoneyAddsUp'
    BY <1>0, <1>1, MoneySettled
  <1>12. HooksFollowOrders'
    <2>1. /\ used' = (IF order[o].coupon /\ used < MaxUses THEN used + 1 ELSE used)
          /\ IF Share(o) > 0 /\ o \notin commissions
             THEN commissions' = commissions \cup {o} /\ earned' = earned + Share(o)
             ELSE UNCHANGED <<commissions, earned>>
      BY DEF GrantAndHooks
    <2> QED BY <1>0, <1>1, <2>1, HooksSettled
  <1> QED BY <1>7, <1>8, <1>9, <1>10, <1>11, <1>12 DEF BillingInv, BooksBalance

\* A step on the subscriptions alone: rows start, expire, lapse or are reset.
LEMMA SubsStep ==
  ASSUME BillingInv, subs' \in [1..Len(subs) -> SubRow],
         \A s \in 1..Len(subs) :
           /\ subs'[s].periods = subs[s].periods /\ subs'[s].order = subs[s].order
           /\ subs'[s].status = "cancelled" <=> subs[s].status = "cancelled"
           /\ subs'[s].status = "queued" => subs[s].status = "queued",
         UNCHANGED <<single, order, balance, earned, commissions, used>>,
         job' \in {"cancel", "expire", "promote", "start", "reset"}, due' \in 0..Len(subs)
  PROVE  BillingInv'
  <1>0. BillingTypeOK /\ InSequence /\ SentWasPlaced /\ Linked /\ BooksBalance /\ Len(subs) \in Nat
    BY SubsFunction DEF BillingInv
  <1>1. subs' \in Seq(SubRow) /\ Len(subs') = Len(subs)
    BY <1>0, RowsAreSeq
  <1>2. BillingTypeOK'
    BY <1>0, <1>1 DEF BillingTypeOK
  <1>3. InSequence' /\ SentWasPlaced'
    BY <1>0 DEF InSequence, SentWasPlaced
  <1>4. Linked'
    BY <1>0, <1>1 DEF Linked
  <1>5. SubsKept /\ OrdersKept
    BY <1>1 DEF SubsKept, OrdersKept
  <1>6. BooksBalance'
    BY <1>0, <1>2, <1>5, BooksKept
  <1> QED BY <1>2, <1>3, <1>4, <1>6 DEF BillingInv

\* A step on the orders alone that pays for none of them.
LEMMA OrdersStep ==
  ASSUME BillingInv, order' \in [Ids -> OrderRow], OrdersKept, InSequence', SentWasPlaced',
         UNCHANGED <<single, subs, balance, earned, commissions, used, due>>,
         job' \in {"cancel", "expire", "promote", "start", "reset"}
  PROVE  BillingInv'
  <1>0. BillingTypeOK /\ Linked /\ BooksBalance
    BY DEF BillingInv
  <1>1. BillingTypeOK'
    BY <1>0 DEF BillingTypeOK
  <1>2. Linked'
    <2>1. /\ \A s \in 1..Len(subs) : subs[s].order \in 0..MaxOrders
          /\ Ids = 1..MaxOrders /\ MaxOrders \in Nat
      BY <1>0, SubsFunction, BillingConstants DEF SubRow, Ids
    <2>2. \A s \in 1..Len(subs) : subs[s].order # 0 => subs[s].order \in Ids
      BY <2>1
    <2> QED BY <1>0, <2>2 DEF Linked, OrdersKept
  <1>3. SubsKept
    BY DEF SubsKept
  <1>4. BooksBalance'
    BY <1>0, <1>1, <1>3, BooksKept
  <1> QED BY <1>1, <1>2, <1>4 DEF BillingInv

\* The id of a new order is the first that is free (CreateOrder).
LEMMA NextIdIsFree ==
  ASSUME BillingTypeOK, InSequence, NEW o \in Ids, o = Cardinality(Ids \ With({"none"})) + 1
  PROVE  /\ order[o].status = "none"
         /\ \A p \in Ids : p < o => order[p].status # "none"
  <1> DEFINE taken == Ids \ With({"none"})
  <1>0. o \in Nat /\ Ids = 1..MaxOrders /\ MaxOrders \in Nat
    BY BillingConstants DEF Ids
  <1>1. IsFiniteSet(taken) /\ Cardinality(taken) \in Nat /\ \A p \in Ids : p \in taken <=> order[p].status # "none"
    <2>1. IsFiniteSet(taken)
      BY OrdersFinite
    <2>2. Cardinality(taken) \in Nat
      BY <2>1, FS_CardinalityType
    <2> QED BY <2>1, <2>2 DEF With
  <1>c. o = Cardinality(taken) + 1
    OBVIOUS
  <1>t. taken \subseteq Ids
    OBVIOUS
  <1> HIDE DEF taken
  <1>2. order[o].status = "none"
    <2> SUFFICES ASSUME order[o].status # "none" PROVE FALSE
      OBVIOUS
    <2>1. \A p \in 1..o : p \in Ids /\ (p < o \/ p = o)
      BY <1>0
    <2>2. 1..o \subseteq taken
      BY <1>1, <2>1 DEF InSequence
    <2>3. Cardinality(1..o) <= Cardinality(taken) /\ Cardinality(1..o) = o
      <3>1. Cardinality(1..o) = o
        BY <1>0, FS_Interval
      <3> QED BY <1>1, <2>2, <3>1, FS_Subset
    <2> QED BY <1>0, <1>1, <1>c, <2>3
  <1>3. ASSUME NEW p \in Ids, p < o, order[p].status = "none" PROVE FALSE
    <2>1. \A q \in taken : q \in 1..(p - 1)
      <3> TAKE q \in taken
      <3>1. q \in Ids /\ order[q].status # "none"
        BY <1>1, <1>t
      <3>2. ~(p < q) /\ p # q
        BY <1>3, <3>1 DEF InSequence
      <3> QED BY <1>0, <3>1, <3>2
    <2>2. IsFiniteSet(1..(p - 1)) /\ Cardinality(1..(p - 1)) = p - 1
      <3> DEFINE m == p - 1
      <3>1. m \in Nat /\ 1 \in Int /\ m \in Int
        BY <1>0
      <3> HIDE DEF m
      <3>2. IsFiniteSet(1..m) /\ Cardinality(1..m) = IF 1 > m THEN 0 ELSE m - 1 + 1
        BY <3>1, FS_Interval
      <3>3. Cardinality(1..m) = m
        BY <3>1, <3>2
      <3> QED BY <3>2, <3>3 DEF m
    <2>3. Cardinality(taken) <= p - 1
      BY <2>1, <2>2, FS_Subset
    <2> QED BY <1>0, <1>1, <1>3, <1>c, <2>3
  <1> QED BY <1>2, <1>3

\* The steps of checkout.
LEMMA CheckoutStep ==
  ASSUME BillingInv, NEW o \in Ids,
         \/ \E p \in Plans, c \in Checkouts : Quote(o, p, c)
         \/ Place(o) \/ Discard(o) \/ PayAtGateway(o)
  PROVE  BillingInv'
  <1>0. BillingTypeOK /\ InSequence /\ SentWasPlaced
    BY DEF BillingInv
  <1>t. /\ order \in [Ids -> OrderRow] /\ job \in {"cancel", "expire", "promote", "start", "reset"}
        /\ Price \in Nat /\ Discount \in Nat /\ Discount < Price
    BY <1>0, BillingConstants DEF BillingTypeOK
  <1>1. ASSUME NEW p \in Plans, NEW c \in Checkouts, Quote(o, p, c) PROVE BillingInv'
    <2>1. order[o].status = "none" /\ \A q \in Ids : q < o => order[q].status # "none"
      BY <1>0, <1>1, NextIdIsFree DEF Quote
    <2> DEFINE amount == IF c.coupon THEN Price - Discount ELSE Price
               row == [status |-> "quoted", plan |-> p, amount |-> amount, coupon |-> c.coupon,
                       gateway |-> c.gateway, queue |-> c.queue, sent |-> FALSE]
    <2>2. order' = [order EXCEPT ![o] = row] /\ UNCHANGED <<single, subs, balance, earned, commissions, used, job, due>>
      BY <1>1 DEF Quote
    <2>3. row \in OrderRow
      <3>1. amount \in Nat
        BY <1>t
      <3>2. c.coupon \in BOOLEAN /\ c.gateway \in BOOLEAN /\ c.queue \in BOOLEAN
        BY BillingConstants
      <3> HIDE DEF amount
      <3> QED BY <3>1, <3>2 DEF OrderRow
    <2>4. row.status = "quoted" /\ row.sent = FALSE
      OBVIOUS
    <2> HIDE DEF row
    <2>5. order' \in [Ids -> OrderRow] /\ order'[o] = row /\ \A q \in Ids \ {o} : order'[q] = order[q]
      BY <1>t, <2>2, <2>3
    <2>6. OrdersKept
      BY <2>1, <2>4, <2>5 DEF OrdersKept
    <2>7. InSequence'
      <3> SUFFICES ASSUME NEW a \in Ids, NEW b \in Ids, b < a, order'[a].status # "none"
                   PROVE  order'[b].status # "none"
        BY DEF InSequence
      <3>1. CASE b = o
        BY <2>4, <2>5, <3>1
      <3>2. CASE a = o /\ b # o
        BY <2>1, <2>5, <3>2
      <3>3. CASE a # o /\ b # o
        BY <1>0, <2>5, <3>3 DEF InSequence
      <3> QED BY <3>1, <3>2, <3>3
    <2>8. SentWasPlaced'
      BY <1>0, <2>4, <2>5 DEF SentWasPlaced
    <2> QED BY <1>t, <2>2, <2>5, <2>6, <2>7, <2>8, OrdersStep
  <1>2. ASSUME NEW st \in {"pending", "discarded"}, order' = [order EXCEPT ![o].status = st],
               UNCHANGED <<single, subs, balance, earned, commissions, used, job, due>>,
               \/ order[o].status = "quoted" /\ st = "pending"
               \/ order[o].status = "pending" /\ ~order[o].gateway
        PROVE  BillingInv'
    <2>1. /\ order' \in [Ids -> OrderRow] /\ order'[o].status = st
          /\ order'[o].sent = order[o].sent /\ order'[o].gateway = order[o].gateway
          /\ \A q \in Ids \ {o} : order'[q] = order[q]
      BY <1>t, <1>2 DEF OrderRow
    <2>2. OrdersKept
      BY <1>2, <2>1 DEF OrdersKept
    <2>3. InSequence'
      BY <1>0, <1>2, <2>1 DEF InSequence
    <2>4. SentWasPlaced'
      BY <1>0, <1>2, <2>1 DEF SentWasPlaced
    <2> QED BY <1>t, <1>2, <2>1, <2>2, <2>3, <2>4, OrdersStep
  <1>3. CASE Place(o)
    BY <1>2, <1>3 DEF Place
  <1>4. CASE Discard(o)
    BY <1>2, <1>4 DEF Discard
  <1>5. CASE PayAtGateway(o)
    <2>1. order' = [order EXCEPT ![o].sent = TRUE]
      BY <1>5 DEF PayAtGateway
    <2>2. /\ order' \in [Ids -> OrderRow]
          /\ order'[o].sent /\ order'[o].gateway = order[o].gateway
          /\ \A q \in Ids : order'[q].status = order[q].status
          /\ \A q \in Ids \ {o} : order'[q] = order[q]
      BY <1>t, <2>1 DEF OrderRow
    <2>3. OrdersKept
      BY <1>5, <2>2 DEF OrdersKept, PayAtGateway
    <2>4. InSequence'
      BY <1>0, <2>2 DEF InSequence
    <2>5. SentWasPlaced'
      BY <1>0, <1>5, <2>2 DEF SentWasPlaced, PayAtGateway
    <2>6. UNCHANGED <<single, subs, balance, earned, commissions, used, job, due>>
      BY <1>5 DEF PayAtGateway
    <2> QED BY <1>t, <2>2, <2>3, <2>4, <2>5, <2>6, OrdersStep
  <1> QED BY <1>1, <1>3, <1>4, <1>5

\* A notification or a payment from the balance (MarkPaid, PayWithBalance).  A
\* payment that was sent is for an order that can be settled.
LEMMA PaymentStep ==
  ASSUME BillingInv, LateRepeats = FALSE, NEW o \in Ids, PayWithBalance(o) \/ Notify(o)
  PROVE  BillingInv'
  <1>1. CASE PayWithBalance(o)
    BY <1>1, PayStep DEF PayWithBalance
  <1>2. CASE Notify(o)
    <2>1. order[o].gateway /\ order[o].status \in {"pending", "cancelled"}
      BY <1>2 DEF Notify, BillingInv, SentWasPlaced
    <2>2. order' = [order EXCEPT ![o].status = "paid"] /\ balance' = balance
          /\ GrantAndHooks(o) /\ UNCHANGED <<single, job, due>>
      BY <1>2, <2>1 DEF Notify
    <2> QED BY <2>1, <2>2, PayStep
  <1> QED BY <1>1, <1>2

\* Cancelling a waiting subscription refunds the order that paid for it, which is
\* paid and not refunded yet (CancelQueued).
LEMMA CancelStep ==
  ASSUME BillingInv, NEW q \in 1..Len(subs), CancelQueued(q)
  PROVE  BillingInv'
  <1> DEFINE o == subs[q].order
  <1>0. BillingTypeOK /\ InSequence /\ SentWasPlaced /\ Linked /\ PeriodsArePaidFor /\ MoneyAddsUp /\ HooksFollowOrders
    BY DEF BillingInv, BooksBalance
  <1>1. /\ Len(subs) \in Nat /\ subs \in [1..Len(subs) -> SubRow]
        /\ \A s \in 1..Len(subs) : subs[s].order \in 0..MaxOrders
        /\ Ids = 1..MaxOrders /\ MaxOrders \in Nat
    BY <1>0, SubsFunction, BillingConstants DEF SubRow, Ids
  <1>2. subs[q].status = "queued" /\ subs[q].periods = 1 /\ o # 0 /\ order[o].status = "paid"
    BY <1>0 DEF CancelQueued, Linked
  <1>3. o \in Ids
    BY <1>1, <1>2
  <1>4. /\ subs' = [subs EXCEPT ![q].status = "cancelled"]
        /\ order' = [order EXCEPT ![o].status = "refunded"]
        /\ balance' = balance + order[o].amount /\ Reversed(o)
        /\ UNCHANGED <<single, job, due>>
    BY <1>2 DEF CancelQueued, Refund
  <1> HIDE DEF o
  <1>5. /\ order' \in [Ids -> OrderRow] /\ order \in [Ids -> OrderRow] /\ Becomes(o, "refunded")
        /\ \A p \in Ids : order'[p].sent = order[p].sent
    BY <1>0, <1>3, <1>4 DEF BillingTypeOK, OrderRow, Becomes
  <1>6. subs' \in [1..Len(subs) -> SubRow]
    BY <1>1, <1>4 DEF SubRow
  <1>7. subs' \in Seq(SubRow) /\ Len(subs') = Len(subs)
    BY <1>1, <1>6, RowsAreSeq
  <1>8. SubCancelled(q)
    BY <1>1, <1>2, <1>4, <1>7 DEF SubCancelled, SubRow
  <1>9. BillingTypeOK'
    <2>1. order[o].amount \in Nat /\ balance \in Nat /\ Share(o) \in Nat /\ earned \in Int
      BY <1>0, <1>3, SharesAreNat DEF BillingTypeOK, OrderRow
    <2>2. balance' \in Nat
      BY <1>4, <2>1
    <2>3. earned' \in Int /\ commissions' \subseteq Ids
      BY <1>0, <1>4, <2>1 DEF Reversed, BillingTypeOK
    <2>4. used' \in 0..MaxUses
      <3>1. used \in 0..MaxUses /\ MaxUses \in Nat
        BY <1>0, BillingConstants DEF BillingTypeOK
      <3>2. used' = IF order[o].coupon /\ used > 0 THEN used - 1 ELSE used
        BY <1>4 DEF Reversed
      <3> QED BY <3>1, <3>2
    <2>5. single' \in BOOLEAN /\ job' \in {"cancel", "expire", "promote", "start", "reset"}
      BY <1>0, <1>4, Zenon DEF BillingTypeOK
    <2>6. due' \in 0..Len(subs')
      BY <1>0, <1>4, <1>7 DEF BillingTypeOK
    <2> QED BY <1>5, <1>7, <2>2, <2>3, <2>4, <2>5, <2>6 DEF BillingTypeOK
  <1>10. InSequence' /\ SentWasPlaced'
    BY <1>0, <1>2, <1>3, <1>5 DEF Becomes, InSequence, SentWasPlaced
  <1>11. Linked'
    <2>1. \A s \in 1..Len(subs) : s # q => subs[s].order # o
      BY <1>0, <1>2 DEF Linked, o
    <2>2. \A s \in 1..Len(subs) : s # q /\ subs[s].order # 0 =>
            order'[subs[s].order].status = order[subs[s].order].status
      <3> TAKE s \in 1..Len(subs)
      <3> HAVE s # q /\ subs[s].order # 0
      <3>1. subs[s].order \in Ids \ {o}
        BY <1>1, <2>1
      <3> QED BY <1>5, <3>1 DEF Becomes
    <2>3. \A s \in 1..Len(subs) : subs'[s].order = subs[s].order /\ subs'[s].periods = subs[s].periods
      BY <1>8 DEF SubCancelled
    <2>4. \A s \in 1..Len(subs) : subs'[s].status = "queued" => s # q /\ subs[s].status = "queued"
      BY <1>8 DEF SubCancelled
    <2>5. order'[o].status = "refunded" /\ o = subs[q].order
      BY <1>5 DEF Becomes, o
    <2>6. \A s \in 1..Len(subs) : subs[s].order # 0 => order'[subs[s].order].status \in {"paid", "refunded"}
      BY <1>0, <2>2, <2>5 DEF Linked
    <2>7. \A s \in 1..Len(subs) : subs'[s].status = "queued" =>
            subs[s].periods = 1 /\ subs[s].order # 0 /\ order'[subs[s].order].status = "paid"
      BY <1>0, <2>2, <2>4 DEF Linked
    <2>8. \A s \in 1..Len(subs) : subs[s].order # 0 =>
            \A t \in 1..Len(subs) : subs[t].order = subs[s].order => t = s
      BY <1>0 DEF Linked
    <2> QED BY <1>7, <2>3, <2>6, <2>7, <2>8 DEF Linked
  <1>12. PeriodsArePaidFor'
    <2>1. Total(Periods, Held)' = Total(Periods, Held) - 1
      BY <1>0, <1>2, <1>8, <1>9, PeriodsCancelled
    <2>2. Cardinality(Paid') = Cardinality(Paid) - 1 /\ Cardinality(Paid) \in Nat
      BY <1>2, <1>3, <1>5, PaidCount
    <2> QED BY <1>0, <2>1, <2>2 DEF PeriodsArePaidFor, Paid
  <1>13. MoneyAddsUp'
    BY <1>0, <1>2, <1>3, <1>4, <1>5, MoneyRefunded
  <1>14. HooksFollowOrders'
    BY <1>0, <1>2, <1>3, <1>4, <1>5, HooksReversed
  <1> QED BY <1>9, <1>10, <1>11, <1>12, <1>13, <1>14 DEF BillingInv, BooksBalance

\* The jobs (jobs.go): old orders are cancelled, subscriptions expire, start and
\* have their quota reset.
LEMMA JobStep ==
  ASSUME BillingInv, Job
  PROVE  BillingInv'
  <1>0. BillingTypeOK /\ InSequence /\ SentWasPlaced
    BY DEF BillingInv
  <1>t. /\ order \in [Ids -> OrderRow] /\ due \in 0..Len(subs)
        /\ Len(subs) \in Nat /\ subs \in [1..Len(subs) -> SubRow] /\ DOMAIN subs = 1..Len(subs)
    BY <1>0, SubsFunction DEF BillingTypeOK
  <1>1. CASE CancelStale
    <2>1. PICK old \in SUBSET With({"pending"}) :
            order' = [o \in Ids |-> IF o \in old THEN [order[o] EXCEPT !.status = "cancelled"] ELSE order[o]]
      BY <1>1 DEF CancelStale
    <2>2. order' \in [Ids -> OrderRow]
      BY <1>t, <2>1 DEF OrderRow
    <2>3. \A o \in Ids : \/ order'[o] = order[o]
                         \/ /\ order[o].status = "pending" /\ order'[o].status = "cancelled"
                            /\ order'[o].sent = order[o].sent /\ order'[o].gateway = order[o].gateway
      BY <1>t, <2>1 DEF OrderRow, With
    <2>4. OrdersKept
      BY <2>3 DEF OrdersKept
    <2>5. InSequence'
      BY <1>0, <2>3 DEF InSequence
    <2>6. SentWasPlaced'
      BY <1>0, <2>3 DEF SentWasPlaced
    <2> QED BY <1>1, <2>2, <2>4, <2>5, <2>6, OrdersStep DEF CancelStale
  <1>2. CASE ExpireSubscriptions
    <2>1. subs' = [s \in DOMAIN subs |-> IF subs[s].status = "active" /\ subs[s].life = "past"
                                         THEN [subs[s] EXCEPT !.status = "expired"] ELSE subs[s]]
      BY <1>2 DEF ExpireSubscriptions
    <2>2. subs' \in [1..Len(subs) -> SubRow]
      BY <1>t, <2>1 DEF SubRow
    <2>3. \A s \in 1..Len(subs) :
            /\ subs'[s].periods = subs[s].periods /\ subs'[s].order = subs[s].order
            /\ subs'[s].status = "cancelled" <=> subs[s].status = "cancelled"
            /\ subs'[s].status = "queued" => subs[s].status = "queued"
      BY <1>t, <2>1 DEF SubRow
    <2> QED BY <1>2, <1>t, <2>2, <2>3, SubsStep DEF ExpireSubscriptions
  <1>3. CASE PromoteQueued
    <2> DEFINE queued == {s \in 1..Len(subs) : subs[s].status = "queued"}
    <2>1. due' \in 0..Len(subs)
      <3>1. due' = 0 \/ (queued # {} /\ due' = Min(queued))
        BY <1>3 DEF PromoteQueued
      <3>2. CASE queued # {} /\ due' = Min(queued)
        <4>1. queued \in SUBSET Nat
          BY <1>t
        <4>2. Min(queued) \in queued
          BY <3>2, <4>1, MinInSet
        <4> QED BY <1>t, <3>2, <4>2
      <3> QED BY <1>t, <3>1, <3>2
    <2>2. UNCHANGED <<single, order, subs, balance, earned, commissions, used>> /\ job' = "start"
      BY <1>3 DEF PromoteQueued
    <2> QED BY <1>t, <2>1, <2>2, SubsStep
  <1>4. CASE StartSubscription
    <2>1. \/ subs' = subs
          \/ /\ due \in 1..Len(subs) /\ subs[due].status = "queued"
             /\ subs' = [subs EXCEPT ![due].status = "active", ![due].life = "usable"]
      BY <1>4, <1>t DEF StartSubscription
    <2>2. subs' \in [1..Len(subs) -> SubRow]
      BY <1>t, <2>1 DEF SubRow
    <2>3. \A s \in 1..Len(subs) :
            /\ subs'[s].periods = subs[s].periods /\ subs'[s].order = subs[s].order
            /\ subs'[s].status = "cancelled" <=> subs[s].status = "cancelled"
            /\ subs'[s].status = "queued" => subs[s].status = "queued"
      <3>1. CASE subs' = subs
        BY <3>1
      <3>2. CASE subs' # subs
        <4>1. /\ due \in 1..Len(subs) /\ subs[due].status = "queued"
              /\ subs' = [subs EXCEPT ![due].status = "active", ![due].life = "usable"]
          BY <2>1, <3>2
        <4>2. /\ subs'[due].periods = subs[due].periods /\ subs'[due].order = subs[due].order
              /\ subs'[due].status = "active"
              /\ \A s \in 1..Len(subs) \ {due} : subs'[s] = subs[s]
          BY <1>t, <4>1 DEF SubRow
        <4> QED BY <4>1, <4>2
      <3> QED BY <3>1, <3>2
    <2>4. due' \in 0..Len(subs) /\ job' = "reset"
      BY <1>4, <1>t DEF StartSubscription
    <2> QED BY <1>4, <2>2, <2>3, <2>4, SubsStep DEF StartSubscription
  <1>5. CASE ResetQuotas
    <2>1. PICK reset : subs' = [s \in DOMAIN subs |-> IF s \in reset THEN [subs[s] EXCEPT !.life = "usable"] ELSE subs[s]]
      BY <1>5 DEF ResetQuotas
    <2>2. subs' \in [1..Len(subs) -> SubRow]
      BY <1>t, <2>1 DEF SubRow
    <2>3. \A s \in 1..Len(subs) :
            /\ subs'[s].periods = subs[s].periods /\ subs'[s].order = subs[s].order
            /\ subs'[s].status = subs[s].status
      BY <1>t, <2>1 DEF SubRow
    <2> QED BY <1>5, <1>t, <2>2, <2>3, SubsStep DEF ResetQuotas
  <1> QED BY <1>1, <1>2, <1>3, <1>4, <1>5 DEF Job

\* A subscription lapses.
LEMMA LapseStep ==
  ASSUME BillingInv, NEW q \in 1..Len(subs), NEW life \in {"spent", "past"}, Lapse(q, life)
  PROVE  BillingInv'
  <1>0. BillingTypeOK
    BY DEF BillingInv
  <1>t. /\ due \in 0..Len(subs) /\ Len(subs) \in Nat /\ subs \in [1..Len(subs) -> SubRow]
        /\ job \in {"cancel", "expire", "promote", "start", "reset"}
    BY <1>0, SubsFunction DEF BillingTypeOK
  <1>1. subs' = [subs EXCEPT ![q].life = life]
    BY DEF Lapse
  <1>2. subs' \in [1..Len(subs) -> SubRow]
    BY <1>t, <1>1 DEF SubRow
  <1>3. \A s \in 1..Len(subs) :
          /\ subs'[s].periods = subs[s].periods /\ subs'[s].order = subs[s].order
          /\ subs'[s].status = subs[s].status
    BY <1>t, <1>1 DEF SubRow
  <1> QED BY <1>t, <1>2, <1>3, SubsStep DEF Lapse

\* At the start the customer has one period, which the operator granted.
LEMMA BillingStart == BillingInit => BillingInv
  <1> SUFFICES ASSUME BillingInit PROVE BillingInv
    OBVIOUS
  <1> DEFINE row == [plan |-> NoOrder.plan, status |-> "active", life |-> "usable", periods |-> 1, order |-> 0]
  <1>0. NoOrder \in OrderRow /\ NoOrder.status = "none" /\ NoOrder.sent = FALSE /\ NoOrder.plan \in Plans
    <2>1. (CHOOSE p \in Plans : TRUE) \in Plans
      BY BillingConstants
    <2> QED BY <2>1 DEF NoOrder, OrderRow
  <1>1. order \in [Ids -> OrderRow] /\ \A o \in Ids : order[o] = NoOrder
    BY <1>0 DEF BillingInit
  <1>2. row \in SubRow
    BY <1>0, BillingConstants DEF SubRow
  <1>3. subs \in Seq(SubRow) /\ Len(subs) = 1 /\ subs[1] = row
    BY <1>2 DEF BillingInit
  <1>4. BillingTypeOK
    <2>1. balance \in Nat /\ earned \in Int /\ commissions \subseteq Ids /\ used \in 0..MaxUses /\ due \in 0..Len(subs)
      BY <1>3, BillingConstants DEF BillingInit
    <2>2. single \in BOOLEAN /\ job \in {"cancel", "expire", "promote", "start", "reset"}
      BY Zenon DEF BillingInit
    <2> QED BY <1>1, <1>3, <2>1, <2>2 DEF BillingTypeOK
  <1>5. InSequence /\ SentWasPlaced
    BY <1>0, <1>1 DEF InSequence, SentWasPlaced
  <1>6. Linked
    BY <1>3 DEF Linked
  <1>7. Paid = {} /\ Received = {} /\ Redeemed = {}
    BY <1>0, <1>1 DEF Paid, Received, Redeemed, With
  <1>8. PeriodsArePaidFor
    <2>1. Held = {1}
      BY <1>3 DEF Held
    <2>2. Periods[1] = 1
      BY <1>3, <1>4, SharesAreNat
    <2>3. Total(Periods, {} \cup {1}) = Total(Periods, {}) + Periods[1]
      BY <2>2, FS_EmptySet, TotalAdd
    <2>4. {} \cup {1} = {1}
      OBVIOUS
    <2> QED BY <1>7, <2>1, <2>2, <2>3, <2>4, TotalEmpty, FS_EmptySet DEF PeriodsArePaidFor, Paid
  <1>9. MoneyAddsUp
    <2>1. Total(Amounts, {}) = 0
      BY TotalEmpty
    <2>2. balance = Money /\ Money \in Nat
      BY BillingConstants DEF BillingInit
    <2> QED BY <1>7, <2>1, <2>2 DEF MoneyAddsUp, Paid, Received
  <1>10. HooksFollowOrders
    <2>1. commissions = {} /\ earned = 0 /\ used = 0
      BY DEF BillingInit
    <2>2. {o \in With({"paid"}) : Share(o) > 0} = {}
      BY <1>7 DEF Paid
    <2>3. Total(Shares, {}) = 0 /\ Cardinality({}) = 0
      BY TotalEmpty, FS_EmptySet
    <2> QED BY <1>7, <2>1, <2>2, <2>3 DEF HooksFollowOrders, Paid, Redeemed
  <1> QED BY <1>4, <1>5, <1>6, <1>8, <1>9, <1>10 DEF BillingInv, BooksBalance
-----------------------------------------------------------------------------
\* The invariant is inductive.
LEMMA BillingInvariant ==
  ASSUME LateRepeats = FALSE
  PROVE  BillingInit /\ [][BillingNext]_billingVars => []BillingInv
  <1>1. BillingInv /\ [BillingNext]_billingVars => BillingInv'
    <2> SUFFICES ASSUME BillingInv, [BillingNext]_billingVars PROVE BillingInv'
      OBVIOUS
    <2>1. CASE Job
      BY <2>1, JobStep
    <2>2. ASSUME NEW o \in Ids,
                 \/ \E p \in Plans, c \in Checkouts : Quote(o, p, c)
                 \/ Place(o) \/ Discard(o) \/ PayAtGateway(o)
          PROVE  BillingInv'
      BY <2>2, CheckoutStep
    <2>3. ASSUME NEW o \in Ids, PayWithBalance(o) \/ Notify(o)
          PROVE  BillingInv'
      BY <2>3, PaymentStep
    <2>4. ASSUME NEW s \in 1..Len(subs), CancelQueued(s)
          PROVE  BillingInv'
      BY <2>4, CancelStep
    <2>5. ASSUME NEW s \in 1..Len(subs), NEW life \in {"spent", "past"}, Lapse(s, life)
          PROVE  BillingInv'
      BY <2>5, LapseStep
    <2>6. CASE UNCHANGED billingVars
      <3>1. BillingTypeOK' /\ InSequence' /\ SentWasPlaced' /\ Linked'
        BY <2>6 DEF BillingInv, billingVars, BillingTypeOK, InSequence, SentWasPlaced, Linked
      <3>2. OrdersKept /\ SubsKept
        BY <2>6 DEF OrdersKept, SubsKept, billingVars
      <3>3. BooksBalance'
        BY <2>6, <3>1, <3>2, BooksKept DEF BillingInv, billingVars
      <3> QED BY <3>1, <3>3 DEF BillingInv
    <2> QED BY <2>1, <2>2, <2>3, <2>4, <2>5, <2>6 DEF BillingNext
  <1> QED BY <1>1, BillingStart, PTL

\* Orders, subscriptions and accounts are well formed, and an order id is never
\* used twice (CreateOrder).
THEOREM BillingIsTyped ==
  ASSUME LateRepeats = FALSE
  PROVE  BillingSpec => [](BillingTypeOK /\ InSequence)
  <1>1. BillingInv => BillingTypeOK /\ InSequence
    BY DEF BillingInv
  <1> QED BY <1>1, BillingInvariant, PTL DEF BillingSpec

\* However notifications, cancellations and jobs interleave, every period a
\* customer holds was paid for once (MarkPaid, CancelQueued, PromoteQueued).
THEOREM PeriodsStayPaidFor ==
  ASSUME LateRepeats = FALSE
  PROVE  BillingSpec => []PeriodsArePaidFor
  <1>1. BillingInv => PeriodsArePaidFor
    BY DEF BillingInv, BooksBalance
  <1> QED BY <1>1, BillingInvariant, PTL DEF BillingSpec

\* The balance agrees with the orders: a refund returns what was paid, once
\* (PayWithBalance, CancelQueued).
THEOREM MoneyStaysAccounted ==
  ASSUME LateRepeats = FALSE
  PROVE  BillingSpec => []MoneyAddsUp
  <1>1. BillingInv => MoneyAddsUp
    BY DEF BillingInv, BooksBalance
  <1> QED BY <1>1, BillingInvariant, PTL DEF BillingSpec

\* Commissions and coupon uses are those of the paid orders (paidHooksTx,
\* reverseOrderHooksTx).
THEOREM HooksStayWithOrders ==
  ASSUME LateRepeats = FALSE
  PROVE  BillingSpec => []HooksFollowOrders
  <1>1. BillingInv => HooksFollowOrders
    BY DEF BillingInv, BooksBalance
  <1> QED BY <1>1, BillingInvariant, PTL DEF BillingSpec

-----------------------------------------------------------------------------
(* The receipts of traffic.                                                *)

\* The initial states are well formed and the books are balanced.
LEMMA InitBooks == Init => TypeOK /\ Books
  <1> SUFFICES ASSUME Init PROVE TypeOK /\ Books
    OBVIOUS
  <1>1. TypeOK
    BY TrafficConstants DEF Init, TypeOK, Batches
  <1>2. Books
    BY TrafficConstants DEF Init, Books, Batches, Seqs, Free
  <1> QED BY <1>1, <1>2

\* Appending a row keeps the history a bounded sequence of batches.
LEMMA RecordedType ==
  ASSUME NEW h \in Seq(Batches), Len(h) <= MaxRows, NEW b \in Batches
  PROVE  Recorded(h, b) \in Seq(Batches) /\ Len(Recorded(h, b)) <= MaxRows
  <1>1. CASE Len(h) < MaxRows
    BY <1>1, TrafficConstants DEF Recorded
  <1>2. CASE ~(Len(h) < MaxRows)
    <2>1. Len(h) = MaxRows /\ h # <<>>
      BY <1>2, TrafficConstants
    <2>2. Tail(h) \in Seq(Batches) /\ Len(Tail(h)) = Len(h) - 1
      BY <2>1, TrafficConstants
    <2> QED BY <1>2, <2>1, <2>2, TrafficConstants DEF Recorded
  <1> QED BY <1>1, <1>2

\* Every row after an insertion was there before, no earlier, or is the new one.
LEMMA RecordedRows ==
  ASSUME NEW h \in Seq(Batches), NEW b \in Batches, NEW i \in 1..Len(Recorded(h, b))
  PROVE  Recorded(h, b)[i] = b \/ \E j \in 1..Len(h) : h[j] = Recorded(h, b)[i] /\ j >= i
  <1>0. Len(h) \in Nat
    OBVIOUS
  <1>1. CASE Len(h) < MaxRows
    <2>1. Recorded(h, b) = Append(h, b)
      BY <1>1 DEF Recorded
    <2>2. /\ Len(Append(h, b)) = Len(h) + 1 /\ Append(h, b)[Len(h) + 1] = b
          /\ \A k \in 1..Len(h) : Append(h, b)[k] = h[k]
      BY AppendProperties
    <2>3. i \in 1..Len(h) \/ i = Len(h) + 1
      BY <1>0, <2>1, <2>2
    <2> QED BY <1>0, <2>1, <2>2, <2>3
  <1>2. CASE ~(Len(h) < MaxRows)
    <2>1. Recorded(h, b) = Append(Tail(h), b) /\ h # <<>>
      BY <1>2, TrafficConstants DEF Recorded
    <2>2. /\ Tail(h) \in Seq(Batches) /\ Len(Tail(h)) = Len(h) - 1
          /\ \A k \in 1..Len(Tail(h)) : Tail(h)[k] = h[k + 1]
      BY <2>1, HeadTailProperties
    <2>3. /\ Len(Append(Tail(h), b)) = Len(h) /\ Append(Tail(h), b)[Len(h)] = b
          /\ \A k \in 1..(Len(h) - 1) : Append(Tail(h), b)[k] = Tail(h)[k]
      <3>1. /\ Len(Append(Tail(h), b)) = Len(Tail(h)) + 1 /\ Append(Tail(h), b)[Len(Tail(h)) + 1] = b
            /\ \A k \in 1..Len(Tail(h)) : Append(Tail(h), b)[k] = Tail(h)[k]
        BY <2>2, AppendProperties
      <3>2. Len(Tail(h)) + 1 = Len(h)
        BY <1>0, <2>2
      <3> QED BY <2>2, <3>1, <3>2
    <2>4. CASE i = Len(h)
      BY <2>1, <2>3, <2>4
    <2>5. CASE i \in 1..(Len(h) - 1)
      <3>1. Recorded(h, b)[i] = h[i + 1] /\ i + 1 \in 1..Len(h) /\ i + 1 >= i
        BY <1>0, <2>1, <2>2, <2>3, <2>5
      <3> QED BY <3>1
    <2>6. i = Len(h) \/ i \in 1..(Len(h) - 1)
      <3>1. Len(Recorded(h, b)) = Len(h)
        BY <2>1, <2>3
      <3>2. i \in 1..Len(h)
        BY <3>1
      <3> QED BY <1>0, <3>2
    <2> QED BY <2>4, <2>5, <2>6
  <1> QED BY <1>1, <1>2

\* A report in flight carries a batch.
LEMMA CarriesBatch ==
  ASSUME TypeOK, NEW r \in Slots, report[r].stage # "free"
  PROVE  /\ report[r] \in InFlight
         /\ report[r].epoch \in Epochs /\ report[r].seq \in Seqs
         /\ <<report[r].epoch, report[r].seq>> \in Batches
  <1>1. report[r] \in InFlight
    BY DEF TypeOK, Free
  <1>2. report[r].epoch \in Epochs /\ report[r].seq \in Seqs
    BY <1>1 DEF InFlight
  <1> QED BY <1>1, <1>2 DEF Batches

\* Every step keeps the state well formed.
LEMMA TypeStep == TypeOK /\ [Next]_vars => TypeOK'
  <1> SUFFICES ASSUME TypeOK, [Next]_vars PROVE TypeOK'
    OBVIOUS
  <1> USE TrafficConstants
  <1>1. CASE Collect
    BY <1>1 DEF Collect, TypeOK
  <1>2. CASE Repair
    BY <1>2 DEF Repair, TypeOK
  <1>3. CASE Expire
    BY <1>3 DEF Expire, TypeOK
  <1>4. ASSUME NEW e \in Epochs, Reinstall(e) PROVE TypeOK'
    BY <1>4 DEF Reinstall, TypeOK
  <1>5. ASSUME NEW r \in Slots, Send(r) PROVE TypeOK'
    BY <1>5 DEF Send, TypeOK, InFlight, Stages, Seqs
  <1>6. ASSUME NEW r \in Slots, Receive(r) PROVE TypeOK'
    BY <1>6 DEF Receive, End, TypeOK
  <1>7. ASSUME NEW r \in Slots, Lose(r) PROVE TypeOK'
    BY <1>7 DEF Lose, End, TypeOK
  <1>8. ASSUME NEW r \in Slots, Handle(r) PROVE TypeOK'
    <2>1. ASSUME NEW stage \in Stages, report[r].stage # "free", At(r, stage)
          PROVE  report' \in [Slots -> InFlight \cup {Free}]
      <3>1. report[r] \in InFlight
        BY <2>1, CarriesBatch
      <3>2. [report[r] EXCEPT !.stage = stage] \in InFlight
        BY <3>1 DEF InFlight
      <3>3. report' = [report EXCEPT ![r] = [report[r] EXCEPT !.stage = stage]]
        BY <2>1 DEF At
      <3> QED BY <3>2, <3>3 DEF TypeOK
    <2>2. ASSUME End(r)
          PROVE  report' \in [Slots -> InFlight \cup {Free}]
      BY <2>2 DEF End, TypeOK
    <2>3. CASE RequireNode(r)
      BY <2>1, <2>2, <2>3 DEF RequireNode, TypeOK, Stages
    <2>4. CASE Refuse(r) \/ AcceptFails(r) \/ RecordFails(r)
      BY <2>2, <2>4 DEF Refuse, AcceptFails, RecordFails, TypeOK
    <2>5. CASE RecordNodeReport(r)
      BY <2>1, <2>2, <2>5 DEF RecordNodeReport, TypeOK, Stages
    <2>6. CASE AcceptNodeTraffic(r)
      <3> DEFINE e == report[r].epoch
                 s == report[r].seq
      <3>1. e \in Epochs /\ s \in Seqs /\ <<e, s>> \in Batches
        BY <2>6, CarriesBatch DEF AcceptNodeTraffic
      <3>2. report' \in [Slots -> InFlight \cup {Free}]
        BY <2>1, <2>6 DEF AcceptNodeTraffic, Stages
      <3>3. cursor' \in [Epochs -> 0..MaxSeq]
        <4>1. cursor' = cursor \/ cursor' = [cursor EXCEPT ![e] = s]
          BY <2>6 DEF AcceptNodeTraffic
        <4>2. cursor \in [Epochs -> 0..MaxSeq]
          BY DEF TypeOK
        <4>3. s \in 0..MaxSeq
          BY <3>1, TrafficConstants DEF Seqs
        <4> HIDE DEF e, s
        <4> QED BY <3>1, <4>1, <4>2, <4>3
      <3>4. charged' \in [Batches -> Nat]
        <4>1. charged' = charged \/ charged' = [charged EXCEPT ![<<e, s>>] = charged[<<e, s>>] + 1]
          BY <2>6 DEF AcceptNodeTraffic
        <4>2. charged[<<e, s>>] + 1 \in Nat
          BY <3>1 DEF TypeOK
        <4> QED BY <3>1, <4>1, <4>2 DEF TypeOK
      <3>5. history' \in Seq(Batches) /\ Len(history') <= MaxRows
        BY <2>6, <3>1, RecordedType DEF AcceptNodeTraffic, TypeOK, HistoryAfter
      <3> QED BY <2>6, <3>2, <3>3, <3>4, <3>5 DEF AcceptNodeTraffic, TypeOK
    <2> QED BY <1>8, <2>3, <2>4, <2>5, <2>6 DEF Handle
  <1>9. CASE UNCHANGED vars
    BY <1>9 DEF vars, TypeOK
  <1> QED BY <1>1, <1>2, <1>3, <1>4, <1>5, <1>6, <1>7, <1>8, <1>9 DEF Next

\* Every step keeps the books: the cursor of a generation never overtakes the
\* agent and moves one batch at a time.
LEMMA BooksStep == TypeOK /\ Books /\ [Next]_vars => Books'
  <1> SUFFICES ASSUME TypeOK, Books, [Next]_vars PROVE Books'
    OBVIOUS
  <1> USE TrafficConstants
  <1> DEFINE B(e) == acked[e] <= cursor[e] /\ cursor[e] <= made[e] /\ made[e] <= acked[e] + 1
             C(e, s) == charged[<<e, s>>] = IF s <= cursor[e] THEN 1 ELSE 0
             R(r) == report[r].stage # "free" =>
                       /\ report[r].seq <= made[report[r].epoch]
                       /\ report[r].seq <= cursor[report[r].epoch] + 1
                       /\ report[r].epoch = Legacy => made[report[r].epoch] <= report[r].seq + Gap
                       /\ report[r].stage \in {"accepted", "answered"} => report[r].seq <= cursor[report[r].epoch]
  <1>b. (\A e \in Epochs : B(e)) /\ (\A e \in Epochs, s \in Seqs : C(e, s)) /\ \A r \in Slots : R(r)
    BY DEF Books
  <1>c. ASSUME \A e \in Epochs : B(e)', \A e \in Epochs, s \in Seqs : C(e, s)', \A r \in Slots : R(r)'
        PROVE  Books'
    BY <1>c DEF Books
  <1>t. /\ \A e \in Epochs : made[e] \in Int /\ acked[e] \in Int /\ cursor[e] \in Int
        /\ \A e \in Epochs, s \in Seqs : charged[<<e, s>>] \in Nat
        /\ Gap \in Int
    BY DEF TypeOK, Batches
  <1> HIDE DEF B, C, R
  \* Reports that a step forgets, moves on without a decision or leaves alone.
  <1>k. ASSUME NEW r \in Slots, UNCHANGED <<made, acked, cursor, charged>>,
               \/ report' = report
               \/ End(r)
               \/ /\ report[r].stage # "free"
                  /\ \E stage \in {"served", "answered"} :
                       At(r, stage) /\ (stage = "answered" => report[r].stage = "accepted")
        PROVE  Books'
    <2>1. ASSUME NEW q \in Slots PROVE R(q)'
      <3>1. R(q)
        BY <1>b
      <3>2. CASE report'[q] = report[q]
        BY <1>k, <3>1, <3>2 DEF R
      <3>3. CASE report'[q] = Free
        BY <3>3 DEF R, Free
      <3>4. CASE /\ q = r
                 /\ report[r].stage # "free"
                 /\ \E stage \in {"served", "answered"} :
                      At(r, stage) /\ (stage = "answered" => report[r].stage = "accepted")
        <4>1. report[r] \in InFlight
          BY <3>4, CarriesBatch
        <4>2. PICK stage \in {"served", "answered"} :
                At(r, stage) /\ (stage = "answered" => report[r].stage = "accepted")
          BY <3>4
        <4>3. /\ report'[r].stage = stage /\ report'[r].seq = report[r].seq
              /\ report'[r].epoch = report[r].epoch
          BY <4>1, <4>2 DEF At, TypeOK, InFlight
        <4> QED BY <1>k, <3>1, <3>4, <4>2, <4>3 DEF R
      <3> QED BY <1>k, <3>2, <3>3, <3>4 DEF End, At, TypeOK
    <2>2. (\A e \in Epochs : B(e)') /\ \A e \in Epochs, s \in Seqs : C(e, s)'
      BY <1>k, <1>b DEF B, C
    <2> QED BY <1>c, <2>1, <2>2
  <1>1. CASE Collect
    <2>1. epoch \in Epochs
      BY DEF TypeOK
    <2>2. made' = [made EXCEPT ![epoch] = made[epoch] + 1] /\ UNCHANGED <<acked, report, cursor, charged>>
      BY <1>1 DEF Collect
    <2>3. ASSUME NEW e \in Epochs PROVE made'[e] = IF e = epoch THEN made[e] + 1 ELSE made[e]
      BY <2>2 DEF TypeOK
    <2>4. ASSUME NEW e \in Epochs PROVE B(e)'
      BY <1>1, <1>b, <1>t, <2>1, <2>2, <2>3 DEF B, Collect
    <2>5. ASSUME NEW q \in Slots PROVE R(q)'
      <3>1. CASE report[q].stage = "free"
        BY <2>2, <3>1 DEF R
      <3>2. CASE report[q].stage # "free"
        <4>1. report[q].epoch \in Epochs /\ report[q].seq \in Seqs
          BY <3>2, CarriesBatch
        <4>2. report[q].seq \in Int
          BY <4>1 DEF Seqs
        <4>3. report[q].epoch = Legacy /\ epoch = Legacy => made[Legacy] < report[q].seq + Gap
          BY <1>1, <3>2 DEF Collect, NotOutrun
        <4>4. R(q)
          BY <1>b
        <4> QED BY <1>t, <2>2, <2>3, <3>2, <4>1, <4>2, <4>3, <4>4 DEF R
      <3> QED BY <3>1, <3>2
    <2>6. \A e \in Epochs, s \in Seqs : C(e, s)'
      BY <1>b, <2>2 DEF C
    <2> QED BY <1>c, <2>4, <2>5, <2>6
  <1>2. CASE Repair \/ Expire \/ UNCHANGED vars \/ \E e \in Epochs : Reinstall(e)
    <2>1. UNCHANGED <<made, acked, cursor, charged, report>>
      BY <1>2 DEF Repair, Expire, vars, Reinstall
    <2> QED BY <1>b, <1>c, <2>1 DEF B, C, R
  <1>3. ASSUME NEW r \in Slots, Send(r) PROVE Books'
    <2>1. epoch \in Epochs /\ UNCHANGED <<made, acked, cursor, charged>>
      BY <1>3 DEF Send, TypeOK
    <2>2. ASSUME NEW q \in Slots PROVE R(q)'
      <3>1. CASE q # r
        <4>1. report'[q] = report[q]
          BY <1>3, <3>1 DEF Send, TypeOK
        <4> QED BY <1>b, <2>1, <4>1 DEF R
      <3>2. CASE q = r
        <4>1. report'[r] = [stage |-> "sent", epoch |-> epoch, seq |-> made[epoch], token |-> token]
          BY <1>3 DEF Send, TypeOK
        <4>2. report'[r].stage = "sent" /\ report'[r].epoch = epoch /\ report'[r].seq = made[epoch]
          BY <4>1
        <4>3. B(epoch)
          BY <1>b, <2>1
        <4> QED BY <1>t, <2>1, <3>2, <4>2, <4>3 DEF R, B
      <3> QED BY <3>1, <3>2
    <2>3. (\A e \in Epochs : B(e)') /\ \A e \in Epochs, s \in Seqs : C(e, s)'
      BY <1>b, <2>1 DEF B, C
    <2> QED BY <1>c, <2>2, <2>3
  <1>4. ASSUME NEW r \in Slots, Receive(r) PROVE Books'
    <2>1. report[r].epoch \in Epochs /\ report[r].seq \in Seqs /\ R(r)
      BY <1>4, <1>b, CarriesBatch DEF Receive
    <2>2. report[r].seq <= cursor[report[r].epoch]
      BY <1>4, <2>1 DEF Receive, R
    <2>3. ASSUME NEW e \in Epochs PROVE B(e)'
      <3>1. acked'[e] = acked[e] \/ (e = report[r].epoch /\ acked'[e] = made[e] /\ report[r].seq = made[e])
        BY <1>4 DEF Receive, TypeOK
      <3>2. UNCHANGED <<made, cursor>> /\ B(e)
        BY <1>4, <1>b DEF Receive
      <3> QED BY <1>t, <2>2, <3>1, <3>2 DEF B
    <2>4. ASSUME NEW q \in Slots PROVE R(q)'
      <3>1. report'[q] = Free \/ report'[q] = report[q]
        BY <1>4 DEF Receive, End, TypeOK
      <3>2. CASE report'[q] = Free
        BY <3>2 DEF R, Free
      <3>3. CASE report'[q] = report[q]
        BY <1>4, <1>b, <3>3 DEF R, Receive
      <3> QED BY <3>1, <3>2, <3>3
    <2>5. \A e \in Epochs, s \in Seqs : C(e, s)'
      BY <1>4, <1>b DEF Receive, C
    <2> QED BY <1>c, <2>3, <2>4, <2>5
  <1>5. ASSUME NEW r \in Slots, \/ Lose(r) \/ Refuse(r) \/ AcceptFails(r) \/ RecordFails(r)
                                \/ RequireNode(r) \/ RecordNodeReport(r)
        PROVE  Books'
    BY <1>5, <1>k DEF Lose, Refuse, AcceptFails, RecordFails, RequireNode, RecordNodeReport
  <1>6. ASSUME NEW r \in Slots, AcceptNodeTraffic(r) PROVE Books'
    <2> DEFINE e0 == report[r].epoch
               s0 == report[r].seq
    <2>1. e0 \in Epochs /\ s0 \in Seqs /\ s0 \in Int /\ report[r] \in InFlight /\ R(r) /\ B(e0)
      BY <1>6, <1>b, CarriesBatch DEF AcceptNodeTraffic, Seqs
    <2>2. New(e0, s0) <=> s0 = cursor[e0] + 1
      BY <1>6, <1>t, <2>1 DEF New, R, B, AcceptNodeTraffic
    <2>3. UNCHANGED <<made, acked>>
      BY <1>6 DEF AcceptNodeTraffic
    <2>4. ASSUME NEW e \in Epochs
          PROVE  cursor'[e] = IF e = e0 /\ s0 = cursor[e0] + 1 THEN s0 ELSE cursor[e]
      BY <1>6, <2>1, <2>2 DEF AcceptNodeTraffic, TypeOK
    <2>5. ASSUME NEW e \in Epochs PROVE B(e)'
      <3>1. B(e)
        BY <1>b
      <3>2. s0 <= made[e0]
        BY <1>6, <2>1 DEF R, AcceptNodeTraffic
      <3> QED BY <1>t, <2>1, <2>3, <2>4, <3>1, <3>2 DEF B
    <2>6. ASSUME NEW e \in Epochs, NEW s \in Seqs PROVE C(e, s)'
      <3>1. <<e, s>> \in Batches /\ <<e0, s0>> \in Batches /\ s \in Int
        BY <2>1 DEF Batches, Seqs
      <3>2. charged'[<<e, s>>] = IF <<e, s>> = <<e0, s0>> /\ s0 = cursor[e0] + 1
                                 THEN charged[<<e, s>>] + 1 ELSE charged[<<e, s>>]
        BY <1>6, <2>2, <3>1 DEF AcceptNodeTraffic, TypeOK
      <3>3. C(e, s) /\ C(e0, s0)
        BY <1>b, <2>1
      <3>4. charged'[<<e, s>>] = IF e = e0 /\ s = s0 /\ s0 = cursor[e0] + 1
                                 THEN charged[<<e, s>>] + 1 ELSE charged[<<e, s>>]
        BY <3>2
      <3> QED BY <1>t, <2>1, <2>4, <3>1, <3>3, <3>4 DEF C
    <2>7. ASSUME NEW q \in Slots PROVE R(q)'
      <3>1. CASE q # r
        <4>1. report'[q] = report[q] /\ R(q)
          BY <1>6, <1>b, <3>1 DEF AcceptNodeTraffic, At, TypeOK
        <4>2. CASE report[q].stage = "free"
          BY <4>1, <4>2 DEF R
        <4>3. CASE report[q].stage # "free"
          <5>0. report[q].epoch \in Epochs /\ report[q].seq \in Seqs
            BY <4>3, CarriesBatch
          <5>1. report[q].epoch \in Epochs /\ report[q].seq \in Int
            BY <5>0 DEF Seqs
          <5>2. cursor[report[q].epoch] <= cursor'[report[q].epoch] /\ cursor'[report[q].epoch] \in Int
            BY <1>t, <2>1, <2>4, <5>1
          <5> QED BY <1>t, <2>3, <4>1, <4>3, <5>1, <5>2 DEF R
        <4> QED BY <4>2, <4>3
      <3>2. CASE q = r
        <4>1. report'[r].epoch = e0 /\ report'[r].seq = s0 /\ report'[r].stage = "accepted"
          BY <1>6, <2>1 DEF AcceptNodeTraffic, At, TypeOK, InFlight
        <4>2. s0 <= cursor'[e0] /\ cursor'[e0] \in Int
          BY <1>6, <1>t, <2>1, <2>4 DEF R, AcceptNodeTraffic
        <4>3. s0 <= made[e0] /\ (e0 = Legacy => made[e0] <= s0 + Gap)
          BY <1>6, <2>1 DEF R, AcceptNodeTraffic
        <4> QED BY <1>t, <2>1, <2>3, <3>2, <4>1, <4>2, <4>3 DEF R
      <3> QED BY <3>1, <3>2
    <2> QED BY <1>c, <2>5, <2>6, <2>7
  <1> QED BY <1>1, <1>2, <1>3, <1>4, <1>5, <1>6 DEF Next, Handle

\* Every reachable state of traffic accounting is well formed and the history of
\* accepted batches stays within its limit (report, recordTrafficHistoryTx).
THEOREM TypeCorrect == Spec => []TypeOK
  <1>1. Init => TypeOK
    BY InitBooks
  <1>2. TypeOK /\ [Next]_vars => TypeOK'
    BY TypeStep
  <1> QED BY <1>1, <1>2, PTL DEF Spec

\* The cursors tell which batches were charged, always (AcceptNodeTraffic).
LEMMA BooksHold == Spec => [](TypeOK /\ Books)
  <1>1. Init => TypeOK /\ Books
    BY InitBooks
  <1>2. TypeOK /\ Books /\ [Next]_vars => (TypeOK /\ Books)'
    BY TypeStep, BooksStep
  <1> QED BY <1>1, <1>2, PTL DEF Spec

\* A batch that passes the test in AcceptNodeTraffic is the next one of its
\* generation and was never charged.
LEMMA NewIsNext ==
  ASSUME TypeOK, Books, NEW r \in Slots, report[r].stage = "served",
         New(report[r].epoch, report[r].seq)
  PROVE  /\ report[r].seq = cursor[report[r].epoch] + 1
         /\ report[r].seq <= made[report[r].epoch]
         /\ charged[<<report[r].epoch, report[r].seq>>] = 0
         /\ report[r].seq > 1 => charged[<<report[r].epoch, report[r].seq - 1>>] = 1
  <1> DEFINE e == report[r].epoch
             s == report[r].seq
  <1>1. e \in Epochs /\ s \in Seqs
    BY CarriesBatch
  <1>2. s \in Int /\ 1 <= s /\ s <= MaxSeq
    BY <1>1, TrafficConstants DEF Seqs
  <1>3. cursor[e] \in Int /\ made[e] \in Int /\ Gap \in Int
    BY <1>1, TrafficConstants DEF TypeOK
  <1>4. s <= made[e] /\ s <= cursor[e] + 1 /\ (e = Legacy => made[e] <= s + Gap) /\ cursor[e] <= made[e]
    BY <1>1 DEF Books
  <1>5. s = cursor[e] + 1
    BY <1>2, <1>3, <1>4 DEF New
  <1>6. charged[<<e, s>>] = 0
    BY <1>1, <1>2, <1>3, <1>5 DEF Books
  <1>7. ASSUME s > 1 PROVE charged[<<e, s - 1>>] = 1
    <2>1. s - 1 \in Seqs /\ s - 1 <= cursor[e]
      BY <1>2, <1>3, <1>5, <1>7, TrafficConstants DEF Seqs
    <2> QED BY <1>1, <2>1 DEF Books
  <1> QED BY <1>4, <1>5, <1>6, <1>7

\* Traffic accounting implements TrafficLedger: each batch is charged at most
\* once and in order, and let go of only after it was charged, whatever is lost,
\* repeated or fails between requireNode and the answer.
THEOREM ImplementsLedger == Spec => BilledOnce
  <1>1. Init => Ledger!Init
    BY DEF Init, Ledger!Init, Batches, Seqs
  <1>2. TypeOK /\ Books /\ [Next]_vars => [Ledger!Next]_Ledger!ledgerVars
    <2> SUFFICES ASSUME TypeOK, Books, [Next]_vars
                 PROVE  Ledger!Next \/ UNCHANGED <<made, acked, charged>>
      BY DEF Ledger!ledgerVars
    <2>1. CASE Collect
      <3>1. epoch \in Epochs /\ Ledger!Collect(epoch)
        BY <2>1 DEF Collect, TypeOK, Ledger!Collect
      <3> QED BY <3>1 DEF Ledger!Next
    <2>2. CASE Repair \/ Expire \/ UNCHANGED vars \/ \E e \in Epochs : Reinstall(e)
      BY <2>2 DEF Repair, Expire, Reinstall, vars
    <2>3. ASSUME NEW r \in Slots,
                 \/ Send(r) \/ Lose(r) \/ RequireNode(r) \/ Refuse(r) \/ AcceptFails(r)
                 \/ RecordNodeReport(r) \/ RecordFails(r)
          PROVE  UNCHANGED <<made, acked, charged>>
      BY <2>3 DEF Send, Lose, RequireNode, Refuse, AcceptFails, RecordNodeReport, RecordFails
    <2>4. ASSUME NEW r \in Slots, Receive(r)
          PROVE  Ledger!Next \/ UNCHANGED <<made, acked, charged>>
      <3>1. CASE ~(report[r].epoch = epoch /\ report[r].seq = made[epoch])
        BY <2>4, <3>1 DEF Receive
      <3>2. CASE report[r].epoch = epoch /\ report[r].seq = made[epoch]
        <4>1. acked' = [acked EXCEPT ![epoch] = made[epoch]] /\ UNCHANGED <<made, charged>>
          BY <2>4, <3>2 DEF Receive
        <4>2. epoch \in Epochs /\ made[epoch] \in Seqs
          BY <2>4, <3>2, CarriesBatch DEF Receive, TypeOK
        <4>3. made[epoch] <= cursor[epoch]
          BY <2>4, <3>2 DEF Receive, Books
        <4>4. charged[<<epoch, made[epoch]>>] = 1
          BY <4>2, <4>3 DEF Books
        <4>5. acked[epoch] \in Int /\ made[epoch] \in Int /\ acked[epoch] <= made[epoch]
          <5>1. acked[epoch] \in Int /\ made[epoch] \in Int /\ cursor[epoch] \in Int
            BY <4>2, TrafficConstants DEF TypeOK
          <5>2. acked[epoch] <= cursor[epoch] /\ cursor[epoch] <= made[epoch]
            BY <4>2 DEF Books
          <5> QED BY <5>1, <5>2
        <4>6. CASE acked[epoch] = made[epoch]
          <5>1. acked' = acked
            BY <4>1, <4>2, <4>6 DEF TypeOK
          <5> QED BY <4>1, <5>1
        <4>7. CASE acked[epoch] # made[epoch]
          <5>1. Ledger!LetGo(epoch)
            BY <4>1, <4>4, <4>5, <4>7 DEF Ledger!LetGo
          <5> QED BY <4>2, <5>1 DEF Ledger!Next
        <4> QED BY <4>6, <4>7
      <3> QED BY <3>1, <3>2
    <2>5. ASSUME NEW r \in Slots, AcceptNodeTraffic(r)
          PROVE  Ledger!Next \/ UNCHANGED <<made, acked, charged>>
      <3> DEFINE e == report[r].epoch
                 s == report[r].seq
      <3>1. CASE ~New(e, s)
        BY <2>5, <3>1 DEF AcceptNodeTraffic
      <3>2. CASE New(e, s)
        <4>1. e \in Epochs /\ s \in 1..MaxSeq
          BY <2>5, CarriesBatch DEF AcceptNodeTraffic, Seqs
        <4>2. /\ s <= made[e] /\ charged[<<e, s>>] = 0
              /\ s > 1 => charged[<<e, s - 1>>] = 1
          BY <2>5, <3>2, NewIsNext DEF AcceptNodeTraffic
        <4>3. charged' = [charged EXCEPT ![<<e, s>>] = 1] /\ UNCHANGED <<made, acked>>
          BY <2>5, <3>2, <4>2 DEF AcceptNodeTraffic
        <4>4. Ledger!Bill(e, s)
          BY <4>2, <4>3 DEF Ledger!Bill
        <4> QED BY <4>1, <4>4 DEF Ledger!Next
      <3> QED BY <3>1, <3>2
    <2> QED BY <2>1, <2>2, <2>3, <2>4, <2>5 DEF Next, Handle
  <1> QED BY <1>1, <1>2, BooksHold, PTL DEF Spec, BilledOnce, Ledger!Spec

\* A row of the history appears only with the first charge of its batch and is
\* never written again, also after it expired (recordTrafficHistoryTx).
THEOREM FirstReception == Spec => HistoryIsFirstReception
  <1> DEFINE Old(i) == \E j \in 1..Len(history) : history[j] = history'[i] /\ j >= i
             First(i) == charged[history'[i]] = 0 /\ charged'[history'[i]] = 1
  <1>1. TypeOK /\ Books /\ Next => \A i \in 1..Len(history') : Old(i) \/ First(i)
    <2> SUFFICES ASSUME TypeOK, Books, Next, NEW i \in 1..Len(history') PROVE Old(i) \/ First(i)
      OBVIOUS
    <2>1. CASE history' = history
      BY <2>1
    <2>2. CASE Expire
      <3>1. history \in Seq(Batches) /\ history # <<>> /\ history' = Tail(history)
        BY <2>2 DEF Expire, TypeOK
      <3>2. i + 1 \in 1..Len(history) /\ history'[i] = history[i + 1]
        BY <3>1
      <3> QED BY <3>2
    <2>3. ASSUME NEW r \in Slots, AcceptNodeTraffic(r), New(report[r].epoch, report[r].seq)
          PROVE  Old(i) \/ First(i)
      <3> DEFINE b == <<report[r].epoch, report[r].seq>>
      <3>1. b \in Batches
        BY <2>3, CarriesBatch DEF AcceptNodeTraffic
      <3>2. history \in Seq(Batches) /\ history' = Recorded(history, b)
        BY <2>3 DEF AcceptNodeTraffic, HistoryAfter, TypeOK
      <3>3. charged[b] = 0 /\ charged'[b] = 1
        <4>1. charged[b] = 0
          BY <2>3, NewIsNext DEF AcceptNodeTraffic
        <4> QED BY <2>3, <3>1, <4>1 DEF AcceptNodeTraffic, TypeOK
      <3> HIDE DEF b
      <3>4. history'[i] = b \/ \E j \in 1..Len(history) : history[j] = history'[i] /\ j >= i
        BY <3>1, <3>2, RecordedRows
      <3> QED BY <3>3, <3>4
    <2>4. ASSUME NEW r \in Slots, AcceptNodeTraffic(r), ~New(report[r].epoch, report[r].seq)
          PROVE  history' = history
      BY <2>4 DEF AcceptNodeTraffic, HistoryAfter
    <2>5. ASSUME NEW r \in Slots,
                 \/ Send(r) \/ Lose(r) \/ Receive(r) \/ RequireNode(r) \/ Refuse(r) \/ AcceptFails(r)
                 \/ RecordNodeReport(r) \/ RecordFails(r)
          PROVE  history' = history
      BY <2>5 DEF Send, Lose, Receive, RequireNode, Refuse, AcceptFails, RecordNodeReport, RecordFails
    <2>6. CASE Collect \/ Repair \/ \E e \in Epochs : Reinstall(e)
      BY <2>1, <2>6 DEF Collect, Repair, Reinstall
    <2> HIDE DEF Old, First
    <2> QED BY <2>1, <2>2, <2>3, <2>4, <2>5, <2>6 DEF Next, Handle
  <1>2. TypeOK /\ Books /\ [Next]_vars
          => [\A i \in 1..Len(history') :
                \/ \E j \in 1..Len(history) : history[j] = history'[i] /\ j >= i
                \/ charged[history'[i]] = 0 /\ charged'[history'[i]] = 1]_vars
    BY <1>1
  <1> QED BY <1>2, BooksHold, PTL DEF Spec, HistoryIsFirstReception

-----------------------------------------------------------------------------
(* Side by side.                                                           *)

\* Orders and traffic each keep their books, whichever of the two moves: periods,
\* money, commissions and coupon uses agree with the paid orders (MarkPaid,
\* CancelQueued, paidHooksTx), and a batch of traffic is charged once and enters
\* the history with its first reception (AcceptNodeTraffic).
THEOREM AccountsStayBalanced ==
  ASSUME LateRepeats = FALSE
  PROVE  AccountSpec => /\ [](PeriodsArePaidFor /\ MoneyAddsUp /\ HooksFollowOrders)
                        /\ BilledOnce /\ HistoryIsFirstReception
  <1>1. AccountInit => BillingInit /\ Init
    BY DEF AccountInit
  <1>2. [AccountNext]_accountVars => [BillingNext]_billingVars /\ [Next]_vars
    BY DEF AccountNext, accountVars
  <1>3. BillingInv => PeriodsArePaidFor /\ MoneyAddsUp /\ HooksFollowOrders
    BY DEF BillingInv, BooksBalance
  <1>4. AccountSpec => [](PeriodsArePaidFor /\ MoneyAddsUp /\ HooksFollowOrders)
    BY <1>1, <1>2, <1>3, BillingInvariant, PTL DEF AccountSpec
  <1>5. AccountSpec => Spec
    BY <1>1, <1>2, PTL DEF AccountSpec, Spec
  <1> QED BY <1>4, <1>5, ImplementsLedger, FirstReception, PTL
=============================================================================
