--------------------------- MODULE ServerRenewal ---------------------------
(***************************************************************************)
(* The expiry date of a server: automatic renewal by the agent's samples   *)
(* (internal/store/node_auto_renewal.go), the bill linked to the server and*)
(* its payments (infra_assets.go, node_infrastructure.go), the traffic     *)
(* period (node_cost.go), and what the web makes of the dates: the cycle a *)
(* remaining value is prorated over (web/probe/src/lib/node-cost.ts) and   *)
(* the next date a payment offers (web/admin/src/lib/infrastructure-       *)
(* payment.ts).                                                            *)
(*                                                                         *)
(* A billing day may be longer than the month: Jan 31, Feb 28, Mar 31.     *)
(***************************************************************************)
EXTENDS Integers, FiniteSets, Sequences

CONSTANTS
  RenewalDays,    \* dates the clock passes and people choose: [m |-> 12*year+month, d |-> day]
  RenewalCycles,  \* billing cycles in months
  BillingDays,    \* anchor days of a bill
  MaxDateEdits,   \* edits of the server's dates and of the bill
  MaxSamples,     \* samples an agent sends
  MaxPayments     \* payment requests served

ASSUME RenewalAssumption ==
  /\ IsFiniteSet(RenewalDays) /\ RenewalDays # {} /\ RenewalDays \subseteq [m : Nat, d : 1..31]
  /\ RenewalCycles \subseteq 1..120 /\ BillingDays \subseteq 1..31
  /\ {MaxDateEdits, MaxSamples, MaxPayments} \subseteq Nat

VARIABLES
  today,
  server,     \* probe info: expiry, months, and AutoRenewal (enabled, anchorDate, anchorDay)
  bill,       \* infra asset: due, period, anchorDay, rev
  linked,     \* whether the bill is the server's primary one
  samples,    \* samples in flight, sent again at will: [seq, on]
  cursor,     \* highest sequence accepted
  payment,    \* payment dialog; NoPayment when closed
  paid,       \* infra_payments
  dateEdits, sent

renewalVars == <<today, server, bill, linked, samples, cursor, payment, paid, dateEdits, sent>>

NoDate == [m |-> 0, d |-> 0]
NoPayment == [open |-> FALSE]

-----------------------------------------------------------------------------
(* Calendar.                                                                *)
Leap(y) == y % 4 = 0 /\ (y % 100 # 0 \/ y % 400 = 0)
LastDay(m) == LET k == m % 12
              IN IF k = 1 THEN IF Leap(m \div 12) THEN 29 ELSE 28
                 ELSE IF k \in {3, 5, 8, 10} THEN 30 ELSE 31
Clamp(day, m) == IF day > LastDay(m) THEN LastDay(m) ELSE day
Earlier(a, b) == a.m < b.m \/ (a.m = b.m /\ a.d < b.d)
PlusDays(a, n) ==   \* n is -1, 0 or 1
  IF a.d + n < 1 THEN [m |-> a.m - 1, d |-> LastDay(a.m - 1)]
  ELSE IF a.d + n > LastDay(a.m) THEN [m |-> a.m + 1, d |-> 1] ELSE [a EXCEPT !.d = @ + n]

\* nodeExpiryAt, with the billing day.
NodeExpiryAt(from, months, day) == [m |-> from.m + months, d |-> Clamp(day, from.m + months)]

\* NextInfraDue.
NextInfraDue(due, months, anchor) == [m |-> due.m + months, d |-> Clamp(anchor, due.m + months)]

\* The day renewals keep: the explicit one, or the one of the anchor date.
BillingDay(s) == IF s.anchorDay > 0 THEN s.anchorDay
                 ELSE IF s.anchorDate # NoDate THEN s.anchorDate.d ELSE s.expiry.d

-----------------------------------------------------------------------------
(* Automatic renewal.                                                       *)
RenewalDue(s, at) == s.enabled /\ s.anchorDate # NoDate /\ ~Earlier(at, s.expiry)

NextNodeExpiry(s, at) ==
  LET elapsed == at.m - s.expiry.m
      periods == IF elapsed \div s.months < 1 THEN 1 ELSE elapsed \div s.months
      next == NodeExpiryAt(s.expiry, periods * s.months, BillingDay(s))
  IN IF Earlier(at, next) THEN next ELSE NodeExpiryAt(s.expiry, (periods + 1) * s.months, BillingDay(s))

\* normalizeNodeAutoRenewal: an edit of the date or the cycle starts a new anchor.
NormalizeRenewal(old, expiry, months, enabled) ==
  LET moved == expiry # old.expiry \/ months # old.months
      date == IF moved THEN expiry ELSE old.anchorDate
      day == IF moved THEN 0 ELSE old.anchorDay
      lost == enabled /\ date = NoDate
  IN [expiry |-> expiry, months |-> months, enabled |-> enabled,
      anchorDate |-> IF lost THEN expiry ELSE date, anchorDay |-> IF lost THEN 0 ELSE day]

-----------------------------------------------------------------------------
(* The bill and the server.                                                 *)
InfoAsset(s) == [due |-> s.expiry, period |-> s.months, anchorDay |-> BillingDay(s), rev |-> bill.rev + 1]
ProjectRenewal(s, b) == [s EXCEPT !.anchorDate = b.due, !.anchorDay = b.anchorDay]

\* projectAsset: an unchanged bill keeps the anchor of the server.
ProjectAsset(s, b) ==
  LET same == /\ s.anchorDate # NoDate /\ s.expiry = b.due /\ s.months = b.period
              /\ BillingDay(s) = b.anchorDay
  IN IF same THEN s ELSE ProjectRenewal([s EXCEPT !.expiry = b.due, !.months = b.period], b)

SyncedServer(b) == IF linked THEN ProjectAsset(server, b) ELSE server

Edited == dateEdits < MaxDateEdits /\ dateEdits' = dateEdits + 1

\* SetNodeProbe with guardNodeInfrastructureTx: a linked bill follows.
EditInfo(expiry, months, enabled) ==
  LET s == NormalizeRenewal(server, expiry, months, enabled)
      b == IF s.expiry = server.expiry /\ s.months = server.months
           THEN [InfoAsset(s) EXCEPT !.anchorDay = bill.anchorDay] ELSE InfoAsset(s)
  IN /\ Edited /\ s # server
     /\ server' = IF linked THEN ProjectRenewal(s, b) ELSE s
     /\ bill' = IF linked THEN b ELSE bill
     /\ UNCHANGED <<today, linked, samples, cursor, payment, paid, sent>>

\* SaveInfraAsset.
SaveInfraAsset(due, period, anchor) ==
  /\ Edited
  /\ bill' = [due |-> due, period |-> period, anchorDay |-> anchor, rev |-> bill.rev + 1]
  /\ server' = SyncedServer(bill')
  /\ UNCHANGED <<today, linked, samples, cursor, payment, paid, sent>>

\* link_asset, create_asset (a bill made of the server's dates).
LinkAsset ==
  /\ Edited /\ ~linked /\ linked' = TRUE
  /\ bill' = [bill EXCEPT !.rev = @ + 1]
  /\ server' = ProjectAsset(server, bill)
  /\ UNCHANGED <<today, samples, cursor, payment, paid, sent>>

CreateAsset ==
  /\ Edited /\ ~linked /\ ~payment.open /\ linked' = TRUE
  /\ bill' = InfoAsset(server)
  /\ server' = ProjectAsset(server, bill')
  /\ UNCHANGED <<today, samples, cursor, payment, paid, sent>>

\* unlink_asset with bumpDetachedInfraAssetTx.
UnlinkAsset ==
  /\ Edited /\ linked /\ linked' = FALSE
  /\ bill' = [bill EXCEPT !.rev = @ + 1]
  /\ UNCHANGED <<today, server, samples, cursor, payment, paid, sent>>

-----------------------------------------------------------------------------
(* Samples.                                                                 *)
DayPasses ==
  /\ \E x \in RenewalDays : Earlier(today, x) /\ today' = x
  /\ UNCHANGED <<server, bill, linked, samples, cursor, payment, paid, dateEdits, sent>>

SendSample ==
  /\ sent < MaxSamples /\ sent' = sent + 1
  /\ samples' = samples \cup {[seq |-> sent + 1, on |-> today]}
  /\ UNCHANGED <<today, server, bill, linked, cursor, payment, paid, dateEdits>>

\* renewNodeExpiryTx: a sample counts once, and on the day it was taken.
RecordNodeReport(r) ==
  /\ server.enabled /\ r.seq > cursor /\ cursor' = r.seq
  /\ IF r.on = today /\ RenewalDue(server, today)
     THEN /\ server' = [server EXCEPT !.expiry = NextNodeExpiry(server, today)]
          /\ bill' = IF linked THEN InfoAsset(server') ELSE bill
     ELSE UNCHANGED <<server, bill>>
  /\ UNCHANGED <<today, linked, samples, payment, paid, dateEdits, sent>>

-----------------------------------------------------------------------------
(* Payments.                                                                *)
BillRenews == linked /\ server.enabled   \* auto_renewal_enabled of the bill

\* nextBillingDate.
NextBillingDate(b) == [m |-> b.due.m + b.period, d |-> Clamp(b.anchorDay, b.due.m + b.period)]

\* paymentDateDefaults; an older client leaves the action to the server.
PaymentOf(key, action) ==
  [open |-> TRUE, key |-> key, rev |-> bill.rev, due |-> bill.due, action |-> action,
   next |-> NextBillingDate(bill),
   keeps |-> action = "record_only" \/ (action = "" /\ BillRenews)]
DraftActions == {"", IF BillRenews THEN "record_only" ELSE "set_due_date", "record_only"}

OpenPayment ==
  /\ ~payment.open /\ \E a \in DraftActions : payment' = PaymentOf(Len(paid) + 1, a)
  /\ UNCHANGED <<today, server, bill, linked, samples, cursor, paid, dateEdits, sent>>

\* A date a person picks, not before the one shown.
PickDate(x) ==
  /\ payment.open /\ payment.action = "set_due_date" /\ ~Earlier(x, payment.due) /\ payment' = [payment EXCEPT !.next = x]
  /\ UNCHANGED <<today, server, bill, linked, samples, cursor, paid, dateEdits, sent>>

\* Mutant: every date picked is a new billing day.
AnchorOfTheDate(b, target) == target.d

\* paymentDateAnchor: a date on the cadence keeps the day.
PaymentDateAnchor(b, target) ==
  LET months == target.m - b.due.m
  IN IF target = b.due \/ (months >= 0 /\ months % b.period = 0 /\ NodeExpiryAt(b.due, months, b.anchorDay) = target)
     THEN b.anchorDay ELSE target.d

\* RecordInfraPayment; the answer may be lost, and only then is the request kept
\* (its hash), since only then is it sent again.
RecordInfraPayment(lost) ==
  LET action == IF payment.action # "" THEN payment.action ELSE IF BillRenews THEN "record_only" ELSE "advance_period"
      known == \E i \in DOMAIN paid : paid[i].key = payment.key
      next == CASE action = "record_only" -> bill.due
                [] action = "set_due_date" -> payment.next
                [] OTHER -> NextInfraDue(bill.due, bill.period, bill.anchorDay)
      anchor == IF action = "set_due_date" THEN PaymentDateAnchor(bill, next) ELSE bill.anchorDay
  IN /\ payment.open /\ Len(paid) < MaxPayments
     /\ ~known /\ bill.rev = payment.rev
     /\ paid' = Append(paid, [key |-> payment.key, request |-> IF lost THEN payment ELSE NoPayment])
     /\ bill' = [bill EXCEPT !.due = next, !.anchorDay = anchor, !.rev = @ + 1]
     /\ server' = IF action = "record_only" THEN server ELSE SyncedServer(bill')
     /\ payment' = IF lost THEN payment ELSE NoPayment
     /\ UNCHANGED <<today, linked, samples, cursor, dateEdits, sent>>

\* The same request, sent again after its answer was lost, is answered again;
\* a conflict asks for a fresh bill, under the same key.
Reanswered ==
  /\ payment.open /\ \E i \in DOMAIN paid : paid[i].request = payment
  /\ payment' = NoPayment
  /\ UNCHANGED <<today, server, bill, linked, samples, cursor, paid, dateEdits, sent>>
ReloadPaymentDraft ==
  /\ payment.open /\ bill.rev # payment.rev
  /\ \E a \in DraftActions : payment' = PaymentOf(payment.key, a)
  /\ UNCHANGED <<today, server, bill, linked, samples, cursor, paid, dateEdits, sent>>

-----------------------------------------------------------------------------
RenewalInit ==
  /\ today \in {x \in RenewalDays : \A y \in RenewalDays : ~Earlier(y, x)}
  /\ \E x \in RenewalDays, k \in RenewalCycles, on \in BOOLEAN :
       LET s == [expiry |-> x, months |-> k, enabled |-> on,
                 anchorDate |-> IF on THEN x ELSE NoDate, anchorDay |-> 0]
           b == [due |-> x, period |-> k, anchorDay |-> x.d, rev |-> 1]
       IN /\ bill = b /\ linked \in BOOLEAN
          /\ server = IF linked /\ ~on THEN ProjectRenewal(s, b) ELSE s
  /\ samples = {} /\ cursor = 0 /\ payment = NoPayment /\ paid = <<>>
  /\ dateEdits = 0 /\ sent = 0

RenewalNext ==
  \/ DayPasses \/ SendSample
  \/ \E r \in samples : RecordNodeReport(r)
  \/ \E x \in RenewalDays, k \in RenewalCycles, on \in BOOLEAN : EditInfo(x, k, on)
  \/ \E x \in RenewalDays, k \in RenewalCycles, a \in BillingDays : SaveInfraAsset(x, k, a)
  \/ LinkAsset \/ CreateAsset \/ UnlinkAsset
  \/ OpenPayment \/ \E x \in RenewalDays : PickDate(x)
  \/ \E lost \in BOOLEAN : RecordInfraPayment(lost)
  \/ Reanswered \/ ReloadPaymentDraft

RenewalSpec == RenewalInit /\ [][RenewalNext]_renewalVars

-----------------------------------------------------------------------------
(* The web: node-cost.ts.                                                   *)
PreviousCycle(expiry, months, day) == [m |-> expiry.m - months, d |-> Clamp(day, expiry.m - months)]
RenewalDayFits(s) ==
  /\ s.anchorDate # NoDate /\ ~Earlier(s.expiry, s.anchorDate)
  /\ (s.expiry.m - s.anchorDate.m) % s.months = 0
  /\ s.expiry.d = Clamp(BillingDay(s), s.expiry.m)

\* The start of the cycle a remaining value is prorated over; NoDate when the
\* page shows none.
CycleStart(s) ==
  IF RenewalDayFits(s) THEN PreviousCycle(s.expiry, s.months, BillingDay(s))
  ELSE IF s.anchorDay > 0 THEN NoDate ELSE PreviousCycle(s.expiry, s.months, s.expiry.d)

(* Traffic periods (nodePeriodStart, nodePeriodEnd), for the three modes.   *)
Boundary(at, offset, day, after) == PlusDays([m |-> at.m + offset, d |-> Clamp(day, at.m + offset)], after)

NodePeriodStart(at, day, after) ==
  LET next == Boundary(at, 1, day, after)
      this == Boundary(at, 0, day, after)
  IN IF ~Earlier(at, next) THEN next ELSE IF ~Earlier(at, this) THEN this ELSE Boundary(at, -1, day, after)

NodePeriodEnd(start, day, after) ==
  LET o == CHOOSE o \in 0..2 : /\ Earlier(start, Boundary(start, o, day, after))
                               /\ o = 0 \/ ~Earlier(start, Boundary(start, o - 1, day, after))
  IN Boundary(start, o, day, after)

-----------------------------------------------------------------------------
(* The bill of a server and the server tell one date, cycle and day, after
   renewals, edits on either side, payments and links, in any order
   (node_infrastructure.go:455-537). *)
BillFollowsServer ==
  linked => bill.due = server.expiry /\ bill.period = server.months /\ bill.anchorDay = BillingDay(server)

Renewed == cursor' # cursor /\ server'.expiry # server.expiry
OnCadence(s) == s.expiry.d = Clamp(BillingDay(s), s.expiry.m)

OffCadence(s, x) == x.d # Clamp(BillingDay(s), x.m) \/ (x.m - s.expiry.m) % s.months # 0

(* A renewal ends the first period not over: the smallest whole number of
   periods that lies ahead, also after months without a sample
   (node_auto_renewal.go:109-146). *)
RenewedToTheNext ==
  [][ Renewed => LET ahead(k) == Earlier(today, NodeExpiryAt(server.expiry, k * server.months, BillingDay(server)))
                     k0 == CHOOSE k \in 1..(today.m - server.expiry.m + 1) : ahead(k) /\ \A j \in 1..(k - 1) : ~ahead(j)
                 IN server'.expiry = NodeExpiryAt(server.expiry, k0 * server.months, BillingDay(server)) ]_renewalVars

(* The web's cycle is the server's: after a renewal of a date on its cadence
   the page prorates over the period under way, which has begun, so that no
   server is worth more than one period (node-cost.ts:43-98). *)
RenewedPeriodIsWhole ==
  [][ Renewed /\ OnCadence(server) =>
        LET start == CycleStart(server')
        IN start # NoDate /\ ~Earlier(today, start) /\ ~Earlier(start, server.expiry) ]_renewalVars

(* A short month never changes the billing day: only a person who edits the
   date, the cycle or the bill does, or a payment to a date off the cadence
   ("so that a short month's clamped date never silently changes the
   billing/reset day", node_auto_renewal.go:18-19). *)
BillingDayKept ==
  [][ BillingDay(server') # BillingDay(server) =>
        \/ dateEdits' # dateEdits /\ (server'.expiry # server.expiry \/ server'.months # server.months \/ bill' # bill)
        \/ paid' # paid /\ OffCadence(server, server'.expiry) ]_renewalVars

(* A payment moves the due date to the one its dialog showed, and only then:
   a bill renewed, unlinked or edited since is refused
   (infra_assets.go:347-440, node_infrastructure.go:561-570). *)
PaymentDoesAsShown ==
  [][ paid' # paid => bill'.due = IF payment.keeps THEN payment.due ELSE payment.next ]_renewalVars

(* Traffic periods tile the calendar: today lies in the period that starts
   on or before it and ends after it, and that end starts the next one, for
   a reset on the server's billing day or the first, before and after it
   (node_cost.go:85-143). *)
PeriodsTile ==
  \A day \in {1, BillingDay(server)}, after \in {-1, 0, 1} :
    LET start == NodePeriodStart(today, day, after)
        end == NodePeriodEnd(start, day, after)
    IN /\ ~Earlier(today, start) /\ Earlier(today, end)
       /\ NodePeriodStart(end, day, after) = end
=============================================================================
