---------------------------- MODULE MCAccounts ----------------------------
(***************************************************************************)
(* What customers owe and what they used: orders with their periods, and   *)
(* the receipts of traffic.  They share no state; `moving` says which of   *)
(* the two moves, and fairness is asked of that one alone.                 *)
(***************************************************************************)
EXTENDS Billing, TrafficReceipts

VARIABLE moving

accountVars == <<moving, billingVars, vars>>

AccountInit ==
  /\ moving \in {"billing", "traffic"}
  /\ BillingInit /\ (moving = "traffic" => ~single)
  /\ Init /\ (moving = "billing" => epoch = Legacy)

AccountNext ==
  /\ UNCHANGED moving
  /\ \/ moving = "billing" /\ BillingNext /\ UNCHANGED vars
     \/ moving = "traffic" /\ Next /\ UNCHANGED billingVars

\* BillingFairness and TrafficFairness, of the part that moves.
AccountFairness ==
  /\ WF_billingVars(moving = "billing" /\ Job)
  /\ \A s \in 1..(MaxOrders + 1) : WF_billingVars(moving = "billing" /\ Ends(s))
  /\ WF_vars(moving = "traffic" /\ \E r \in Slots : Send(r))
  /\ SF_vars(moving = "traffic" /\ \E r \in Slots : RequireNode(r))
  /\ SF_vars(moving = "traffic" /\ \E r \in Slots : AcceptNodeTraffic(r))
  /\ SF_vars(moving = "traffic" /\ \E r \in Slots : RecordNodeReport(r))
  /\ SF_vars(moving = "traffic" /\ \E r \in Slots : Receive(r))

AccountSpec == AccountInit /\ [][AccountNext]_accountVars /\ AccountFairness
===========================================================================
