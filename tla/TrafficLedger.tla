--------------------------- MODULE TrafficLedger ---------------------------
(***************************************************************************)
(* What traffic accounting promises about the batches a server collects:   *)
(* each is billed at most once, in the order of its generation, and the    *)
(* server forgets a batch only after it was billed.                        *)
(***************************************************************************)
EXTENDS Integers

CONSTANTS Epochs,   \* generations of a server's journal
          MaxSeq    \* bound: batches of a generation

VARIABLES made,     \* batches collected, by generation
          acked,    \* batches the server has let go of, by generation
          billed    \* how often a batch was billed

ledgerVars == <<made, acked, billed>>

Init == /\ made = [e \in Epochs |-> 0]
        /\ acked = [e \in Epochs |-> 0]
        /\ billed = [b \in Epochs \X (1..MaxSeq) |-> 0]

Collect(e) == /\ made' = [made EXCEPT ![e] = @ + 1]
              /\ UNCHANGED <<acked, billed>>

Bill(e, s) == /\ s <= made[e]
              /\ billed[<<e, s>>] = 0
              /\ s > 1 => billed[<<e, s - 1>>] = 1
              /\ billed' = [billed EXCEPT ![<<e, s>>] = 1]
              /\ UNCHANGED <<made, acked>>

LetGo(e) == /\ acked[e] < made[e]
            /\ billed[<<e, made[e]>>] = 1
            /\ acked' = [acked EXCEPT ![e] = made[e]]
            /\ UNCHANGED <<made, billed>>

Next == \E e \in Epochs : Collect(e) \/ LetGo(e) \/ \E s \in 1..MaxSeq : Bill(e, s)

Spec == Init /\ [][Next]_ledgerVars
=============================================================================
