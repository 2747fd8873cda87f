----------------------------- MODULE ConfigHead -----------------------------
(***************************************************************************)
(* What the configuration evidence of one node promises to everything that *)
(* reads it (rollouts, path health, the admin pages): at any time at most  *)
(* one agent process speaks for the node, a process that was superseded    *)
(* never speaks again, and the delivery the node is judged by only moves   *)
(* forward in the order in which deliveries were issued.                   *)
(***************************************************************************)
EXTENDS Integers

CONSTANTS Procs,    \* agent processes, identified by token generation and session
          NoProc    \* nobody has been heard yet

VARIABLES live,     \* the process that currently speaks for the node
          cur,      \* the ordinal of the delivery it is judged by; 0 = none
          dead      \* processes that have been superseded

headVars == <<live, cur, dead>>

Init == live = NoProc /\ cur = 0 /\ dead = {}

\* The live process is issued a newer delivery.
Advance == /\ live # NoProc
           /\ cur' > cur
           /\ UNCHANGED <<live, dead>>

\* Another process that was never superseded takes over with a newer delivery.
Takeover(p) == /\ p # live
               /\ p \notin dead
               /\ live' = p
               /\ cur' > cur
               /\ dead' = dead \cup ({live} \ {NoProc})

Next == Advance \/ \E p \in Procs : Takeover(p)

Spec == Init /\ [][Next]_headVars
=============================================================================
