--------------------------- MODULE ConfigEvidence ---------------------------
(***************************************************************************)
(* Configuration deliveries and receipts of ONE node                       *)
(* (internal/store/node_config_evidence.go, called from the long poll and  *)
(* the report handler of internal/http/agent/agent.go).  Every statement   *)
(* of that file is keyed by node_id, so one node is the whole protocol.    *)
(*                                                                         *)
(* A node may run several agent processes over time, and two at once while *)
(* a restart overlaps: each has its own random session.  A request is      *)
(* authenticated by the token of a pairing generation.  The panel keeps a  *)
(* session row per (token, session), the retained deliveries, and one head *)
(* row naming the process and delivery that currently count.               *)
(*                                                                         *)
(* An absent session row behaves in every query like the row's column      *)
(* defaults, so the session table is a total function.  Delivery ids are   *)
(* random in the code; here they are the table's ordinals.                 *)
(***************************************************************************)
EXTENDS Integers, FiniteSets, TLC

CONSTANTS Sessions,       \* session identities agent processes draw
          NoSession,
          Revisions,        \* (config revision, state revision) pairs
          NoRev,
          Keep,           \* deliveries retained per node (100)
          FreshFor,       \* configEvidenceFresh, 3 minutes, in clock ticks
          Skew,           \* tolerated clock difference, 30 s, in ticks
          Lag,            \* ticks between a handler reading the clock and its commit
          Forced,         \* may line and rollout targets demand a new delivery?
          Claims,         \* what a process may claim about applying a delivery
          Mortal,         \* sessions whose process may stop for good
          MaxGenerations, \* bound: pairings
          MaxDeliveries,  \* bound: deliveries issued
          MaxEdits,       \* bound: changes of the desired state
          MaxSeq,         \* bound: receipts sent per process
          MaxGets,        \* bound: long polls open at once
          MaxTime         \* bound: clock

ASSUME EvidenceConstants ==
  /\ NoSession \notin Sessions
  /\ NoRev \notin Revisions
  /\ Keep \in Nat /\ Keep >= 2
  /\ FreshFor \in Nat /\ Skew \in Nat /\ Lag \in Nat
  /\ Forced \subseteq BOOLEAN /\ Claims \subseteq BOOLEAN
  /\ Mortal \subseteq Sessions
  /\ MaxGenerations \in Nat /\ MaxDeliveries \in Nat /\ MaxEdits \in Nat
  /\ MaxSeq \in Nat /\ MaxGets \in Nat
  /\ MaxTime \in Nat /\ MaxTime >= Skew + Lag

VARIABLES
  token,      \* generation of the last token issued; 0 = never paired
  paired,     \* nodes.token_hash is not NULL
  sess,       \* node_config_sessions
  deliv,      \* node_config_deliveries: a function on the retained ordinals
  head,       \* node_config_heads
  issued,     \* last ordinal handed out
  config,     \* revision of the desired state
  edits,      \* changes of config so far
  gets,       \* GET /api/agent/state requests the panel is serving
  procs,      \* agent processes, one per session (bosun, external)
  receipts,   \* every receipt ever sent: delivered late, twice or never
  now         \* clock

panel == <<token, paired, sess, deliv, head, issued>>
vars == <<token, paired, sess, deliv, head, issued, config, edits, gets, procs, receipts, now>>

Null == -1
Generations == 1..MaxGenerations
Keys == Generations \X Sessions
Ordinals == 0..MaxDeliveries
Epoch == Skew + Lag      \* the clock starts here, so that no instant is negative
Times == 0..(MaxTime + Skew)

NoHead == [token |-> 0, session |-> NoSession, delivery |-> 0]
NewSession == [retired |-> FALSE, cand |-> 0, parent |-> 0, seq |-> 0,
               observed |-> Null, received |-> Null]

HeadKey(h) == <<h.token, h.session>>
Key(m) == <<m.token, m.session>>
-----------------------------------------------------------------------------
Init ==
  /\ token = 0 /\ paired = FALSE
  /\ sess = [k \in Keys |-> NewSession]
  /\ deliv = [d \in {} |-> {}]
  /\ head = NoHead
  /\ issued = 0
  /\ config \in Revisions
  /\ edits = 0
  /\ gets = {}
  /\ procs = [s \in Sessions |-> [gen |-> 0, up |-> FALSE, held |-> 0, rev |-> NoRev,
                                  inst |-> NoRev, done |-> {}, seq |-> 0, spoke |-> Null]]
  /\ receipts = {}
  /\ now = Epoch
-----------------------------------------------------------------------------
(* The environment: operator, clock and agent processes.                   *)

\* A pairing code is redeemed: the node gets a token of its own.
RedeemPairCode ==
  /\ ~paired
  /\ token < MaxGenerations
  /\ token' = token + 1
  /\ paired' = TRUE
  /\ UNCHANGED <<sess, deliv, head, issued, config, edits, gets, procs, receipts, now>>

\* A new pairing code is issued: the token stops working at once.
ResetPairCode ==
  /\ paired
  /\ token < MaxGenerations
  /\ paired' = FALSE
  /\ UNCHANGED <<token, sess, deliv, head, issued, config, edits, gets, procs, receipts, now>>

\* Anything that changes what the node should run.
Edit == /\ edits < MaxEdits
        /\ \E r \in Revisions \ {config} : config' = r
        /\ edits' = edits + 1
        /\ UNCHANGED <<panel, gets, procs, receipts, now>>

Tick == /\ now < MaxTime
        /\ now' = now + 1
        /\ UNCHANGED <<panel, config, edits, gets, procs, receipts>>

Start(s) == /\ procs[s].gen = 0
            /\ paired
            /\ procs' = [procs EXCEPT ![s].gen = token, ![s].up = TRUE]
            /\ UNCHANGED <<panel, config, edits, gets, receipts, now>>

Stop(s) == /\ s \in Mortal
           /\ procs[s].up
           /\ procs' = [procs EXCEPT ![s].up = FALSE]
           /\ UNCHANGED <<panel, config, edits, gets, receipts, now>>

\* A process opens a long poll, echoing the delivery it holds.
Poll(s) ==
  /\ procs[s].up
  /\ Cardinality(gets) < MaxGets
  /\ gets' = gets \cup {[token |-> procs[s].gen, session |-> s,
                         seen |-> procs[s].held, rev |-> NoRev]}
  /\ UNCHANGED <<panel, config, edits, procs, receipts, now>>

\* The process installs the state it fetched.
Install(s) ==
  /\ procs[s].up
  /\ procs[s].rev # NoRev
  /\ procs[s].inst # procs[s].rev
  /\ procs' = [procs EXCEPT ![s].inst = procs[s].rev,
                            ![s].done = @ \cup {procs[s].rev}]
  /\ UNCHANGED <<panel, config, edits, gets, receipts, now>>

\* The process reports: the receipt names the delivery it holds, the report
\* around it the revision it actually runs.  The applied flag is its own claim,
\* its clock may differ from the panel's by up to Skew.
Report(s) ==
  /\ procs[s].up
  /\ procs[s].held # 0
  /\ procs[s].seq < MaxSeq
  /\ \E applied \in Claims, observed \in (now - Skew)..(now + Skew) :
       receipts' = receipts \cup
         {[token |-> procs[s].gen, session |-> s, delivery |-> procs[s].held,
           rev |-> procs[s].rev, seq |-> procs[s].seq + 1, applied |-> applied,
           running |-> procs[s].inst, observed |-> observed]}
  /\ procs' = [procs EXCEPT ![s].seq = @ + 1, ![s].spoke = now]
  /\ UNCHANGED <<panel, config, edits, gets, now>>
-----------------------------------------------------------------------------
(* GET /api/agent/state.  The handler reads the desired state, then runs   *)
(* prepareNodeConfigDelivery in a transaction of its own: anything may     *)
(* happen between the two.                                                 *)

\* The poll loop resolves the token again and takes the state snapshot.
Snapshot(g) ==
  /\ g.rev = NoRev
  /\ gets' = (gets \ {g}) \cup
             (IF paired /\ g.token = token THEN {[g EXCEPT !.rev = config]} ELSE {})
  /\ UNCHANGED <<panel, config, edits, procs, receipts, now>>

\* The answer reaches the process, or is lost with its connection.
Reply(g, id) ==
  /\ gets' = gets \ {g}
  /\ \E arrives \in BOOLEAN :
       procs' = IF arrives /\ procs[g.session].up
                THEN [procs EXCEPT ![g.session].held = id, ![g.session].rev = g.rev]
                ELSE procs

\* Nothing new for this process: the request waits for the next round.
Hold(g) == /\ gets' = (gets \ {g}) \cup {[g EXCEPT !.rev = NoRev]}
           /\ UNCHANGED procs

Answer(g, id) == IF g.seen # id THEN Reply(g, id) ELSE Hold(g)

\* The wait window ends, or the client has gone.
Drop(g) == /\ gets' = gets \ {g}
           /\ UNCHANGED <<panel, config, edits, procs, receipts, now>>

\* Mutant: the token is resolved only where the request comes in.
AuthorizedOnArrival(g) == TRUE

\* requireNodeTokenTx, inside the transaction.
Authorized(g) == paired /\ g.token = token

\* requireNodeTokenTx fails: re-paired between snapshot and transaction.
PrepareUnauthorized(g) ==
  /\ g.rev # NoRev
  /\ ~Authorized(g)
  /\ gets' = gets \ {g}
  /\ UNCHANGED <<panel, config, edits, procs, receipts, now>>

\* A superseded process still gets the state, but no delivery.
PrepareRetired(g) ==
  /\ g.rev # NoRev
  /\ Authorized(g)
  /\ sess[Key(g)].retired
  /\ Answer(g, 0)
  /\ UNCHANGED <<panel, config, edits, receipts, now>>

Current(g) == head.token = g.token /\ head.session = g.session

\* The live process asks again for what it was already issued.
Unchanged(g) == Current(g) /\ deliv[head.delivery].rev = g.rev

PrepareUnchanged(g) ==
  /\ g.rev # NoRev
  /\ Authorized(g)
  /\ ~sess[Key(g)].retired
  /\ Unchanged(g)
  /\ Answer(g, head.delivery)
  /\ UNCHANGED <<panel, config, edits, receipts, now>>

\* Mutant: a challenge answered earlier stays good whatever the head is now.
ReusableWhateverTheHead(g) ==
  LET s == sess[Key(g)] IN
  /\ s.cand # 0
  /\ ~Current(g)
  /\ s.cand \in DOMAIN deliv
  /\ deliv[s.cand].key = Key(g)
  /\ deliv[s.cand].rev = g.rev

\* The session's outstanding challenge can be offered again.
Reusable(g) ==
  LET s == sess[Key(g)] IN
  /\ s.cand # 0
  /\ ~Current(g)
  /\ s.parent = head.delivery
  /\ s.cand \in DOMAIN deliv
  /\ deliv[s.cand].key = Key(g)
  /\ deliv[s.cand].rev = g.rev

\* activateNodeConfigDeliveryTx, on the session table: the head's process is
\* retired unless it is the one being activated.
Retire(table, key) ==
  IF head.delivery # 0 /\ HeadKey(head) # key
  THEN [table EXCEPT ![HeadKey(head)].retired = TRUE]
  ELSE table

Activated(key, id) == [token |-> key[1], session |-> key[2], delivery |-> id]

\* Mutant: plain newest-first retention.
NewestOnly(stored, h) ==
  {d \in stored : Cardinality({e \in stored : e > d}) < Keep}

\* pruneNodeConfigDeliveriesTx: the head first, then the newest.
Kept(stored, h) ==
  {d \in stored : d = h \/ Cardinality({e \in stored : e > d /\ e # h}) < Keep - 1}

\* Mutant: any poll of another process takes the node over.
TakesOverAtOnce(g, echoed) == TRUE

\* Mutant: echoing the challenge proves nothing.
NeverByEcho(g, echoed) == head.token # g.token \/ Current(g)

\* A new token generation has no live process; the live process moves on; a
\* challenger must first echo the challenge it was given.
Activates(g, echoed) == head.token # g.token \/ Current(g) \/ echoed

\* Everything below the early return: offer the outstanding challenge again
\* or issue a new delivery, make it the session's candidate, activate, prune.
PrepareCandidate(g) ==
  /\ g.rev # NoRev
  /\ Authorized(g)
  /\ ~sess[Key(g)].retired
  /\ \E forceHead \in Forced, forceCand \in Forced :
       LET reuse  == Reusable(g) /\ ~forceCand
           id     == IF reuse THEN sess[Key(g)].cand ELSE issued + 1
           echoed == reuse /\ g.seen = id
           active == Activates(g, echoed)
           h      == IF active THEN Activated(Key(g), id) ELSE head
           row    == [key |-> Key(g), rev |-> g.rev, issued |-> now, received |-> Null,
                      observed |-> Null, seq |-> 0, applied |-> FALSE, confirmed |-> FALSE]
           stored == IF reuse THEN DOMAIN deliv ELSE DOMAIN deliv \cup {id}
           table  == [sess EXCEPT ![Key(g)].cand = id, ![Key(g)].parent = head.delivery]
       IN /\ Unchanged(g) => forceHead
          /\ id <= MaxDeliveries
          /\ issued' = IF reuse THEN issued ELSE id
          /\ head' = h
          /\ sess' = IF active THEN Retire(table, Key(g)) ELSE table
          /\ deliv' = [d \in Kept(stored, h.delivery) |->
                         IF d \in DOMAIN deliv THEN deliv[d] ELSE row]
          /\ Answer(g, id)
  /\ UNCHANGED <<token, paired, config, edits, receipts, now>>
-----------------------------------------------------------------------------
(* POST /api/agent/report: recordNodeConfigReceiptTx.                      *)

\* Observation within the freshness window of the handler's clock.
Plausible(m, at) == m.observed >= at - FreshFor /\ m.observed <= at + Skew

\* Mutant: a receipt for the session's candidate is enough.
AnswersOwnCandidate(m) ==
  LET s == sess[Key(m)] IN
  /\ s.cand = m.delivery
  /\ m.delivery \in DOMAIN deliv
  /\ deliv[m.delivery].key = Key(m)
  /\ deliv[m.delivery].rev = m.rev

\* The receipt answers the session's outstanding delivery, and the head is
\* that delivery or the one the challenge was issued against.
Answers(m) ==
  LET s == sess[Key(m)] IN
  /\ s.cand = m.delivery
  /\ m.delivery \in DOMAIN deliv
  /\ deliv[m.delivery].key = Key(m)
  /\ ~s.retired
  /\ deliv[m.delivery].rev = m.rev
  /\ head.token = m.token
  /\ \/ head.session = m.session /\ head.delivery = m.delivery
     \/ head.delivery = s.parent

\* Not older than the delivery, and newer than what the session said before.
InOrder(m, at) ==
  LET s == sess[Key(m)] IN
  /\ m.observed >= deliv[m.delivery].issued - Skew
  /\ m.seq > s.seq
  /\ s.observed # Null => m.observed >= s.observed
  /\ s.received # Null => at >= s.received

\* Mutant: the process's own claim is believed.
AppliedAsClaimed(m) == m.applied

\* The claim counts only when the report runs the revision it names.
Applied(m) == m.applied /\ m.running = m.rev

RecordReceipt(m, at) ==
  /\ Authorized(m)
  /\ Plausible(m, at)
  /\ Answers(m)
  /\ InOrder(m, at)
  /\ LET table == Retire(sess, Key(m))
     IN sess' = [table EXCEPT ![Key(m)].seq = m.seq, ![Key(m)].observed = m.observed,
                              ![Key(m)].received = at]
  /\ head' = Activated(Key(m), m.delivery)
  /\ deliv' = [deliv EXCEPT ![m.delivery].received = at,
                            ![m.delivery].observed = m.observed,
                            ![m.delivery].seq = m.seq,
                            ![m.delivery].applied = Applied(m),
                            ![m.delivery].confirmed = @ \/ Applied(m)]
  /\ UNCHANGED <<token, paired, issued, config, edits, gets, procs, receipts, now>>

HandleReceipt(m) == \E at \in (now - Lag)..now : RecordReceipt(m, at)
-----------------------------------------------------------------------------
(* NodeConfigHistory and setNodeConfigFreshness: what the panel shows.     *)

\* Mutant: freshness by arrival alone.
FreshByArrival(row, at) == row.received # Null /\ row.received + FreshFor > at

Fresh(row, at) ==
  /\ row.received # Null
  /\ row.received <= at + Skew
  /\ row.observed <= at + Skew
  /\ row.received + FreshFor > at
  /\ row.observed + FreshFor > at

\* The head counts as current only for the node's present token.
HasCurrent == head.delivery # 0 /\ paired /\ head.token = token /\ ~sess[HeadKey(head)].retired
-----------------------------------------------------------------------------
Prepare(g) == \/ PrepareUnauthorized(g) \/ PrepareRetired(g)
              \/ PrepareUnchanged(g) \/ PrepareCandidate(g)

Next ==
  \/ RedeemPairCode \/ ResetPairCode \/ Edit \/ Tick
  \/ \E s \in Sessions : Start(s) \/ Stop(s) \/ Poll(s) \/ Install(s) \/ Report(s)
  \/ \E g \in gets : Snapshot(g) \/ Prepare(g) \/ Drop(g)
  \/ \E m \in receipts : HandleReceipt(m)

Spec == Init /\ [][Next]_vars

(***************************************************************************)
(* Fairness: a running agent keeps polling (bosun's pull loop), and the    *)
(* link is lossy but not dead: of the requests it keeps repeating some are *)
(* served, and some of the answers that carry news arrive.  A poll ends at *)
(* the latest when its wait window does.                                   *)
(***************************************************************************)
Started(s) == \E g \in gets : g.session = s /\ Snapshot(g)
Served(s) == \E g \in gets : g.session = s /\ Prepare(g)
Ended(s) == \E g \in gets : g.session = s /\ Drop(g)
Delivered(s) == Served(s) /\ procs'[s].held # procs[s].held

Fairness == \A s \in Sessions : /\ WF_vars(Poll(s))
                                /\ WF_vars(Ended(s))
                                /\ SF_vars(Started(s))
                                /\ SF_vars(Served(s))
                                /\ SF_vars(Delivered(s))

FairSpec == Spec /\ Fairness
-----------------------------------------------------------------------------
SessionRow == [retired : BOOLEAN, cand : Ordinals, parent : Ordinals, seq : 0..MaxSeq,
               observed : Times \cup {Null}, received : Times \cup {Null}]
DeliveryRow == [key : Keys, rev : Revisions, issued : Times, received : Times \cup {Null},
                observed : Times \cup {Null}, seq : 0..MaxSeq, applied : BOOLEAN,
                confirmed : BOOLEAN]
HeadRow == [token : Generations, session : Sessions, delivery : 1..MaxDeliveries]
Request == [token : Generations, session : Sessions, seen : Ordinals,
            rev : Revisions \cup {NoRev}]
Process == [gen : 0..MaxGenerations, up : BOOLEAN, held : Ordinals,
            rev : Revisions \cup {NoRev}, inst : Revisions \cup {NoRev},
            done : SUBSET Revisions, seq : 0..MaxSeq, spoke : Times \cup {Null}]
Receipt == [token : Generations, session : Sessions, delivery : Ordinals,
            rev : Revisions \cup {NoRev}, seq : 1..MaxSeq, applied : BOOLEAN,
            running : Revisions \cup {NoRev}, observed : Times]

TypeOK ==
  /\ token \in 0..MaxGenerations
  /\ paired \in BOOLEAN
  /\ paired => token # 0
  /\ sess \in [Keys -> SessionRow]
  /\ issued \in Ordinals
  /\ DOMAIN deliv \subseteq 1..issued
  /\ deliv \in [DOMAIN deliv -> DeliveryRow]
  /\ head = NoHead \/ head \in HeadRow
  /\ config \in Revisions
  /\ edits \in 0..MaxEdits
  /\ gets \subseteq Request
  /\ procs \in [Sessions -> Process]
  /\ \A s \in Sessions : procs[s].up => procs[s].gen # 0
  /\ receipts \subseteq Receipt
  /\ now \in Epoch..MaxTime

\* The head row always names a retained delivery of a process that was not
\* superseded: the JOINs every reader relies on find it
\* (pruneNodeConfigDeliveriesTx, activateNodeConfigDeliveryTx).
HeadServes ==
  head.delivery # 0 =>
    /\ head.delivery \in DOMAIN deliv
    /\ deliv[head.delivery].key = HeadKey(head)
    /\ ~sess[HeadKey(head)].retired

\* A delivery marked applied was really installed by the process it was
\* issued to, however its receipts were delayed, repeated or worded.
AppliedIsTrue ==
  \A d \in DOMAIN deliv :
    deliv[d].applied => deliv[d].rev \in procs[deliv[d].key[2]].done

\* Evidence the panel calls fresh comes from a process that was alive within
\* the freshness window (and the tolerated skew), even if its receipt spent
\* most of that window in the network.
FreshIsRecent ==
  HasCurrent /\ Fresh(deliv[head.delivery], now) =>
    /\ procs[head.session].spoke # Null
    /\ now < procs[head.session].spoke + FreshFor + Skew

\* Once a process has been superseded nothing it still sends changes the
\* evidence recorded for its deliveries (recordNodeConfigReceiptTx).
SupersededIsSilent ==
  [][\A d \in DOMAIN deliv \cap DOMAIN deliv' :
        sess[deliv[d].key].retired => deliv'[d] = deliv[d]]_vars

\* A live process is superseded by another one of the same token only after
\* that process has received the challenge it answers: "its first delayed GET
\* cannot retire the live process" (PrepareNodeConfigDelivery).
TakeoverIsProven ==
  [][head.token = token /\ head'.token = token /\ head'.session # head.session =>
       procs[head'.session].held = head'.delivery]_vars

\* After a re-pairing no request of an earlier token changes the evidence,
\* even one that was authenticated before it (requireNodeTokenTx).
RevokedIsPowerless ==
  [][/\ head' # head => paired /\ head'.token = token
     /\ \A k \in Keys : ~paired \/ k[1] # token =>
          sess'[k].cand = sess[k].cand /\ sess'[k].seq = sess[k].seq]_vars

\* Whatever two overlapping processes and their delayed polls and receipts
\* do, the head behaves like ConfigHead: no superseded process returns and
\* the judged delivery never goes back.
Abstract == INSTANCE ConfigHead WITH
  Procs <- Keys, NoProc <- HeadKey(NoHead),
  live <- HeadKey(head), cur <- head.delivery,
  dead <- {k \in Keys : sess[k].retired}

HeadOnlyHandsOver == Abstract!Spec

\* A process that is alone, holds the current token and keeps polling ends up
\* being the one the panel listens to: a restart cannot leave the node stuck
\* with a dead head, and the state it is judged by is the desired one.
Alone(s) == /\ procs[s].up /\ paired /\ procs[s].gen = token
            /\ \A o \in Sessions \ {s} : ~procs[o].up
            /\ ~sess[<<token, s>>].retired

SurvivorTakesOver ==
  \A s \in Sessions :
    <>[]Alone(s) =>
      <>[](/\ head.token = token /\ head.session = s
           /\ head.delivery \in DOMAIN deliv
           /\ deliv[head.delivery].rev = config)

-----------------------------------------------------------------------------
\* For the model checker: sessions, and revisions, are interchangeable.
Symmetry == Permutations(Sessions) \cup Permutations(Revisions)
=============================================================================
