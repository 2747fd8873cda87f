----------------------------- MODULE ProbeCards -----------------------------
(***************************************************************************)
(* The overview cards of the public page (web/probe/glass-shared/views/    *)
(* generalCards.ts), from the snapshot the server publishes: what it says  *)
(* of sections (captain.ts, init.ts, app-settings.ts), measures that may be*)
(* missing, and remaining values in several currencies converted with      *)
(* cached exchange rates (web/probe/src/lib/node-cost.ts).  The rates are  *)
(* the server's: claimed, fetched and finished by a background job         *)
(* (internal/store/probe_exchange_rates.go).                               *)
(*                                                                         *)
(* Disk is memory once more and is left out; time is in days.              *)
(***************************************************************************)
EXTENDS Integers, FiniteSets, FiniteSetsExt

CONSTANTS
  CardServers,    \* servers, naturals: server n measures n, so that a sum names its terms
  CardCosts,      \* remaining values a server may have: [cur, amt, until] and NoCost
  QuoteSets,      \* currencies a provider may quote, "USD" among them
  CardTarget,     \* finance_currency
  UnitsPerUSD,    \* rate of each currency
  FetchLife,      \* days until rates count as stale by their fetch (48 hours)
  QuoteLife,      \* days until they do by the oldest quote used (7 days)
  MaxCardDays, MaxClaims, MaxCardWorlds, MaxCardFaults

ASSUME CardAssumption ==
  /\ IsFiniteSet(CardServers) /\ CardServers \subseteq Nat \ {0}
  /\ \A q \in QuoteSets : "USD" \in q /\ q \subseteq DOMAIN UnitsPerUSD
  /\ FetchLife \in Nat \ {0} /\ QuoteLife \in Nat \ {0}
  /\ {MaxCardDays, MaxClaims, MaxCardWorlds, MaxCardFaults} \subseteq Nat

VARIABLES
  cardDay,
  site,      \* sections published, servers that are there, what each measures, online, cost
  rateState, \* snapshot (NoRates or [dates, fetched, of]), attempt, failures, next
  fetches,   \* provider requests in flight: [id, at]
  snap,      \* snapshot of the page; NoSnap before the first and after a refusal
  rows,      \* node store: server -> [ram, speed, traffic, online]
  keys,      \* generalCardKeys
  claims, cardWorlds, cardFaults

cardVars == <<cardDay, site, rateState, fetches, snap, rows, keys, claims, cardWorlds, cardFaults>>
siteVars == <<site, rateState, fetches, claims, cardWorlds>>

NaN == -1
NoCost == [cur |-> "", amt |-> 0, until |-> 0]   \* no price, or one that is only text
NoRates == [dates |-> << >>, fetched |-> 0, of |-> 0]
NoSnap == [sections |-> {}, servers |-> {}]
Sections == {"memory", "network", "traffic", "info"}

-----------------------------------------------------------------------------
(* Exchange rates on the server.                                            *)
FinanceEnabled == "info" \in site.sections

\* ClaimProbeExchangeRateRefresh: the next attempt is set before networking;
\* the first three delays are shorter than a day.
ClaimRates ==
  LET failures == IF rateState.failures < 4 THEN rateState.failures + 1 ELSE 4
  IN /\ claims < MaxClaims /\ claims' = claims + 1
     /\ FinanceEnabled /\ cardDay >= rateState.next
     /\ rateState' = [rateState EXCEPT !.attempt = claims', !.failures = failures,
                                       !.next = cardDay + (IF failures = 4 THEN 1 ELSE 0)]
     /\ fetches' = fetches \cup {[id |-> claims', at |-> cardDay]}
     /\ UNCHANGED <<cardDay, site, snap, rows, keys, cardWorlds, cardFaults>>

\* FinishProbeExchangeRateRefresh, with the date of every quote; none stand for a failed fetch.
FinishRates(f, dates) ==
  /\ f \in fetches /\ fetches' = fetches \ {f}
  /\ rateState' =
       IF rateState.attempt # f.id THEN rateState
       ELSE IF ~FinanceEnabled THEN [rateState EXCEPT !.attempt = 0, !.next = 0]
       ELSE IF DOMAIN dates = {} THEN [rateState EXCEPT !.attempt = 0]
       ELSE [snapshot |-> [dates |-> dates, fetched |-> f.at, of |-> f.id],
             attempt |-> 0, failures |-> 0, next |-> f.at + 1]
  /\ UNCHANGED <<cardDay, site, snap, rows, keys, claims, cardWorlds, cardFaults>>

\* The process stops over the request.
LoseFetch(f) ==
  /\ f \in fetches /\ cardFaults < MaxCardFaults /\ cardFaults' = cardFaults + 1
  /\ fetches' = fetches \ {f}
  /\ UNCHANGED <<cardDay, site, rateState, snap, rows, keys, claims, cardWorlds>>

-----------------------------------------------------------------------------
(* Snapshots and the page.                                                  *)
Published ==
  [sections |-> site.sections, servers |-> site.there, measured |-> site.measured, online |-> site.online,
   cost |-> [s \in site.there |-> IF FinanceEnabled THEN site.cost[s] ELSE NoCost],
   rates |-> IF FinanceEnabled THEN rateState.snapshot ELSE NoRates,
   stale |-> cardDay - rateState.snapshot.fetched >= FetchLife]

Shows(p, section) == section \in p.sections

\* statusFor, periodTraffic.
StatusFor(p, s) ==
  LET metric(section) == IF Shows(p, section) /\ s \in p.measured THEN s ELSE NaN
  IN [ram |-> metric("memory"), speed |-> metric("network"), traffic |-> metric("traffic"), online |-> s \in p.online]

CardKeys(p) ==
  (IF Shows(p, "memory") THEN {"memory"} ELSE {}) \cup {IF Shows(p, "info") THEN "remainingValue" ELSE "onlineNodes"}
  \cup (IF Shows(p, "traffic") THEN {"totalTraffic"} ELSE {}) \cup (IF Shows(p, "network") THEN {"uploadSpeed"} ELSE {})

\* parseKeyList, generalCardOrder: an empty list is no choice.
ParseKeyList(ks, fallback) == IF ks # {} THEN ks ELSE fallback
DefaultCardOrder == {"memory", "remainingValue", "totalTraffic", "uploadSpeed"}
GeneralCardOrder(ks) == ParseKeyList(ks, DefaultCardOrder)

\* refresh: a page whose sections changed loads itself again.
RefreshPage ==
  /\ snap' = IF snap # NoSnap /\ snap.sections # site.sections THEN NoSnap ELSE Published
  /\ rows' = [s \in snap'.servers |-> StatusFor(snap', s)]
  /\ keys' = IF snap' = NoSnap THEN {} ELSE CardKeys(snap')
  /\ UNCHANGED <<cardDay, cardFaults>> /\ UNCHANGED siteVars

\* 401, 403 or 404.
RefusePage ==
  /\ cardFaults < MaxCardFaults /\ cardFaults' = cardFaults + 1
  /\ snap # NoSnap /\ snap' = NoSnap /\ rows' = << >>
  /\ UNCHANGED <<cardDay, keys>> /\ UNCHANGED siteVars

CardDayPasses ==
  /\ cardDay < MaxCardDays /\ cardDay' = cardDay + 1
  /\ UNCHANGED <<site, rateState, fetches, snap, rows, keys, claims, cardWorlds, cardFaults>>

\* Reports stop, servers go offline, prices are edited, sections published or hidden.
SiteChanges ==
  /\ cardWorlds < MaxCardWorlds /\ cardWorlds' = cardWorlds + 1
  /\ \/ \E x \in SUBSET Sections : site' = [site EXCEPT !.sections = x]
     \/ \E s \in site.there : \/ s \in site.measured /\ site' = [site EXCEPT !.measured = @ \ {s}]
                              \/ s \in site.online /\ site' = [site EXCEPT !.online = @ \ {s}]
     \/ \E s \in site.there, c \in CardCosts : site' = [site EXCEPT !.cost[s] = c]
  /\ UNCHANGED <<cardDay, rateState, fetches, snap, rows, keys, claims, cardFaults>>

-----------------------------------------------------------------------------
(* Cards, of a group G of the rows.                                         *)
Or0(x) == IF x = NaN THEN 0 ELSE x
Total(G, f(_)) == MapThenSumSet(f, G)

MemoryCard(G) ==
  IF \E s \in G : rows[s].ram # NaN THEN Total(G, LAMBDA s : Or0(rows[s].ram)) ELSE NaN

SpeedCard(G) ==
  LET on == {s \in G : rows[s].online}
  IN IF \E s \in on : rows[s].speed # NaN THEN Total(on, LAMBDA s : Or0(rows[s].speed)) ELSE NaN

\* One unknown term makes the sum unknown.
TrafficCard(G) ==
  IF G = {} \/ \E s \in G : rows[s].traffic = NaN THEN NaN ELSE Total(G, LAMBDA s : rows[s].traffic)

PriceVisible == snap # NoSnap /\ Shows(snap, "info")

\* calculateNodeCost: an expired server is worth nothing.
Remaining(s) == IF cardDay >= snap.cost[s].until THEN 0 ELSE snap.cost[s].amt
KnownNumber(G) == {s \in G \cap snap.servers : snap.cost[s] # NoCost}

\* summarizeNodeCosts.
Amounts(G) ==
  [c \in {snap.cost[s].cur : s \in KnownNumber(G)} |-> Total({s \in KnownNumber(G) : snap.cost[s].cur = c}, Remaining)]

HasQuote(code) == code \in DOMAIN snap.rates.dates /\ snap.rates.dates[code] <= cardDay + 2
Converted(amount, code) == (amount * UnitsPerUSD[CardTarget]) \div UnitsPerUSD[code]
NoQuoteNeeded(amounts, c) == amounts[c] = 0 \/ c = CardTarget

\* Mutant: currencies without a quote are left out.
CostCardOfQuoted(G) ==
  LET amounts == Amounts(G)
      foreign == {c \in DOMAIN amounts : ~NoQuoteNeeded(amounts, c)}
      quoted == {c \in foreign : HasQuote(c) /\ HasQuote(CardTarget)}
  IN [value |-> IF DOMAIN amounts = {} THEN NaN
                ELSE Total(DOMAIN amounts \ foreign, LAMBDA c : amounts[c]) + Total(quoted, LAMBDA c : Converted(amounts[c], c)),
      stale |-> FALSE]

\* The oldest of the quotes used decides.
QuotesAreOld(used) == used # {} /\ cardDay - Min({snap.rates.dates[c] : c \in used}) >= QuoteLife
StaleRates(used) == snap.stale \/ cardDay - snap.rates.fetched >= FetchLife \/ QuotesAreOld(used)

\* summarizeConvertedNodeCosts, costCard.
CostCard(G) ==
  LET amounts == Amounts(G)
      foreign == {c \in DOMAIN amounts : ~NoQuoteNeeded(amounts, c)}
      missing == \E c \in foreign : ~HasQuote(c) \/ ~HasQuote(CardTarget)
  IN IF DOMAIN amounts = {} \/ missing THEN [value |-> NaN, stale |-> FALSE]
     ELSE [value |-> Total(DOMAIN amounts \ foreign, LAMBDA c : amounts[c])
                     + Total(foreign, LAMBDA c : Converted(amounts[c], c)),
           stale |-> foreign # {} /\ StaleRates(foreign \cup {CardTarget})]

\* buildGeneralCards.
VisibleCards == {k \in GeneralCardOrder(keys) : k # "remainingValue" \/ PriceVisible}
CardValue(k, G) ==
  CASE k = "memory" -> MemoryCard(G) [] k = "uploadSpeed" -> SpeedCard(G) [] k = "totalTraffic" -> TrafficCard(G)
    [] k = "remainingValue" -> CostCard(G).value [] k = "onlineNodes" -> Cardinality({s \in G : rows[s].online})

-----------------------------------------------------------------------------
CardInit ==
  /\ cardDay = 1
  /\ \E c \in [CardServers -> CardCosts \ {NoCost}] :
       site = [sections |-> Sections, there |-> CardServers, measured |-> CardServers, online |-> CardServers, cost |-> c]
  /\ rateState = [snapshot |-> NoRates, attempt |-> 0, failures |-> 0, next |-> 0]
  /\ fetches = {} /\ snap = NoSnap /\ rows = << >> /\ keys = {} /\ claims = 0 /\ cardWorlds = 0 /\ cardFaults = 0

\* A provider's quotes are of the day they are fetched, one at most of the day before.
CardNext ==
  \/ ClaimRates \/ \E f \in fetches : LoseFetch(f)
  \/ \E f \in fetches, q \in QuoteSets \cup {{}} : \E old \in q \cup {""} :
       FinishRates(f, [c \in q |-> IF c = old THEN f.at - 1 ELSE f.at])
  \/ RefreshPage \/ RefusePage \/ CardDayPasses \/ SiteChanges

CardSpec == CardInit /\ [][CardNext]_cardVars

-----------------------------------------------------------------------------
CardGroups == SUBSET DOMAIN rows
SectionOf(k) == CASE k = "memory" -> "memory" [] k = "uploadSpeed" -> "network" [] k = "totalTraffic" -> "traffic"
                  [] k = "remainingValue" -> "info" [] OTHER -> ""

(* A section the site hides has no card, whatever was published before, while
   the page reloads and after it was refused; before the first snapshot there
   is no number at all (init.ts:19-41, app-settings.ts:719-741,
   generalCards.ts:162-168). *)
HiddenHasNoCard ==
  \A k \in VisibleCards : IF snap = NoSnap THEN \A G \in CardGroups : k = "onlineNodes" \/ CardValue(k, G) = NaN
                          ELSE SectionOf(k) = "" \/ Shows(snap, SectionOf(k))

(* What nobody measured is no zero, and a number is the sum of what was: used
   memory and speeds of the servers that report, traffic only when every
   server's is known (generalCards.ts:254-306). *)
UnmeasuredIsNotZero ==
  snap # NoSnap => \A G \in CardGroups :
    LET reporting == G \cap snap.measured
        on == reporting \cap snap.online
        sumOf(S) == Total(S, LAMBDA s : s)
    IN /\ "memory" \in VisibleCards => MemoryCard(G) = IF reporting = {} THEN NaN ELSE sumOf(reporting)
       /\ "uploadSpeed" \in VisibleCards => SpeedCard(G) = IF on = {} THEN NaN ELSE sumOf(on)
       /\ "totalTraffic" \in VisibleCards => TrafficCard(G) = IF G # {} /\ reporting = G THEN sumOf(G) ELSE NaN

(* "A missing quote must never produce a partial total that appears complete;
   zero amounts and same-currency sums need no FX" (node-cost.ts:126-129): a
   total is the worth of every priced server of the group, one by one. *)
TotalIsComplete ==
  "remainingValue" \in VisibleCards => \A G \in CardGroups :
    LET worth == {s \in KnownNumber(G) : Remaining(s) > 0}
        convertible(s) == snap.cost[s].cur = CardTarget \/ (HasQuote(snap.cost[s].cur) /\ HasQuote(CardTarget))
    IN CostCard(G).value = IF KnownNumber(G) # {} /\ \A s \in worth : convertible(s)
                           THEN Total(worth, LAMBDA s : Converted(Remaining(s), snap.cost[s].cur)) ELSE NaN

(* A page that lost its connection says on its own that the rates behind a
   total have grown old (node-cost.ts:164-170). *)
StaleIsSaid ==
  "remainingValue" \in VisibleCards => \A G \in CardGroups :
    LET card == CostCard(G)
        foreign == {snap.cost[s].cur : s \in {k \in KnownNumber(G) : Remaining(k) > 0}} \ {CardTarget}
        old == \E c \in foreign \cup {CardTarget} : cardDay - snap.rates.dates[c] >= QuoteLife
    IN card.value # NaN /\ foreign # {} /\ (cardDay - snap.rates.fetched >= FetchLife \/ old) => card.stale

(* Rates come from the newest claim: an answer that was overtaken by another
   attempt, or that lands while finance is hidden, changes nothing
   (probe_exchange_rates.go:135-172). *)
RatesNeverGoBack ==
  [][ rateState'.snapshot # rateState.snapshot =>
        /\ FinanceEnabled /\ rateState'.snapshot.of > rateState.snapshot.of
        /\ rateState'.snapshot.fetched >= rateState.snapshot.fetched ]_cardVars
=============================================================================
