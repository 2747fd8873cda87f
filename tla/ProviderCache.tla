--------------------------- MODULE ProviderCache ---------------------------
(***************************************************************************)
(* The shared cache of the probe page (web/probe/glass-shared/services/    *)
(* cache.service.ts) as the provider metadata of nodes use it              *)
(* (composables/providerMetadata.ts, glass/src/hooks/                      *)
(* useNodeProviderMetadata.ts): one entry per fingerprint of a node, looked*)
(* up at the first render, subscribed to by an effect, and swept by age and*)
(* by size.                                                                *)
(*                                                                         *)
(* References (retain) have no caller and geo lookups need a login that the*)
(* panel's page does not have; both are left out.                          *)
(***************************************************************************)
EXTENDS Integers, FiniteSets

CONSTANTS
  Fingerprints, CacheViews,
  CacheSize,    \* maxSize
  CacheLife,    \* ttl
  MaxCacheTime, MaxEntries

ASSUME CacheAssumption ==
  /\ IsFiniteSet(Fingerprints) /\ IsFiniteSet(CacheViews)
  /\ CacheSize \in Nat /\ CacheLife \in Nat /\ MaxCacheTime \in Nat /\ MaxEntries \in Nat

VARIABLES
  cacheTime,
  cache,      \* fingerprint -> [id, expires, used]
  hooks,      \* view -> [key, entry]; no key when unmounted, entry 0 before its effect
  created,    \* entries made; an id names one
  overflow    \* history: an entry did not fit when it was made

cacheVars == <<cacheTime, cache, hooks, created, overflow>>

NoKey == "none"
Without(c, ks) == [k \in DOMAIN c \ ks |-> c[k]]
Subscribed(hs, id) == \E v \in CacheViews : hs[v].entry = id

-----------------------------------------------------------------------------

\* canEvict: nobody subscribes to it.
CanEvict(c, hs) == {k \in DOMAIN c : ~Subscribed(hs, c[k].id)}

\* sweep: idle entries that expired, then the ones used longest ago.
SweepCache(c, hs) ==
  LET live == Without(c, {k \in CanEvict(c, hs) : c[k].expires <= cacheTime})
      idle == CanEvict(live, hs)
      excess == Cardinality(DOMAIN live) - CacheSize
      before(j, k) == live[j].used < live[k].used \/ (live[j].used = live[k].used /\ live[j].id < live[k].id)
  IN Without(live, {k \in idle : Cardinality({j \in idle : before(j, k)}) < excess})

\* get: an expired entry is found as long as somebody uses it.
Hit(c, hs, k) == k \in DOMAIN c /\ (c[k].expires > cacheTime \/ k \notin CanEvict(c, hs))

\* getSharedMetadataEntry: the entry of k, made when there is none, under
\* subscriptions hs.
EntryId(c, hs, k) == IF Hit(c, hs, k) THEN c[k].id ELSE created + 1
GetEntry(hs, k) ==
  LET hit == Hit(cache, hs, k)
      made == [id |-> created + 1, expires |-> cacheTime + CacheLife, used |-> cacheTime]
      added == [j \in DOMAIN cache \cup {k} |-> IF j = k THEN made ELSE cache[j]]
  IN /\ hit \/ created < MaxEntries
     /\ created' = IF hit THEN created ELSE created + 1
     /\ cache' = IF hit THEN [cache EXCEPT ![k].used = cacheTime] ELSE SweepCache(added, hs)
     /\ overflow' = (overflow \/ (~hit /\ k \notin DOMAIN cache'))

\* The first render reads the cache and does not subscribe.
RenderHook(v, k) ==
  /\ hooks[v].key = NoKey
  /\ hooks' = [hooks EXCEPT ![v] = [key |-> k, entry |-> 0]]
  /\ GetEntry(hooks, k)
  /\ UNCHANGED cacheTime

\* The effect subscribes.
SubscribeHook(v) ==
  /\ hooks[v].key # NoKey /\ hooks[v].entry = 0
  /\ GetEntry(hooks, hooks[v].key)
  /\ hooks' = [hooks EXCEPT ![v].entry = EntryId(cache, hooks, hooks[v].key)]
  /\ UNCHANGED cacheTime

\* The cleanup of an effect: the view leaves, or its node has another
\* fingerprint and the next effect is due.
ReleaseHook(v, key) ==
  /\ hooks[v].entry # 0
  /\ hooks' = [hooks EXCEPT ![v] = [key |-> key, entry |-> 0]]
  /\ cache' = SweepCache(cache, hooks')
  /\ UNCHANGED <<cacheTime, created, overflow>>

CleanupTimer ==
  /\ cache' = SweepCache(cache, hooks) /\ cache' # cache
  /\ UNCHANGED <<cacheTime, hooks, created, overflow>>

CacheTick ==
  /\ cacheTime < MaxCacheTime /\ cacheTime' = cacheTime + 1
  /\ UNCHANGED <<cache, hooks, created, overflow>>

CacheInit ==
  /\ cacheTime = 0 /\ cache = << >> /\ created = 0 /\ overflow = FALSE
  /\ hooks = [v \in CacheViews |-> [key |-> NoKey, entry |-> 0]]

CacheNext ==
  \/ CacheTick \/ CleanupTimer
  \/ \E v \in CacheViews :
       SubscribeHook(v) \/ \E k \in Fingerprints : RenderHook(v, k) \/ ReleaseHook(v, k)
       \/ ReleaseHook(v, NoKey)

CacheSpec == CacheInit /\ [][CacheNext]_cacheVars

-----------------------------------------------------------------------------
(* The cache never holds more than it may, except for entries in use
   (cache.service.ts:102-121, providerMetadata.ts:40-43). *)
CacheIsBounded == Cardinality(DOMAIN cache) > CacheSize => CanEvict(cache, hooks) = {}

(* What a mounted view subscribed to is not thrown away under it, however old
   it grows and however full the cache is (providerMetadata.ts:22). *)
UsedStaysCached ==
  [][ \A k \in DOMAIN cache : Subscribed(hooks, cache[k].id) /\ Subscribed(hooks', cache[k].id) =>
        k \in DOMAIN cache' /\ cache'[k].id = cache[k].id ]_cacheVars

(* "one geo lookup per node fingerprint, fanned out to every subscriber"
   (providerMetadata.ts:1-2): views of one fingerprint share one entry, as long
   as every entry made did fit (an entry made while the cache is full of used
   ones is swept before its maker subscribes). *)
SharedByFingerprint ==
  ~overflow => \A v, w \in CacheViews :
    hooks[v].entry # 0 /\ hooks[w].entry # 0 /\ hooks[v].key = hooks[w].key => hooks[v].entry = hooks[w].entry
=============================================================================
