---------------------------- MODULE PurchaseProofs ----------------------------
(***************************************************************************)
(* Theorems about purchases: the details the purchase sync publishes, for   *)
(* all orders, sources, executions and samples, and the quantities a        *)
(* delivery batch gives against them, for all sites, warehouses, limits and *)
(* bounds.  The two models share no state; each has its inductive           *)
(* invariant, PurchaseInv and AllocationInv, and the allocation implements   *)
(* PurchaseQuota.                                                           *)
(***************************************************************************)
EXTENDS PurchaseDetails, DeliveryAllocation, Sums

(* The invariant of the details. *)

\* A detail that may be published in row "r" of a list of "source", planned on "since".
Publishable(d, source, r, since) ==
    /\ d \in Detail
    /\ d.content # Garbage
    /\ d.source = source
    /\ d.row = r
    /\ d.day >= since

\* An entry of the cache, whose detail may since have been damaged.
EntrySound(e, source, verified) ==
    /\ e.detail.source = source
    /\ e.detail.row = e.row
    /\ e.detail.day >= verified

CacheInv ==
    cache # NoCache =>
        \A o \in Orders : cache.orders[o] # NoEntry =>
            EntrySound(cache.orders[o], cache.source, cache.verified)

\* What a sync has fetched or taken from the cache so far.
Collected(r) ==
    \A o \in Orders \ r.todo : Publishable(r.details[o], r.source, r.rows[o], r.planned)

SyncInv(r) ==
    /\ r.pc \in {"fetch", "publish", "write"} =>
          r.verified = r.planned /\ r.planned <= day /\ Collected(r)
    /\ r.pc \in {"publish", "write"} => r.todo = {}

PublishedInv == PublishedFresh /\ NoForeignDetails /\ DetailsOfListedRows

PurchaseInv ==
    /\ TypeOK
    /\ CacheInv
    /\ \A s \in Syncs : SyncInv(sync[s])
    /\ PublishedInv

-------------------------------------------------------------------------------
(* What the operators return. *)

LEMMA Numbers ==
    /\ MaxChanges \in Nat
    /\ Contents = 0..MaxChanges
    /\ 0 \in Contents
    /\ Garbage \notin Contents
BY PurchaseAssumption DEF Contents, Garbage

LEMMA NothingTyped == Nothing \in Details
BY DEF Nothing, Details

LEMMA IdleTyped ==
    ASSUME NEW source \in Sources
    PROVE  Idle(source) \in Sync
BY Numbers, NothingTyped DEF Idle, Sync

LEMMA EverythingTyped ==
    ASSUME NEW r \in Sync, day \in Nat
    PROVE  Everything(r) \in Sync
BY NothingTyped DEF Everything, Sync

LEMMA LoadedTyped ==
    ASSUME cache \in Cache \cup {NoCache}, CacheInv, NEW source, NEW o \in Orders,
           Loaded(source)[o] # NoEntry
    PROVE  /\ cache \in Cache
           /\ Loaded(source)[o] = cache.orders[o]
           /\ Loaded(source)[o] \in Entry
           /\ Publishable(Loaded(source)[o].detail, source, Loaded(source)[o].row, cache.verified)
<1>1. /\ cache # NoCache /\ cache.source = source
      /\ cache.orders[o] # NoEntry
      /\ cache.orders[o].detail.content = cache.orders[o].hash
      /\ Loaded(source)[o] = cache.orders[o]
  BY DEF Loaded
<1>2. cache \in Cache /\ cache.orders[o] \in Entry
  BY <1>1 DEF Cache
<1>3. EntrySound(cache.orders[o], source, cache.verified)
  BY <1>1 DEF CacheInv
<1>4. cache.orders[o].hash \in Contents /\ cache.orders[o].detail \in Detail
  BY <1>2 DEF Entry
<1>5. cache.orders[o].detail.content # Garbage
  BY <1>1, <1>4, Numbers
<1> QED
  BY <1>1, <1>2, <1>3, <1>4, <1>5 DEF EntrySound, Publishable

LEMMA BuiltTyped ==
    ASSUME NEW r \in Sync, Collected(r), r.todo = {}, r.verified = r.planned
    PROVE  /\ Built(r) \in Cache
           /\ \A o \in Orders : Built(r).orders[o] # NoEntry =>
                EntrySound(Built(r).orders[o], Built(r).source, Built(r).verified)
<1> DEFINE e(o) == [row |-> r.rows[o], hash |-> r.details[o].content, detail |-> r.details[o]]
<1>1. /\ Built(r).source = r.source
      /\ Built(r).verified = r.verified
      /\ Built(r).orders = [o \in Orders |-> IF o \in r.twice THEN NoEntry ELSE e(o)]
      /\ Built(r) = [source |-> r.source, verified |-> r.verified,
                     orders |-> [o \in Orders |-> IF o \in r.twice THEN NoEntry ELSE e(o)]]
  BY DEF Built
<1>2. ASSUME NEW o \in Orders
      PROVE  e(o) \in Entry /\ EntrySound(e(o), r.source, r.verified)
  <2>1. Publishable(r.details[o], r.source, r.rows[o], r.planned)
    BY DEF Collected
  <2>2. r.details[o] \in Detail /\ r.details[o].content \in Contents /\ r.rows[o] \in Contents
    BY <2>1 DEF Publishable, Detail, Sync
  <2> QED
    BY <2>1, <2>2 DEF Entry, EntrySound, Publishable
<1>3. r.source \in Sources /\ r.verified \in Nat
  BY DEF Sync
<1> QED
  BY <1>1, <1>2, <1>3 DEF Cache

-------------------------------------------------------------------------------
(* The invariant holds at first. *)

LEMMA IdleInv ==
    ASSUME NEW source \in Sources
    PROVE  SyncInv(Idle(source))
BY DEF SyncInv, Idle

LEMMA InitInv == Init => PurchaseInv
<1> SUFFICES ASSUME Init PROVE PurchaseInv
  OBVIOUS
<1>1. settings \in Sources /\ cache = NoCache /\ version = NoVersion
      /\ sync = [s \in Syncs |-> Idle(settings)]
  BY DEF Init
<1>2. erp \in [Sources -> [Orders -> [row : Contents, content : Contents]]]
  BY Numbers DEF Init
<1>3. day \in Nat /\ syncs \in Nat /\ changes \in Contents /\ faults \in Nat
  BY Numbers DEF Init
<1>4. sync \in [Syncs -> Sync]
  BY <1>1, IdleTyped
<1>5. TypeOK
  BY <1>1, <1>2, <1>3, <1>4 DEF TypeOK
<1>6. CacheInv /\ PublishedInv
  BY <1>1 DEF CacheInv, PublishedInv, PublishedFresh, NoForeignDetails, DetailsOfListedRows
<1>7. \A s \in Syncs : SyncInv(sync[s])
  BY <1>1, IdleInv
<1> QED
  BY <1>5, <1>6, <1>7 DEF PurchaseInv

-------------------------------------------------------------------------------
(* What happens around the syncs. *)

LEMMA OrderChangesInv ==
    ASSUME PurchaseInv, NEW source \in Sources, NEW o \in Orders, OrderChanges(source, o)
    PROVE  PurchaseInv'
<1>1. TypeOK
  BY DEF PurchaseInv
<1>2. changes' \in Contents
  BY <1>1, Numbers DEF TypeOK, OrderChanges
<1>3. PICK r \in {erp[source][o].row, changes'} :
         erp' = [erp EXCEPT ![source][o] = [row |-> r, content |-> changes']]
  BY DEF OrderChanges
<1>4. r \in Contents
  BY <1>1, <1>2, <1>3 DEF TypeOK
<1>5. [row |-> r, content |-> changes'] \in [row : Contents, content : Contents]
  BY <1>2, <1>4
<1>6. erp' \in [Sources -> [Orders -> [row : Contents, content : Contents]]]
  BY <1>1, <1>3, <1>5 DEF TypeOK
<1>7. TypeOK'
  BY <1>1, <1>2, <1>6 DEF TypeOK, OrderChanges
<1>8. CacheInv' /\ PublishedInv'
  BY DEF PurchaseInv, OrderChanges, CacheInv, PublishedInv, PublishedFresh, NoForeignDetails,
         DetailsOfListedRows
<1>9. \A s \in Syncs : SyncInv(sync[s])'
  BY DEF PurchaseInv, OrderChanges, SyncInv, Collected
<1> QED
  BY <1>7, <1>8, <1>9 DEF PurchaseInv, OrderChanges

LEMMA NextDayInv ==
    ASSUME PurchaseInv, NextDay
    PROVE  PurchaseInv'
<1>1. TypeOK /\ \A s \in Syncs : SyncInv(sync[s])
  BY DEF PurchaseInv
<1>2. TypeOK'
  BY <1>1 DEF TypeOK, NextDay
<1>3. CacheInv' /\ PublishedInv'
  BY DEF PurchaseInv, NextDay, CacheInv, PublishedInv, PublishedFresh, NoForeignDetails,
         DetailsOfListedRows
<1>4. ASSUME NEW s \in Syncs
      PROVE  SyncInv(sync[s])'
  <2>1. sync[s] \in Sync /\ SyncInv(sync[s]) /\ sync' = sync
    BY <1>1 DEF TypeOK, NextDay
  <2>2. day \in Nat /\ day' \in Nat /\ day <= day'
    BY <1>1 DEF TypeOK, NextDay
  <2>3. sync[s].planned \in Nat
    BY <2>1 DEF Sync
  <2> QED
    BY <2>1, <2>2, <2>3 DEF SyncInv, Collected
<1> QED
  BY <1>2, <1>3, <1>4 DEF PurchaseInv

LEMMA SaveSettingsInv ==
    ASSUME PurchaseInv, NEW source \in Sources, SaveSettings(source)
    PROVE  PurchaseInv'
<1>1. TypeOK'
  BY DEF PurchaseInv, TypeOK, SaveSettings, Fault
<1>2. CacheInv' /\ PublishedInv'
  BY DEF PurchaseInv, SaveSettings, CacheInv, PublishedInv, PublishedFresh, NoForeignDetails,
         DetailsOfListedRows
<1>3. \A s \in Syncs : SyncInv(sync[s])'
  BY DEF PurchaseInv, SaveSettings, SyncInv, Collected
<1> QED
  BY <1>1, <1>2, <1>3 DEF PurchaseInv

\* The damage leaves the source, the row and the day of a detail alone.
LEMMA DamageCacheInv ==
    ASSUME PurchaseInv, DamageCache
    PROVE  PurchaseInv'
<1>1. /\ TypeOK /\ CacheInv
      /\ cache \in Cache /\ cache # NoCache
      /\ UNCHANGED <<env, sync, version, syncs>>
  BY DEF PurchaseInv, TypeOK, DamageCache
<1>2. cache' \in Cache \cup {NoCache} /\ CacheInv'
  <2>1. CASE cache' = NoCache
    BY <2>1 DEF CacheInv
  <2>2. CASE \E o \in Orders : /\ cache.orders[o] # NoEntry
                               /\ cache' = [cache EXCEPT !.orders[o].detail.content = Garbage]
    <3>1. PICK o \in Orders : /\ cache.orders[o] # NoEntry
                              /\ cache' = [cache EXCEPT !.orders[o].detail.content = Garbage]
      BY <2>2
    <3> DEFINE e == cache.orders[o]
               d == [e.detail EXCEPT !.content = Garbage]
               f == [e EXCEPT !.detail = d]
    <3>2. e \in Entry /\ cache.orders \in [Orders -> Entry \cup {NoEntry}]
      BY <1>1, <3>1 DEF Cache
    <3>3. /\ d \in Detail
          /\ d.source = e.detail.source /\ d.row = e.detail.row /\ d.day = e.detail.day
      BY <3>2 DEF Entry, Detail
    <3>4. f \in Entry /\ f.detail = d /\ f.row = e.row
      BY <3>2, <3>3 DEF Entry
    <3>5. cache' = [cache EXCEPT !.orders = [cache.orders EXCEPT ![o] = f]]
      BY <3>1
    <3> HIDE DEF e, d, f
    <3>6. [cache.orders EXCEPT ![o] = f] \in [Orders -> Entry \cup {NoEntry}]
      BY <3>2, <3>4
    <3>7. /\ cache' \in Cache
          /\ cache'.source = cache.source /\ cache'.verified = cache.verified
          /\ cache'.orders = [cache.orders EXCEPT ![o] = f]
      BY <1>1, <3>5, <3>6 DEF Cache
    <3>8. EntrySound(e, cache.source, cache.verified)
      BY <1>1, <3>1 DEF CacheInv, e
    <3>9. EntrySound(f, cache.source, cache.verified)
      BY <3>3, <3>4, <3>8 DEF EntrySound
    <3>10. ASSUME NEW p \in Orders, cache'.orders[p] # NoEntry
           PROVE  EntrySound(cache'.orders[p], cache'.source, cache'.verified)
      <4>1. CASE p = o
        BY <3>2, <3>7, <3>9, <4>1
      <4>2. CASE p # o
        BY <1>1, <3>2, <3>7, <3>10, <4>2 DEF CacheInv
      <4> QED
        BY <4>1, <4>2
    <3> QED
      BY <3>7, <3>10 DEF CacheInv
  <2> QED
    BY <2>1, <2>2 DEF DamageCache
<1>3. TypeOK'
  BY <1>1, <1>2 DEF TypeOK, DamageCache, Fault, env
<1>4. PublishedInv'
  BY <1>1 DEF PurchaseInv, PublishedInv, PublishedFresh, NoForeignDetails, DetailsOfListedRows
<1>5. \A s \in Syncs : SyncInv(sync[s])'
  BY <1>1 DEF PurchaseInv, SyncInv, Collected, env
<1> QED
  BY <1>2, <1>3, <1>4, <1>5 DEF PurchaseInv

-------------------------------------------------------------------------------
(* The steps of a sync. *)

\* Only the sync of this step changes, and no day passes.
LEMMA SyncChanged ==
    ASSUME PurchaseInv, NEW s \in Syncs, NEW r \in Sync, SyncInv(r),
           sync' = [sync EXCEPT ![s] = r], UNCHANGED env
    PROVE  /\ sync' \in [Syncs -> Sync]
           /\ \A t \in Syncs : SyncInv(sync[t])'
<1>1. sync \in [Syncs -> Sync] /\ \A t \in Syncs : SyncInv(sync[t])
  BY DEF PurchaseInv, TypeOK
<1>2. sync' \in [Syncs -> Sync]
  BY <1>1
<1>3. ASSUME NEW t \in Syncs
      PROVE  SyncInv(sync[t])'
  <2>1. SyncInv(sync'[t]) /\ day' = day
    BY <1>1 DEF env
  <2> QED
    BY <2>1 DEF SyncInv, Collected
<1> QED
  BY <1>2, <1>3

\* A step that changes nothing but its sync.
LEMMA OnlySyncChanged ==
    ASSUME PurchaseInv, NEW s \in Syncs, NEW r \in Sync, SyncInv(r),
           sync' = [sync EXCEPT ![s] = r], UNCHANGED <<env, cache, version>>,
           syncs' \in Nat, faults' \in Nat
    PROVE  PurchaseInv'
<1>1. sync' \in [Syncs -> Sync] /\ \A t \in Syncs : SyncInv(sync[t])'
  BY SyncChanged
<1>2. TypeOK'
  BY <1>1 DEF PurchaseInv, TypeOK, env
<1>3. CacheInv' /\ PublishedInv'
  BY DEF PurchaseInv, CacheInv, PublishedInv, PublishedFresh, NoForeignDetails, DetailsOfListedRows
<1> QED
  BY <1>1, <1>2, <1>3 DEF PurchaseInv

LEMMA StartInv ==
    ASSUME PurchaseInv, NEW s \in Syncs, Start(s)
    PROVE  PurchaseInv'
<1>1. TypeOK
  BY DEF PurchaseInv
<1>2. PICK twice \in {{}} \cup {{o} : o \in Orders} :
         /\ IF twice = {} THEN UNCHANGED faults ELSE Fault
         /\ sync' = [sync EXCEPT ![s] = [Idle(settings) EXCEPT
                        !.pc = "plan", !.twice = twice,
                        !.rows = [o \in Orders |-> erp[settings][o].row]]]
  BY DEF Start
<1> DEFINE r == [Idle(settings) EXCEPT !.pc = "plan", !.twice = twice,
                                       !.rows = [o \in Orders |-> erp[settings][o].row]]
<1>3. settings \in Sources /\ Idle(settings) \in Sync
  BY <1>1, IdleTyped DEF TypeOK
<1>4. [o \in Orders |-> erp[settings][o].row] \in [Orders -> Contents]
  BY <1>1, <1>3 DEF TypeOK
<1>5. twice \in SUBSET Orders
  OBVIOUS
<1>6. r \in Sync /\ r.pc = "plan"
  BY <1>3, <1>4, <1>5 DEF Sync
<1>7. SyncInv(r)
  BY <1>6 DEF SyncInv
<1>8. syncs' \in Nat /\ faults' \in Nat
  BY <1>1, <1>2 DEF TypeOK, Start, Fault
<1>9. sync' = [sync EXCEPT ![s] = r] /\ UNCHANGED <<env, cache, version>>
  BY <1>2 DEF Start
<1> HIDE DEF r
<1> QED
  BY <1>6, <1>7, <1>8, <1>9, OnlySyncChanged

LEMMA EverythingInv ==
    ASSUME NEW r \in Sync, day \in Nat
    PROVE  SyncInv(Everything(r))
<1>1. /\ Everything(r).pc = "fetch" /\ Everything(r).todo = Orders
      /\ Everything(r).planned = day /\ Everything(r).verified = day
  BY DEF Everything, Sync
<1> QED
  BY <1>1 DEF SyncInv, Collected

\* What an incremental plan takes from the cache was verified today.
LEMMA PlanInv ==
    ASSUME PurchaseInv, NEW s \in Syncs, NEW mode \in Modes, Plan(s, mode)
    PROVE  PurchaseInv'
<1> DEFINE r == sync[s]
           loaded == Loaded(r.source)
           same == {o \in Orders : loaded[o] # NoEntry /\ loaded[o].row = r.rows[o]}
           all == \/ mode # "incremental"
                  \/ Due(r.source)
                  \/ r.twice # {}
                  \/ \A o \in Orders : loaded[o] = NoEntry
           known(sample) == [o \in Orders |-> IF o \in sample THEN loaded[o].detail ELSE NoDetail]
           details(sample) == [o \in Orders |->
                                  IF o \in same \ sample THEN loaded[o].detail ELSE NoDetail]
           planned(sample) == [r EXCEPT !.pc = "fetch",
                                        !.planned = day,
                                        !.verified = cache.verified,
                                        !.todo = (Orders \ same) \cup sample,
                                        !.sample = sample,
                                        !.known = known(sample),
                                        !.details = details(sample)]
<1>1. TypeOK /\ CacheInv /\ r \in Sync /\ day \in Nat /\ cache \in Cache \cup {NoCache}
  BY DEF PurchaseInv, TypeOK
<1>2. UNCHANGED <<env, cache, version>> /\ syncs' \in Nat /\ faults' \in Nat
  BY <1>1 DEF TypeOK, Plan
<1>3. \/ all /\ sync' = [sync EXCEPT ![s] = Everything(r)]
      \/ ~all /\ \E sample \in SUBSET same : sync' = [sync EXCEPT ![s] = planned(sample)]
  BY DEF Plan
<1>4. CASE sync' = [sync EXCEPT ![s] = Everything(r)]
  <2>1. Everything(r) \in Sync /\ SyncInv(Everything(r))
    BY <1>1, EverythingTyped, EverythingInv
  <2> QED
    BY <1>2, <1>4, <2>1, OnlySyncChanged
<1>5. ASSUME ~all, NEW sample \in SUBSET same, sync' = [sync EXCEPT ![s] = planned(sample)]
      PROVE  PurchaseInv'
  <2>1. cache \in Cache /\ cache.verified = day
    BY <1>1, <1>5 DEF Due
  <2>2. ASSUME NEW o \in same
        PROVE  /\ loaded[o].detail \in Detail
               /\ Publishable(loaded[o].detail, r.source, r.rows[o], day)
    BY <1>1, <2>1, LoadedTyped DEF Publishable
  <2> HIDE DEF loaded
  <2>3. known(sample) \in Details /\ details(sample) \in Details
    BY <2>2 DEF Details
  <2> HIDE DEF known
  <2>4. planned(sample) \in Sync
    <3> HIDE DEF details, same
    <3>1. (Orders \ same) \cup sample \subseteq Orders /\ sample \subseteq Orders
      BY DEF same
    <3> QED
      BY <1>1, <2>1, <2>3, <3>1 DEF Sync
  <2>5. /\ planned(sample).pc = "fetch"
        /\ planned(sample).planned = day /\ planned(sample).verified = day
        /\ planned(sample).source = r.source /\ planned(sample).rows = r.rows
        /\ planned(sample).todo = (Orders \ same) \cup sample
        /\ planned(sample).details = details(sample)
    <3> HIDE DEF details, same
    <3> QED
      BY <1>1, <2>1 DEF Sync
  <2>6. ASSUME NEW o \in Orders \ planned(sample).todo
        PROVE  Publishable(planned(sample).details[o], r.source, r.rows[o], day)
    <3>1. o \in same \ sample
      BY <2>5 
    <3>2. planned(sample).details[o] = loaded[o].detail
      BY <2>5, <3>1
    <3> QED
      BY <2>2, <3>1, <3>2
  <2>7. SyncInv(planned(sample))
    <3> HIDE DEF planned
    <3> QED
      BY <1>1, <2>5, <2>6 DEF SyncInv, Collected
  <2> HIDE DEF planned
  <2> QED
    BY <1>2, <1>5, <2>4, <2>7, OnlySyncChanged
<1> QED
  BY <1>3, <1>4, <1>5

LEMMA FetchInv ==
    ASSUME PurchaseInv, NEW s \in Syncs, NEW o \in Orders, Fetch(s, o)
    PROVE  PurchaseInv'
<1> DEFINE r == sync[s]
           d == [content |-> erp[r.source][o].content, source |-> r.source,
                 day |-> day, row |-> r.rows[o]]
           q == [r EXCEPT !.todo = @ \ {o}, !.details = [r.details EXCEPT ![o] = d]]
<1>1. TypeOK /\ r \in Sync /\ SyncInv(r) /\ r.pc = "fetch" /\ day \in Nat
  BY DEF PurchaseInv, TypeOK, Fetch
<1>2. /\ erp[r.source][o].content \in Contents /\ r.source \in Sources /\ r.rows[o] \in Contents
      /\ r.planned <= day
  BY <1>1 DEF TypeOK, Sync, SyncInv
<1>3. d \in Detail /\ Publishable(d, r.source, r.rows[o], r.planned)
  BY <1>1, <1>2, Numbers DEF Detail, Publishable, Sync
<1>4. sync' = [sync EXCEPT ![s] = q]
  BY <1>1 DEF Fetch, TypeOK
<1>5. UNCHANGED <<env, cache, version>> /\ syncs' \in Nat /\ faults' \in Nat
  BY <1>1 DEF TypeOK, Fetch
<1> HIDE DEF d
<1>6. r.details \in [Orders -> Detail \cup {NoDetail}]
  BY <1>1 DEF Sync, Details
<1>7. [r.details EXCEPT ![o] = d] \in Details
  BY <1>3, <1>6 DEF Details
<1>8. /\ q \in Sync
      /\ q.pc = "fetch" /\ q.source = r.source /\ q.rows = r.rows /\ q.planned = r.planned
      /\ q.verified = r.verified /\ q.todo = r.todo \ {o}
      /\ q.details = [r.details EXCEPT ![o] = d]
  BY <1>1, <1>7 DEF Sync
<1> HIDE DEF q
<1>9. ASSUME NEW p \in Orders \ q.todo
      PROVE  Publishable(q.details[p], r.source, r.rows[p], r.planned)
  <2>1. CASE p = o
    BY <1>3, <1>6, <1>8, <2>1
  <2>2. CASE p # o
    BY <1>1, <1>6, <1>8, <2>2 DEF SyncInv, Collected
  <2> QED
    BY <2>1, <2>2
<1>10. SyncInv(q)
  BY <1>1, <1>8, <1>9 DEF SyncInv, Collected
<1> QED
  BY <1>4, <1>5, <1>8, <1>10, OnlySyncChanged

LEMMA CompareInv ==
    ASSUME PurchaseInv, NEW s \in Syncs, Compare(s)
    PROVE  PurchaseInv'
<1> DEFINE r == sync[s]
           good == [r EXCEPT !.pc = "publish"]
           again == [r EXCEPT !.todo = Orders, !.sample = {}, !.known = Nothing,
                              !.details = Nothing, !.verified = r.planned]
<1>1. TypeOK /\ r \in Sync /\ SyncInv(r) /\ r.pc = "fetch" /\ r.todo = {}
  BY DEF PurchaseInv, TypeOK, Compare
<1>2. UNCHANGED <<env, cache, version>> /\ syncs' \in Nat /\ faults' \in Nat
  BY <1>1 DEF TypeOK, Compare
<1>3. sync' = [sync EXCEPT ![s] = good] \/ sync' = [sync EXCEPT ![s] = again]
  BY DEF Compare
<1>4. CASE sync' = [sync EXCEPT ![s] = good]
  <2>1. /\ good \in Sync /\ good.pc = "publish" /\ good.todo = r.todo
        /\ good.details = r.details /\ good.source = r.source /\ good.rows = r.rows
        /\ good.planned = r.planned /\ good.verified = r.verified
    BY <1>1 DEF Sync
  <2> HIDE DEF good
  <2>2. SyncInv(good)
    BY <1>1, <2>1 DEF SyncInv, Collected
  <2> QED
    BY <1>2, <1>4, <2>1, <2>2, OnlySyncChanged
<1>5. CASE sync' = [sync EXCEPT ![s] = again]
  <2>1. /\ again \in Sync /\ again.pc = "fetch" /\ again.todo = Orders
        /\ again.planned = r.planned /\ again.verified = r.planned
    BY <1>1, NothingTyped DEF Sync
  <2> HIDE DEF again
  <2>2. SyncInv(again)
    BY <1>1, <2>1 DEF SyncInv, Collected
  <2> QED
    BY <1>2, <1>5, <2>1, <2>2, OnlySyncChanged
<1> QED
  BY <1>3, <1>4, <1>5

\* Nothing is left to fetch: every detail of the new version is publishable.
LEMMA PublishInv ==
    ASSUME PurchaseInv, NEW s \in Syncs, Publish(s)
    PROVE  PurchaseInv'
<1> DEFINE r == sync[s]
           q == [r EXCEPT !.pc = "write"]
           v == [source |-> r.source, day |-> r.planned, rows |-> r.rows, details |-> r.details]
<1>1. /\ TypeOK /\ r \in Sync /\ SyncInv(r) /\ r.pc = "publish"
      /\ version' = v /\ UNCHANGED <<env, cache, syncs, faults>>
  BY DEF PurchaseInv, TypeOK, Publish
<1>2. sync' = [sync EXCEPT ![s] = q]
  BY <1>1 DEF Publish, TypeOK
<1>3. /\ q \in Sync /\ q.pc = "write" /\ q.todo = r.todo
      /\ q.details = r.details /\ q.source = r.source /\ q.rows = r.rows
      /\ q.planned = r.planned /\ q.verified = r.verified
  BY <1>1 DEF Sync
<1> HIDE DEF q
<1>4. SyncInv(q)
  BY <1>1, <1>3 DEF SyncInv, Collected
<1>5. sync' \in [Syncs -> Sync] /\ \A t \in Syncs : SyncInv(sync[t])'
  BY <1>1, <1>2, <1>3, <1>4, SyncChanged
<1>6. v \in Version
  BY <1>1 DEF Sync, Version
<1>7. TypeOK'
  BY <1>1, <1>5, <1>6 DEF TypeOK, env
<1>8. \A o \in Orders : Publishable(r.details[o], r.source, r.rows[o], r.planned)
  BY <1>1 DEF SyncInv, Collected
<1>9. PublishedInv'
  BY <1>1, <1>8 DEF PublishedInv, PublishedFresh, NoForeignDetails, DetailsOfListedRows, Publishable
<1>10. CacheInv'
  BY <1>1 DEF PurchaseInv, CacheInv
<1> QED
  BY <1>5, <1>7, <1>9, <1>10 DEF PurchaseInv

LEMMA Ends ==
    ASSUME PurchaseInv, NEW s \in Syncs, End(s), UNCHANGED env
    PROVE  sync' \in [Syncs -> Sync] /\ \A t \in Syncs : SyncInv(sync[t])'
<1>1. sync[s].source \in Sources
  BY DEF PurchaseInv, TypeOK, Sync
<1>2. Idle(sync[s].source) \in Sync /\ SyncInv(Idle(sync[s].source))
  BY <1>1, IdleTyped, IdleInv
<1> QED
  BY <1>2, SyncChanged DEF End

LEMMA WriteCacheInv ==
    ASSUME PurchaseInv, NEW s \in Syncs, WriteCache(s)
    PROVE  PurchaseInv'
<1>1. /\ TypeOK /\ sync[s] \in Sync /\ SyncInv(sync[s]) /\ sync[s].pc = "write"
      /\ cache' = Built(sync[s]) /\ UNCHANGED <<env, version, syncs, faults>>
  BY DEF PurchaseInv, TypeOK, WriteCache
<1>2. sync' \in [Syncs -> Sync] /\ \A t \in Syncs : SyncInv(sync[t])'
  BY <1>1, Ends DEF WriteCache
<1>3. sync[s].todo = {} /\ Collected(sync[s]) /\ sync[s].verified = sync[s].planned
  BY <1>1 DEF SyncInv
<1>4. cache' \in Cache /\ CacheInv'
  BY <1>1, <1>3, BuiltTyped DEF CacheInv
<1>5. TypeOK'
  BY <1>1, <1>2, <1>4 DEF TypeOK, env
<1>6. PublishedInv'
  BY <1>1 DEF PurchaseInv, PublishedInv, PublishedFresh, NoForeignDetails, DetailsOfListedRows
<1> QED
  BY <1>2, <1>4, <1>5, <1>6 DEF PurchaseInv

LEMMA GiveUpInv ==
    ASSUME PurchaseInv, NEW s \in Syncs, GiveUp(s)
    PROVE  PurchaseInv'
<1>1. TypeOK /\ UNCHANGED <<env, cache, version, syncs, faults>>
  BY DEF PurchaseInv, GiveUp
<1>2. sync' \in [Syncs -> Sync] /\ \A t \in Syncs : SyncInv(sync[t])'
  BY <1>1, Ends DEF GiveUp
<1>3. TypeOK'
  BY <1>1, <1>2 DEF TypeOK, env
<1>4. CacheInv' /\ PublishedInv'
  BY <1>1 DEF PurchaseInv, CacheInv, PublishedInv, PublishedFresh, NoForeignDetails,
              DetailsOfListedRows
<1> QED
  BY <1>2, <1>3, <1>4 DEF PurchaseInv

LEMMA StutterInv ==
    ASSUME PurchaseInv, UNCHANGED vars
    PROVE  PurchaseInv'
<1>1. UNCHANGED <<erp, day, settings, cache, sync, version, syncs, changes, faults>>
  BY DEF vars, env
<1>2. TypeOK' /\ CacheInv' /\ PublishedInv'
  BY <1>1 DEF PurchaseInv, TypeOK, CacheInv, PublishedInv, PublishedFresh, NoForeignDetails,
              DetailsOfListedRows
<1>3. \A s \in Syncs : SyncInv(sync[s])'
  BY <1>1 DEF PurchaseInv, SyncInv, Collected
<1> QED
  BY <1>2, <1>3 DEF PurchaseInv

-------------------------------------------------------------------------------
(* The theorems. *)

(* Every reachable state satisfies the invariant: one step per action. *)
THEOREM PurchaseInvariant == Spec => []PurchaseInv
<1>1. Init => PurchaseInv
  BY InitInv
<1>2. PurchaseInv /\ [Next]_vars => PurchaseInv'
  <2> SUFFICES ASSUME PurchaseInv, [Next]_vars
               PROVE  PurchaseInv'
    OBVIOUS
  <2>1. CASE \E source \in Sources, o \in Orders : OrderChanges(source, o)
    BY <2>1, OrderChangesInv
  <2>2. CASE NextDay
    BY <2>2, NextDayInv
  <2>3. CASE \E source \in Sources : SaveSettings(source)
    BY <2>3, SaveSettingsInv
  <2>4. CASE DamageCache
    BY <2>4, DamageCacheInv
  <2>5. ASSUME NEW s \in Syncs, SyncStep(s)
        PROVE  PurchaseInv'
    <3>1. CASE Start(s)
      BY <3>1, StartInv
    <3>2. CASE \E mode \in Modes : Plan(s, mode)
      BY <3>2, PlanInv
    <3>3. CASE \E o \in Orders : Fetch(s, o)
      BY <3>3, FetchInv
    <3>4. CASE Compare(s)
      BY <3>4, CompareInv
    <3>5. CASE Publish(s)
      BY <3>5, PublishInv
    <3>6. CASE WriteCache(s)
      BY <3>6, WriteCacheInv
    <3>7. CASE GiveUp(s)
      BY <3>7, GiveUpInv
    <3> QED
      BY <2>5, <3>1, <3>2, <3>3, <3>4, <3>5, <3>6, <3>7 DEF SyncStep
  <2>6. CASE UNCHANGED vars
    BY <2>6, StutterInv
  <2> QED
    BY <2>1, <2>2, <2>3, <2>4, <2>5, <2>6 DEF Next
<1> QED
  BY <1>1, <1>2, PTL DEF Spec

(* Lists, caches, syncs and versions have their types; in particular a cache that was   *)
(* written has every detail of the version it comes from (build_purchase_detail_cache). *)
THEOREM PurchaseTypeCorrect == Spec => []TypeOK
<1>1. PurchaseInv => TypeOK
  BY DEF PurchaseInv
<1> QED
  BY <1>1, PurchaseInvariant, PTL

(* No published detail is older than the business day its sync planned in: a plan takes  *)
(* from the cache only what was verified that day (plan_incremental_detail_fetch).       *)
THEOREM PublishedFreshHolds == Spec => []PublishedFresh
<1>1. PurchaseInv => PublishedFresh
  BY DEF PurchaseInv, PublishedInv
<1> QED
  BY <1>1, PurchaseInvariant, PTL

(* No detail of one purchase system is published with the orders of another one, because *)
(* the cache says whose it is (load_purchase_detail_cache_state).                        *)
THEOREM NoForeignDetailsHolds == Spec => []NoForeignDetails
<1>1. PurchaseInv => NoForeignDetails
  BY DEF PurchaseInv, PublishedInv
<1> QED
  BY <1>1, PurchaseInvariant, PTL

(* A published detail is what was answered for the row that was listed: a detail that was *)
(* damaged is recognised by its hash, an old one by the row it was cached for.            *)
THEOREM DetailsOfListedRowsHolds == Spec => []DetailsOfListedRows
<1>1. PurchaseInv => DetailsOfListedRows
  BY DEF PurchaseInv, PublishedInv
<1> QED
  BY <1>1, PurchaseInvariant, PTL

-------------------------------------------------------------------------------
(* The invariant of the quantities. *)

\* What resolve_delivery_sites accepts has a site.
ResolvedToSites == \A l \in Lines : resolved[l].reason = "" => resolved[l].site \in Sites

\* What is short is short of something a site has.
PendingSites == \A p \in pending : p.reason \in Short => p.site \in Sites

\* The row being allocated: it stops early only when served, and a warehouse it
\* has passed without being served has no whole piece left.
RowProgress ==
    IF phase = "row"
    THEN /\ row.site \in Sites /\ line \in Lines
         /\ row.todo # {} => row.left > 0
         /\ row.left > 0 =>
               \A w \in Warehouses \ row.todo : Whole(open[row.site][w]) = 0
    ELSE row = NoRow

\* The totals at any moment, the row being allocated included.
Conserved ==
    /\ total.delivered = total.imported + total.manual + row.left
    /\ batch.delivered = batch.imported + batch.manual

AllocationInv ==
    /\ AllocationTypeOK
    /\ ResolvedToSites
    /\ PendingSites
    /\ RowProgress
    /\ Conserved
    /\ NothingLost
    /\ WarehousesInOrder
    /\ BeyondAfterOrders
    /\ ManualIsLast

-------------------------------------------------------------------------------
\* Taking whole pieces off a balance leaves whole pieces and the half.
LEMMA WholeFacts ==
    ASSUME NEW n \in Nat
    PROVE  /\ Whole(n) \in Nat
           /\ 2 * Whole(n) <= n
           /\ \A q \in Nat : q <= Whole(n) => /\ n - 2 * q \in Nat
                                              /\ Whole(n - 2 * q) = Whole(n) - q
  BY DEF Whole

LEMMA LeastFacts ==
    ASSUME NEW a \in Nat, NEW b \in Nat
    PROVE  /\ Least(a, b) \in Nat
           /\ Least(a, b) <= a /\ Least(a, b) <= b
           /\ Least(a, b) = a \/ Least(a, b) = b
  BY DEF Least

\* A resolution with a site, and one with a reason.
LEMMA SiteResolution ==
    ASSUME NEW s \in Sites
    PROVE  /\ [site |-> s, reason |-> ""] \in Resolution
           /\ [site |-> s, reason |-> ""].site = s
           /\ [site |-> s, reason |-> ""].reason = ""
  BY DEF Resolution, Reasons

LEMMA ReasonResolution ==
    ASSUME NEW why \in Unresolved
    PROVE  /\ [site |-> NoSite, reason |-> why] \in Resolution
           /\ [site |-> NoSite, reason |-> why].reason # ""
<1>1. [site |-> NoSite, reason |-> why] \in Resolution
  BY DEF Resolution, Reasons
<1> QED
  BY <1>1 DEF Unresolved

\* What the product data give a line.
LEMMA ResolveFacts ==
    ASSUME NEW l \in Lines, NEW known, NEW locked
    PROVE  /\ Resolve(l, known, locked) \in Resolution
           /\ Resolve(l, known, locked).reason = ""
                 => Resolve(l, known, locked).site \in Sites
<1> DEFINE all == SitesOf[l] \cap known
           full == IF ~Single(all) /\ all \cap locked # {} THEN all \cap locked ELSE all
<1>1. full \subseteq Sites
  BY AllocationAssumption
<1>2. Single(full) => (CHOOSE s \in full : TRUE) \in full
  BY DEF Single
<1>3. Resolve(l, known, locked) =
        [site   |-> IF Single(full) THEN CHOOSE s \in full : TRUE ELSE NoSite,
         reason |-> IF Single(full) THEN ""
                    ELSE IF full = {} THEN "product_not_found"
                    ELSE "ambiguous_product_site"]
  BY DEF Resolve
<1> HIDE DEF full
<1>4. CASE Single(full)
  <2>1. \E s \in Sites : Resolve(l, known, locked) = [site |-> s, reason |-> ""]
    BY <1>1, <1>2, <1>3, <1>4
  <2> QED
    BY <2>1, SiteResolution, Zenon
<1>5. CASE ~Single(full)
  <2>1. \E reason \in Unresolved :
            Resolve(l, known, locked) = [site |-> NoSite, reason |-> reason]
    BY <1>3, <1>5 DEF Unresolved
  <2> QED
    BY <2>1, ReasonResolution, Zenon
<1> QED
  BY <1>4, <1>5

\* What the policy allows a site.
LEMMA AllowanceFacts ==
    ASSUME NEW orders, NEW scales
    PROVE  Allowance(orders, scales) \in Nat \cup {NoRule}
<1>1. CASE \E scale \in Scales : scales = {scale} /\ Limit[scale] > 0
  <2>1. (CHOOSE scale \in Scales : scales = {scale}) \in Scales
    BY <1>1
  <2> QED
    BY <2>1, AllocationAssumption DEF Allowance
<1>2. CASE ~\E scale \in Scales : scales = {scale} /\ Limit[scale] > 0
  BY <1>2 DEF Allowance
<1> QED
  BY <1>1, <1>2

LEMMA AllocationInitInv == AllocationInit => AllocationInv
<1> SUFFICES ASSUME AllocationInit PROVE AllocationInv
  OBVIOUS
<1>1. ordered \in [Sites -> [Warehouses -> Nat]] /\ open = ordered
  <2>1. ordered \in [Sites -> [Warehouses -> 0..MaxHalves]] /\ open = ordered
    BY DEF AllocationInit
  <2>2. 0..MaxHalves \subseteq Nat
    BY AllocationBoundsAssumption
  <2> QED
    BY <2>1, <2>2
<1>2. rule \in [Sites -> Nat \cup {NoRule}] /\ allowance = rule
  <2>1. PICK scales \in [Sites -> SUBSET (Scales \cup {Blank})] :
            rule = [s \in Sites |-> Allowance(ordered[s], scales[s])]
    BY DEF AllocationInit
  <2> QED
    BY <2>1, AllowanceFacts DEF AllocationInit
<1>3. resolved \in [Lines -> Resolution] /\ ResolvedToSites
  <2>1. PICK known \in SUBSET Sites, locked \in SUBSET Sites :
            resolved = [l \in Lines |-> Resolve(l, known, locked)]
    BY DEF AllocationInit
  <2> QED
    BY <2>1, ResolveFacts DEF ResolvedToSites
<1>4. /\ phase = "files" /\ file = 0 /\ line = 1
      /\ row = NoRow /\ pending = {}
      /\ total = NoQuantities /\ batch = NoQuantities
  BY DEF AllocationInit
<1>5. AllocationTypeOK
  BY <1>1, <1>2, <1>3, <1>4 DEF AllocationTypeOK, NoRow, Row, NoQuantities, Totals
<1>6. RowProgress /\ Conserved /\ NothingLost
  BY <1>4 DEF RowProgress, Conserved, NothingLost, NoRow, NoQuantities
<1>7. WarehousesInOrder /\ BeyondAfterOrders /\ ManualIsLast /\ PendingSites
  BY <1>1, <1>2, <1>4 DEF WarehousesInOrder, BeyondAfterOrders, ManualIsLast, PendingSites
<1> QED
  BY <1>3, <1>5, <1>6, <1>7 DEF AllocationInv
-------------------------------------------------------------------------------
\* The steps that take nothing off the ledger keep the parts about it.
LEMMA LedgerKept ==
    ASSUME AllocationInv, UNCHANGED <<inputs, ledger>>
    PROVE  /\ ResolvedToSites' /\ WarehousesInOrder' /\ BeyondAfterOrders'
           /\ pending' \subseteq pending => ManualIsLast' /\ PendingSites'
<1>1. /\ ordered' = ordered /\ rule' = rule /\ resolved' = resolved
      /\ open' = open /\ allowance' = allowance
  BY DEF inputs, ledger
<1> QED
  BY <1>1 DEF AllocationInv, ResolvedToSites, WarehousesInOrder, BeyondAfterOrders,
              ManualIsLast, PendingSites, Exhausted

LEMMA StartFileInv == AllocationInv /\ StartFile => AllocationInv'
<1> SUFFICES ASSUME AllocationInv, StartFile PROVE AllocationInv'
  OBVIOUS
<1> USE DEF AllocationInv
<1>1. UNCHANGED <<inputs, ledger>>
  BY DEF StartFile, Balances, ledger
<1>2. ResolvedToSites' /\ WarehousesInOrder' /\ BeyondAfterOrders' /\ ManualIsLast' /\ PendingSites'
  BY <1>1, LedgerKept DEF StartFile
<1>3. AllocationTypeOK'
  BY <1>1 DEF AllocationTypeOK, StartFile, inputs, ledger, NoQuantities, Totals
<1>4. RowProgress' /\ Conserved' /\ NothingLost'
  BY DEF StartFile, RowProgress, Conserved, NothingLost, NoRow, NoQuantities
<1> QED
  BY <1>2, <1>3, <1>4

LEMMA SkipLineInv == AllocationInv /\ SkipLine => AllocationInv'
<1> SUFFICES ASSUME AllocationInv, SkipLine PROVE AllocationInv'
  OBVIOUS
<1> USE DEF AllocationInv
<1>1. ResolvedToSites' /\ WarehousesInOrder' /\ BeyondAfterOrders' /\ ManualIsLast' /\ PendingSites'
  BY LedgerKept DEF SkipLine
<1>2. AllocationTypeOK'
  BY DEF AllocationTypeOK, SkipLine, inputs, ledger
<1>3. RowProgress' /\ Conserved' /\ NothingLost'
  BY DEF SkipLine, RowProgress, Conserved, NothingLost
<1> QED
  BY <1>1, <1>2, <1>3

LEMMA EndFileInv == AllocationInv /\ EndFile => AllocationInv'
<1> SUFFICES ASSUME AllocationInv, EndFile PROVE AllocationInv'
  OBVIOUS
<1> USE DEF AllocationInv
<1>1. ResolvedToSites' /\ WarehousesInOrder' /\ BeyondAfterOrders' /\ ManualIsLast' /\ PendingSites'
  BY LedgerKept DEF EndFile
<1>2. /\ total \in Totals /\ batch \in Totals
      /\ row.left = 0 /\ row' = NoRow
      /\ total' = NoQuantities
      /\ batch' = [q \in DOMAIN batch |-> batch[q] + total[q]]
  BY DEF AllocationTypeOK, EndFile, RowProgress, NoRow
<1>3. /\ batch'.delivered = batch.delivered + total.delivered
      /\ batch'.imported = batch.imported + total.imported
      /\ batch'.manual = batch.manual + total.manual
      /\ batch' \in Totals
  BY <1>2 DEF Totals
<1>4. Balanced(total)
  BY <1>2 DEF Conserved, Balanced, Totals
<1>5. AllocationTypeOK'
  BY <1>2, <1>3, <1>4 DEF AllocationTypeOK, EndFile, inputs, ledger, NoQuantities, Totals
<1>6. RowProgress' /\ NothingLost'
  BY <1>2, <1>4 DEF EndFile, RowProgress, NothingLost
<1>7. Conserved'
  BY <1>2, <1>3 DEF Conserved, NoQuantities, Totals, NoRow
<1> QED
  BY <1>1, <1>5, <1>6, <1>7

LEMMA EndBatchInv == AllocationInv /\ EndBatch => AllocationInv'
<1> SUFFICES ASSUME AllocationInv, EndBatch PROVE AllocationInv'
  OBVIOUS
<1> USE DEF AllocationInv
<1>1. ResolvedToSites' /\ WarehousesInOrder' /\ BeyondAfterOrders' /\ ManualIsLast' /\ PendingSites'
  BY LedgerKept DEF EndBatch
<1>2. phase' = "done"
  BY DEF EndBatch, Conserved, Balanced
<1>3. AllocationTypeOK'
  BY <1>2 DEF AllocationTypeOK, EndBatch, inputs, ledger
<1>4. RowProgress' /\ Conserved' /\ NothingLost'
  BY <1>2 DEF EndBatch, RowProgress, Conserved, NothingLost
<1> QED
  BY <1>1, <1>3, <1>4
\* How a row changes the totals of its file.
LEMMA NoteManual ==
    ASSUME total \in Totals, NEW q \in Nat,
           total' = [total EXCEPT !.delivered = @ + q, !.manual = @ + q]
    PROVE  /\ total' \in Totals
           /\ total'.delivered = total.delivered + q
           /\ total'.imported = total.imported
           /\ total'.manual = total.manual + q
<1> DEFINE noted == [total EXCEPT !.delivered = @ + q]
<1>1. /\ noted \in Totals
      /\ noted.delivered = total.delivered + q
      /\ noted.imported = total.imported /\ noted.manual = total.manual
  BY DEF Totals
<1>2. total' = [noted EXCEPT !.manual = @ + q]
  OBVIOUS
<1> HIDE DEF noted
<1>3. /\ total' \in Totals
      /\ total'.delivered = noted.delivered
      /\ total'.imported = noted.imported
      /\ total'.manual = noted.manual + q
  BY <1>1, <1>2 DEF Totals
<1> QED
  BY <1>1, <1>3

LEMMA OverriddenFacts ==
    ASSUME AllocationInv, line \in Lines, NEW choice \in SitesOf[line] \cup {NoSite}
    PROVE  /\ Overridden(line, choice).site \in Sites \cup {NoSite}
           /\ Overridden(line, choice).reason \in Reasons
           /\ Overridden(line, choice).reason = "" => Overridden(line, choice).site \in Sites
<1>1. resolved[line] \in Resolution /\ (resolved[line].reason = "" => resolved[line].site \in Sites)
  BY DEF AllocationInv, AllocationTypeOK, ResolvedToSites
<1>2. CASE choice = NoSite
  BY <1>1, <1>2 DEF Overridden, Resolution
<1>3. CASE choice # NoSite
  <2>1. choice \in Sites
    BY <1>3, AllocationAssumption
  <2>2. Overridden(line, choice) = [site |-> choice, reason |-> ""]
    BY <1>3 DEF Overridden
  <2> QED
    BY <2>1, <2>2, SiteResolution, Zenon DEF Reasons
<1> QED
  BY <1>2, <1>3

LEMMA StartRowInv ==
    ASSUME AllocationInv, NEW q \in 1..MaxQuantity, NEW choice, StartRow(q, choice)
    PROVE  AllocationInv'
<1> USE DEF AllocationInv
<1> DEFINE target == Overridden(line, choice)
<1>1. q \in Nat /\ q > 0
  BY AllocationBoundsAssumption
<1>2. /\ target.site \in Sites \cup {NoSite}
      /\ target.reason \in Reasons
      /\ target.reason = "" => target.site \in Sites
  BY OverriddenFacts DEF StartRow
<1> HIDE DEF target
<1>3. /\ row = NoRow /\ row.left = 0
      /\ phase = "rows" /\ line \in Lines /\ line \in Nat
  <2>1. row = NoRow /\ phase = "rows" /\ line \in Lines /\ line \in Nat
    BY DEF StartRow, RowProgress, AllocationTypeOK
  <2> QED
    BY <2>1 DEF NoRow
<1>4. /\ ordered' = ordered /\ rule' = rule /\ resolved' = resolved
      /\ open' = open /\ allowance' = allowance /\ file' = file /\ batch' = batch
  BY DEF StartRow, inputs, ledger
<1>5. ResolvedToSites' /\ WarehousesInOrder' /\ BeyondAfterOrders'
  BY <1>4, LedgerKept DEF inputs, ledger
<1>6. total \in Totals
  BY DEF AllocationTypeOK
<1>7. CASE target.reason = ""
  <2>1. /\ phase' = "row" /\ line' = line /\ pending' = pending
        /\ row' = [site     |-> target.site,
                   left     |-> q,
                   purchase |-> 0,
                   todo     |-> Candidates(target.site),
                   found    |-> Candidates(target.site) # {}]
        /\ total' = [total EXCEPT !.delivered = @ + q]
    BY <1>7 DEF StartRow, target
  <2>2. Candidates(target.site) \subseteq Warehouses
    BY DEF Candidates
  <2>3. row' \in Row /\ row'.left = q /\ row'.site = target.site
        /\ row'.todo = Candidates(target.site)
    BY <1>1, <1>2, <2>1, <2>2 DEF Row
  <2>4. total' \in Totals /\ total'.delivered = total.delivered + q
        /\ total'.imported = total.imported /\ total'.manual = total.manual
    BY <1>1, <1>6, <2>1 DEF Totals
  <2>5. AllocationTypeOK'
    BY <1>3, <1>4, <2>1, <2>3, <2>4 DEF AllocationTypeOK
  <2>6. \A w \in Warehouses \ Candidates(target.site) : Whole(open[target.site][w]) = 0
    <3> TAKE w \in Warehouses \ Candidates(target.site)
    <3>1. open[target.site][w] \in Nat /\ ~(open[target.site][w] > 0)
      BY <1>2, <1>7 DEF AllocationTypeOK, Candidates
    <3> QED
      BY <3>1 DEF Whole
  <2>7. RowProgress'
    BY <1>1, <1>2, <1>3, <1>4, <1>7, <2>1, <2>3, <2>6 DEF RowProgress
  <2>8. Conserved'
    BY <1>1, <1>3, <1>4, <1>6, <2>3, <2>4 DEF Conserved, Totals
  <2>9. NothingLost' /\ ManualIsLast' /\ PendingSites'
    BY <1>4, <2>1, LedgerKept DEF NothingLost, inputs, ledger
  <2> QED
    BY <1>5, <2>5, <2>7, <2>8, <2>9
<1>8. CASE target.reason # ""
  <2>1. /\ phase' = phase /\ line' = line + 1 /\ row' = row
        /\ pending' = pending \cup
              {[line      |-> line,
                site      |-> target.site,
                reason    |-> target.reason,
                allocated |-> 0,
                manual    |-> q]}
        /\ total' = [total EXCEPT !.delivered = @ + q, !.manual = @ + q]
    BY <1>8 DEF StartRow, target
  <2>2. target.reason \in Unresolved /\ target.reason \notin Short
    BY <1>2, <1>8 DEF Reasons, Unresolved, Short
  <2>3. pending' \subseteq Pending
    <3>1. [line      |-> line,
           site      |-> target.site,
           reason    |-> target.reason,
           allocated |-> 0,
           manual    |-> q] \in Pending
      BY <1>1, <1>2, <1>3, <2>2 DEF Pending
    <3> QED
      BY <2>1, <3>1 DEF AllocationTypeOK
  <2>4. total' \in Totals /\ total'.delivered = total.delivered + q
        /\ total'.imported = total.imported /\ total'.manual = total.manual + q
    BY <1>1, <1>6, <2>1, NoteManual
  <2>5. AllocationTypeOK'
    BY <1>3, <1>4, <2>1, <2>3, <2>4 DEF AllocationTypeOK
  <2>6. RowProgress' /\ NothingLost'
    BY <1>3, <2>1 DEF RowProgress, NothingLost
  <2>7. Conserved'
    BY <1>1, <1>3, <1>4, <1>6, <2>1, <2>4 DEF Conserved, Totals
  <2>8. ManualIsLast' /\ PendingSites'
    BY <1>4, <2>1, <2>2 DEF ManualIsLast, PendingSites, Exhausted
  <2> QED
    BY <1>5, <2>5, <2>6, <2>7, <2>8
<1> QED
  BY <1>7, <1>8

-------------------------------------------------------------------------------
\* What one round of the loop over the warehouses does to the ledger.
LEMMA TakeFacts ==
    ASSUME AllocationInv, NEW w \in Warehouses, Take(w)
    PROVE  /\ Takes(w) \in Nat /\ Takes(w) <= row.left
           /\ row.site \in Sites /\ row.left > 0 /\ w \in row.todo
           /\ open' \in [Sites -> [Warehouses -> Nat]]
           /\ \A s \in Sites, v \in Warehouses :
                 /\ s # row.site \/ v # w \/ Takes(w) = 0 => open'[s][v] = open[s][v]
                 /\ Whole(open[s][v]) = 0 => Whole(open'[s][v]) = 0
           /\ Takes(w) # row.left => Whole(open'[row.site][w]) = 0
           /\ Whole(open'[row.site][w]) = Whole(open[row.site][w]) - Takes(w)
<1> USE DEF AllocationInv
<1> DEFINE q == Takes(w)
           n == open[row.site][w]
<1>1. /\ row.site \in Sites /\ w \in row.todo /\ row.left > 0
      /\ open' = [open EXCEPT ![row.site][w] = @ - 2 * q]
  BY DEF RowProgress, Take, IsNext
<1>2. row.left \in Nat /\ open \in [Sites -> [Warehouses -> Nat]] /\ n \in Nat
  BY <1>1 DEF AllocationTypeOK, Row
<1>3. q = Least(row.left, Whole(n)) /\ Whole(n) \in Nat
  BY <1>2, WholeFacts DEF Takes
<1> HIDE DEF q, n
<1>4. q \in Nat /\ q <= row.left /\ q <= Whole(n) /\ (q = row.left \/ q = Whole(n))
  BY <1>2, <1>3, LeastFacts
<1>5. n - 2 * q \in Nat /\ Whole(n - 2 * q) = Whole(n) - q
  BY <1>2, <1>4, WholeFacts
<1>6. open'[row.site][w] = n - 2 * q
  BY <1>1, <1>2 DEF n
<1>7. \A s \in Sites, v \in Warehouses :
         s # row.site \/ v # w => open'[s][v] = open[s][v]
  BY <1>1, <1>2
<1>8. open' \in [Sites -> [Warehouses -> Nat]]
  BY <1>1, <1>2, <1>5 DEF n
<1>9. ASSUME NEW s \in Sites, NEW v \in Warehouses
      PROVE  /\ s # row.site \/ v # w \/ q = 0 => open'[s][v] = open[s][v]
             /\ Whole(open[s][v]) = 0 => Whole(open'[s][v]) = 0
  <2>1. CASE s # row.site \/ v # w
    BY <1>7, <2>1
  <2>2. CASE s = row.site /\ v = w
    <3>1. open[s][v] = n /\ open'[s][v] = n - 2 * q
      BY <1>6, <2>2 DEF n
    <3> QED
      BY <1>2, <1>3, <1>4, <1>5, <2>2, <3>1
  <2> QED
    BY <2>1, <2>2
<1>10. q # row.left => Whole(open'[row.site][w]) = 0
  BY <1>3, <1>4, <1>5, <1>6
<1>11. Whole(open'[row.site][w]) = Whole(open[row.site][w]) - q
  BY <1>5, <1>6 DEF n
<1> QED
  BY <1>1, <1>4, <1>8, <1>9, <1>10, <1>11 DEF q

\* What it does to the row.
LEMMA TakeRow ==
    ASSUME AllocationInv, NEW w \in Warehouses, Take(w)
    PROVE  /\ row' \in Row
           /\ row'.site = row.site
           /\ row'.left = row.left - Takes(w)
           /\ row'.purchase = row.purchase + Takes(w)
           /\ row'.todo = LeftToTry(w, Takes(w))
<1> DEFINE served == [row EXCEPT !.left = @ - Takes(w)]
           bought == [served EXCEPT !.purchase = @ + Takes(w)]
<1>1. row \in Row /\ Takes(w) \in Nat /\ Takes(w) <= row.left
  BY TakeFacts DEF AllocationInv, AllocationTypeOK
<1>2. /\ served \in Row /\ served.site = row.site
      /\ served.left = row.left - Takes(w) /\ served.purchase = row.purchase
  BY <1>1 DEF Row
<1> HIDE DEF served
<1>3. /\ bought \in Row /\ bought.site = served.site /\ bought.left = served.left
      /\ bought.purchase = served.purchase + Takes(w)
  BY <1>1, <1>2 DEF Row
<1>4. row' = [bought EXCEPT !.todo = LeftToTry(w, Takes(w))]
  BY DEF Take, served
<1>5. LeftToTry(w, Takes(w)) \subseteq Warehouses
  BY <1>1 DEF LeftToTry, Row
<1> HIDE DEF bought
<1>6. /\ row' \in Row /\ row'.site = bought.site /\ row'.left = bought.left
      /\ row'.purchase = bought.purchase
      /\ row'.todo = LeftToTry(w, Takes(w))
  BY <1>3, <1>4, <1>5 DEF Row
<1> QED
  BY <1>2, <1>3, <1>6

LEMMA TakeInv ==
    ASSUME AllocationInv, NEW w \in Warehouses, Take(w)
    PROVE  AllocationInv'
<1> USE DEF AllocationInv
<1> DEFINE q == Takes(w)
<1>1. /\ ordered' = ordered /\ rule' = rule /\ resolved' = resolved
      /\ allowance' = allowance /\ phase = "row" /\ phase' = phase /\ file' = file
      /\ line' = line /\ pending' = pending /\ batch' = batch
      /\ total' = [total EXCEPT !.imported = @ + q]
  BY DEF Take, inputs
<1>2. /\ q \in Nat /\ q <= row.left
      /\ row.site \in Sites /\ row.left > 0 /\ w \in row.todo
      /\ open' \in [Sites -> [Warehouses -> Nat]]
  BY TakeFacts
<1>3. \A s \in Sites, v \in Warehouses :
         /\ s # row.site \/ v # w \/ q = 0 => open'[s][v] = open[s][v]
         /\ Whole(open[s][v]) = 0 => Whole(open'[s][v]) = 0
  BY TakeFacts
<1>4. q # row.left => Whole(open'[row.site][w]) = 0
  BY TakeFacts
<1>5. /\ row' \in Row /\ row'.site = row.site /\ row'.left = row.left - q
      /\ row'.todo = IF row.left = q THEN {} ELSE row.todo \ {w}
  BY TakeRow DEF LeftToTry
<1>6. \A v \in row.todo : w <= v
  BY DEF Take, IsNext
<1>7. row.left \in Nat /\ total \in Totals
  BY DEF AllocationTypeOK, Row
<1> HIDE DEF q
<1>8. /\ total' \in Totals /\ total'.imported = total.imported + q
      /\ total'.delivered = total.delivered /\ total'.manual = total.manual
  BY <1>1, <1>2, <1>7 DEF Totals
<1>9. AllocationTypeOK'
  BY <1>1, <1>2, <1>5, <1>8 DEF AllocationTypeOK
<1>10. RowProgress'
  <2>1. row'.todo # {} => row'.left > 0
    BY <1>2, <1>5, <1>7
  <2>2. ASSUME row'.left > 0, NEW v \in Warehouses \ row'.todo
        PROVE  Whole(open'[row.site][v]) = 0
    <3>1. row.left # q /\ (v = w \/ v \notin row.todo)
      BY <1>2, <1>5, <1>7, <2>2
    <3>2. CASE v = w
      BY <1>4, <3>1, <3>2
    <3>3. CASE v \notin row.todo
      BY <1>1, <1>2, <1>3, <3>3 DEF RowProgress
    <3> QED
      BY <3>1, <3>2, <3>3
  <2> QED
    BY <1>1, <1>2, <1>5, <2>1, <2>2 DEF RowProgress
<1>11. Conserved'
  BY <1>1, <1>2, <1>5, <1>7, <1>8 DEF Conserved, Totals
<1>12. WarehousesInOrder'
  <2> SUFFICES ASSUME NEW s \in Sites, NEW v \in Warehouses, NEW u \in Warehouses,
                      v < u, open'[s][u] # ordered[s][u]
               PROVE  Whole(open'[s][v]) = 0
    BY <1>1 DEF WarehousesInOrder
  <2>1. CASE open[s][u] # ordered[s][u]
    BY <1>3, <2>1 DEF WarehousesInOrder
  <2>2. CASE open[s][u] = ordered[s][u]
    <3>1. s = row.site /\ u = w
      BY <1>3, <2>2
    <3>2. v \notin row.todo
      BY <1>6, <3>1 DEF Warehouses
    <3> QED
      BY <1>1, <1>2, <1>3, <3>1, <3>2 DEF RowProgress
  <2> QED
    BY <2>1, <2>2
<1>13. BeyondAfterOrders'
  BY <1>1, <1>3 DEF BeyondAfterOrders, Exhausted
<1>14. ManualIsLast'
  <2> SUFFICES ASSUME NEW p \in pending, p.reason \in Short
               PROVE  Exhausted(p.site)' /\ allowance'[p.site] \in {0, NoRule}
    BY <1>1 DEF ManualIsLast
  <2>1. Exhausted(p.site) /\ allowance[p.site] \in {0, NoRule}
    BY DEF ManualIsLast
  <2>2. p.site \in Sites
    BY DEF PendingSites
  <2> QED
    BY <1>1, <1>3, <2>1, <2>2 DEF Exhausted
<1>15. ResolvedToSites' /\ PendingSites' /\ NothingLost'
  BY <1>1 DEF ResolvedToSites, PendingSites, NothingLost
<1> QED
  BY <1>9, <1>10, <1>11, <1>12, <1>13, <1>14, <1>15
-------------------------------------------------------------------------------
\* What the end of a row gives beyond the orders, and what it leaves.
LEMMA FinishFacts ==
    ASSUME AllocationInv, FinishRow
    PROVE  /\ Beyond \in Nat /\ Rest \in Nat /\ row.left = Beyond + Rest
           /\ row.site \in Sites
           /\ row.left > 0 => Exhausted(row.site)
           /\ allowance' \in [Sites -> Nat \cup {NoRule}]
           /\ \A s \in Sites : allowance[s] \in {0, NoRule} => allowance'[s] = allowance[s]
           /\ \A s \in Sites : allowance'[s] # allowance[s] => s = row.site /\ row.left > 0
           /\ Rest > 0 => allowance'[row.site] \in {0, NoRule}
<1> USE DEF AllocationInv
<1>1. /\ row.site \in Sites /\ row.left \in Nat
      /\ row.left > 0 => Exhausted(row.site)
  BY DEF RowProgress, FinishRow, AllocationTypeOK, Row, Exhausted
<1>2. /\ allowance \in [Sites -> Nat \cup {NoRule}]
      /\ allowance' = IF HasRule(row.site)
                      THEN [allowance EXCEPT ![row.site] = @ - Beyond]
                      ELSE allowance
  BY DEF AllocationTypeOK, FinishRow
<1>3. CASE HasRule(row.site)
  <2>1. allowance[row.site] \in Nat
    BY <1>1, <1>2, <1>3 DEF HasRule
  <2>2. /\ Beyond \in Nat /\ Beyond <= row.left /\ Beyond <= allowance[row.site]
        /\ Beyond = row.left \/ Beyond = allowance[row.site]
    BY <1>1, <1>3, <2>1, LeastFacts DEF Beyond
  <2>3. Rest \in Nat /\ row.left = Beyond + Rest
    BY <1>1, <2>2 DEF Rest
  <2>4. allowance' = [allowance EXCEPT ![row.site] = allowance[row.site] - Beyond]
    BY <1>2, <1>3
  <2>5. allowance[row.site] - Beyond \in Nat
    BY <2>1, <2>2
  <2>6. /\ allowance'[row.site] = allowance[row.site] - Beyond
        /\ \A s \in Sites : s # row.site => allowance'[s] = allowance[s]
        /\ allowance' \in [Sites -> Nat \cup {NoRule}]
    BY <1>1, <1>2, <2>4, <2>5
  <2>7. ASSUME NEW s \in Sites
        PROVE  /\ allowance[s] \in {0, NoRule} => allowance'[s] = allowance[s]
               /\ allowance'[s] # allowance[s] => s = row.site /\ row.left > 0
    BY <1>1, <1>3, <2>1, <2>2, <2>6 DEF HasRule
  <2>8. Rest > 0 => allowance'[row.site] = 0
    BY <1>1, <2>1, <2>2, <2>3, <2>6
  <2> QED
    BY <1>1, <2>2, <2>3, <2>6, <2>7, <2>8
<1>4. CASE ~HasRule(row.site)
  <2>1. Beyond = 0 /\ Rest = row.left
    BY <1>1, <1>4 DEF Beyond, Rest
  <2>2. allowance' = allowance /\ allowance[row.site] = NoRule
    BY <1>2, <1>4 DEF HasRule
  <2> QED
    BY <1>1, <1>2, <2>1, <2>2
<1> QED
  BY <1>3, <1>4

\* How the end of a row changes the totals of its file.
LEMMA NoteRow ==
    ASSUME total \in Totals, NEW i \in Nat, NEW m \in Nat,
           total' = [total EXCEPT !.imported = @ + i, !.manual = @ + m]
    PROVE  /\ total' \in Totals
           /\ total'.delivered = total.delivered
           /\ total'.imported = total.imported + i
           /\ total'.manual = total.manual + m
<1> DEFINE noted == [total EXCEPT !.imported = @ + i]
<1>1. /\ noted \in Totals
      /\ noted.delivered = total.delivered
      /\ noted.imported = total.imported + i /\ noted.manual = total.manual
  BY DEF Totals
<1>2. total' = [noted EXCEPT !.manual = @ + m]
  OBVIOUS
<1> HIDE DEF noted
<1>3. /\ total' \in Totals
      /\ total'.delivered = noted.delivered
      /\ total'.imported = noted.imported
      /\ total'.manual = noted.manual + m
  BY <1>1, <1>2 DEF Totals
<1> QED
  BY <1>1, <1>3

LEMMA FinishRowInv == AllocationInv /\ FinishRow => AllocationInv'
<1> SUFFICES ASSUME AllocationInv, FinishRow PROVE AllocationInv'
  OBVIOUS
<1> USE DEF AllocationInv
<1>1. /\ ordered' = ordered /\ rule' = rule /\ resolved' = resolved /\ open' = open
      /\ file' = file /\ batch' = batch
      /\ row' = NoRow /\ phase' = "rows" /\ line' = line + 1
      /\ total' = [total EXCEPT !.imported = @ + Beyond, !.manual = @ + Rest]
  BY DEF FinishRow, inputs
<1>2. /\ Beyond \in Nat /\ Rest \in Nat /\ row.left = Beyond + Rest
      /\ row.site \in Sites /\ (row.left > 0 => Exhausted(row.site))
      /\ allowance' \in [Sites -> Nat \cup {NoRule}]
      /\ Rest > 0 => allowance'[row.site] \in {0, NoRule}
  BY FinishFacts
<1>3. \A s \in Sites :
         /\ allowance[s] \in {0, NoRule} => allowance'[s] = allowance[s]
         /\ allowance'[s] # allowance[s] => s = row.site /\ row.left > 0
  BY FinishFacts
<1>4. line \in Lines /\ line \in Nat /\ row.purchase \in Nat /\ total \in Totals
  BY DEF FinishRow, RowProgress, AllocationTypeOK, Row
<1> DEFINE short == [line      |-> line,
                     site      |-> row.site,
                     reason    |-> Reason,
                     allocated |-> row.purchase + Beyond,
                     manual    |-> Rest]
<1>5. Reason \in Short /\ short.site = row.site
  BY DEF Reason, Short
<1>6. short \in Pending
  <2>1. row.purchase + Beyond \in Nat /\ Reason \in Unresolved \cup Short
    BY <1>2, <1>4, <1>5
  <2> QED
    BY <1>2, <1>4, <2>1 DEF Pending
<1>7. pending' = pending \cup (IF Rest > 0 THEN {short} ELSE {})
  BY DEF FinishRow
<1> HIDE DEF short
<1>8. /\ total' \in Totals /\ total'.delivered = total.delivered
      /\ total'.imported = total.imported + Beyond
      /\ total'.manual = total.manual + Rest
  BY <1>1, <1>2, <1>4, NoteRow
<1>9. AllocationTypeOK'
  <2>1. NoRow \in Row
    BY DEF NoRow, Row
  <2>2. pending' \subseteq Pending
    BY <1>6, <1>7 DEF AllocationTypeOK
  <2> QED
    BY <1>1, <1>2, <1>4, <1>8, <2>1, <2>2 DEF AllocationTypeOK
<1>10. RowProgress' /\ NothingLost' /\ ResolvedToSites' /\ WarehousesInOrder'
  BY <1>1 DEF RowProgress, NothingLost, ResolvedToSites, WarehousesInOrder
<1>11. Conserved'
  <2>1. row'.left = 0
    BY <1>1 DEF NoRow
  <2> QED
    BY <1>1, <1>2, <1>4, <1>8, <2>1 DEF Conserved, Totals
<1>12. BeyondAfterOrders'
  BY <1>1, <1>2, <1>3 DEF BeyondAfterOrders, Exhausted
<1>13. PendingSites'
  BY <1>2, <1>5, <1>7 DEF PendingSites
<1>14. ManualIsLast'
  <2> SUFFICES ASSUME NEW p \in pending', p.reason \in Short
               PROVE  Exhausted(p.site) /\ allowance'[p.site] \in {0, NoRule}
    BY <1>1 DEF ManualIsLast, Exhausted
  <2>1. CASE p \in pending
    BY <1>3, <2>1 DEF ManualIsLast, PendingSites
  <2>2. CASE Rest > 0 /\ p = short
    BY <1>2, <1>5, <2>2
  <2> QED
    BY <1>7, <2>1, <2>2
<1> QED
  BY <1>9, <1>10, <1>11, <1>12, <1>13, <1>14

-------------------------------------------------------------------------------
LEMMA NextInv == AllocationInv /\ [AllocationNext]_allocationVars => AllocationInv'
<1> SUFFICES ASSUME AllocationInv, [AllocationNext]_allocationVars PROVE AllocationInv'
  OBVIOUS
<1>1. CASE StartFile
  BY <1>1, StartFileInv
<1>2. CASE SkipLine
  BY <1>2, SkipLineInv
<1>3. ASSUME NEW q \in 1..MaxQuantity, NEW choice \in Sites \cup {NoSite},
             StartRow(q, choice)
      PROVE  AllocationInv'
  BY <1>3, StartRowInv
<1>4. ASSUME NEW w \in Warehouses, Take(w) PROVE AllocationInv'
  BY <1>4, TakeInv
<1>5. CASE FinishRow
  BY <1>5, FinishRowInv
<1>6. CASE EndFile
  BY <1>6, EndFileInv
<1>7. CASE EndBatch
  BY <1>7, EndBatchInv
<1>8. CASE UNCHANGED allocationVars
  <2>1. /\ UNCHANGED <<inputs, ledger>>
        /\ phase' = phase /\ file' = file /\ line' = line /\ row' = row
        /\ pending' = pending /\ total' = total /\ batch' = batch
    BY <1>8 DEF allocationVars
  <2>2. /\ ResolvedToSites' /\ WarehousesInOrder' /\ BeyondAfterOrders'
        /\ ManualIsLast' /\ PendingSites'
    BY <2>1, LedgerKept
  <2>3. AllocationTypeOK' /\ RowProgress' /\ Conserved' /\ NothingLost'
    BY <2>1 DEF AllocationInv, AllocationTypeOK, RowProgress, Conserved, NothingLost, inputs, ledger
  <2> QED
    BY <2>2, <2>3 DEF AllocationInv
<1> QED
  BY <1>1, <1>2, <1>3, <1>4, <1>5, <1>6, <1>7, <1>8 DEF AllocationNext

LEMMA SpecInv == AllocationSpec => []AllocationInv
  BY AllocationInitInv, NextInv, PTL DEF AllocationSpec

-------------------------------------------------------------------------------
(* The quotas of PurchaseQuota. *)

\* What the orders of a site allow, without the row being allocated.
WholeBalances(s) == [w \in Warehouses |-> Whole(open[s][w])]
OrdersAllow(s) == SumFunction(WholeBalances(s))
UnderWay(s) == IF phase = "row" /\ row.site = s THEN row.purchase ELSE 0

QuotaLeft == [s \in Sites |-> OrdersAllow(s) + UnderWay(s)]
QuotaExtra == [s \in Sites |-> IF HasRule(s) THEN allowance[s] ELSE 0]
QuotaManual == batch.manual + total.manual

\* Between two files nothing is counted, and a row delivers what StartRow was given.
QuotaInv ==
    /\ phase \notin {"rows", "row"} => total.manual = 0
    /\ phase = "row" => row.purchase + row.left \in 1..MaxQuantity

LEMMA OrdersFacts ==
    ASSUME AllocationTypeOK
    PROVE  \A s \in Sites : /\ WholeBalances(s) \in [Warehouses -> Nat]
                            /\ OrdersAllow(s) \in Nat
                            /\ Exhausted(s) => OrdersAllow(s) = 0
<1>1. IsFiniteSet(Warehouses)
  BY AllocationAssumption, FS_Interval DEF Warehouses
<1>2. ASSUME NEW s \in Sites PROVE WholeBalances(s) \in [Warehouses -> Nat]
  <2>1. \A w \in Warehouses : open[s][w] \in Nat
    BY DEF AllocationTypeOK
  <2>2. \A w \in Warehouses : Whole(open[s][w]) \in Nat
    BY <2>1, WholeFacts
  <2> QED
    BY <2>2 DEF WholeBalances
<1>3. ASSUME NEW s \in Sites PROVE OrdersAllow(s) \in Nat
  BY <1>1, <1>2, SumType DEF OrdersAllow
<1>4. ASSUME NEW s \in Sites, Exhausted(s) PROVE OrdersAllow(s) = 0
  <2>1. \A w \in Warehouses : WholeBalances(s)[w] = 0
    BY <1>4 DEF Exhausted, WholeBalances
  <2> QED
    BY <1>1, <1>2, <2>1, SumOfZeros DEF OrdersAllow
<1> QED
  BY <1>2, <1>3, <1>4

LEMMA OrdersKept ==
    ASSUME NEW s \in Sites, \A w \in Warehouses : open'[s][w] = open[s][w]
    PROVE  OrdersAllow(s)' = OrdersAllow(s)
<1>1. WholeBalances(s)' = WholeBalances(s)
  BY DEF WholeBalances
<1> QED
  BY <1>1 DEF OrdersAllow

LEMMA OrdersTaken ==
    ASSUME AllocationInv, AllocationInv', NEW w \in Warehouses, Take(w),
           NEW s \in Sites, s = row.site
    PROVE  OrdersAllow(s)' = OrdersAllow(s) - Takes(w)
<1>2. s = row.site
  OBVIOUS
<1>3. IsFiniteSet(Warehouses)
  BY AllocationAssumption, FS_Interval DEF Warehouses
<1>4. PICK f \in [Warehouses -> Nat] : f = WholeBalances(s)
  BY OrdersFacts DEF AllocationInv
<1>5. PICK g \in [Warehouses -> Nat] : g = WholeBalances(s)'
  <2>1. \A v \in Warehouses : open'[s][v] \in Nat
    BY DEF AllocationInv, AllocationTypeOK
  <2>2. \A v \in Warehouses : Whole(open'[s][v]) \in Nat
    BY <2>1, WholeFacts
  <2> QED
    BY <2>2 DEF WholeBalances
<1>6. \A v \in Warehouses \ {w} : f[v] = g[v]
  BY <1>2, <1>4, <1>5, TakeFacts DEF WholeBalances
<1>7. g[w] = f[w] - Takes(w)
  BY <1>2, <1>4, <1>5, TakeFacts DEF WholeBalances
<1>8. SumFunction(g) = SumFunction(f) + g[w] - f[w]
  BY <1>3, <1>6, SumUpdate
<1>9. SumFunction(f) \in Nat /\ f[w] \in Nat /\ Takes(w) \in Nat
  BY <1>3, SumType, TakeFacts
<1>10. OrdersAllow(s)' = SumFunction(g) /\ OrdersAllow(s) = SumFunction(f)
  BY <1>4, <1>5 DEF OrdersAllow
<1> QED
  BY <1>7, <1>8, <1>9, <1>10

\* A row takes effect as a whole.
LEMMA QuotaStutter ==
    ASSUME \A s \in Sites : OrdersAllow(s)' + UnderWay(s)' = OrdersAllow(s) + UnderWay(s),
           allowance' = allowance, QuotaManual' = QuotaManual
    PROVE  UNCHANGED Quota!vars
<1>1. QuotaLeft' = QuotaLeft
  BY DEF QuotaLeft
<1>2. QuotaExtra' = QuotaExtra
  BY DEF QuotaExtra, HasRule
<1> QED
  BY <1>1, <1>2 DEF Quota!vars, QuotaLeft, QuotaExtra, QuotaManual, OrdersAllow, UnderWay, WholeBalances

LEMMA QuotaInit == AllocationInit => Quota!Init /\ QuotaInv
<1> SUFFICES ASSUME AllocationInit PROVE Quota!Init /\ QuotaInv
  OBVIOUS
<1>1. AllocationInv
  BY AllocationInitInv
<1>2. phase = "files" /\ batch.manual = 0 /\ total.manual = 0
  BY DEF AllocationInit, NoQuantities
<1>3. QuotaLeft \in [Sites -> Nat]
  BY <1>1, <1>2, OrdersFacts DEF QuotaLeft, UnderWay, AllocationInv
<1>4. QuotaExtra \in [Sites -> Nat]
  BY <1>1 DEF QuotaExtra, HasRule, AllocationInv, AllocationTypeOK
<1>5. Quota!Init
  BY <1>2, <1>3, <1>4 DEF Quota!Init, QuotaLeft, QuotaExtra, OrdersAllow, UnderWay, WholeBalances
<1> QED
  BY <1>2, <1>5 DEF QuotaInv

\* Steps between rows, and those of a row before its end.
LEMMA QuotaQuiet ==
    ASSUME AllocationInv, QuotaInv,
           StartFile \/ SkipLine \/ EndFile \/ EndBatch
    PROVE  QuotaInv' /\ UNCHANGED Quota!vars
<1> USE DEF AllocationInv
<1>1. /\ open' = open /\ allowance' = allowance
      /\ phase # "row" /\ phase' # "row"
  BY DEF StartFile, SkipLine, EndFile, EndBatch, Balances, ledger
<1>2. \A s \in Sites : OrdersAllow(s)' + UnderWay(s)' = OrdersAllow(s) + UnderWay(s)
  BY <1>1, OrdersKept DEF UnderWay
<1>3. /\ QuotaManual' = QuotaManual
      /\ phase' \notin {"rows", "row"} => total'.manual = 0
  <2>0. total \in Totals /\ batch \in Totals
    BY DEF AllocationTypeOK
  <2>1. CASE StartFile
    BY <2>1, <2>0 DEF StartFile, QuotaInv, QuotaManual, NoQuantities
  <2>2. CASE SkipLine
    BY <2>2 DEF SkipLine, QuotaInv, QuotaManual
  <2>3. CASE EndFile
    <3>1. batch'.manual = batch.manual + total.manual
      BY <2>0, <2>3 DEF EndFile, Totals
    <3>2. total'.manual = 0 /\ batch.manual \in Nat /\ total.manual \in Nat
      BY <2>0, <2>3 DEF EndFile, NoQuantities, Totals
    <3> QED
      BY <3>1, <3>2 DEF QuotaManual
  <2>4. CASE EndBatch
    BY <2>4 DEF EndBatch, QuotaInv, QuotaManual
  <2> QED
    BY <2>1, <2>2, <2>3, <2>4
<1> QED
  BY <1>1, <1>2, <1>3, QuotaStutter DEF QuotaInv

LEMMA QuotaTake ==
    ASSUME AllocationInv, QuotaInv, NEW w \in Warehouses, Take(w)
    PROVE  QuotaInv' /\ UNCHANGED Quota!vars
<1>1. AllocationInv'
  BY TakeInv
<1>2. /\ phase = "row" /\ phase' = "row" /\ allowance' = allowance /\ batch' = batch
      /\ row'.site = row.site /\ row'.left = row.left - Takes(w)
      /\ row'.purchase = row.purchase + Takes(w)
      /\ Takes(w) \in Nat /\ row.left \in Nat /\ row.purchase \in Nat
  BY TakeRow, TakeFacts DEF Take, AllocationInv, AllocationTypeOK, Row
<1>3. \A s \in Sites : OrdersAllow(s)' + UnderWay(s)' = OrdersAllow(s) + UnderWay(s)
  <2> SUFFICES ASSUME NEW s \in Sites
               PROVE  OrdersAllow(s)' + UnderWay(s)' = OrdersAllow(s) + UnderWay(s)
    OBVIOUS
  <2>1. OrdersAllow(s) \in Nat
    BY OrdersFacts DEF AllocationInv
  <2>2. CASE s = row.site
    BY <1>1, <1>2, <2>1, <2>2, OrdersTaken DEF UnderWay
  <2>3. CASE s # row.site
    BY <1>2, <2>1, <2>3, TakeFacts, OrdersKept DEF UnderWay
  <2> QED
    BY <2>2, <2>3
<1>4. QuotaManual' = QuotaManual
  BY <1>2 DEF QuotaManual, Take, AllocationInv, AllocationTypeOK, Totals
<1>5. QuotaInv'
  BY <1>2 DEF QuotaInv
<1> QED
  BY <1>2, <1>3, <1>4, <1>5, QuotaStutter

\* A row without a site passes; another one is yet to be served.
LEMMA QuotaStartRow ==
    ASSUME AllocationInv, QuotaInv, NEW q \in 1..MaxQuantity, NEW choice \in Sites \cup {NoSite},
           StartRow(q, choice)
    PROVE  QuotaInv' /\ (Quota!Next \/ UNCHANGED Quota!vars)
<1> USE DEF AllocationInv
<1> DEFINE target == Overridden(line, choice)
<1>0. /\ open' = open /\ allowance' = allowance /\ batch' = batch /\ phase = "rows"
      /\ total \in Totals /\ batch \in Totals /\ q \in Nat
  <2>1. UNCHANGED ledger /\ batch' = batch /\ phase = "rows"
    BY DEF StartRow
  <2>2. open' = open /\ allowance' = allowance
    BY <2>1 DEF ledger
  <2>3. total \in Totals /\ batch \in Totals
    BY DEF AllocationTypeOK
  <2>4. q \in Nat
    BY AllocationBoundsAssumption
  <2> QED
    BY <2>1, <2>2, <2>3, <2>4
<1>1. CASE target.reason = ""
  <2>1. /\ phase' = "row" /\ row'.purchase = 0 /\ row'.left = q
        /\ total'.manual = total.manual
    <3>1. /\ phase' = "row"
          /\ row' = [site     |-> target.site,
                     left     |-> q,
                     purchase |-> 0,
                     todo     |-> Candidates(target.site),
                     found    |-> Candidates(target.site) # {}]
          /\ total' = [total EXCEPT !.delivered = @ + q]
      BY <1>1 DEF StartRow
    <3>2. row'.purchase = 0 /\ row'.left = q
      BY <3>1
    <3>3. total'.manual = total.manual
      BY <1>0, <3>1 DEF Totals
    <3> QED
      BY <3>1, <3>2, <3>3
  <2>2. \A s \in Sites : OrdersAllow(s)' + UnderWay(s)' = OrdersAllow(s) + UnderWay(s)
    BY <1>0, <2>1, OrdersKept DEF UnderWay
  <2>3. QuotaManual' = QuotaManual
    BY <1>0, <2>1 DEF QuotaManual
  <2>4. QuotaInv'
    BY <1>0, <2>1 DEF QuotaInv
  <2> QED
    BY <1>0, <2>2, <2>3, <2>4, QuotaStutter
<1>2. CASE target.reason # ""
  <2>1. phase' = "rows" /\ row' = row
    BY <1>0, <1>2 DEF StartRow
  <2>2. total'.manual = total.manual + q
    BY <1>0, <1>2 DEF StartRow, Totals
  <2>3. QuotaManual' = QuotaManual + q
    BY <1>0, <2>2 DEF QuotaManual, Totals
  <2>4. QuotaLeft' = QuotaLeft
    <3>1. \A s \in Sites : OrdersAllow(s)' = OrdersAllow(s) /\ UnderWay(s)' = UnderWay(s)
      BY <1>0, <2>1, OrdersKept DEF UnderWay
    <3> QED
      BY <3>1 DEF QuotaLeft
  <2>5. QuotaExtra' = QuotaExtra
    BY <1>0 DEF QuotaExtra, HasRule
  <2>6. Quota!Pass(q)
    BY <2>3, <2>4, <2>5
       DEF Quota!Pass, QuotaLeft, QuotaExtra, QuotaManual, OrdersAllow, UnderWay, WholeBalances
  <2>7. QuotaInv'
    BY <2>1 DEF QuotaInv
  <2> QED
    BY <2>6, <2>7 DEF Quota!Next
<1> QED
  BY <1>1, <1>2

\* The end of a row serves it: from the orders if they have enough, from the allowance
\* what they do not.
LEMMA QuotaFinishRow ==
    ASSUME AllocationInv, QuotaInv, FinishRow
    PROVE  QuotaInv' /\ Quota!Next
<1> USE DEF AllocationInv
<1>1. /\ phase = "row" /\ phase' = "rows" /\ open' = open /\ batch' = batch
      /\ total' = [total EXCEPT !.imported = @ + Beyond, !.manual = @ + Rest]
      /\ allowance' = IF HasRule(row.site)
                      THEN [allowance EXCEPT ![row.site] = @ - Beyond]
                      ELSE allowance
  BY DEF FinishRow
<1>2. PICK s \in Sites : s = row.site
  BY FinishFacts
<1>3. PICK q \in 1..MaxQuantity : q = row.purchase + row.left
  BY <1>1 DEF QuotaInv
<1>4. /\ row.purchase \in Nat /\ row.left \in Nat /\ q \in Nat
      /\ Beyond \in Nat /\ Rest \in Nat /\ row.left = Beyond + Rest
      /\ OrdersAllow(s) \in Nat /\ (row.left > 0 => OrdersAllow(s) = 0)
  <2>1. row.purchase \in Nat /\ row.left \in Nat
    BY DEF AllocationTypeOK, Row
  <2>2. q \in Nat
    BY AllocationBoundsAssumption
  <2>3. /\ Beyond \in Nat /\ Rest \in Nat /\ row.left = Beyond + Rest
        /\ (row.left > 0 => Exhausted(s))
    BY <1>2, FinishFacts
  <2>4. OrdersAllow(s) \in Nat /\ (Exhausted(s) => OrdersAllow(s) = 0)
    BY OrdersFacts
  <2> QED
    BY <2>1, <2>2, <2>3, <2>4
<1>5. /\ QuotaLeft \in [Sites -> Nat] /\ QuotaLeft[s] = OrdersAllow(s) + row.purchase
  BY <1>1, <1>2, <1>4, OrdersFacts DEF QuotaLeft, UnderWay
<1>6. Least(q, QuotaLeft[s]) = row.purchase /\ q - row.purchase = row.left
  BY <1>3, <1>4, <1>5 DEF Least
<1>7. Least(row.left, QuotaExtra[s]) = Beyond
  BY <1>2, <1>4 DEF QuotaExtra, Beyond, Least
<1>8. QuotaLeft' = [QuotaLeft EXCEPT ![s] = @ - row.purchase]
  <2>1. \A u \in Sites : OrdersAllow(u)' = OrdersAllow(u) /\ UnderWay(u)' = 0
    BY <1>1, OrdersKept DEF UnderWay
  <2>2. \A u \in Sites : OrdersAllow(u) \in Nat /\ (u # s => UnderWay(u) = 0)
    BY <1>2, OrdersFacts DEF UnderWay
  <2>3. \A u \in Sites : QuotaLeft'[u] = IF u = s THEN QuotaLeft[u] - row.purchase ELSE QuotaLeft[u]
    BY <1>4, <1>5, <2>1, <2>2 DEF QuotaLeft
  <2> QED
    BY <2>3 DEF QuotaLeft
<1>9. QuotaExtra' = [QuotaExtra EXCEPT ![s] = @ - Beyond]
  <2>1. allowance \in [Sites -> Nat \cup {NoRule}]
    BY DEF AllocationTypeOK
  <2>2. CASE HasRule(s)
    <3>1. allowance[s] \in Nat /\ allowance'[s] = allowance[s] - Beyond /\ allowance'[s] # NoRule
      <4>1. allowance[s] \in Nat
        BY <2>1, <2>2 DEF HasRule
      <4>2. Beyond = Least(row.left, allowance[s])
        BY <1>2, <2>2 DEF Beyond
      <4>3. Beyond <= allowance[s]
        BY <1>4, <4>1, <4>2, LeastFacts
      <4>4. allowance'[s] = allowance[s] - Beyond
        BY <1>1, <1>2, <2>1, <2>2
      <4>5. allowance'[s] \in Nat
        BY <1>4, <4>1, <4>3, <4>4
      <4> QED
        BY <4>1, <4>4, <4>5, AllocationAssumption
    <3>2. \A u \in Sites \ {s} : allowance'[u] = allowance[u]
      BY <1>1, <1>2, <2>1
    <3>3. \A u \in Sites : QuotaExtra'[u] = IF u = s THEN QuotaExtra[u] - Beyond ELSE QuotaExtra[u]
      BY <2>2, <3>1, <3>2 DEF QuotaExtra, HasRule
    <3> QED
      BY <3>3 DEF QuotaExtra
  <2>3. CASE ~HasRule(s)
    <3>1. allowance' = allowance /\ Beyond = 0
      BY <1>1, <1>2, <2>3 DEF Beyond
    <3>2. QuotaExtra' = QuotaExtra /\ QuotaExtra[s] = 0
      BY <2>3, <3>1 DEF QuotaExtra, HasRule
    <3> QED
      BY <3>1, <3>2 DEF QuotaExtra
  <2> QED
    BY <2>2, <2>3
<1>10. QuotaManual' = QuotaManual + Rest /\ total'.manual = total.manual + Rest
  <2>1. total \in Totals /\ batch \in Totals
    BY DEF AllocationTypeOK
  <2>2. total'.manual = total.manual + Rest
    BY <1>1, <1>4, <2>1, NoteRow
  <2> QED
    BY <1>1, <1>4, <2>1, <2>2 DEF QuotaManual, Totals
<1>11. Quota!Serve(s, q)
  <2>1. Rest = q - row.purchase - Beyond
    BY <1>3, <1>4
  <2>2. /\ QuotaLeft' = [QuotaLeft EXCEPT ![s] = @ - Least(q, QuotaLeft[s])]
        /\ QuotaExtra' = [QuotaExtra EXCEPT ![s] =
                             @ - Least(q - Least(q, QuotaLeft[s]), QuotaExtra[s])]
        /\ QuotaManual' = QuotaManual + (q - Least(q, QuotaLeft[s])
                             - Least(q - Least(q, QuotaLeft[s]), QuotaExtra[s]))
    BY <1>6, <1>7, <1>8, <1>9, <1>10, <2>1
  <2> QED
    BY <2>2 DEF Quota!Serve, Quota!Least, Least, QuotaLeft, QuotaExtra, QuotaManual,
       OrdersAllow, UnderWay, WholeBalances
<1>12. QuotaInv'
  BY <1>1 DEF QuotaInv
<1> QED
  BY <1>11, <1>12 DEF Quota!Next

LEMMA QuotaStep ==
    AllocationInv /\ QuotaInv /\ [AllocationNext]_allocationVars => QuotaInv' /\ [Quota!Next]_(Quota!vars)
<1> SUFFICES ASSUME AllocationInv, QuotaInv, [AllocationNext]_allocationVars
             PROVE  QuotaInv' /\ [Quota!Next]_(Quota!vars)
  OBVIOUS
<1>1. CASE StartFile \/ SkipLine \/ EndFile \/ EndBatch
  BY <1>1, QuotaQuiet
<1>2. ASSUME NEW q \in 1..MaxQuantity, NEW choice \in Sites \cup {NoSite}, StartRow(q, choice)
      PROVE  QuotaInv' /\ [Quota!Next]_(Quota!vars)
  BY <1>2, QuotaStartRow
<1>3. ASSUME NEW w \in Warehouses, Take(w)
      PROVE  QuotaInv' /\ [Quota!Next]_(Quota!vars)
  BY <1>3, QuotaTake
<1>4. CASE FinishRow
  BY <1>4, QuotaFinishRow
<1>5. CASE UNCHANGED allocationVars
  <2>1. UNCHANGED <<open, allowance, phase, row, total, batch>>
    BY <1>5 DEF allocationVars, ledger
  <2>2. \A s \in Sites : OrdersAllow(s)' + UnderWay(s)' = OrdersAllow(s) + UnderWay(s)
    BY <2>1, OrdersKept DEF UnderWay
  <2>3. QuotaManual' = QuotaManual
    BY <2>1 DEF QuotaManual
  <2> QED
    BY <2>1, <2>2, <2>3, QuotaStutter DEF QuotaInv
<1> QED
  BY <1>1, <1>2, <1>3, <1>4, <1>5 DEF AllocationNext

-------------------------------------------------------------------------------
(* Theorems. *)

\* The variables of the allocation have their types: balances and allowances
\* never go below zero, halves of a piece included.
THEOREM AllocationTypeCorrect == AllocationSpec => []AllocationTypeOK
<1>1. AllocationInv => AllocationTypeOK
  BY DEF AllocationInv
<1> QED
  BY SpecInv, <1>1, PTL

\* process_data and process_delivery_batch never raise for quantities that do
\* not add up.
THEOREM NothingLostHolds == AllocationSpec => []NothingLost
<1>1. AllocationInv => NothingLost
  BY DEF AllocationInv
<1> QED
  BY SpecInv, <1>1, PTL

\* The local warehouse is used up before the next one, across rows and files,
\* and the allowance of a site is only touched when its orders are used up.
THEOREM SourcesInOrderHolds == AllocationSpec => []SourcesInOrder
<1>1. AllocationInv => SourcesInOrder
  BY DEF AllocationInv, SourcesInOrder
<1> QED
  BY SpecInv, <1>1, PTL

\* What is left to users had nowhere else to go.
THEOREM ManualIsLastHolds == AllocationSpec => []ManualIsLast
<1>1. AllocationInv => ManualIsLast
  BY DEF AllocationInv
<1> QED
  BY SpecInv, <1>1, PTL

\* The batch implements PurchaseQuota: whatever the warehouses, the order of the files and
\* the overrides, a row gets the least of what it delivers and what is left of the orders
\* and the allowance of its site, and nothing else changes them.
THEOREM QuotaKeptHolds == AllocationSpec => QuotaKept
<1>1. AllocationInit => AllocationInv /\ QuotaInv
  BY AllocationInitInv, QuotaInit
<1>2. AllocationInv /\ QuotaInv /\ [AllocationNext]_allocationVars => AllocationInv' /\ QuotaInv'
  BY NextInv, QuotaStep
<1>3. AllocationInit => Quota!Init
  BY QuotaInit
<1>4. AllocationInv /\ QuotaInv /\ [AllocationNext]_allocationVars => [Quota!Next]_(Quota!vars)
  BY QuotaStep
<1> QED
  BY <1>1, <1>2, <1>3, <1>4, PTL DEF AllocationSpec, QuotaKept, Quota!Spec
===============================================================================
