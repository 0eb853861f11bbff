--------------------------- MODULE PurchaseDetails ---------------------------
(***************************************************************************)
(* The purchase sync with its cache of order details                       *)
(* (workers/sync_purchase.py, workers/purchase_collection.py,              *)
(* workers/purchase_details.py, purchase_detail_cache.py).                 *)
(*                                                                         *)
(* A sync lists the orders of the purchase system (gerpgo.py) and fetches   *)
(* the detail of each, except of those whose row in the list is as it was   *)
(* when their detail was cached.  Of these it fetches a sample: when one    *)
(* differs it fetches everything.  Once per business day it fetches         *)
(* everything anyway.  The cache is one file, written after the version is  *)
(* published, when the sync is no longer the only one.                     *)
(***************************************************************************)
EXTENDS Naturals, FiniteSets

CONSTANTS
    Syncs,          \* the executions that may be under way at the same time
    Orders,         \* order codes
    Sources,        \* the purchase systems the settings may name
    MinSample,      \* minimum_sample_size
    MaxSyncs,       \* bound: syncs
    MaxChanges,     \* bound: changes in the purchase systems
    MaxFaults,      \* bound: changes of the settings, damage to the cache, orders listed twice
    LastDay         \* bound: business days

ASSUME PurchaseAssumption ==
    /\ {MinSample, MaxSyncs, MaxChanges, MaxFaults, LastDay} \subseteq Nat
    /\ Sources # {}

Modes == {"full", "shadow", "incremental"}      \* PURCHASE_SYNC_MODE

VARIABLES
    erp,        \* the row and the detail of every order at every source
    day,        \* today, in BUSINESS_TIMEZONE
    settings,   \* the source of load_gerpgo_settings
    cache,      \* the file purchase-details-v1.json
    sync,       \* what a sync knows
    version,    \* the purchase data published last
    syncs, changes, faults

env == <<erp, day, settings, changes>>
vars == <<env, cache, sync, version, syncs, faults>>

\* A detail, with where and when it was fetched, and for which row of the list.
Contents == 0..MaxChanges
Garbage == MaxChanges + 1
Detail == [content : Contents \cup {Garbage}, source : Sources, day : Nat, row : Contents]
NoDetail == [content |-> "none"]
Details == [Orders -> Detail \cup {NoDetail}]

\* The file: "hash" is the content detail_hash was taken of.
Entry == [row : Contents, hash : Contents, detail : Detail]
NoEntry == [row |-> "none"]
Cache == [source : Sources, verified : Nat, orders : [Orders -> Entry \cup {NoEntry}]]
NoCache == [source |-> "none"]

Sync == [pc       : {"idle", "plan", "fetch", "publish", "write"},
         source   : Sources,                \* of the client
         rows     : [Orders -> Contents],   \* list_purchase_orders
         twice    : SUBSET Orders,          \* codes that the list has twice
         planned  : Nat,                    \* the day of current_time
         verified : Nat,                    \* the day of last_full_verified_at
         todo     : SUBSET Orders,          \* details to be fetched
         sample   : SUBSET Orders,          \* sampled_codes
         known    : Details,                \* what was loaded for the sample
         details  : Details]

Version == [source : Sources, day : Nat, rows : [Orders -> Contents], details : Details]
NoVersion == [source |-> "none"]

TypeOK ==
    /\ erp \in [Sources -> [Orders -> [row : Contents, content : Contents]]]
    /\ day \in Nat
    /\ settings \in Sources
    /\ cache \in Cache \cup {NoCache}
    /\ sync \in [Syncs -> Sync]
    /\ version \in Version \cup {NoVersion}
    /\ syncs \in Nat /\ changes \in Contents /\ faults \in Nat

Nothing == [o \in Orders |-> NoDetail]

Idle(source) == [pc |-> "idle", source |-> source, rows |-> [o \in Orders |-> 0], twice |-> {},
                 planned |-> 0, verified |-> 0, todo |-> {}, sample |-> {},
                 known |-> Nothing, details |-> Nothing]

Init ==
    /\ erp = [s \in Sources |-> [o \in Orders |-> [row |-> 0, content |-> 0]]]
    /\ day = 0
    /\ settings \in Sources
    /\ cache = NoCache
    /\ sync = [s \in Syncs |-> Idle(settings)]
    /\ version = NoVersion
    /\ syncs = 0 /\ changes = 0 /\ faults = 0

-------------------------------------------------------------------------------
(* What happens around the syncs. *)

\* An order changes; not every change shows in the row of the list.
OrderChanges(source, o) ==
    /\ changes < MaxChanges
    /\ changes' = changes + 1
    /\ \E r \in {erp[source][o].row, changes'} :
          erp' = [erp EXCEPT ![source][o] = [row |-> r, content |-> changes']]
    /\ UNCHANGED <<day, settings, cache, sync, version, syncs, faults>>

NextDay ==
    /\ day < LastDay
    /\ day' = day + 1
    /\ UNCHANGED <<erp, settings, changes, cache, sync, version, syncs, faults>>

Fault == faults < MaxFaults /\ faults' = faults + 1

\* save_gerpgo_settings
SaveSettings(source) ==
    /\ Fault
    /\ settings' = source
    /\ UNCHANGED <<erp, day, changes, cache, sync, version, syncs>>

\* The file is lost, or a detail in it is not what was written.
DamageCache ==
    /\ Fault
    /\ cache # NoCache
    /\ \/ cache' = NoCache
       \/ \E o \in Orders :
             /\ cache.orders[o] # NoEntry
             /\ cache' = [cache EXCEPT !.orders[o].detail.content = Garbage]
    /\ UNCHANGED <<env, sync, version, syncs>>

-------------------------------------------------------------------------------
(* The cache. *)

\* Mutant of Loaded: any entry is trusted.
LoadedAsFound(source) ==
    IF cache # NoCache /\ cache.source = source THEN cache.orders ELSE [o \in Orders |-> NoEntry]

\* load_purchase_detail_cache_state: entries that can be trusted; of no other source.
Loaded(source) ==
    IF cache # NoCache /\ cache.source = source
    THEN [o \in Orders |->
            IF cache.orders[o] # NoEntry /\ cache.orders[o].detail.content = cache.orders[o].hash
            THEN cache.orders[o] ELSE NoEntry]
    ELSE [o \in Orders |-> NoEntry]

\* Mutant of Due: the cache is due when it is empty.
DueOnce(source) == cache = NoCache

\* full_verification_due
Due(source) == cache = NoCache \/ cache.source # source \/ cache.verified # day

\* Mutant of Built: the file does not say whose details it has.
BuiltForSettings(r) ==
    [source |-> settings, verified |-> r.verified,
     orders |-> [o \in Orders |->
        IF o \in r.twice THEN NoEntry
        ELSE [row |-> r.rows[o], hash |-> r.details[o].content, detail |-> r.details[o]]]]

\* build_purchase_detail_cache: a code that the list had twice is left out.
Built(r) ==
    [source |-> r.source, verified |-> r.verified,
     orders |-> [o \in Orders |->
        IF o \in r.twice THEN NoEntry
        ELSE [row |-> r.rows[o], hash |-> r.details[o].content, detail |-> r.details[o]]]]

-------------------------------------------------------------------------------
(* The steps of a sync. *)

\* The job of the sync is running: until it ends no other one is (SyncJobs), and a sync
\* whose lease was given to another one fails at its next heartbeat (GiveUp).
Running(s) == sync[s].pc \in {"plan", "fetch", "publish"}

\* The claim, from_config and list_purchase_orders.  An order that changes between two
\* pages may move to the next one and be listed twice.
Start(s) ==
    /\ sync[s].pc = "idle"
    /\ \A t \in Syncs : ~Running(t)
    /\ syncs < MaxSyncs
    /\ syncs' = syncs + 1
    /\ \E twice \in {{}} \cup {{o} : o \in Orders} :
          /\ IF twice = {} THEN UNCHANGED faults ELSE Fault
          /\ sync' = [sync EXCEPT ![s] = [Idle(settings) EXCEPT
                        !.pc = "plan", !.twice = twice,
                        !.rows = [o \in Orders |-> erp[settings][o].row]]]
    /\ UNCHANGED <<env, cache, version>>

SampleSize(n) ==
    LET enough == IF MinSample > (n + 9) \div 10 THEN MinSample ELSE (n + 9) \div 10
    IN  IF n < enough THEN n ELSE enough

\* Everything is fetched; from now on, so that the day is today's.
Everything(r) ==
    [r EXCEPT !.pc = "fetch", !.planned = day, !.verified = day, !.todo = Orders,
              !.sample = {}, !.known = Nothing, !.details = Nothing]

\* full_verification_due, plan_incremental_detail_fetch
Plan(s, mode) ==
    /\ sync[s].pc = "plan"
    /\ LET r == sync[s]
           loaded == Loaded(r.source)
           same == {o \in Orders : loaded[o] # NoEntry /\ loaded[o].row = r.rows[o]}
       IN  IF \/ mode # "incremental"
              \/ Due(r.source)
              \/ r.twice # {}
              \/ \A o \in Orders : loaded[o] = NoEntry
           THEN sync' = [sync EXCEPT ![s] = Everything(r)]
           ELSE \E sample \in SUBSET same :
                   /\ Cardinality(sample) = SampleSize(Cardinality(same))
                   /\ sync' = [sync EXCEPT ![s] =
                        [r EXCEPT !.pc = "fetch",
                                  !.planned = day,
                                  !.verified = cache.verified,
                                  !.todo = (Orders \ same) \cup sample,
                                  !.sample = sample,
                                  !.known = [o \in Orders |->
                                      IF o \in sample THEN loaded[o].detail ELSE NoDetail],
                                  !.details = [o \in Orders |->
                                      IF o \in same \ sample THEN loaded[o].detail ELSE NoDetail]]]
    /\ UNCHANGED <<env, cache, version, syncs, faults>>

\* purchase_order_detail and the heartbeat after it; the threads finish in any order.
Fetch(s, o) ==
    /\ sync[s].pc = "fetch"
    /\ o \in sync[s].todo
    /\ LET r == sync[s] IN
       sync' = [sync EXCEPT
                    ![s].todo = @ \ {o},
                    ![s].details[o] = [content |-> erp[r.source][o].content, source |-> r.source,
                                       day |-> day, row |-> r.rows[o]]]
    /\ UNCHANGED <<env, cache, version, syncs, faults>>

\* The sample is compared; everything is fetched again, for the time of the plan.
Compare(s) ==
    /\ sync[s].pc = "fetch"
    /\ sync[s].todo = {}
    /\ LET r == sync[s] IN
       sync' = [sync EXCEPT ![s] =
                 IF \A o \in r.sample : r.details[o].content = r.known[o].content
                 THEN [r EXCEPT !.pc = "publish"]
                 ELSE [r EXCEPT !.todo = Orders, !.sample = {}, !.known = Nothing,
                                !.details = Nothing, !.verified = r.planned]]
    /\ UNCHANGED <<env, cache, version, syncs, faults>>

End(s) == sync' = [sync EXCEPT ![s] = Idle(sync[s].source)]

\* map_purchase_orders finds no issue, and _publish_sync_candidate ends the job.
Publish(s) ==
    /\ sync[s].pc = "publish"
    /\ version' = [source |-> sync[s].source, day |-> sync[s].planned,
                   rows |-> sync[s].rows, details |-> sync[s].details]
    /\ sync' = [sync EXCEPT ![s].pc = "write"]
    /\ UNCHANGED <<env, cache, syncs, faults>>

\* _write_collection_cache: one file takes the place of the other.
WriteCache(s) ==
    /\ sync[s].pc = "write"
    /\ cache' = Built(sync[s])
    /\ End(s)
    /\ UNCHANGED <<env, version, syncs, faults>>

\* A request fails, the lease is lost, the candidate has issues (_block_sync), the cache
\* cannot be written, or the worker dies.
GiveUp(s) ==
    /\ sync[s].pc # "idle"
    /\ End(s)
    /\ UNCHANGED <<env, cache, version, syncs, faults>>

SyncStep(s) ==
    \/ Start(s)
    \/ \E mode \in Modes : Plan(s, mode)
    \/ \E o \in Orders : Fetch(s, o)
    \/ Compare(s) \/ Publish(s) \/ WriteCache(s) \/ GiveUp(s)

Next ==
    \/ \E source \in Sources, o \in Orders : OrderChanges(source, o)
    \/ NextDay
    \/ \E source \in Sources : SaveSettings(source)
    \/ DamageCache
    \/ \E s \in Syncs : SyncStep(s)

Spec == Init /\ [][Next]_vars

-------------------------------------------------------------------------------
(* No published detail is older than the business day its sync planned in: what a    *)
(* sample misses is stale until the day ends and no longer, through midnights that   *)
(* pass while a sync fetches, caches written out of order, and syncs that fail.      *)
PublishedFresh ==
    version # NoVersion => \A o \in Orders : version.details[o].day >= version.day

(* After the settings name another purchase system no detail of the first one is     *)
(* published with orders of the second, whenever the cache of the first is written.  *)
NoForeignDetails ==
    version # NoVersion => \A o \in Orders : version.details[o].source = version.source

(* A published detail is what the purchase system answered for exactly the row that  *)
(* was listed: nothing damaged, and nothing cached for a row that has changed.       *)
DetailsOfListedRows ==
    version # NoVersion =>
        \A o \in Orders : /\ version.details[o].content # Garbage
                          /\ version.details[o].row = version.rows[o]
===============================================================================
