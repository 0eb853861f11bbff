----------------------------- MODULE EditingProofs -----------------------------
(***************************************************************************)
(* Theorems about what users edit: the exceptions of a batch, for all       *)
(* sites, lines and bounds, and the drafts of position files, for any       *)
(* versions, drafts, administrators and bounds.  The two models share no    *)
(* state; each has its inductive invariant, ExceptionInv and DraftInv.      *)
(***************************************************************************)
EXTENDS ExceptionHandling, PositionDrafts, FiniteSetTheorems, TLAPS

-------------------------------------------------------------------------------
(* Exceptions. *)

\* A batch that is queued has no links: transfers need a computed batch, and the
\* requests that queue it again refuse one with links.
QueuedUnlinked == batch = "queued" => ~Linked

\* Nothing of a delivery batch is transferred or handled offline, so that the parts of
\* a split are all that is taken off its records.
DeliveryOnlySplits ==
    ~selfOperated =>
        /\ \A i \in Identities : input[i] = 0
        /\ \A k \in Present : record[k].transferred = 0 /\ record[k].offline = 0

ExceptionInv ==
    /\ ExceptionTypeOK
    /\ NothingGivenTwice
    /\ StatusTellsTheRest
    /\ SitesKeepInput
    /\ QueuedUnlinked
    /\ DeliveryOnlySplits

\* Without records the parts about records hold.
LEMMA NoneFacts == DOMAIN None = {} /\ None \in [DOMAIN None -> ExceptionRecord]
<1>1. DOMAIN None = {}
  BY DEF None
<1> QED
  BY <1>1 DEF None

\* A function is in a set of functions when its values are.
LEMMA FunctionOf ==
    ASSUME NEW f, NEW S, NEW T, f = [x \in S |-> f[x]], \A x \in S : f[x] \in T
    PROVE  f \in [S -> T]
  OBVIOUS

LEMMA InitInv == ExceptionInit => ExceptionInv
<1> SUFFICES ASSUME ExceptionInit PROVE ExceptionInv
  OBVIOUS
<1>1. record = None /\ DOMAIN record = {} /\ record \in [DOMAIN record -> ExceptionRecord]
  BY NoneFacts DEF ExceptionInit
<1>2. input \in [Identities -> Quantity]
  BY ExceptionBoundsAssumption DEF ExceptionInit, Quantity
<1>3. ExceptionTypeOK
  BY <1>1, <1>2 DEF ExceptionTypeOK, ExceptionInit
<1>4. NothingGivenTwice /\ StatusTellsTheRest /\ SitesKeepInput /\ QueuedUnlinked
  BY <1>1 DEF NothingGivenTwice, StatusTellsTheRest, SitesKeepInput, QueuedUnlinked, Linked, Present
<1>5. DeliveryOnlySplits
  BY <1>1 DEF DeliveryOnlySplits, ExceptionInit, Present
<1> QED
  BY <1>3, <1>4, <1>5 DEF ExceptionInv

\* The numbers of one record.
LEMMA RecordTypes ==
    ASSUME ExceptionTypeOK, NEW k \in Present
    PROVE  /\ k \in Keys
           /\ record[k] \in ExceptionRecord
           /\ record[k].manual \in Int /\ record[k].manual > 0 /\ record[k].manual <= MaxQuantity
           /\ record[k].offline \in Int /\ record[k].offline >= 0
           /\ record[k].transferred \in Int /\ record[k].transferred >= 0
           /\ record[k].done \in Int /\ record[k].done >= 0
           /\ Remaining(k) \in Int
  BY ExceptionBoundsAssumption DEF ExceptionTypeOK, Present, ExceptionRecord, Quantity, Remaining

\* What a request chooses are present records with quantities.
LEMMA ItemsFacts ==
    ASSUME NEW low \in Nat, NEW items \in Items(low)
    PROVE  \A k \in DOMAIN items : /\ k \in Present
                                   /\ items[k] \in Quantity
                                   /\ items[k] \in Int /\ items[k] >= low
<1>1. PICK P \in SUBSET Present \ {{}} : items \in [P -> low..MaxQuantity]
  BY DEF Items
<1>2. P \subseteq Present /\ DOMAIN items = P
  BY <1>1
<1>3. \A k \in P : items[k] \in low..MaxQuantity
  BY <1>1
<1> QED
  BY <1>2, <1>3, ExceptionBoundsAssumption DEF Quantity

LEMMA TransferInv ==
    ASSUME ExceptionInv, NEW items \in Items(1), Transfer(items)
    PROVE  ExceptionInv'
<1> USE ExceptionBoundsAssumption DEF ExceptionInv
<1>1. /\ DOMAIN record' = DOMAIN record
      /\ record' = [k \in Present |-> record'[k]]
      /\ \A k \in Present :
            record'[k] = IF k \in DOMAIN items
                         THEN [record[k] EXCEPT !.transferred = @ + items[k],
                                                !.status = StatusOf(Remaining(k) - items[k])]
                         ELSE record[k]
  BY DEF Transfer, Present
<1>2. \A k \in DOMAIN items : /\ k \in Present
                              /\ items[k] \in Int /\ items[k] >= 1 /\ items[k] <= Remaining(k)
  BY ItemsFacts DEF Transfer
<1>3. \A k \in Present :
         /\ record'[k] \in ExceptionRecord
         /\ Remaining(k)' >= 0
         /\ record'[k].status = "resolved" <=> Remaining(k)' = 0
         /\ record'[k].offline = record[k].offline
         /\ record'[k].manual = record[k].manual
  <2> SUFFICES ASSUME NEW k \in Present
               PROVE  /\ record'[k] \in ExceptionRecord
                      /\ Remaining(k)' >= 0
                      /\ record'[k].status = "resolved" <=> Remaining(k)' = 0
                      /\ record'[k].offline = record[k].offline
                      /\ record'[k].manual = record[k].manual
    OBVIOUS
  <2>1. CASE k \notin DOMAIN items
    BY <2>1, <1>1, RecordTypes DEF NothingGivenTwice, StatusTellsTheRest, Remaining
  <2>2. CASE k \in DOMAIN items
    <3>1. record'[k] = [record[k] EXCEPT !.transferred = @ + items[k],
                                         !.status = StatusOf(Remaining(k) - items[k])]
      BY <2>2, <1>1
    <3>2. /\ record'[k].manual = record[k].manual
          /\ record'[k].offline = record[k].offline
          /\ record'[k].transferred = record[k].transferred + items[k]
          /\ record'[k].done = record[k].done
          /\ record'[k].status = StatusOf(Remaining(k) - items[k])
      BY <3>1, RecordTypes DEF ExceptionRecord
    <3>3. Remaining(k)' = Remaining(k) - items[k]
      BY <3>2, <1>2, <2>2, RecordTypes DEF Remaining
    <3>4. record[k].transferred + items[k] \in Quantity
      BY <1>2, <2>2, RecordTypes DEF Remaining, Quantity
    <3>5. record'[k] \in ExceptionRecord
      BY <3>1, <3>4, RecordTypes DEF ExceptionRecord, StatusOf
    <3> QED
      BY <3>2, <3>3, <3>5, <1>2, <2>2, RecordTypes DEF StatusOf
  <2> QED
    BY <2>1, <2>2
<1>4. ExceptionTypeOK'
  <2>1. \A j \in Present : record'[j] \in ExceptionRecord
    BY <1>3
  <2>2. record' = [j \in Present |-> record'[j]]
    BY <1>1
  <2>3. record' \in [Present -> ExceptionRecord]
    BY <2>1, <2>2, FunctionOf
  <2>4. DOMAIN record' = Present /\ Present \subseteq Keys
    BY <1>1 DEF Present, ExceptionTypeOK
  <2>5. record' \in [DOMAIN record' -> ExceptionRecord]
    BY <2>3, <2>4
  <2>6. requests' \in Nat
    <3>1. requests' = requests + 1
      BY Zenon DEF Transfer, Request
    <3>2. requests \in Nat
      BY Zenon DEF ExceptionTypeOK
    <3> QED
      BY <3>1, <3>2
  <2>7. exporting' \in BOOLEAN /\ input' \in [Identities -> Quantity]
    BY DEF ExceptionTypeOK, Transfer
  <2>8. UNCHANGED <<selfOperated, batch, computes>>
    BY DEF Transfer
  <2> QED
    BY <2>4, <2>5, <2>6, <2>7, <2>8 DEF ExceptionTypeOK
<1>5. NothingGivenTwice' /\ StatusTellsTheRest'
  BY <1>1, <1>3 DEF NothingGivenTwice, StatusTellsTheRest, Present
<1>6. SitesKeepInput'
  <2>1. batch' = batch /\ selfOperated' = selfOperated /\ input' = input
    BY DEF Transfer
  <2>2. \A k \in DOMAIN record : record'[k].offline = record[k].offline
                               /\ record'[k].manual = record[k].manual
    BY <1>3 DEF Present
  <2>3. DOMAIN record' = DOMAIN record
    BY <1>1
  <2> QED
    BY <2>1, <2>2, <2>3 DEF SitesKeepInput, Present, Applied
<1>7. QueuedUnlinked'
  BY DEF QueuedUnlinked, Transfer, ExportIdle
<1>8. DeliveryOnlySplits'
  BY DEF DeliveryOnlySplits, Transfer
<1> QED
  BY <1>4, <1>5, <1>6, <1>7, <1>8

LEMMA SaveOfflineInv ==
    ASSUME ExceptionInv, NEW items \in Items(0), SaveOffline(items)
    PROVE  ExceptionInv'
<1> USE ExceptionBoundsAssumption DEF ExceptionInv
<1>1. /\ DOMAIN record' = DOMAIN record
      /\ record' = [k \in Present |-> record'[k]]
      /\ \A k \in Present :
            record'[k] = IF k \in DOMAIN items
                         THEN [record[k] EXCEPT !.offline = items[k],
                                                !.status = StatusOf(Capacity(k) - items[k])]
                         ELSE record[k]
  BY DEF SaveOffline, Present
<1>2. \A k \in DOMAIN items : /\ k \in Present
                              /\ items[k] \in Quantity
                              /\ items[k] \in Int /\ items[k] >= 0 /\ items[k] <= Capacity(k)
  BY ItemsFacts DEF SaveOffline
<1>3. \A k \in Present :
         /\ record'[k] \in ExceptionRecord
         /\ Remaining(k)' >= 0
         /\ record'[k].status = "resolved" <=> Remaining(k)' = 0
         /\ record'[k].offline = IF k \in DOMAIN items THEN items[k] ELSE record[k].offline
         /\ record'[k].manual = record[k].manual
         /\ k \in DOMAIN items => items[k] <= record[k].manual
  <2> SUFFICES ASSUME NEW k \in Present
               PROVE  /\ record'[k] \in ExceptionRecord
                      /\ Remaining(k)' >= 0
                      /\ record'[k].status = "resolved" <=> Remaining(k)' = 0
                      /\ record'[k].offline = IF k \in DOMAIN items THEN items[k] ELSE record[k].offline
                      /\ record'[k].manual = record[k].manual
                      /\ k \in DOMAIN items => items[k] <= record[k].manual
    OBVIOUS
  <2>1. CASE k \notin DOMAIN items
    BY <2>1, <1>1, RecordTypes DEF NothingGivenTwice, StatusTellsTheRest, Remaining
  <2>2. CASE k \in DOMAIN items
    <3>1. record'[k] = [record[k] EXCEPT !.offline = items[k],
                                         !.status = StatusOf(Capacity(k) - items[k])]
      BY <2>2, <1>1
    <3>2. /\ record'[k].manual = record[k].manual
          /\ record'[k].offline = items[k]
          /\ record'[k].transferred = record[k].transferred
          /\ record'[k].done = record[k].done
          /\ record'[k].status = StatusOf(Capacity(k) - items[k])
      BY <3>1, RecordTypes DEF ExceptionRecord
    <3>3. /\ Capacity(k) = record[k].manual - record[k].transferred - record[k].done
          /\ Remaining(k)' = Capacity(k) - items[k]
      BY <3>2, <1>2, <2>2, RecordTypes DEF Remaining, Capacity
    <3>4. record'[k] \in ExceptionRecord
      BY <3>1, <1>2, <2>2, RecordTypes DEF ExceptionRecord, StatusOf
    <3> QED
      BY <3>2, <3>3, <3>4, <1>2, <2>2, RecordTypes DEF StatusOf
  <2> QED
    BY <2>1, <2>2
<1>4. ExceptionTypeOK'
  <2>1. \A j \in Present : record'[j] \in ExceptionRecord
    BY <1>3
  <2>2. record' = [j \in Present |-> record'[j]]
    BY <1>1
  <2>3. record' \in [Present -> ExceptionRecord]
    BY <2>1, <2>2, FunctionOf
  <2>4. DOMAIN record' = Present /\ Present \subseteq Keys
    BY <1>1 DEF Present, ExceptionTypeOK
  <2>5. record' \in [DOMAIN record' -> ExceptionRecord]
    BY <2>3, <2>4
  <2>6. requests' \in Nat
    <3>1. requests' = requests + 1
      BY Zenon DEF SaveOffline, Request
    <3>2. requests \in Nat
      BY Zenon DEF ExceptionTypeOK
    <3> QED
      BY <3>1, <3>2
  <2>7. exporting' \in BOOLEAN /\ input' \in [Identities -> Quantity]
    BY DEF ExceptionTypeOK, SaveOffline
  <2>8. UNCHANGED <<selfOperated, batch, computes>>
    BY DEF SaveOffline
  <2> QED
    BY <2>4, <2>5, <2>6, <2>7, <2>8 DEF ExceptionTypeOK
<1>5. NothingGivenTwice' /\ StatusTellsTheRest'
  BY <1>1, <1>3 DEF NothingGivenTwice, StatusTellsTheRest, Present
<1>6. SitesKeepInput'
  <2> SUFFICES ASSUME NEW k \in Present \cap Sites
               PROVE  record'[k].offline = LowerOf(input'[k], record'[k].manual)
    <3>1. \A k \in Sites : Identity(k) = k
      BY DEF Identity
    <3>2. DOMAIN record' = DOMAIN record
      BY <1>1
    <3> QED
      BY <3>1, <3>2 DEF SitesKeepInput, Present, Applied
  <2>1. input[k] \in Int /\ input'[k] \in Int
    <3>1. input \in [Identities -> Quantity] /\ input' \in [Identities -> Quantity]
      BY DEF ExceptionTypeOK, SaveOffline
    <3>2. k \in Identities /\ Quantity \subseteq Int
      BY DEF Identities, Quantity
    <3> QED
      BY <3>1, <3>2
  <2>2. \A j \in DOMAIN items : Identity(j) = k <=> j = k
    BY ExceptionAssumption DEF Identity
  <2>3. CASE k \in DOMAIN items
    <3>1. {items[n] : n \in {j \in DOMAIN items : Identity(j) = k}} = {items[k]}
      BY <2>2, <2>3
    <3>2. input'[k] = items[k]
      BY <3>1 DEF SaveOffline, Identities
    <3> QED
      BY <3>2, <2>3, <1>2, <1>3, RecordTypes DEF LowerOf
  <2>4. CASE k \notin DOMAIN items
    <3>1. {items[n] : n \in {j \in DOMAIN items : Identity(j) = k}} = {}
      BY <2>2, <2>4
    <3>2. input'[k] = input[k]
      BY <3>1 DEF SaveOffline, Identities
    <3>3. record[k].offline = LowerOf(input[k], record[k].manual)
      BY DEF SitesKeepInput, SaveOffline, ExportIdle, Applied, Identity
    <3> QED
      BY <3>2, <3>3, <2>4, <1>3
  <2> QED
    BY <2>3, <2>4
<1>7. QueuedUnlinked'
  BY DEF QueuedUnlinked, SaveOffline, ExportIdle
<1>8. DeliveryOnlySplits'
  BY DEF DeliveryOnlySplits, SaveOffline
<1> QED
  BY <1>4, <1>5, <1>6, <1>7, <1>8

LEMMA SaveSplitInv ==
    ASSUME ExceptionInv, NEW k \in Present, NEW done \in Quantity, SaveSplit(k, done)
    PROVE  ExceptionInv'
<1> USE ExceptionBoundsAssumption DEF ExceptionInv
<1>1. /\ DOMAIN record' = DOMAIN record
      /\ record' = [j \in Present |-> record'[j]]
      /\ \A j \in Present : j # k => record'[j] = record[j]
  BY DEF SaveSplit, Present, ExceptionTypeOK
<1>2. /\ record'[k] \in ExceptionRecord
      /\ record'[k].manual = record[k].manual
      /\ record'[k].offline = record[k].offline
      /\ record'[k].transferred = record[k].transferred
      /\ Remaining(k)' >= 0
      /\ record'[k].status = "resolved" <=> Remaining(k)' = 0
  <2>1. record[k].transferred = 0 /\ record[k].offline = 0
    BY DEF SaveSplit, DeliveryOnlySplits
  <2>2. done \in Int /\ done >= 0 /\ done <= record[k].manual
    BY DEF SaveSplit, Quantity
  <2>3. record'[k] = [record[k] EXCEPT !.done = done,
                                       !.status = IF done = record[k].manual THEN "resolved"
                                                  ELSE IF done > 0 THEN "partial" ELSE "pending"]
    BY DEF SaveSplit, Present, ExceptionTypeOK
  <2>4. /\ record'[k].manual = record[k].manual
        /\ record'[k].offline = record[k].offline
        /\ record'[k].transferred = record[k].transferred
        /\ record'[k].done = done
        /\ record'[k].status = IF done = record[k].manual THEN "resolved"
                               ELSE IF done > 0 THEN "partial" ELSE "pending"
    BY <2>3, RecordTypes DEF ExceptionRecord
  <2>5. record'[k] \in ExceptionRecord
    BY <2>3, RecordTypes DEF ExceptionRecord
  <2>6. Remaining(k)' = record[k].manual - done
    BY <2>1, <2>2, <2>4, RecordTypes DEF Remaining
  <2> QED
    BY <2>2, <2>4, <2>5, <2>6, RecordTypes
<1>3. \A j \in Present : /\ record'[j] \in ExceptionRecord
                         /\ record'[j].offline = record[j].offline
                         /\ record'[j].transferred = record[j].transferred
                         /\ Remaining(j)' >= 0
                         /\ record'[j].status = "resolved" <=> Remaining(j)' = 0
  BY <1>1, <1>2, RecordTypes DEF NothingGivenTwice, StatusTellsTheRest, Remaining
<1>4. ExceptionTypeOK'
  <2>1. \A j \in Present : record'[j] \in ExceptionRecord
    BY <1>3
  <2>2. record' = [j \in Present |-> record'[j]]
    BY <1>1
  <2>3. record' \in [Present -> ExceptionRecord]
    BY <2>1, <2>2, FunctionOf
  <2>4. DOMAIN record' = Present /\ Present \subseteq Keys
    BY <1>1 DEF Present, ExceptionTypeOK
  <2>5. record' \in [DOMAIN record' -> ExceptionRecord]
    BY <2>3, <2>4
  <2>6. requests' \in Nat
    BY DEF ExceptionTypeOK, SaveSplit, Request
  <2>7. exporting' \in BOOLEAN /\ input' \in [Identities -> Quantity]
    BY DEF ExceptionTypeOK, SaveSplit
  <2>8. UNCHANGED <<selfOperated, batch, computes>>
    BY DEF SaveSplit
  <2> QED
    BY <2>4, <2>5, <2>6, <2>7, <2>8 DEF ExceptionTypeOK
<1>5. NothingGivenTwice' /\ StatusTellsTheRest'
  <2>1. \A j \in Present : /\ Remaining(j)' >= 0
                           /\ record'[j].status = "resolved" <=> Remaining(j)' = 0
    BY <1>3
  <2>2. Present' = Present
    BY <1>1 DEF Present
  <2> QED
    BY <2>1, <2>2 DEF NothingGivenTwice, StatusTellsTheRest
<1>6. SitesKeepInput' /\ QueuedUnlinked'
  BY DEF SitesKeepInput, QueuedUnlinked, SaveSplit, ExportIdle
<1>7. DeliveryOnlySplits'
  BY <1>1, <1>3 DEF DeliveryOnlySplits, Present, SaveSplit
<1> QED
  BY <1>4, <1>5, <1>6, <1>7

\* A step that leaves the records and the inputs alone.
LEMMA FrameInv ==
    ASSUME ExceptionInv, UNCHANGED <<selfOperated, record, input>>, ExceptionTypeOK',
           batch' = "succeeded" => batch = "succeeded",
           batch' = "queued" => ~Linked
    PROVE  ExceptionInv'
<1>1. NothingGivenTwice' /\ StatusTellsTheRest' /\ DeliveryOnlySplits' /\ QueuedUnlinked'
  BY DEF ExceptionInv, NothingGivenTwice, StatusTellsTheRest, DeliveryOnlySplits,
         QueuedUnlinked, Linked, Present, Remaining
<1>2. SitesKeepInput'
  BY DEF ExceptionInv, SitesKeepInput, Present, Applied
<1> QED
  BY <1>1, <1>2 DEF ExceptionInv

\* A step that removes the records.
LEMMA EmptiedInv ==
    ASSUME ExceptionInv, record' = None, selfOperated' = selfOperated,
           input' = input \/ input' = [i \in Identities |-> 0],
           batch' \in {"queued", "gone"}, exporting' \in BOOLEAN,
           computes' \in Nat, requests' \in Nat
    PROVE  ExceptionInv'
<1>1. DOMAIN record' = {} /\ record' \in [DOMAIN record' -> ExceptionRecord]
  BY NoneFacts
<1>2. input' \in [Identities -> Quantity]
  BY ExceptionBoundsAssumption DEF ExceptionInv, ExceptionTypeOK, Quantity
<1>3. ExceptionTypeOK'
  BY <1>1, <1>2 DEF ExceptionInv, ExceptionTypeOK
<1>4. NothingGivenTwice' /\ StatusTellsTheRest' /\ SitesKeepInput' /\ QueuedUnlinked'
  BY <1>1 DEF NothingGivenTwice, StatusTellsTheRest, SitesKeepInput, QueuedUnlinked, Linked, Present
<1>5. DeliveryOnlySplits'
  BY <1>1 DEF DeliveryOnlySplits, ExceptionInv, Present
<1> QED
  BY <1>3, <1>4, <1>5 DEF ExceptionInv

\* What an input gives a new record lies between nothing and all of it.
LEMMA AppliedFacts ==
    ASSUME ExceptionTypeOK, NEW k \in Keys, NEW manual \in 1..MaxQuantity
    PROVE  /\ Applied(k, manual) \in Int
           /\ 0 <= Applied(k, manual) /\ Applied(k, manual) <= manual
           /\ Applied(k, manual) \in Quantity
           /\ input[Identity(k)] = 0 => Applied(k, manual) = 0
<1>1. Identity(k) \in Identities
  BY DEF Identity, Identities, Keys
<1>2. input[Identity(k)] \in 0..MaxQuantity
  BY <1>1 DEF ExceptionTypeOK, Quantity
<1> QED
  BY <1>2, ExceptionBoundsAssumption DEF Applied, LowerOf, Quantity

LEMMA ComputeInv ==
    ASSUME ExceptionInv, NEW P \in SUBSET Keys, NEW left \in [P -> 1..MaxQuantity], Compute(left)
    PROVE  ExceptionInv'
<1> USE ExceptionBoundsAssumption DEF ExceptionInv
<1>1. /\ DOMAIN record' = P
      /\ record' = [k \in P |-> record'[k]]
      /\ \A k \in P : record'[k] = [manual      |-> left[k],
                                     offline     |-> Applied(k, left[k]),
                                     transferred |-> 0,
                                     done        |-> 0,
                                     status      |-> StatusOf(left[k] - Applied(k, left[k]))]
  BY DEF Compute
<1>2. \A k \in P : left[k] \in 1..MaxQuantity /\ k \in Keys
  OBVIOUS
<1>3. \A k \in P : /\ record'[k] \in ExceptionRecord
                   /\ Remaining(k)' >= 0
                   /\ record'[k].status = "resolved" <=> Remaining(k)' = 0
                   /\ record'[k].manual = left[k]
                   /\ record'[k].offline = Applied(k, left[k])
                   /\ record'[k].transferred = 0
  <2> SUFFICES ASSUME NEW k \in P
               PROVE  /\ record'[k] \in ExceptionRecord
                      /\ Remaining(k)' >= 0
                      /\ record'[k].status = "resolved" <=> Remaining(k)' = 0
                      /\ record'[k].manual = left[k]
                      /\ record'[k].offline = Applied(k, left[k])
                      /\ record'[k].transferred = 0
    OBVIOUS
  <2> DEFINE a == Applied(k, left[k])
  <2>1. a \in Int /\ 0 <= a /\ a <= left[k] /\ a \in Quantity
    BY <1>2, AppliedFacts
  <2>2. /\ record'[k].manual = left[k]
        /\ record'[k].offline = a
        /\ record'[k].transferred = 0
        /\ record'[k].done = 0
        /\ record'[k].status = StatusOf(left[k] - a)
    BY <1>1
  <2>3. Remaining(k)' = left[k] - a
    BY <2>1, <2>2, <1>2 DEF Remaining
  <2>4. record'[k] \in ExceptionRecord
    BY <1>1, <1>2, <2>1 DEF ExceptionRecord, StatusOf, Quantity
  <2> QED
    BY <2>1, <2>2, <2>3, <2>4, <1>2 DEF StatusOf
<1>4. ExceptionTypeOK'
  <2>1. record' \in [DOMAIN record' -> ExceptionRecord]
    BY <1>1, <1>3
  <2>2. exporting' \in BOOLEAN
    BY DEF Compute, ExceptionTypeOK
  <2> QED
    BY <2>1, <2>2, <1>1 DEF ExceptionTypeOK, Compute
<1>5. NothingGivenTwice' /\ StatusTellsTheRest'
  BY <1>1, <1>3 DEF NothingGivenTwice, StatusTellsTheRest, Present
<1>6. SitesKeepInput'
  <2>1. \A k \in P : record'[k].offline = Applied(k, record'[k].manual)
    BY <1>3
  <2>2. input' = input
    BY DEF Compute
  <2> QED
    BY <2>1, <2>2, <1>1 DEF SitesKeepInput, Present, Applied
<1>7. QueuedUnlinked'
  BY DEF QueuedUnlinked, Compute
<1>8. DeliveryOnlySplits'
  <2>1. \A k \in P : Identity(k) \in Identities
    BY DEF Identity, Identities, Keys
  <2>2. ~selfOperated => \A k \in P : Applied(k, left[k]) = 0
    BY <2>1, <1>2, AppliedFacts DEF DeliveryOnlySplits
  <2>3. input' = input /\ selfOperated' = selfOperated
    BY DEF Compute
  <2> QED
    BY <2>2, <2>3, <1>1, <1>3 DEF DeliveryOnlySplits, Present
<1> QED
  BY <1>4, <1>5, <1>6, <1>7, <1>8

LEMMA StepInv == ExceptionInv /\ [ExceptionNext]_exceptionVars => ExceptionInv'
<1> SUFFICES ASSUME ExceptionInv, [ExceptionNext]_exceptionVars PROVE ExceptionInv'
  OBVIOUS
<1> USE DEF ExceptionInv
<1>1. ASSUME NEW items \in Items(1), Transfer(items) PROVE ExceptionInv'
  BY <1>1, TransferInv
<1>2. ASSUME NEW items \in Items(0), SaveOffline(items) PROVE ExceptionInv'
  BY <1>2, SaveOfflineInv
<1>3. ASSUME NEW k \in Present, NEW done \in Quantity, SaveSplit(k, done) PROVE ExceptionInv'
  BY <1>3, SaveSplitInv
<1>4. CASE StartExport
  <2>1. ExceptionTypeOK' /\ UNCHANGED <<selfOperated, batch, record, input>>
    BY <1>4 DEF StartExport, ExceptionTypeOK, Request
  <2> QED
    BY <2>1, FrameInv DEF QueuedUnlinked
<1>5. CASE ExportEnds
  <2>1. ExceptionTypeOK' /\ UNCHANGED <<selfOperated, batch, record, input>>
    BY <1>5 DEF ExportEnds, ExceptionTypeOK
  <2> QED
    BY <2>1, FrameInv DEF QueuedUnlinked
<1>6. CASE SaveAllowance
  BY <1>6, EmptiedInv DEF SaveAllowance, Request, ExceptionTypeOK
<1>7. CASE Invalidate
  <2>1. ExceptionTypeOK' /\ UNCHANGED <<selfOperated, record, input>> /\ batch' # "succeeded" /\ ~Linked
    BY <1>7 DEF Invalidate, ExceptionTypeOK, Request
  <2> QED
    BY <2>1, FrameInv
<1>8. CASE Delete
  BY <1>8, EmptiedInv DEF Delete, Request, ExceptionTypeOK
<1>9. ASSUME NEW left \in UNION {[P -> 1..MaxQuantity] : P \in SUBSET Keys}, Compute(left)
      PROVE  ExceptionInv'
  <2>1. PICK P \in SUBSET Keys : left \in [P -> 1..MaxQuantity]
    OBVIOUS
  <2> QED
    BY <2>1, <1>9, ComputeInv
<1>10. CASE ComputeFails
  <2>1. ExceptionTypeOK' /\ UNCHANGED <<selfOperated, record, input>> /\ batch' \in {"draft", "failed"}
    BY <1>10 DEF ComputeFails, ExceptionTypeOK
  <2> QED
    BY <2>1, FrameInv
<1>11. CASE UNCHANGED exceptionVars
  <2>1. ExceptionTypeOK' /\ UNCHANGED <<selfOperated, batch, record, input>>
    BY <1>11 DEF exceptionVars, ExceptionTypeOK
  <2> QED
    BY <2>1, FrameInv DEF QueuedUnlinked
<1> QED
  BY <1>1, <1>2, <1>3, <1>4, <1>5, <1>6, <1>7, <1>8, <1>9, <1>10, <1>11 DEF ExceptionNext

LEMMA Invariance == ExceptionSpec => []ExceptionInv
  BY InitInv, StepInv, PTL DEF ExceptionSpec

-------------------------------------------------------------------------------
\* The variables keep their types: quantities stay between zero and the bound, whatever
\* sequence of transfers, offline quantities, splits and computations they go through.
THEOREM ExceptionTypeCorrect == ExceptionSpec => []ExceptionTypeOK
  BY Invariance, PTL DEF ExceptionInv

\* Transfers, offline handling and splits together never take more off a record than
\* the computation left undecided (exception_transfers.py, manual_handling.py).
THEOREM NothingGivenTwiceHolds == ExceptionSpec => []NothingGivenTwice
  BY Invariance, PTL DEF ExceptionInv

\* A record is resolved exactly when nothing of it remains, through every way to give
\* it a status (exception_transfers.py, manual_handling.py, exception_write_routes.py).
THEOREM StatusTellsTheRestHolds == ExceptionSpec => []StatusTellsTheRest
  BY Invariance, PTL DEF ExceptionInv

\* The offline quantity of a site is kept in two places, the profile and the record,
\* and they agree while the batch is computed (manual_handling.py).
THEOREM SitesKeepInputHolds == ExceptionSpec => []SitesKeepInput
  BY Invariance, PTL DEF ExceptionInv

\* What TransferredStays says of one step.
Stays == \A k \in Present :
            record[k].transferred > 0 =>
               /\ k \in DOMAIN record'
               /\ record'[k].transferred >= record[k].transferred
               /\ record'[k].manual = record[k].manual

LEMMA StepStays == ExceptionInv /\ [ExceptionNext]_exceptionVars => Stays
<1> SUFFICES ASSUME ExceptionInv, [ExceptionNext]_exceptionVars PROVE Stays
  OBVIOUS
<1> USE DEF ExceptionInv
<1>1. ASSUME NEW items \in Items(1), Transfer(items) PROVE Stays
  <2> SUFFICES ASSUME NEW k \in Present
               PROVE  /\ k \in DOMAIN record'
                      /\ record'[k].transferred >= record[k].transferred
                      /\ record'[k].manual = record[k].manual
    BY DEF Stays
  <2>1. /\ k \in DOMAIN record'
        /\ record'[k] = IF k \in DOMAIN items
                        THEN [record[k] EXCEPT !.transferred = @ + items[k],
                                               !.status = StatusOf(Remaining(k) - items[k])]
                        ELSE record[k]
    BY <1>1 DEF Transfer, Present
  <2>2. k \in DOMAIN items => items[k] \in Int /\ items[k] >= 1
    BY ItemsFacts
  <2> QED
    BY <2>1, <2>2, RecordTypes DEF ExceptionRecord
<1>2. ASSUME NEW items \in Items(0), SaveOffline(items) PROVE Stays
  <2> SUFFICES ASSUME NEW k \in Present
               PROVE  /\ k \in DOMAIN record'
                      /\ record'[k].transferred >= record[k].transferred
                      /\ record'[k].manual = record[k].manual
    BY DEF Stays
  <2>1. /\ k \in DOMAIN record'
        /\ record'[k] = IF k \in DOMAIN items
                        THEN [record[k] EXCEPT !.offline = items[k],
                                               !.status = StatusOf(Capacity(k) - items[k])]
                        ELSE record[k]
    BY <1>2 DEF SaveOffline, Present
  <2> QED
    BY <2>1, RecordTypes DEF ExceptionRecord
<1>3. ASSUME NEW k \in Present, NEW done \in Quantity, SaveSplit(k, done) PROVE Stays
  \* A delivery batch has no links.
  BY <1>3 DEF Stays, SaveSplit, DeliveryOnlySplits
<1>4. CASE UNCHANGED record
  BY <1>4, RecordTypes DEF Stays, Present
<1>5. CASE ~Linked
  BY <1>5 DEF Stays, Linked
<1>6. StartExport \/ ExportEnds \/ Invalidate \/ ComputeFails \/ UNCHANGED exceptionVars => UNCHANGED record
  BY DEF StartExport, ExportEnds, Invalidate, ComputeFails, exceptionVars
<1>7. SaveAllowance \/ Delete => ~Linked
  BY DEF SaveAllowance, Delete
<1>8. ASSUME NEW left, Compute(left) PROVE ~Linked
  BY <1>8 DEF Compute, QueuedUnlinked
<1> QED
  BY <1>1, <1>2, <1>3, <1>4, <1>5, <1>6, <1>7, <1>8 DEF ExceptionNext

\* No step removes, replaces or reduces a record of which a delivery batch has taken
\* over a quantity (require_no_transfer_links in exception_transfer_state.py).
THEOREM TransferredStaysHolds == ExceptionSpec => TransferredStays
<1>1. ExceptionInv /\ [ExceptionNext]_exceptionVars => [Stays]_exceptionVars
  BY StepStays
<1>2. ExceptionSpec => [][Stays]_exceptionVars
  BY <1>1, Invariance, PTL DEF ExceptionSpec
<1> QED
  BY <1>2 DEF TransferredStays, Stays

-------------------------------------------------------------------------------
(* Drafts of position files: the inductive invariant. *)

\* At most one draft is edited, and of the active version; the base of a published one
\* is not active any more.
DraftsInv ==
    /\ \A d \in Drafts :
          /\ draft[d].state = "absent" => draft[d].revision = 0
          /\ draft[d].state = "editing" => draft[d].rows # NoFile
                                           /\ version[draft[d].base] = "active"
          /\ draft[d].state = "published" => version[draft[d].base] = "inactive"
    /\ \A d, e \in Drafts : draft[d].state = "editing" /\ draft[e].state = "editing" => d = e

OneActive == \E v \in Versions : \A w \in Versions : version[w] = "active" <=> w = v

OneDraftEach ==
    \A v, w \in Versions : origin[v] # NoDraft /\ origin[w] # NoDraft /\ v # w
        => draft[origin[v]].base # draft[origin[w]].base

VersionsInv ==
    /\ OneActive
    /\ \A v \in Versions : version[v] = "absent" => origin[v] = NoDraft /\ frames[v] = NoFile
    /\ \A v \in unheard : version[v] # "absent"
    /\ PublishedFiles
    /\ OneDraftEach

\* What was stored of a revision of a draft: its rows, if it is still the last one.
StoredRows(d, revision, rows) ==
    /\ revision <= draft[d].revision
    /\ revision = draft[d].revision => rows = draft[d].rows

StoresInv ==
    /\ \A entry \in analyses : StoredRows(entry.d, entry.revision, entry.rows)
    /\ \A p \in previews : StoredRows(p.d, p.revision, p.against)

Requested == {"edit", "discard", "preview", "compared", "register", "apply", "publish",
              "validated", "written", "waiting", "flushed", "linked"}
Reading == {"compared", "register", "validated", "written", "waiting", "flushed", "linked"}
Writing == {"written", "waiting", "flushed", "linked"}
Holding == {"flushed", "linked"}

\* A request whose revision is still that of its draft has seen its rows, and a
\* publication has written them.  Who does not know of his commit is among the unheard.
PageInv(a) ==
    /\ admin[a].pc # "idle" => admin[a].d \in Drafts
    /\ admin[a].pc = "unheard" => admin[a].v \in unheard
    /\ admin[a].d \in Drafts =>
          /\ admin[a].revision <= Page(a).revision
          /\ admin[a].revision = Page(a).revision =>
                /\ admin[a].pc # "viewing" /\ (admin[a].read \/ admin[a].pc \in Reading)
                      => admin[a].seen = Page(a).rows
                /\ admin[a].pc \in Requested => Page(a).state = "editing"
                /\ admin[a].pc \in Writing => admin[a].file = Page(a).rows

\* Who writes the rows of the versions holds their locks, and the row of his draft.
HoldingInv(a) ==
    admin[a].pc \in Holding =>
        /\ locked = a
        /\ admin[a].revision = Page(a).revision
        /\ ActiveFor(a) = {Page(a).base}
        /\ version[admin[a].v] = "absent"
        /\ admin[a].pc = "linked" => disk[admin[a].v] = admin[a].file

AdminsInv == \A a \in Admins : PageInv(a) /\ HoldingInv(a)

DraftInv == contents # 0 /\ DraftsInv /\ VersionsInv /\ StoresInv /\ AdminsInv

-------------------------------------------------------------------------------
(* Types. *)

LEMMA Constants ==
    /\ FirstVersion \in Versions /\ NoDraft \notin Drafts /\ NoAdmin \notin Admins
    /\ NoFile \in Nat
  BY FirstVersionAssumption, NoneAssumption DEF NoFile

LEMMA NoPageType ==
    /\ NoPage \in AdminRecord
    /\ NoPage.pc = "idle" /\ NoPage.d = NoDraft /\ NoPage.revision = 0 /\ NoPage.seen = 0
    /\ NoPage.read = TRUE
  BY Constants DEF NoPage, AdminRecord

\* Pages that are opened.
LEMMA OpenedPage ==
    ASSUME NEW d \in Drafts, NEW r \in Nat
    PROVE  LET page == [NoPage EXCEPT !.pc = "viewing", !.d = d, !.revision = r] IN
           page \in AdminRecord /\ page.pc = "viewing" /\ page.d = d /\ page.revision = r
  BY NoPageType DEF AdminRecord

LEMMA AppliedPage ==
    ASSUME NEW d \in Drafts, NEW r \in Nat, NEW s \in Nat
    PROVE  LET page == [NoPage EXCEPT !.pc = "apply", !.d = d, !.revision = r, !.seen = s] IN
           /\ page \in AdminRecord
           /\ page.pc = "apply" /\ page.d = d /\ page.revision = r /\ page.seen = s
  BY NoPageType DEF AdminRecord

\* One draft changes, and its revision grows.
Grows(d) ==
    /\ d \in Drafts
    /\ draft' \in [Drafts -> DraftRecord]
    /\ \A e \in Drafts \ {d} : draft'[e] = draft[e]
    /\ draft'[d].revision = draft[d].revision + 1 /\ draft'[d].base = draft[d].base

LEMMA RowsCommitted ==
    ASSUME TypeOK, NEW a \in Admins, CommitRows(a), NEW d \in Drafts, d = admin[a].d
    PROVE  Grows(d) /\ draft'[d].state = draft[d].state /\ draft'[d].rows = contents'
<1>0. PICK r \in DraftRecord : r = draft[d]
  BY DEF TypeOK
<1>1. PICK next : next = [r EXCEPT !.revision = @ + 1, !.rows = contents']
  OBVIOUS
<1>2. draft' = [draft EXCEPT ![d] = next]
  BY <1>0, <1>1 DEF CommitRows, CommitChange, Page
<1>3. contents' \in Nat /\ draft \in [Drafts -> DraftRecord]
  BY DEF TypeOK, CommitRows
<1>4. /\ next \in DraftRecord /\ next.state = r.state /\ next.base = r.base
      /\ next.revision = r.revision + 1 /\ next.rows = contents'
  <2>1. r = [state |-> r.state, base |-> r.base, revision |-> r.revision, rows |-> r.rows]
    BY DEF DraftRecord
  <2>2. next = [state |-> r.state, base |-> r.base, revision |-> r.revision + 1, rows |-> contents']
    BY <1>1, <2>1
  <2> QED
    BY <1>3, <2>2 DEF DraftRecord
<1> QED
  BY <1>0, <1>2, <1>3, <1>4 DEF Grows

LEMMA DiscardCommitted ==
    ASSUME TypeOK, NEW a \in Admins, CommitDiscard(a), NEW d \in Drafts, d = admin[a].d
    PROVE  Grows(d) /\ draft'[d].state = "discarded" /\ draft'[d].rows = draft[d].rows
<1>0. PICK r \in DraftRecord : r = draft[d]
  BY DEF TypeOK
<1>1. PICK next : next = [r EXCEPT !.revision = @ + 1, !.state = "discarded"]
  OBVIOUS
<1>2. draft' = [draft EXCEPT ![d] = next]
  BY <1>0, <1>1 DEF CommitDiscard, CommitChange, Page
<1>3. draft \in [Drafts -> DraftRecord]
  BY DEF TypeOK
<1>4. /\ next \in DraftRecord /\ next.state = "discarded" /\ next.base = r.base
      /\ next.revision = r.revision + 1 /\ next.rows = r.rows
  <2>1. r = [state |-> r.state, base |-> r.base, revision |-> r.revision, rows |-> r.rows]
    BY DEF DraftRecord
  <2>2. next = [state |-> "discarded", base |-> r.base, revision |-> r.revision + 1, rows |-> r.rows]
    BY <1>1, <2>1
  <2> QED
    BY <1>3, <2>2 DEF DraftRecord
<1> QED
  BY <1>0, <1>2, <1>3, <1>4 DEF Grows

LEMMA PublicationCommitted ==
    ASSUME TypeOK, NEW a \in Admins, CommitPublication(a), NEW d \in Drafts, d = admin[a].d
    PROVE  Grows(d) /\ draft'[d].state = "published" /\ draft'[d].rows = draft[d].rows
<1>0. PICK r \in DraftRecord : r = draft[d]
  BY DEF TypeOK
<1>1. PICK next : next = [r EXCEPT !.state = "published", !.revision = @ + 1]
  OBVIOUS
<1>2. draft' = [draft EXCEPT ![d] = next]
  BY <1>0, <1>1 DEF TypeOK, CommitPublication
<1>3. draft \in [Drafts -> DraftRecord]
  BY DEF TypeOK
<1>4. /\ next \in DraftRecord /\ next.state = "published" /\ next.base = r.base
      /\ next.revision = r.revision + 1 /\ next.rows = r.rows
  <2>1. r = [state |-> r.state, base |-> r.base, revision |-> r.revision, rows |-> r.rows]
    BY DEF DraftRecord
  <2>2. next = [state |-> "published", base |-> r.base, revision |-> r.revision + 1, rows |-> r.rows]
    BY <1>1, <2>1
  <2> QED
    BY <1>3, <2>2 DEF DraftRecord
<1> QED
  BY <1>0, <1>2, <1>3, <1>4 DEF Grows

LEMMA TypeInit == Init => TypeOK
<1> SUFFICES ASSUME Init PROVE TypeOK
  OBVIOUS
<1>1. [state |-> "absent", base |-> FirstVersion, revision |-> 0, rows |-> 0] \in DraftRecord
  BY Constants DEF DraftRecord
<1> QED
  BY <1>1, Constants, NoPageType DEF Init, TypeOK

\* The types of the requests on pages.
LEMMA TypeOfPages ==
    ASSUME TypeOK, NEW a \in Admins,
           \/ \E d \in Drafts : View(a, d)
           \/ Create(a)
           \/ \E request \in Requests : Load(a, request)
           \/ Refused(a) \/ Unanswered(a) \/ Refresh(a) \/ Cleanup(a) \/ Compare(a)
           \/ DropPreviews(a)
           \/ Validate(a) \/ WriteFile(a) \/ AwaitLocks(a) \/ FlushPublication(a),
           admin[a].pc # "idle" => admin[a].d \in Drafts
    PROVE  TypeOK'
<1>0. /\ admin \in [Admins -> AdminRecord] /\ admin[a] \in AdminRecord
      /\ \A d \in Drafts : draft[d] \in DraftRecord
  BY DEF TypeOK
<1>1. CASE \E d \in Drafts : View(a, d)
  <2>1. PICK d \in Drafts : View(a, d)
    BY <1>1
  <2>2. draft[d].revision \in Nat
    BY <1>0 DEF DraftRecord
  <2>3. admin' \in [Admins -> AdminRecord]
    BY <1>0, <2>1, <2>2, OpenedPage DEF View
  <2> QED
    BY <2>1, <2>3 DEF View, TypeOK
<1>2. CASE Create(a)
  <2>1. PICK d \in Drafts :
          /\ \/ draft[d].state = "editing" /\ UNCHANGED draft
             \/ /\ draft[d].state = "absent"
                /\ \E v \in Versions :
                      \E rows \in Readable(v) :
                         draft' = [draft EXCEPT ![d] = [state |-> "editing", base |-> v,
                                                        revision |-> 1, rows |-> rows]]
          /\ admin' = [admin EXCEPT ![a] =
                         [NoPage EXCEPT !.pc = "viewing", !.d = d, !.revision = draft'[d].revision]]
    BY <1>2 DEF Create
  <2>2. draft' \in [Drafts -> DraftRecord]
    BY <2>1 DEF TypeOK, DraftRecord, Readable
  <2>3. draft'[d].revision \in Nat
    BY <2>2 DEF DraftRecord
  <2>4. admin' \in [Admins -> AdminRecord]
    BY <1>0, <2>1, <2>3, OpenedPage
  <2> QED
    BY <1>2, <2>2, <2>4 DEF Create, TypeOK
<1>3. CASE \E request \in Requests : Load(a, request)
  BY <1>0, <1>3 DEF Load, Requests, TypeOK, AdminRecord
<1>4. CASE Refused(a)
  BY <1>0, <1>4, NoPageType DEF Refused, TypeOK
<1>13. CASE Unanswered(a)
  BY <1>0, <1>13, NoPageType DEF Unanswered, Fails, TypeOK
<1>5. CASE Refresh(a)
  <2>1. Page(a).revision \in Nat
    BY <1>0, <1>5 DEF Refresh, Page, DraftRecord
  <2> QED
    BY <1>0, <1>5, <2>1 DEF Refresh, TypeOK, AdminRecord
<1>6. CASE Cleanup(a)
  BY <1>0, <1>6 DEF Cleanup, WithoutDraft, TypeOK, AdminRecord
<1>7. CASE Compare(a)
  <2>1. Page(a).rows \in Nat
    BY <1>0, <1>7 DEF Compare, Page, DraftRecord
  <2> QED
    BY <1>0, <1>7, <2>1 DEF Compare, TypeOK, AdminRecord
<1>8. CASE DropPreviews(a)
  BY <1>0, <1>8 DEF DropPreviews, WithoutDraft, TypeOK, AdminRecord
<1>9. CASE Validate(a)
  <2>1. Page(a).rows \in Nat
    BY <1>0, <1>9 DEF Validate, Page, DraftRecord
  <2> QED
    BY <1>0, <1>9, <2>1 DEF Validate, TypeOK, AdminRecord
<1>10. CASE WriteFile(a)
  <2>1. Page(a).rows \in Nat /\ admin[a].seen \in Nat
    BY <1>0, <1>10 DEF WriteFile, Page, DraftRecord, AdminRecord
  <2> QED
    BY <1>0, <1>10, <2>1, SMTT(20) DEF WriteFile, TypeOK, AdminRecord
<1>11. CASE AwaitLocks(a)
  BY <1>0, <1>11 DEF AwaitLocks, TypeOK, AdminRecord
<1>12. CASE FlushPublication(a)
  <2>1. CASE MayPublishDraft(a)
    BY <1>0, <1>12, <2>1 DEF FlushPublication, TypeOK, AdminRecord
  <2>2. CASE ~MayPublishDraft(a)
    BY <1>0, <1>12, <2>2, NoPageType DEF FlushPublication, TypeOK
  <2> QED
    BY <2>1, <2>2
<1> QED
  BY <1>1, <1>2, <1>3, <1>4, <1>5, <1>6, <1>7, <1>8, <1>9, <1>10, <1>11, <1>12, <1>13

\* The types of analyses and previews.
LEMMA TypeOfStores ==
    ASSUME TypeOK, NEW a \in Admins,
           \/ Analyse(a) \/ Register(a) \/ \E p \in previews : Consume(a, p)
           \/ \E p \in previews : Expire(p),
           admin[a].pc # "idle" => admin[a].d \in Drafts
    PROVE  TypeOK'
<1>0. /\ admin \in [Admins -> AdminRecord] /\ admin[a] \in AdminRecord
      /\ \A d \in Drafts : draft[d] \in DraftRecord
  BY DEF TypeOK
<1>1. CASE Analyse(a)
  <2>1. /\ draft[admin[a].d].rows \in Nat /\ admin[a].revision \in Nat /\ admin[a].d \in Drafts
    BY <1>0, <1>1 DEF Analyse, DraftRecord, AdminRecord
  <2>2. \E rows \in Nat : admin' = [admin EXCEPT ![a].pc = "idle", ![a].seen = rows]
    BY <1>1, <2>1 DEF Analyse, TypeOK, Analysis
  <2>3. admin' \in [Admins -> AdminRecord]
    <3>1. PICK rows \in Nat : admin' = [admin EXCEPT ![a].pc = "idle", ![a].seen = rows]
      BY <2>2
    <3>2. [[admin[a] EXCEPT !.pc = "idle"] EXCEPT !.seen = rows] \in AdminRecord
      BY <1>0, <3>1 DEF AdminRecord
    <3> QED
      BY <1>0, <3>1, <3>2
  <2>4. [d |-> admin[a].d, revision |-> admin[a].revision, rows |-> draft[admin[a].d].rows]
           \in Analysis
    BY <2>1 DEF Analysis
  <2>5. analyses' \in SUBSET Analysis
    BY <1>1, <2>4 DEF Analyse, Cached, TypeOK
  <2> QED
    BY <1>1, <2>3, <2>5 DEF Analyse, TypeOK
<1>2. CASE Register(a)
  <2>1. /\ admin[a].seen \in Nat /\ admin[a].revision \in Nat /\ admin[a].d \in Drafts
    BY <1>0, <1>2 DEF Register, AdminRecord
  <2>2. previews' \in SUBSET Preview
    BY <1>2, <2>1 DEF Register, TypeOK, Preview
  <2> QED
    BY <1>0, <1>2, <2>2 DEF Register, TypeOK, AdminRecord
<1>3. CASE \E p \in previews : Consume(a, p)
  <2>1. PICK p \in previews : Consume(a, p)
    BY <1>3
  <2>2. p.d \in Drafts /\ p.revision \in Nat /\ p.against \in Nat
    BY DEF TypeOK, Preview
  <2>3. admin' \in [Admins -> AdminRecord]
    <3>1. \E page \in AdminRecord : admin' = [admin EXCEPT ![a] = page]
      BY <2>1, <2>2, AppliedPage, NoPageType DEF Consume
    <3> QED
      BY <1>0, <3>1
  <2> QED
    BY <2>1, <2>3 DEF Consume, TypeOK
<1>4. CASE \E p \in previews : Expire(p)
  BY <1>4 DEF Expire, TypeOK
<1> QED
  BY <1>1, <1>2, <1>3, <1>4

\* The types of commits.
LEMMA TypeOfCommits ==
    ASSUME TypeOK, NEW a \in Admins,
           \/ CommitRows(a) \/ CommitDiscard(a)
           \/ Promote(a) \/ CommitPublication(a) \/ RollBack(a) \/ RemoveUnheard(a)
           \/ Restart,
           admin[a].pc # "idle" => admin[a].d \in Drafts
    PROVE  TypeOK'
<1>0. /\ admin \in [Admins -> AdminRecord] /\ admin[a] \in AdminRecord
      /\ draft \in [Drafts -> DraftRecord]
  BY DEF TypeOK
<1>1. CASE CommitRows(a)
  <2>1. admin[a].d \in Drafts /\ draft[admin[a].d] \in DraftRecord /\ contents' \in Nat
    BY <1>0, <1>1 DEF CommitRows, TypeOK
  <2>2. draft' \in [Drafts -> DraftRecord]
    BY <1>1, <2>1, RowsCommitted DEF Grows
  <2>3. admin' \in [Admins -> AdminRecord]
    BY <1>0, <1>1, <2>1 DEF CommitRows, AdminRecord
  <2> QED
    BY <1>1, <2>1, <2>2, <2>3 DEF CommitRows, TypeOK
<1>2. CASE CommitDiscard(a)
  <2>1. admin[a].d \in Drafts /\ draft[admin[a].d] \in DraftRecord
    BY <1>0, <1>2 DEF CommitDiscard
  <2>2. draft' \in [Drafts -> DraftRecord]
    BY <1>2, <2>1, DiscardCommitted DEF Grows
  <2>3. admin' \in [Admins -> AdminRecord]
    BY <1>0, <1>2, <2>1 DEF CommitDiscard, AdminRecord
  <2> QED
    BY <1>2, <2>2, <2>3 DEF CommitDiscard, TypeOK
<1>3. CASE Promote(a)
  <2>1. admin[a].file \in Nat
    BY <1>0 DEF AdminRecord
  <2> QED
    BY <1>0, <1>3, <2>1 DEF Promote, TypeOK, AdminRecord
<1>4. CASE CommitPublication(a)
  <2>1. admin[a].d \in Drafts /\ draft[admin[a].d] \in DraftRecord
    BY <1>0, <1>4 DEF CommitPublication
  <2>2. draft' \in [Drafts -> DraftRecord]
    BY <1>4, <2>1, PublicationCommitted DEF Grows
  <2>3. admin' \in [Admins -> AdminRecord]
    BY <1>0, <1>4, <2>1 DEF CommitPublication, AdminRecord
  <2>6. unheard' \in SUBSET Versions /\ failures' \in Nat
    BY <1>0, <1>4 DEF CommitPublication, Fails, TypeOK, AdminRecord
  <2>4. version' \in [Versions -> {"absent", "inactive", "active"}]
    BY <1>4 DEF CommitPublication, TypeOK
  <2>5. origin' \in [Versions -> Drafts \cup {NoDraft}]
    BY <1>4, <2>1 DEF CommitPublication, TypeOK
  <2> QED
    BY <1>4, <2>2, <2>3, <2>4, <2>5, <2>6 DEF CommitPublication, TypeOK
<1>5. CASE RollBack(a)
  BY <1>0, <1>5, NoPageType, Constants DEF RollBack, TypeOK
<1>6. CASE Restart
  BY <1>6, NoPageType, Constants DEF Restart, Fails, TypeOK
<1>7. CASE RemoveUnheard(a)
  BY <1>0, <1>7, NoPageType, Constants DEF RemoveUnheard, TypeOK, AdminRecord
<1> QED
  BY <1>1, <1>2, <1>3, <1>4, <1>5, <1>6, <1>7
-------------------------------------------------------------------------------
(* The invariant at the start. *)

LEMMA InvInit == Init => DraftInv
<1> SUFFICES ASSUME Init PROVE DraftInv
  OBVIOUS
<1>1. contents # 0
  BY DEF Init
<1>2. \A d \in Drafts : draft[d].state = "absent" /\ draft[d].revision = 0
  BY DEF Init
<1>3. \A a \in Admins : admin[a].pc = "idle" /\ admin[a].d = NoDraft
  BY NoPageType DEF Init
<1>4. OneActive
  BY Constants DEF Init, OneActive
<1>5. PublishedFiles /\ OneDraftEach
  BY Constants DEF Init, PublishedFiles, OneDraftEach, NoFile
<1>6. (\A v \in Versions : origin[v] = NoDraft /\ frames[v] = NoFile) /\ unheard = {}
  BY DEF Init
<1>7. StoresInv
  BY DEF Init, StoresInv
<1>8. AdminsInv
  BY <1>3, Constants DEF AdminsInv, PageInv, HoldingInv, Holding
<1> QED
  BY <1>1, <1>2, <1>4, <1>5, <1>6, <1>7, <1>8 DEF DraftInv, DraftsInv, VersionsInv

-------------------------------------------------------------------------------
(* Steps that change no draft and no version. *)

\* Of the versions there are, only the files of unheard ones go, and nothing new is read.
FilesKept ==
    /\ UNCHANGED unheard
    /\ \A v \in Versions : version[v] # "absent" =>
          /\ v \notin unheard => disk'[v] = disk[v]
          /\ Readable(v)' \subseteq Readable(v)
    /\ \A v \in Versions : version[v] = "absent" => frames'[v] \in {frames[v], NoFile}

LEMMA FilesUnchanged == ASSUME UNCHANGED <<disk, frames, unheard>> PROVE FilesKept
  BY DEF FilesKept, Readable

LEMMA RowsKept ==
    ASSUME DraftInv, UNCHANGED <<version, origin, draft, contents>>, FilesKept
    PROVE  contents' # 0 /\ DraftsInv' /\ VersionsInv'
<1>1. contents' # 0 /\ DraftsInv'
  BY DEF DraftInv, DraftsInv
<1>2. PublishedFiles'
  BY DEF DraftInv, VersionsInv, PublishedFiles, FilesKept
<1>3. OneActive' /\ OneDraftEach'
  BY DEF DraftInv, VersionsInv, OneActive, OneDraftEach
<1>4. /\ \A v \in Versions : version'[v] = "absent" => origin'[v] = NoDraft /\ frames'[v] = NoFile
      /\ \A v \in unheard' : version'[v] # "absent"
  BY DEF DraftInv, VersionsInv, FilesKept
<1> QED
  BY <1>1, <1>2, <1>3, <1>4 DEF VersionsInv

LEMMA OthersKept ==
    ASSUME DraftInv, NEW a \in Admins, NEW u \in Admins \ {a}, admin'[u] = admin[u],
           UNCHANGED <<version, draft, unheard>>, locked' = locked,
           admin[u].pc \in Holding => disk'[admin[u].v] = disk[admin[u].v]
    PROVE  PageInv(u)' /\ HoldingInv(u)'
<1>1. PageInv(u) /\ HoldingInv(u)
  BY DEF DraftInv, AdminsInv
<1>2. PageInv(u)'
  BY <1>1 DEF PageInv, Page
<1>3. ActiveFor(u)' = ActiveFor(u) /\ Page(u)' = Page(u)
  BY DEF ActiveFor, Page
<1>4. HoldingInv(u)'
  BY <1>1, <1>3 DEF HoldingInv
<1> QED
  BY <1>2, <1>4

\* The page of a, or of nobody.
LEMMA PageKept ==
    ASSUME DraftInv, NEW a \in Admins,
           UNCHANGED <<version, origin, disk, frames, unheard, draft, locked, contents>>,
           \A u \in Admins \ {a} : admin'[u] = admin[u],
           admin'[a].pc \notin Holding, PageInv(a)', StoresInv'
    PROVE  DraftInv'
<1>1. contents' # 0 /\ DraftsInv' /\ VersionsInv'
  BY RowsKept, FilesUnchanged
<1>2. \A u \in Admins \ {a} : PageInv(u)' /\ HoldingInv(u)'
  BY OthersKept
<1>3. HoldingInv(a)'
  BY DEF HoldingInv
<1>4. AdminsInv'
  BY <1>2, <1>3 DEF AdminsInv
<1> QED
  BY <1>1, <1>4 DEF DraftInv

LEMMA StoresKept ==
    ASSUME DraftInv, draft' = draft, analyses' = analyses, previews' \in SUBSET previews
    PROVE  StoresInv'
  BY DEF DraftInv, StoresInv, StoredRows

LEMMA NoPageInv ==
    ASSUME NEW a \in Admins, admin'[a] = NoPage
    PROVE  PageInv(a)' /\ HoldingInv(a)' /\ admin'[a].pc \notin Holding
  BY NoPageType, Constants DEF PageInv, HoldingInv, Holding

LEMMA PageSteps ==
    ASSUME TypeOK, DraftInv, NEW a \in Admins,
           \/ \E d \in Drafts : View(a, d)
           \/ \E request \in Requests : Load(a, request)
           \/ Refused(a) \/ Unanswered(a) \/ Refresh(a) \/ Cleanup(a) \/ Compare(a)
           \/ DropPreviews(a)
           \/ Validate(a) \/ WriteFile(a) \/ AwaitLocks(a)
    PROVE  DraftInv'
<1>0. /\ admin \in [Admins -> AdminRecord] /\ admin[a] \in AdminRecord /\ PageInv(a)
      /\ \A d \in Drafts : draft[d] \in DraftRecord
  BY DEF TypeOK, DraftInv, AdminsInv
<1>1. /\ UNCHANGED <<version, origin, disk, frames, unheard, draft, locked, contents>>
      /\ \A u \in Admins \ {a} : admin'[u] = admin[u]
  BY <1>0 DEF View, Load, Refused, Unanswered, Refresh, Cleanup, Compare, DropPreviews,
     Validate, WriteFile, AwaitLocks
<1>2. StoresInv'
  <2>1. analyses' = analyses /\ previews' \in SUBSET previews
    BY DEF View, Load, Refused, Unanswered, Refresh, Cleanup, Compare, DropPreviews,
       Validate, WriteFile, AwaitLocks, WithoutDraft
  <2> QED
    BY <1>1, <2>1, StoresKept
<1>3. PageInv(a)' /\ admin'[a].pc \notin Holding
  <2>1. CASE \E d \in Drafts : View(a, d)
    <3>1. PICK d \in Drafts : View(a, d)
      BY <2>1
    <3>2. draft[d].revision \in Nat
      BY <1>0 DEF DraftRecord
    <3>3. admin'[a].pc = "viewing" /\ admin'[a].d = d /\ admin'[a].revision = draft[d].revision
      BY <1>0, <3>1, <3>2, OpenedPage DEF View
    <3> QED
      BY <1>1, <3>2, <3>3 DEF PageInv, Page, Requested, Writing, Holding
  <2>2. CASE \E request \in Requests : Load(a, request)
    <3>1. PICK request \in Requests : Load(a, request)
      BY <2>2
    <3>2. /\ admin'[a].pc = request /\ admin'[a].d = admin[a].d
          /\ admin'[a].revision = admin[a].revision /\ admin'[a].seen = admin[a].seen
          /\ admin'[a].read = admin[a].read
      BY <1>0, <3>1 DEF Load, AdminRecord
    <3>3. admin[a].d \in Drafts /\ Page(a).state = "editing" /\ admin[a].pc = "idle"
      BY <1>0, <3>1 DEF Load, AdminRecord
    <3> QED
      BY <1>0, <1>1, <3>2, <3>3 DEF PageInv, Page, Requests, Requested, Reading, Writing, Holding
  <2>3. CASE Refused(a) \/ Unanswered(a)
    BY <1>0, <2>3, NoPageInv DEF Refused, Unanswered
  <2>4. CASE Refresh(a)
    <3>1. /\ admin'[a].pc = "cleanup" /\ admin'[a].d = admin[a].d
          /\ admin'[a].revision = Page(a).revision /\ admin'[a].read = FALSE
          /\ admin[a].pc = "refresh"
      BY <1>0, <2>4 DEF Refresh, AdminRecord
    <3>2. admin[a].d \in Drafts /\ draft[admin[a].d].revision \in Nat
      BY <1>0, <3>1 DEF PageInv, DraftRecord
    <3> QED
      BY <1>1, <3>1, <3>2 DEF PageInv, Page, Requested, Reading, Writing, Holding
  <2>5. CASE Cleanup(a)
    <3>1. /\ admin'[a].pc = "idle" /\ admin'[a].d = admin[a].d
          /\ admin'[a].revision = admin[a].revision /\ admin'[a].seen = admin[a].seen
          /\ admin'[a].read = admin[a].read /\ admin[a].pc = "cleanup"
      BY <1>0, <2>5 DEF Cleanup, AdminRecord
    <3> QED
      BY <1>0, <1>1, <3>1 DEF PageInv, Page, Requested, Reading, Writing, Holding
  <2>6. CASE Compare(a)
    <3>1. /\ admin'[a].pc = "compared" /\ admin'[a].d = admin[a].d
          /\ admin'[a].revision = admin[a].revision /\ admin'[a].seen = Page(a).rows
          /\ admin[a].pc = "preview"
      BY <1>0, <2>6 DEF Compare, AdminRecord
    <3> QED
      BY <1>0, <1>1, <3>1 DEF PageInv, Page, Requested, Reading, Writing, Holding
  <2>7. CASE DropPreviews(a)
    <3>1. /\ admin'[a].pc = "register" /\ admin'[a].d = admin[a].d
          /\ admin'[a].revision = admin[a].revision /\ admin'[a].seen = admin[a].seen
          /\ admin[a].pc = "compared"
      BY <1>0, <2>7 DEF DropPreviews, AdminRecord
    <3> QED
      BY <1>0, <1>1, <3>1 DEF PageInv, Page, Requested, Reading, Writing, Holding
  <2>8. CASE Validate(a)
    <3>1. /\ admin'[a].pc = "validated" /\ admin'[a].d = admin[a].d
          /\ admin'[a].revision = admin[a].revision /\ admin'[a].seen = Page(a).rows
          /\ admin[a].pc = "publish"
      BY <1>0, <2>8 DEF Validate, AdminRecord
    <3> QED
      BY <1>0, <1>1, <3>1 DEF PageInv, Page, Requested, Reading, Writing, Holding
  <2>9. CASE WriteFile(a)
    <3>1. PICK rows \in {admin[a].seen, Page(a).rows} :
             admin' = [admin EXCEPT ![a].pc = "written", ![a].file = rows]
      BY <2>9 DEF WriteFile
    <3>2. /\ admin'[a].pc = "written" /\ admin'[a].d = admin[a].d
          /\ admin'[a].revision = admin[a].revision /\ admin'[a].seen = admin[a].seen
          /\ admin'[a].file = rows
      BY <1>0, <3>1 DEF AdminRecord
    <3>3. admin[a].pc = "validated"
      BY <2>9 DEF WriteFile
    <3> QED
      BY <1>0, <1>1, <3>2, <3>3 DEF PageInv, Page, Requested, Reading, Writing, Holding
  <2>10. CASE AwaitLocks(a)
    <3>1. /\ admin'[a].pc = "waiting" /\ admin'[a].d = admin[a].d
          /\ admin'[a].revision = admin[a].revision /\ admin'[a].seen = admin[a].seen
          /\ admin'[a].file = admin[a].file /\ admin[a].pc = "written"
      BY <1>0, <2>10 DEF AwaitLocks, AdminRecord
    <3> QED
      BY <1>0, <1>1, <3>1 DEF PageInv, Page, Requested, Reading, Writing, Holding
  <2> QED
    BY <2>1, <2>2, <2>3, <2>4, <2>5, <2>6, <2>7, <2>8, <2>9, <2>10
<1> QED
  BY <1>1, <1>2, <1>3, PageKept

LEMMA StoreSteps ==
    ASSUME TypeOK, DraftInv, NEW a \in Admins,
           Analyse(a) \/ Register(a) \/ \E p \in previews : Consume(a, p)
    PROVE  DraftInv'
<1>0. /\ admin \in [Admins -> AdminRecord] /\ admin[a] \in AdminRecord /\ PageInv(a)
      /\ \A d \in Drafts : draft[d] \in DraftRecord
      /\ admin[a].d \in Drafts => draft[admin[a].d].revision \in Nat
  BY DEF TypeOK, DraftInv, AdminsInv, DraftRecord
<1>1. CASE Analyse(a)
  <2>1. PICK rows :
           /\ admin' = [admin EXCEPT ![a].pc = "idle", ![a].seen = rows]
           /\ \/ /\ \E entry \in analyses : SameKey(entry, admin[a].d, admin[a].revision)
                                            /\ entry.rows = rows
                 /\ UNCHANGED analyses
              \/ /\ rows = draft[admin[a].d].rows
                 /\ analyses' \subseteq analyses \cup
                       {[d |-> admin[a].d, revision |-> admin[a].revision, rows |-> rows]}
    BY <1>1 DEF Analyse, Cached
  <2>2. /\ UNCHANGED <<version, origin, disk, frames, unheard, draft, previews, locked, contents>>
        /\ admin[a].pc = "viewing" /\ admin[a].d \in Drafts
        /\ \A u \in Admins \ {a} : admin'[u] = admin[u]
    BY <1>0, <1>1, <2>1 DEF Analyse, PageInv
  <2>3. /\ admin'[a].pc = "idle" /\ admin'[a].d = admin[a].d
        /\ admin'[a].revision = admin[a].revision /\ admin'[a].seen = rows
    BY <1>0, <2>1 DEF AdminRecord
  <2>4. StoredRows(admin[a].d, admin[a].revision, rows)
    <3>1. CASE rows = draft[admin[a].d].rows
      BY <1>0, <2>2, <3>1 DEF PageInv, Page, StoredRows
    <3>2. CASE \E entry \in analyses : SameKey(entry, admin[a].d, admin[a].revision)
                                       /\ entry.rows = rows
      BY <3>2 DEF DraftInv, StoresInv, SameKey
    <3> QED
      BY <2>1, <3>1, <3>2
  <2>5. StoresInv'
    <3>1. \A p \in previews' : StoredRows(p.d, p.revision, p.against)'
      BY <2>2 DEF DraftInv, StoresInv, StoredRows
    <3>2. \A entry \in analyses' : StoredRows(entry.d, entry.revision, entry.rows)'
      BY <2>1, <2>2, <2>4 DEF DraftInv, StoresInv, StoredRows
    <3> QED
      BY <3>1, <3>2 DEF StoresInv
  <2>6. PageInv(a)' /\ admin'[a].pc \notin Holding
    BY <2>2, <2>3, <2>4 DEF PageInv, Page, StoredRows, Requested, Writing, Holding
  <2> QED
    BY <2>2, <2>5, <2>6, PageKept
<1>2. CASE Register(a)
  <2> DEFINE new == [d |-> admin[a].d, revision |-> admin[a].revision,
                     by |-> a, against |-> admin[a].seen]
  <2>1. /\ UNCHANGED <<version, origin, disk, frames, unheard, draft, analyses, locked, contents>>
        /\ admin[a].pc = "register" /\ admin[a].d \in Drafts
        /\ previews' = previews \cup {new}
        /\ \A u \in Admins \ {a} : admin'[u] = admin[u]
    BY <1>0, <1>2 DEF Register, PageInv
  <2>2. /\ admin'[a].pc = "idle" /\ admin'[a].d = admin[a].d
        /\ admin'[a].revision = admin[a].revision /\ admin'[a].seen = admin[a].seen
    BY <1>0, <1>2 DEF Register, AdminRecord
  <2>3. /\ admin[a].revision <= Page(a).revision
        /\ admin[a].revision = Page(a).revision => admin[a].seen = Page(a).rows
    BY <1>0, <2>1 DEF PageInv, Reading
  <2>4. StoresInv'
    <3>1. \A entry \in analyses' : StoredRows(entry.d, entry.revision, entry.rows)'
      BY <2>1 DEF DraftInv, StoresInv, StoredRows
    <3>2. \A p \in previews' : StoredRows(p.d, p.revision, p.against)'
      BY <2>1, <2>3 DEF DraftInv, StoresInv, StoredRows, Page
    <3> QED
      BY <3>1, <3>2 DEF StoresInv
  <2>5. PageInv(a)' /\ admin'[a].pc \notin Holding
    BY <2>1, <2>2, <2>3 DEF PageInv, Page, Requested, Writing, Holding
  <2> QED
    BY <2>1, <2>4, <2>5, PageKept
<1>3. CASE \E p \in previews : Consume(a, p)
  <2>1. PICK p \in previews : Consume(a, p)
    BY <1>3
  <2>2. /\ p.d \in Drafts /\ p.revision \in Nat /\ p.against \in Nat
        /\ StoredRows(p.d, p.revision, p.against)
    BY DEF TypeOK, Preview, DraftInv, StoresInv
  <2>3. /\ UNCHANGED <<version, origin, disk, frames, unheard, draft, analyses, locked, contents>>
        /\ previews' \in SUBSET previews
        /\ \A u \in Admins \ {a} : admin'[u] = admin[u]
    BY <1>0, <2>1 DEF Consume
  <2>4. StoresInv'
    BY <2>3, StoresKept
  <2>5. PageInv(a)' /\ admin'[a].pc \notin Holding
    <3>1. CASE draft[p.d].state = "editing" /\ draft[p.d].revision = p.revision
      <4>1. /\ admin'[a].pc = "apply" /\ admin'[a].d = p.d
            /\ admin'[a].revision = p.revision /\ admin'[a].seen = p.against
        <5>1. admin'[a] = [NoPage EXCEPT !.pc = "apply", !.d = p.d,
                                         !.revision = p.revision, !.seen = p.against]
          BY <1>0, <2>1, <3>1 DEF Consume
        <5> QED
          BY <2>2, <5>1, NoPageType DEF AdminRecord
      <4> QED
        BY <2>2, <2>3, <3>1, <4>1 DEF PageInv, Page, StoredRows, Writing, Holding
    <3>2. CASE ~(draft[p.d].state = "editing" /\ draft[p.d].revision = p.revision)
      BY <1>0, <2>1, <3>2, NoPageInv DEF Consume
    <3> QED
      BY <3>1, <3>2
  <2> QED
    BY <2>3, <2>4, <2>5, PageKept
<1> QED
  BY <1>1, <1>2, <1>3

LEMMA EndSteps ==
    ASSUME TypeOK, DraftInv,
           Restart \/ \E p \in previews : Expire(p)
    PROVE  DraftInv'
<1>1. CASE Restart
  <2>1. contents' # 0 /\ DraftsInv' /\ VersionsInv'
    <3>1. FilesKept
      BY <1>1 DEF Restart, FilesKept, Readable
    <3> QED
      BY <1>1, <3>1, RowsKept DEF Restart
  <2>2. StoresInv'
    BY <1>1 DEF Restart, StoresInv
  <2>3. AdminsInv'
    BY <1>1, NoPageInv DEF Restart, AdminsInv
  <2> QED
    BY <2>1, <2>2, <2>3 DEF DraftInv
<1>2. CASE \E p \in previews : Expire(p)
  <2>1. /\ UNCHANGED <<version, origin, disk, frames, unheard, draft, analyses, admin, locked, contents>>
        /\ previews' \in SUBSET previews
    BY <1>2 DEF Expire
  <2>2. contents' # 0 /\ DraftsInv' /\ VersionsInv'
    BY <2>1, RowsKept, FilesUnchanged
  <2>3. StoresInv'
    BY <2>1, StoresKept
  <2>4. AdminsInv'
    BY <2>1 DEF DraftInv, AdminsInv, PageInv, HoldingInv, Page, ActiveFor
  <2> QED
    BY <2>2, <2>3, <2>4 DEF DraftInv
<1> QED
  BY <1>1, <1>2
-------------------------------------------------------------------------------
(* Commits. *)

\* One draft has a new revision, and nobody held its row.
Newer(d) ==
    /\ d \in Drafts
    /\ draft' \in [Drafts -> DraftRecord]
    /\ \A e \in Drafts \ {d} : draft'[e] = draft[e]
    /\ draft'[d].revision > draft[d].revision

LEMMA GrowsIsNewer == ASSUME TypeOK, NEW d, Grows(d) PROVE Newer(d)
<1>1. d \in Drafts /\ draft[d].revision \in Nat
  BY DEF Grows, TypeOK, DraftRecord
<1> QED
  BY <1>1 DEF Grows, Newer

LEMMA NewerStores ==
    ASSUME TypeOK, DraftInv, NEW d \in Drafts, Newer(d), UNCHANGED <<analyses, previews>>
    PROVE  StoresInv'
<1>1. \A r, x : StoredRows(d, r, x) /\ r \in Nat => StoredRows(d, r, x)'
  <2>1. draft[d].revision \in Nat /\ draft'[d].revision \in Nat
    BY DEF TypeOK, DraftRecord, Newer
  <2> QED
    BY <2>1 DEF StoredRows, Newer
<1>2. \A e \in Drafts \ {d} : \A r, x : StoredRows(e, r, x) => StoredRows(e, r, x)'
  BY DEF StoredRows, Newer
<1>3. /\ \A entry \in analyses : entry.d \in Drafts /\ entry.revision \in Nat
      /\ \A p \in previews : p.d \in Drafts /\ p.revision \in Nat
  BY DEF TypeOK, Analysis, Preview
<1> QED
  BY <1>1, <1>2, <1>3 DEF DraftInv, StoresInv

LEMMA NewerPage ==
    ASSUME TypeOK, DraftInv, NEW d \in Drafts, Newer(d), NEW u \in Admins, admin'[u] = admin[u],
           unheard \subseteq unheard'
    PROVE  PageInv(u)'
<1>1. PageInv(u) /\ admin[u].revision \in Nat
  BY DEF DraftInv, AdminsInv, TypeOK, AdminRecord
<1>2. CASE admin[u].d = d
  <2>1. draft[d].revision \in Nat /\ draft'[d].revision \in Nat
    BY DEF TypeOK, DraftRecord, Newer
  <2> QED
    BY <1>1, <1>2, <2>1 DEF PageInv, Page, Newer
<1>3. CASE admin[u].d # d
  BY <1>1, <1>3 DEF PageInv, Page, Newer
<1> QED
  BY <1>2, <1>3

LEMMA NewerHolding ==
    ASSUME DraftInv, NEW d \in Drafts, Newer(d), NEW u \in Admins, admin'[u] = admin[u],
           UNCHANGED <<version, disk, locked>>, admin[u].pc \in Holding => admin[u].d # d
    PROVE  HoldingInv(u)'
<1>1. PageInv(u) /\ HoldingInv(u)
  BY DEF DraftInv, AdminsInv
<1>2. admin[u].pc \in Holding => Page(u)' = Page(u)
  BY <1>1 DEF PageInv, Page, Newer, Holding
<1>3. admin[u].pc \in Holding => ActiveFor(u)' = ActiveFor(u)
  BY <1>2 DEF ActiveFor
<1> QED
  BY <1>1, <1>2, <1>3 DEF HoldingInv

LEMMA NobodyHolds ==
    ASSUME DraftInv, locked = NoAdmin
    PROVE  \A u \in Admins : admin[u].pc \notin Holding
  BY Constants DEF DraftInv, AdminsInv, HoldingInv

LEMMA OneHolds ==
    ASSUME DraftInv, NEW a \in Admins, admin[a].pc \in Holding
    PROVE  \A u \in Admins \ {a} : admin[u].pc \notin Holding
  BY DEF DraftInv, AdminsInv, HoldingInv

LEMMA CreateStep ==
    ASSUME TypeOK, DraftInv, NEW a \in Admins, Create(a), TypeOK'
    PROVE  DraftInv'
<1>0. /\ admin \in [Admins -> AdminRecord]
      /\ UNCHANGED <<version, origin, disk, frames, unheard, analyses, previews, locked, contents>>
      /\ locked = NoAdmin
      /\ draft' \in [Drafts -> DraftRecord]
  BY DEF TypeOK, Create
<1>1. PICK d \in Drafts :
        /\ \/ draft[d].state = "editing" /\ UNCHANGED draft
           \/ /\ \A e \in Drafts : draft[e].state # "editing"
              /\ draft[d].state = "absent"
              /\ \E v \in Versions :
                    /\ version[v] = "active"
                    /\ \E rows \in Readable(v) :
                          draft' = [draft EXCEPT ![d] = [state |-> "editing", base |-> v,
                                                         revision |-> 1, rows |-> rows]]
        /\ admin' = [admin EXCEPT ![a] =
                       [NoPage EXCEPT !.pc = "viewing", !.d = d, !.revision = draft'[d].revision]]
  BY DEF Create
<1>2. \A u \in Admins \ {a} : admin'[u] = admin[u]
  BY <1>0, <1>1
<1>3. PageInv(a)' /\ admin'[a].pc \notin Holding
  <2>1. draft'[d].revision \in Nat
    BY <1>0 DEF DraftRecord
  <2>2. /\ admin'[a].pc = "viewing" /\ admin'[a].d = d
        /\ admin'[a].revision = draft'[d].revision
    BY <1>0, <1>1, <2>1, OpenedPage, ZenonT(40)
  <2> QED
    BY <2>1, <2>2 DEF PageInv, Page, Requested, Writing, Holding
<1>4. CASE UNCHANGED draft
  <2>1. StoresInv'
    BY <1>0, <1>4, StoresKept
  <2> QED
    BY <1>0, <1>2, <1>3, <1>4, <2>1, PageKept
<1>5. CASE ~UNCHANGED draft
  <2>1. PICK v \in Versions, rows \in Nat \ {NoFile} :
           /\ version[v] = "active"
           /\ draft' = [draft EXCEPT ![d] = [state |-> "editing", base |-> v,
                                            revision |-> 1, rows |-> rows]]
    BY <1>1, <1>5 DEF Readable, TypeOK
  <2>2. /\ \A e \in Drafts : draft[e].state # "editing"
        /\ draft[d].state = "absent" /\ draft[d].revision = 0
    BY <1>1, <1>5 DEF DraftInv, DraftsInv
  <2>3. /\ draft'[d].state = "editing" /\ draft'[d].base = v
        /\ draft'[d].revision = 1 /\ draft'[d].rows = rows
        /\ \A e \in Drafts \ {d} : draft'[e] = draft[e]
    BY <2>1 DEF TypeOK
  <2>4. Newer(d)
    BY <1>0, <2>2, <2>3 DEF Newer
  <2>5. rows # NoFile
    BY <2>1
  <2>6. DraftsInv'
    BY <1>0, <2>1, <2>2, <2>3, <2>5 DEF DraftInv, DraftsInv
  <2>7. VersionsInv'
    <3>1. \A w \in Versions : origin[w] # NoDraft => version[w] # "absent" /\ origin[w] \in Drafts
      BY DEF DraftInv, VersionsInv, TypeOK
    <3>2. \A w \in Versions : origin[w] # NoDraft => origin[w] \in Drafts \ {d}
      BY <2>2, <3>1 DEF DraftInv, VersionsInv, PublishedFiles
    <3>3. /\ OneActive'
          /\ \A w \in Versions : version'[w] = "absent" => origin'[w] = NoDraft /\ frames'[w] = NoFile
          /\ \A w \in unheard' : version'[w] # "absent"
      BY <1>0 DEF DraftInv, VersionsInv, OneActive
    <3>4. PublishedFiles' /\ OneDraftEach'
      BY <1>0, <2>3, <3>2 DEF DraftInv, VersionsInv, PublishedFiles, OneDraftEach, Readable
    <3> QED
      BY <3>3, <3>4 DEF VersionsInv
  <2>8. StoresInv'
    BY <1>0, <2>4, NewerStores
  <2>9. AdminsInv'
    <3>1. \A u \in Admins \ {a} : PageInv(u)' /\ HoldingInv(u)'
      BY <1>0, <1>2, <2>4, NewerPage, NewerHolding, NobodyHolds
    <3> QED
      BY <1>3, <3>1 DEF AdminsInv, HoldingInv
  <2> QED
    BY <1>0, <2>6, <2>7, <2>8, <2>9 DEF DraftInv
<1> QED
  BY <1>4, <1>5

\* The draft of a changes its rows, or is discarded.
LEMMA ChangeSteps ==
    ASSUME TypeOK, DraftInv, NEW a \in Admins, CommitRows(a) \/ CommitDiscard(a)
    PROVE  DraftInv'
<1>0. /\ admin \in [Admins -> AdminRecord] /\ admin[a] \in AdminRecord /\ PageInv(a)
      /\ UNCHANGED <<version, origin, disk, frames, unheard, analyses, previews, locked>>
      /\ \A u \in Admins \ {a} : admin'[u] = admin[u]
      /\ RowFree(admin[a].d) /\ SameRevision(a)
      /\ admin[a].pc \in {"edit", "apply", "discard"}
  BY DEF TypeOK, DraftInv, AdminsInv, CommitRows, CommitDiscard, CommitChange
<1>1. PICK d \in Drafts : d = admin[a].d
  BY <1>0 DEF PageInv
<1>2. /\ draft[d].state = "editing" /\ draft[d].rows # NoFile
      /\ version[draft[d].base] = "active"
      /\ admin[a].revision = draft[d].revision
      /\ draft[d].revision \in Nat
  BY <1>0, <1>1 DEF PageInv, Requested, SameRevision, Page, DraftInv, DraftsInv, TypeOK, DraftRecord
<1>3. /\ Grows(d) /\ draft'[d].state \in {"editing", "discarded"} /\ draft'[d].rows # NoFile
      /\ contents' # 0
  <2>1. CASE CommitRows(a)
    <3>1. contents' = contents + 1 /\ contents \in Nat
      BY <2>1 DEF CommitRows, TypeOK
    <3> QED
      BY <1>1, <1>2, <2>1, <3>1, RowsCommitted DEF NoFile
  <2>2. CASE CommitDiscard(a)
    BY <1>1, <1>2, <2>2, DiscardCommitted DEF CommitDiscard, DraftInv
  <2> QED
    BY <2>1, <2>2
<1>4. Newer(d)
  BY <1>3, GrowsIsNewer
<1>5. DraftsInv'
  BY <1>0, <1>2, <1>3 DEF DraftInv, DraftsInv, Grows
<1>6. VersionsInv'
  <2>1. \A w \in Versions : origin[w] # NoDraft => version[w] # "absent" /\ origin[w] \in Drafts
    BY DEF DraftInv, VersionsInv, TypeOK
  <2>2. \A w \in Versions : origin[w] # NoDraft => origin[w] \in Drafts \ {d}
    BY <1>2, <2>1 DEF DraftInv, VersionsInv, PublishedFiles
  <2>3. /\ OneActive'
        /\ \A w \in Versions : version'[w] = "absent" => origin'[w] = NoDraft /\ frames'[w] = NoFile
        /\ \A w \in unheard' : version'[w] # "absent"
    BY <1>0 DEF DraftInv, VersionsInv, OneActive
  <2>4. PublishedFiles' /\ OneDraftEach'
    BY <1>0, <1>3, <2>2 DEF DraftInv, VersionsInv, PublishedFiles, OneDraftEach, Grows, Readable
  <2> QED
    BY <2>3, <2>4 DEF VersionsInv
<1>7. StoresInv'
  BY <1>0, <1>4, NewerStores
<1>8. PageInv(a)' /\ admin'[a].pc \notin Holding
  <2>1. CASE CommitRows(a)
    <3>1. /\ admin'[a].pc = "refresh" /\ admin'[a].d = d
          /\ admin'[a].revision = admin[a].revision + 1 /\ admin'[a].seen = contents'
      BY <1>0, <1>1, <2>1 DEF CommitRows, AdminRecord
    <3>2. /\ draft'[d].revision = draft[d].revision + 1
          /\ draft'[d].rows = contents'
      BY <1>1, <2>1, RowsCommitted DEF Grows
    <3> QED
      BY <1>2, <3>1, <3>2 DEF PageInv, Page, Requested, Writing, Holding
  <2>2. CASE CommitDiscard(a)
    <3>1. /\ admin'[a].pc = "refresh" /\ admin'[a].d = d
          /\ admin'[a].revision = admin[a].revision
      BY <1>0, <1>1, <2>2 DEF CommitDiscard, AdminRecord
    <3> QED
      BY <1>2, <1>3, <3>1 DEF PageInv, Page, Requested, Writing, Holding, Grows
  <2> QED
    BY <2>1, <2>2
<1>9. AdminsInv'
  <2>1. \A u \in Admins : admin[u].pc \in Holding => admin[u].d # d
    BY <1>0, <1>1 DEF RowFree, Holding
  <2>2. \A u \in Admins \ {a} : PageInv(u)' /\ HoldingInv(u)'
    BY <1>0, <1>4, <2>1, NewerPage, NewerHolding
  <2> QED
    BY <1>8, <2>2 DEF AdminsInv, HoldingInv
<1> QED
  BY <1>3, <1>5, <1>6, <1>7, <1>9 DEF DraftInv

LEMMA FlushStep ==
    ASSUME TypeOK, DraftInv, NEW a \in Admins, FlushPublication(a)
    PROVE  DraftInv'
<1>0. /\ admin \in [Admins -> AdminRecord] /\ admin[a] \in AdminRecord /\ PageInv(a)
      /\ UNCHANGED <<version, origin, disk, frames, unheard, draft, analyses, previews, contents>>
      /\ admin[a].pc = "waiting" /\ locked = NoAdmin /\ admin[a].d \in Drafts
      /\ \A u \in Admins \ {a} : admin'[u] = admin[u]
  BY DEF TypeOK, DraftInv, AdminsInv, FlushPublication, PageInv
<1>1. contents' # 0 /\ DraftsInv' /\ VersionsInv'
  BY <1>0, RowsKept, FilesUnchanged
<1>2. StoresInv'
  BY <1>0, StoresKept
<1>3. \A u \in Admins \ {a} : PageInv(u)' /\ HoldingInv(u)'
  <2>1. \A u \in Admins \ {a} : PageInv(u)'
    BY <1>0 DEF DraftInv, AdminsInv, PageInv, Page
  <2> QED
    BY <1>0, <2>1, NobodyHolds DEF HoldingInv
<1>4. PageInv(a)' /\ HoldingInv(a)'
  <2>1. CASE MayPublishDraft(a)
    <3>1. PICK v \in Versions :
             /\ version[v] = "absent" /\ locked' = a
             /\ admin' = [admin EXCEPT ![a].pc = "flushed", ![a].v = v]
      BY <2>1 DEF FlushPublication
    <3>2. /\ admin'[a].pc = "flushed" /\ admin'[a].v = v /\ admin'[a].d = admin[a].d
          /\ admin'[a].revision = admin[a].revision /\ admin'[a].seen = admin[a].seen
          /\ admin'[a].file = admin[a].file /\ admin'[a].active = admin[a].active
          /\ admin'[a].snap = admin[a].snap
      BY <1>0, <3>1 DEF AdminRecord
    <3>3. Page(a)' = Page(a) /\ ActiveFor(a)' = ActiveFor(a)
      BY <1>0, <3>2 DEF Page, ActiveFor
    <3>4. PageInv(a)'
      BY <1>0, <3>2, <3>3 DEF PageInv, Requested, Reading, Writing
    <3>5. HoldingInv(a)'
      BY <1>0, <2>1, <3>1, <3>2, <3>3 DEF HoldingInv, MayPublishDraft, SameRevision
    <3> QED
      BY <3>4, <3>5
  <2>2. CASE ~MayPublishDraft(a)
    BY <1>0, <2>2, NoPageInv DEF FlushPublication
  <2> QED
    BY <2>1, <2>2
<1> QED
  BY <1>1, <1>2, <1>3, <1>4 DEF DraftInv, AdminsInv

LEMMA PromoteSteps ==
    ASSUME TypeOK, DraftInv, NEW a \in Admins, Promote(a) \/ RollBack(a)
    PROVE  DraftInv'
<1>0. /\ admin \in [Admins -> AdminRecord] /\ admin[a] \in AdminRecord
      /\ PageInv(a) /\ HoldingInv(a)
      /\ UNCHANGED <<version, origin, frames, unheard, draft, analyses, previews, contents>>
      /\ admin[a].pc \in Holding
      /\ \A u \in Admins \ {a} : admin'[u] = admin[u]
  BY DEF TypeOK, DraftInv, AdminsInv, Promote, RollBack, Holding
<1>1. contents' # 0 /\ DraftsInv' /\ VersionsInv'
  <2>1. \A v \in Versions : version[v] # "absent" => disk'[v] = disk[v]
    BY <1>0 DEF Promote, RollBack, HoldingInv, TypeOK
  <2>2. FilesKept
    BY <1>0, <2>1 DEF FilesKept, Readable
  <2> QED
    BY <1>0, <2>2, RowsKept
<1>2. StoresInv'
  BY <1>0, StoresKept
<1>3. \A u \in Admins \ {a} : PageInv(u)' /\ HoldingInv(u)'
  <2>1. \A u \in Admins \ {a} : PageInv(u)'
    BY <1>0 DEF DraftInv, AdminsInv, PageInv, Page
  <2> QED
    BY <1>0, <2>1, OneHolds DEF HoldingInv
<1>4. PageInv(a)' /\ HoldingInv(a)'
  <2>1. CASE Promote(a)
    <3>1. /\ admin'[a].pc = "linked" /\ admin'[a].v = admin[a].v /\ admin'[a].d = admin[a].d
          /\ admin'[a].revision = admin[a].revision /\ admin'[a].seen = admin[a].seen
          /\ admin'[a].file = admin[a].file /\ admin'[a].active = admin[a].active
          /\ admin'[a].snap = admin[a].snap
      BY <1>0, <2>1 DEF Promote, AdminRecord
    <3>2. Page(a)' = Page(a) /\ ActiveFor(a)' = ActiveFor(a)
      BY <1>0, <3>1 DEF Page, ActiveFor
    <3>3. PageInv(a)'
      BY <1>0, <3>1, <3>2 DEF PageInv, Requested, Reading, Writing, Holding
    <3>4. disk'[admin[a].v] = admin[a].file /\ locked' = locked
      BY <1>0, <2>1 DEF Promote, TypeOK, AdminRecord
    <3>5. HoldingInv(a)'
      BY <1>0, <3>1, <3>2, <3>4 DEF HoldingInv
    <3> QED
      BY <3>3, <3>5
  <2>2. CASE RollBack(a)
    BY <1>0, <2>2, NoPageInv DEF RollBack
  <2> QED
    BY <2>1, <2>2
<1> QED
  BY <1>1, <1>2, <1>3, <1>4 DEF DraftInv, AdminsInv

\* The file of a version whose commit was not heard of goes.
LEMMA RemoveStep ==
    ASSUME TypeOK, DraftInv, NEW a \in Admins, RemoveUnheard(a)
    PROVE  DraftInv'
<1>0. /\ admin \in [Admins -> AdminRecord] /\ admin[a] \in AdminRecord /\ PageInv(a)
      /\ UNCHANGED <<version, origin, unheard, draft, analyses, previews, locked, contents>>
      /\ \A u \in Admins \ {a} : admin'[u] = admin[u]
      /\ admin'[a] = NoPage
  BY DEF TypeOK, DraftInv, AdminsInv, RemoveUnheard
<1>1. PICK v \in unheard : v = admin[a].v
  BY DEF DraftInv, AdminsInv, PageInv, RemoveUnheard
<1>2. /\ v \in Versions /\ version[v] # "absent"
      /\ disk'[v] = NoFile /\ frames'[v] = disk[v]
      /\ \A w \in Versions \ {v} : disk'[w] = disk[w] /\ frames'[w] = frames[w]
  BY <1>1 DEF TypeOK, DraftInv, VersionsInv, RemoveUnheard
<1>3. FilesKept
  BY <1>0, <1>1, <1>2 DEF FilesKept, Readable
<1>4. contents' # 0 /\ DraftsInv' /\ VersionsInv'
  BY <1>0, <1>3, RowsKept
<1>5. StoresInv'
  BY <1>0, StoresKept
<1>6. \A u \in Admins \ {a} : PageInv(u)' /\ HoldingInv(u)'
  <2>1. \A u \in Admins : admin[u].pc \in Holding => admin[u].v \in Versions \ {v}
    BY <1>2 DEF DraftInv, AdminsInv, HoldingInv, TypeOK, AdminRecord
  <2> QED
    BY <1>0, <1>2, <2>1, OthersKept
<1> QED
  BY <1>0, <1>4, <1>5, <1>6, NoPageInv DEF DraftInv, AdminsInv

LEMMA PublishStep ==
    ASSUME TypeOK, DraftInv, NEW a \in Admins, CommitPublication(a)
    PROVE  DraftInv'
<1>0. /\ admin \in [Admins -> AdminRecord] /\ admin[a] \in AdminRecord
      /\ PageInv(a) /\ HoldingInv(a)
      /\ UNCHANGED <<disk, frames, analyses, previews, contents>>
      /\ unheard' \in {unheard, unheard \cup {admin[a].v}}
      /\ admin[a].pc = "linked" /\ admin[a].pc \in Holding
      /\ \A u \in Admins \ {a} : admin'[u] = admin[u]
  BY DEF TypeOK, DraftInv, AdminsInv, CommitPublication, Holding
<1>1. PICK d \in Drafts : d = admin[a].d
  BY <1>0 DEF PageInv
<1>2. PICK v \in Versions : v = admin[a].v
  BY <1>0 DEF AdminRecord
<1>3. /\ admin[a].revision = draft[d].revision /\ draft[d].revision \in Nat
      /\ draft[d].state = "editing" /\ admin[a].file = draft[d].rows
      /\ ActiveFor(a) = {draft[d].base}
      /\ version[v] = "absent" /\ disk[v] = admin[a].file /\ frames[v] = NoFile
      /\ draft[d].base \in Versions
  BY <1>0, <1>1, <1>2 DEF DraftInv, VersionsInv, PageInv, HoldingInv, Holding, Requested, Writing,
     Page, TypeOK, DraftRecord
<1>4. PICK base \in Versions : base = draft[d].base
  BY <1>3
<1>5. /\ version[base] = "active" /\ draft[d].rows # NoFile
      /\ \A w \in Versions : version[w] = "active" <=> w = base
      /\ \A e \in Drafts : draft[e].state = "editing" => e = d
  BY <1>3, <1>4 DEF DraftInv, DraftsInv, VersionsInv, OneActive
<1>6. /\ version'[v] = "active" /\ version'[base] = "inactive"
      /\ \A w \in Versions \ {v, base} : version'[w] = version[w]
      /\ \A w \in Versions : version'[w] = "active" <=> w = v
  BY <1>2, <1>3, <1>4, <1>5 DEF CommitPublication
<1>7. origin'[v] = d /\ \A w \in Versions \ {v} : origin'[w] = origin[w]
  BY <1>1, <1>2 DEF CommitPublication, TypeOK
<1>8. Grows(d) /\ draft'[d].state = "published" /\ draft'[d].rows = draft[d].rows
  BY <1>1, PublicationCommitted
<1>9. DraftsInv'
  <2>1. \A e \in Drafts \ {d} : draft'[e] = draft[e] /\ draft'[e].base \in Versions
                                /\ draft'[e].state # "editing"
    BY <1>5, <1>8 DEF Grows, DraftRecord
  <2>2. \A e \in Drafts \ {d} : draft'[e].state = "published" => version'[draft'[e].base] = "inactive"
    <3>1. \A e \in Drafts \ {d} : draft[e].state = "published" => version[draft[e].base] = "inactive"
      BY DEF DraftInv, DraftsInv
    <3> QED
      BY <1>3, <1>6, <2>1, <3>1
  <2>3. draft'[d].base = base /\ draft'[d].state = "published"
    BY <1>4, <1>8 DEF Grows
  <2>4. \A e \in Drafts : draft'[e].state = "absent" => draft'[e].revision = 0
    BY <2>1, <2>3 DEF DraftInv, DraftsInv
  <2> QED
    BY <1>6, <2>1, <2>2, <2>3, <2>4 DEF DraftsInv
<1>10. VersionsInv'
  <2>1. \A w \in Versions : origin[w] # NoDraft =>
           /\ w # v /\ origin[w] \in Drafts \ {d} /\ draft[origin[w]].state = "published"
           /\ draft'[origin[w]] = draft[origin[w]] /\ version[w] # "absent"
    BY <1>3, <1>8 DEF DraftInv, VersionsInv, PublishedFiles, TypeOK, Grows
  <2>2. OneActive'
    BY <1>6 DEF OneActive
  <2>3. \A w \in Versions : version'[w] = "absent" => version[w] = "absent" /\ w # v
    BY <1>6
  <2>4. \A w \in Versions : version'[w] = "absent" => origin'[w] = NoDraft /\ frames'[w] = NoFile
    BY <1>0, <1>7, <2>3 DEF DraftInv, VersionsInv
  <2>7. \A w \in unheard' : version'[w] # "absent"
    BY <1>0, <1>2, <1>5, <1>6 DEF DraftInv, VersionsInv, TypeOK
  <2>5. PublishedFiles'
    <3>1. disk'[v] # NoFile /\ draft'[origin'[v]].state = "published"
          /\ Readable(v)' = {draft'[origin'[v]].rows}
      BY <1>0, <1>3, <1>5, <1>7, <1>8 DEF Readable
    <3>2. \A w \in Versions \ {v} : version'[w] # "absent" => version[w] # "absent"
      BY <1>5, <1>6
    <3>3. \A w \in Versions \ {v} : version'[w] # "absent" =>
             /\ w \notin unheard' => disk'[w] # NoFile
             /\ origin'[w] # NoDraft =>
                   /\ draft'[origin'[w]].state = "published"
                   /\ \A rows \in Readable(w)' : rows = draft'[origin'[w]].rows
      BY <1>0, <1>7, <2>1, <3>2 DEF DraftInv, VersionsInv, PublishedFiles, Readable
    <3> QED
      BY <3>1, <3>3 DEF PublishedFiles
  <2>6. OneDraftEach'
    <3>1. \A w \in Versions \ {v} : origin'[w] # NoDraft => draft'[origin'[w]].base # base
      BY <1>5, <1>7, <2>1 DEF DraftInv, DraftsInv
    <3>2. draft'[origin'[v]].base = base
      BY <1>4, <1>7, <1>8 DEF Grows
    <3>3. \A w, x \in Versions \ {v} : origin'[w] # NoDraft /\ origin'[x] # NoDraft /\ w # x
             => draft'[origin'[w]].base # draft'[origin'[x]].base
      BY <1>7, <2>1 DEF DraftInv, VersionsInv, OneDraftEach
    <3> QED
      BY <3>1, <3>2, <3>3 DEF OneDraftEach
  <2> QED
    BY <2>2, <2>4, <2>5, <2>6, <2>7 DEF VersionsInv
<1>11. Newer(d)
  BY <1>8, GrowsIsNewer
<1>12. StoresInv'
  BY <1>0, <1>11, NewerStores
<1>13. PageInv(a)' /\ admin'[a].pc \notin Holding
  <2>1. /\ admin'[a].pc \in {"refresh", "unheard"} /\ admin'[a].d = d
        /\ admin'[a].revision = admin[a].revision
        /\ admin'[a].pc = "unheard" => admin'[a].v \in unheard'
    BY <1>0, <1>1 DEF CommitPublication, AdminRecord
  <2> QED
    BY <1>3, <1>8, <2>1 DEF PageInv, Page, Requested, Writing, Holding, Grows
<1>14. AdminsInv'
  <2>1. \A u \in Admins \ {a} : PageInv(u)'
    BY <1>0, <1>11, NewerPage
  <2>2. \A u \in Admins : HoldingInv(u)'
    BY <1>0, <1>13, OneHolds DEF HoldingInv
  <2> QED
    BY <1>13, <2>1, <2>2 DEF AdminsInv
<1> QED
  BY <1>0, <1>9, <1>10, <1>12, <1>14 DEF DraftInv

-------------------------------------------------------------------------------
LEMMA StutterStep == ASSUME TypeOK, DraftInv, UNCHANGED vars PROVE TypeOK' /\ DraftInv'
<1>1. TypeOK'
  BY DEF vars, TypeOK
<1>2. contents' # 0 /\ DraftsInv' /\ VersionsInv'
  BY RowsKept, FilesUnchanged DEF vars
<1>3. StoresInv'
  BY StoresKept DEF vars
<1>4. AdminsInv'
  BY DEF vars, DraftInv, AdminsInv, PageInv, HoldingInv, Page, ActiveFor
<1> QED
  BY <1>1, <1>2, <1>3, <1>4 DEF DraftInv

LEMMA DraftStep == TypeOK /\ DraftInv /\ [Next]_vars => TypeOK' /\ DraftInv'
<1> SUFFICES ASSUME TypeOK, DraftInv, [Next]_vars PROVE TypeOK' /\ DraftInv'
  OBVIOUS
<1>0. \A a \in Admins : admin[a].pc # "idle" => admin[a].d \in Drafts
  BY DEF DraftInv, AdminsInv, PageInv
<1>1. ASSUME NEW a \in Admins,
             \/ \E d \in Drafts : View(a, d)
             \/ \E request \in Requests : Load(a, request)
             \/ Refused(a) \/ Unanswered(a) \/ Refresh(a) \/ Cleanup(a) \/ Compare(a)
             \/ DropPreviews(a)
             \/ Validate(a) \/ WriteFile(a) \/ AwaitLocks(a)
      PROVE  TypeOK' /\ DraftInv'
  <2>1. TypeOK'
    BY <1>0, <1>1, TypeOfPages
  <2>2. DraftInv'
    BY <1>1, PageSteps
  <2> QED
    BY <2>1, <2>2
<1>2. ASSUME NEW a \in Admins, Analyse(a) \/ Register(a) \/ \E p \in previews : Consume(a, p)
      PROVE  TypeOK' /\ DraftInv'
  <2>1. TypeOK'
    BY <1>0, <1>2, TypeOfStores
  <2>2. DraftInv'
    BY <1>2, StoreSteps
  <2> QED
    BY <2>1, <2>2
<1>3. ASSUME NEW a \in Admins, Create(a) PROVE TypeOK' /\ DraftInv'
  <2>1. TypeOK'
    BY <1>0, <1>3, TypeOfPages
  <2> QED
    BY <1>3, <2>1, CreateStep
<1>4. ASSUME NEW a \in Admins, FlushPublication(a) PROVE TypeOK' /\ DraftInv'
  <2>1. TypeOK'
    BY <1>0, <1>4, TypeOfPages
  <2> QED
    BY <1>4, <2>1, FlushStep
<1>5. ASSUME NEW a \in Admins,
             \/ CommitRows(a) \/ CommitDiscard(a) \/ Promote(a) \/ CommitPublication(a)
             \/ RollBack(a) \/ RemoveUnheard(a)
      PROVE  TypeOK' /\ DraftInv'
  <2>1. TypeOK'
    BY <1>0, <1>5, TypeOfCommits
  <2>2. DraftInv'
    BY <1>5, ChangeSteps, PromoteSteps, RemoveStep, PublishStep
  <2> QED
    BY <2>1, <2>2
<1>6. ASSUME Restart \/ \E p \in previews : Expire(p) PROVE TypeOK' /\ DraftInv'
  <2>1. DraftInv'
    BY <1>6, EndSteps
  <2>2. TypeOK'
    BY <1>6, NoPageType, Constants DEF Restart, Fails, Expire, TypeOK
  <2> QED
    BY <2>1, <2>2
<1>7. CASE UNCHANGED vars
  BY <1>7, StutterStep
<1> QED
  BY <1>1, <1>2, <1>3, <1>4, <1>5, <1>6, <1>7 DEF Next

LEMMA DraftInvariant == Spec => [](TypeOK /\ DraftInv)
<1>1. Init => TypeOK /\ DraftInv
  BY TypeInit, InvInit
<1> QED
  BY <1>1, DraftStep, PTL DEF Spec

-------------------------------------------------------------------------------
(* Theorems. *)

\* Every reachable state of versions, drafts, caches and requests is well typed.
THEOREM DraftTypeCorrect == Spec => []TypeOK
  BY DraftInvariant, PTL

\* A change that the database accepts was made by somebody who has seen the rows it
\* changes, although pages, previews and analyses are filled in steps, without locks.
THEOREM ChangesOfSeenRows == Spec => []ChangesBuildOnSeen
<1>1. TypeOK /\ DraftInv => ChangesBuildOnSeen
  BY DEF DraftInv, AdminsInv, PageInv, ChangesBuildOnSeen, MayChange, SameRevision
<1> QED
  BY <1>1, DraftInvariant, PTL

\* All that can be read of a version are the final rows of the draft it was published
\* from, whatever was edited, restarted or rolled back meanwhile, and its file is there
\* unless the commit of its publication was not heard of.
THEOREM FilesOfPublications == Spec => []PublishedFiles
<1>1. DraftInv => PublishedFiles
  BY DEF DraftInv, VersionsInv
<1> QED
  BY <1>1, DraftInvariant, PTL

\* One version is active at every moment, each publication replaced the base of its draft
\* and no other did, and the draft being edited starts from the active version.
THEOREM HistoryIsLinear == Spec => []LinearHistory
<1>1. TypeOK /\ DraftInv => LinearHistory
  <2> SUFFICES ASSUME DraftInv PROVE LinearHistory
    OBVIOUS
  <2>1. Cardinality({v \in Versions : version[v] = "active"}) = 1
    <3>1. PICK v \in Versions : \A w \in Versions : version[w] = "active" <=> w = v
      BY DEF DraftInv, VersionsInv, OneActive
    <3>2. {w \in Versions : version[w] = "active"} = {v}
      BY <3>1
    <3> QED
      BY <3>2, FS_Singleton
  <2> QED
    BY <2>1 DEF DraftInv, DraftsInv, VersionsInv, OneDraftEach, LinearHistory
<1> QED
  BY <1>1, DraftInvariant, PTL
===============================================================================
