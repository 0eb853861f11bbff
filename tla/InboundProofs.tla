----------------------------- MODULE InboundProofs -----------------------------
(***************************************************************************)
(* Theorems about InboundAllocation, for all items, files, sites, delivery   *)
(* numbers and bounds: the inductive invariant InboundInv says what the      *)
(* order of the ERP is to the snapshot of a batch and what the files so far  *)
(* have been given out of it.                                               *)
(***************************************************************************)
EXTENDS InboundAllocation, Sums

Serving == {"normal", "rule", "target", "rest"}
Computing == {"files"} \cup Serving
Serves(f) == phase \in Serving /\ file = f

\* What all files give to an item.
GivenTo(i) == SumFunction([f \in Files |-> Imported(f, i)])

\* What the results stand for in the ERP: nothing yet, exactly what was given, or
\* something a request has overtaken.
SnapshotInv ==
    /\ phase \notin {"prepare", "draft"} => snapshot # None
    /\ entered = "nothing" /\ snapshot # None => order = snapshot
    /\ entered = "this" =>
          \/ phase = "prepare" /\ snapshot = None
          \/ /\ phase = "done"
             /\ \A i \in Items : order[i].history = snapshot[i].history + GivenTo(i)

\* After preflight the receipts are what it would find again, and nothing is in doubt.
ReceiptsInv ==
    phase \notin {"prepare", "draft"} =>
        \A f \in Files : receipt[f] = Checked(f) /\ receipt[f].state # "issue"

Untouched(f) == given[f] = NothingGiven /\ pending[f] = NothingPending
Settled(f) == receipt[f].requested = ImportTotal(f) + pending[f].quantity

\* Where the loop over the files is.
FilesInv ==
    /\ phase # "refused"
    /\ phase \in {"prepare", "draft", "compute"} => \A f \in Files : Untouched(f)
    /\ phase \in Computing =>
          /\ file \in 1..(NumFiles + 1)
          /\ \A f \in Files : (f < file => Settled(f)) /\ (f > file => Untouched(f))
    /\ phase = "files" => \A f \in Files : f = file => Untouched(f)
    /\ phase \in Serving => file \in Files
    /\ \A f \in Files : Serves(f) =>
          /\ receipt[f].state = "confirmed" /\ Candidates(f) # {}
          /\ pending[f] = NothingPending
          /\ receipt[f].requested = ImportTotal(f) + left
    /\ phase = "done" => \A f \in Files : Settled(f)

\* Only items of the file are given anything, and only those with a row additions.
PlacesInv ==
    \A f \in Files, i \in Items :
        given[f][i] # [normal |-> 0, rule |-> 0, target |-> 0] =>
            /\ receipt[f].state = "confirmed" /\ i \in Candidates(f)
            /\ HasRow(given[f][i])

TodoInv ==
    \A f \in Files : Serves(f) =>
        /\ phase = "normal" => todo \subseteq Candidates(f) /\ todo # {}
        /\ phase = "rule" => todo = {}
        /\ phase = "target" => todo \subseteq Rows(f) /\ todo # {}

\* What a file that is not served yet has used up.
LeftInv ==
    \A f \in Files : Serves(f) /\ left > 0 =>
        /\ \A i \in Candidates(f) :
              /\ phase # "normal" \/ i \notin todo => balance[i] = 0
              /\ phase \in {"target", "rest"} => allowance[snapshot[i].site] = 0
        /\ \A i \in Rows(f) :
              phase = "rest" \/ (phase = "target" /\ i \notin todo) => addition[i] = 0

Ordered(f, i) ==
    /\ given[f][i].normal > 0 => \A j \in Candidates(f) : j < i => balance[j] = 0
    /\ given[f][i].rule > 0 => \A j \in Candidates(f) : balance[j] = 0
    /\ given[f][i].target > 0 => allowance[snapshot[i].site] = 0
    /\ pending[f].quantity > 0 =>
          /\ \A j \in Candidates(f) : balance[j] = 0
          /\ allowance[snapshot[i].site] = 0 /\ addition[i] = 0

\* SourcesInOrder at every moment.
OrderInv == \A f \in Files : \A i \in Served(f) : Ordered(f, i)

At(s) == {i \in Items : snapshot[i].site = s}

\* What was given and what is left make up what there was.
LimitsInv ==
    phase \in Computing \cup {"done"} =>
        /\ \A i \in Items :
              /\ GivenAs("normal", {i}) + balance[i] = Receivable(i)
              /\ GivenAs("target", {i}) + addition[i] = target[i]
        /\ \A s \in Sites : GivenAs("rule", At(s)) + allowance[s] = Limit + extra[s]

InboundInv ==
    /\ TypeOK
    /\ SnapshotInv
    /\ ReceiptsInv
    /\ FilesInv
    /\ PlacesInv
    /\ TodoInv
    /\ LeftInv
    /\ OrderInv
    /\ LimitsInv

-------------------------------------------------------------------------------
(* Facts about preflight. *)

Sources == {"normal", "rule", "target"}

LEMMA Finite == IsFiniteSet(Items) /\ IsFiniteSet(Files)
  BY InboundAssumption, FS_Interval DEF Items, Files

LEMMA LeastFacts ==
    ASSUME NEW a \in Nat, NEW b \in Nat
    PROVE  /\ Least(a, b) \in Nat
           /\ Least(a, b) <= a /\ Least(a, b) <= b
           /\ Least(a, b) = a \/ Least(a, b) = b
  BY DEF Least

\* Preflight depends on files, choices and the snapshot only.
LEMMA SameData ==
    ASSUME delivery' = delivery, known' = known, choice' = choice, snapshot' = snapshot
    PROVE  /\ \A f \in Files : /\ Matches(f)' = Matches(f)
                               /\ Candidates(f)' = Candidates(f)
                               /\ Checked(f)' = Checked(f)
           /\ \A i \in Items : Receivable(i)' = Receivable(i)
           /\ \A s \in Sites : At(s)' = At(s)
<1>1. \A f \in Files : /\ Numbered(f)' = Numbered(f)
                       /\ Complete(f)' = Complete(f)
                       /\ HasLine(f)' = HasLine(f)
  BY DEF Numbered, Complete, HasLine
<1>2. \A f \in Files : Narrowed(f)' = Narrowed(f)
  BY <1>1 DEF Narrowed
<1>3. \A f \in Files : FullSite(f)' = FullSite(f) /\ OutOfRange(f)' = OutOfRange(f)
  BY <1>2 DEF FullSite, OutOfRange
<1>4. \A f \in Files : Matches(f)' = Matches(f)
  BY <1>1, <1>3 DEF Matches
<1>5. \A f \in Files : History(f)' = History(f)
  BY <1>4 DEF History, Received
<1>6. \A f \in Files : HasIssue(f)' = HasIssue(f)
  BY <1>1, <1>3, <1>4, <1>5 DEF HasIssue
<1>7. \A f \in Files : Overlaps(f)' = Overlaps(f)
  BY <1>1, <1>3, <1>6 DEF Overlaps
<1>8. \A f \in Files : Checked(f)' = Checked(f)
  BY <1>1, <1>3, <1>5, <1>6, <1>7 DEF Checked
<1>9. \A f \in Files : Candidates(f)' = Candidates(f)
  BY <1>4 DEF Candidates
<1>10. \A i \in Items : Receivable(i)' = Receivable(i)
  BY DEF Receivable
<1>11. \A s \in Sites : At(s)' = At(s)
  BY DEF At
<1> QED
  BY <1>4, <1>8, <1>9, <1>10, <1>11

LEMMA ReceivedType ==
    ASSUME NEW items \in [Items -> Item], NEW S \in SUBSET Items
    PROVE  Received(items, S) \in Nat
<1>1. [i \in S |-> items[i].history] \in [S -> Nat]
  BY DEF Item
<1>2. IsFiniteSet(S)
  BY Finite, FS_Subset
<1> QED
  BY <1>1, <1>2, SumType DEF Received

\* What the items of a file have in common, and what a confirmed receipt says.
LEMMA MatchFacts ==
    ASSUME TypeOK, snapshot # None, NEW f \in Files
    PROVE  /\ snapshot \in [Items -> Item]
           /\ Matches(f) \in SUBSET Items /\ Candidates(f) \in SUBSET Matches(f)
           /\ FullSite(f) \in SUBSET Sites
           /\ \A i \in Matches(f) : FullSite(f) = {snapshot[i].site}
           /\ \A i, j \in Matches(f) : snapshot[i].site = snapshot[j].site
           /\ History(f) \in Nat
<1>1. snapshot \in [Items -> Item]
  BY DEF TypeOK
<1>2. Matches(f) \in SUBSET Items /\ Candidates(f) \in SUBSET Matches(f)
  BY DEF Matches, Candidates, Numbered
<1>3. Narrowed(f) \in SUBSET Sites
  BY DEF Narrowed, TypeOK
<1>4. FullSite(f) \in SUBSET Sites
  BY <1>3 DEF FullSite
<1>5. \A i \in Matches(f) : FullSite(f) = {snapshot[i].site}
  BY DEF Matches
<1>6. \A i, j \in Matches(f) : snapshot[i].site = snapshot[j].site
  BY <1>5
<1>7. History(f) \in Nat
  BY <1>1, <1>2, ReceivedType DEF History
<1> QED
  BY <1>1, <1>2, <1>4, <1>5, <1>6, <1>7

LEMMA CheckedFacts ==
    ASSUME TypeOK, snapshot # None, NEW f \in Files
    PROVE  /\ Checked(f) \in Receipt
           /\ Checked(f).state = "confirmed" =>
                 /\ HasLine(f) /\ ~HasIssue(f) /\ ~Overlaps(f)
                 /\ Checked(f).requested + History(f) = delivery[f].cumulative
           /\ Checked(f).state \in {"none", "issue"} => Checked(f).requested = 0
<1>1. /\ FullSite(f) \in SUBSET Sites /\ History(f) \in Nat
      /\ delivery[f].cumulative \in Nat
  BY MatchFacts DEF TypeOK, Delivery
<1>2. CASE ~HasLine(f)
  BY <1>2 DEF Checked, NoRow, Receipt
<1>3. CASE HasLine(f) /\ (HasIssue(f) \/ Overlaps(f))
  <2>1. Checked(f) = [sites |-> FullSite(f), state |-> "issue", requested |-> 0]
    BY <1>3 DEF Checked
  <2> QED
    BY <1>1, <2>1 DEF Receipt
<1>4. CASE HasLine(f) /\ ~HasIssue(f) /\ ~Overlaps(f) /\ Single(FullSite(f))
  <2>1. Checked(f) = [sites     |-> FullSite(f),
                      state     |-> "confirmed",
                      requested |-> delivery[f].cumulative - History(f)]
    BY <1>4 DEF Checked
  <2>2. ~ (History(f) > delivery[f].cumulative)
    BY <1>4 DEF HasIssue
  <2>3. delivery[f].cumulative - History(f) \in Nat
    BY <1>1, <2>2
  <2> QED
    BY <1>1, <1>4, <2>1, <2>3 DEF Receipt
<1>5. CASE HasLine(f) /\ ~HasIssue(f) /\ ~Overlaps(f) /\ ~Single(FullSite(f))
  <2>1. Checked(f) = [sites     |-> FullSite(f),
                      state     |-> "unconfirmed",
                      requested |-> delivery[f].cumulative]
    BY <1>5 DEF Checked
  <2> QED
    BY <1>1, <2>1 DEF Receipt
<1> QED
  BY <1>2, <1>3, <1>4, <1>5

-------------------------------------------------------------------------------
(* Sums of what was given. *)

Gifts(f) == [i \in Items |-> Imported(f, i)]
GivenIn(source, f, S) == [i \in S |-> given[f][i][source]]
GivenBy(source, S) == [f \in Files |-> SumFunction(GivenIn(source, f, S))]

LEMMA GivenFacts ==
    ASSUME TypeOK
    PROVE  /\ \A f \in Files, i \in Items : /\ given[f][i] \in Given
                                            /\ given[f][i].normal \in Nat
                                            /\ given[f][i].rule \in Nat
                                            /\ given[f][i].target \in Nat
                                            /\ Imported(f, i) \in Nat
           /\ \A f \in Files : /\ Gifts(f) \in [Items -> Nat]
                               /\ ImportTotal(f) = SumFunction(Gifts(f))
                               /\ ImportTotal(f) \in Nat
           /\ \A i \in Items : GivenTo(i) \in Nat
<1>1. \A f \in Files, i \in Items : given[f][i] \in Given
  BY DEF TypeOK
<1>2. \A f \in Files, i \in Items : /\ given[f][i].normal \in Nat
                                    /\ given[f][i].rule \in Nat
                                    /\ given[f][i].target \in Nat
  BY <1>1 DEF Given
<1>3. \A f \in Files, i \in Items : Imported(f, i) \in Nat
  BY <1>2 DEF Imported
<1>4. \A f \in Files : Gifts(f) \in [Items -> Nat] /\ ImportTotal(f) = SumFunction(Gifts(f))
  BY <1>3 DEF Gifts, ImportTotal
<1>5. \A f \in Files : ImportTotal(f) \in Nat
  BY <1>4, Finite, SumType
<1>6. ASSUME NEW i \in Items PROVE GivenTo(i) \in Nat
  <2>1. [f \in Files |-> Imported(f, i)] \in [Files -> Nat]
    BY <1>3
  <2> QED
    BY <2>1, Finite, SumType DEF GivenTo
<1> QED
  BY <1>1, <1>2, <1>3, <1>4, <1>5, <1>6

LEMMA GivenAsFacts ==
    ASSUME TypeOK, NEW source \in Sources, NEW S \in SUBSET Items
    PROVE  /\ \A f \in Files : GivenIn(source, f, S) \in [S -> Nat]
           /\ GivenBy(source, S) \in [Files -> Nat]
           /\ GivenAs(source, S) = SumFunction(GivenBy(source, S))
           /\ GivenAs(source, S) \in Nat
<1>1. \A f \in Files, i \in S : given[f][i][source] \in Nat
  BY GivenFacts DEF Sources
<1>2. \A f \in Files : GivenIn(source, f, S) \in [S -> Nat]
  BY <1>1 DEF GivenIn
<1>3. IsFiniteSet(S)
  BY Finite, FS_Subset
<1>4. GivenBy(source, S) \in [Files -> Nat]
  BY <1>2, <1>3, SumType DEF GivenBy
<1>5. GivenAs(source, S) = SumFunction(GivenBy(source, S))
  BY DEF GivenAs, GivenBy, GivenIn
<1> QED
  BY <1>2, <1>4, <1>5, Finite, SumType

\* A file that nothing is given to.
LEMMA NothingFacts ==
    ASSUME NEW f \in Files, given[f] = NothingGiven
    PROVE  /\ ImportTotal(f) = 0 /\ Served(f) = {} /\ Rows(f) = {}
           /\ \A i \in Items, source \in Sources : given[f][i][source] = 0
<1>1. \A i \in Items : given[f][i] = [normal |-> 0, rule |-> 0, target |-> 0]
  BY DEF NothingGiven
<1>2. \A i \in Items : Imported(f, i) = 0 /\ ~ HasRow(given[f][i])
  BY <1>1 DEF Imported, HasRow
<1>3. [i \in Items |-> Imported(f, i)] \in [Items -> Nat]
  BY <1>2
<1>4. ImportTotal(f) = 0
  <2>1. PICK g \in [Items -> Nat] : g = [i \in Items |-> Imported(f, i)]
    BY <1>3
  <2>2. SumFunction(g) = 0
    BY <1>2, <2>1, Finite, SumOfZeros
  <2> QED
    BY <2>1, <2>2 DEF ImportTotal
<1>5. Served(f) = {} /\ Rows(f) = {}
  BY <1>2 DEF Served, Rows
<1> QED
  BY <1>1, <1>4, <1>5 DEF Sources

LEMMA NothingGivenAs ==
    ASSUME \A f \in Files : given[f] = NothingGiven,
           NEW source \in Sources, NEW S \in SUBSET Items
    PROVE  GivenAs(source, S) = 0
<1>1. IsFiniteSet(S)
  BY Finite, FS_Subset
<1>2. ASSUME NEW f \in Files PROVE SumFunction(GivenIn(source, f, S)) = 0
  <2>1. \A i \in S : given[f][i][source] = 0
    BY NothingFacts
  <2>2. PICK g \in [S -> Nat] : g = GivenIn(source, f, S)
    <3>1. GivenIn(source, f, S) \in [S -> Nat]
      BY <2>1 DEF GivenIn
    <3> QED
      BY <3>1
  <2>3. \A i \in S : g[i] = 0
    BY <2>1, <2>2 DEF GivenIn
  <2> QED
    BY <1>1, <2>2, <2>3, SumOfZeros
<1>3. PICK h \in [Files -> Nat] : h = GivenBy(source, S)
  <2>1. GivenBy(source, S) \in [Files -> Nat]
    BY <1>2 DEF GivenBy
  <2> QED
    BY <2>1
<1>4. \A f \in Files : h[f] = 0
  BY <1>2, <1>3 DEF GivenBy
<1>5. SumFunction(h) = 0
  BY <1>4, Finite, SumOfZeros
<1> QED
  BY <1>3, <1>5 DEF GivenAs, GivenBy, GivenIn

\* Where a file is given nothing more, its totals stay.
LEMMA SameGiven ==
    ASSUME NEW f \in Files, given'[f] = given[f]
    PROVE  /\ ImportTotal(f)' = ImportTotal(f)
           /\ Served(f)' = Served(f) /\ Rows(f)' = Rows(f)
<1>1. \A i \in Items : Imported(f, i)' = Imported(f, i)
  BY DEF Imported
<1> QED
  BY <1>1 DEF ImportTotal, Served, Rows

LEMMA SameSums ==
    ASSUME given' = given
    PROVE  /\ \A i \in Items : GivenTo(i)' = GivenTo(i)
           /\ \A source \in Sources, S \in SUBSET Items : GivenAs(source, S)' = GivenAs(source, S)
  BY DEF GivenTo, Imported, GivenAs

-------------------------------------------------------------------------------
(* Giving. *)

LEMMA GiveFacts ==
    ASSUME TypeOK, NEW f \in Files, file = f, NEW i \in Items, NEW source \in Sources, NEW q \in Nat,
           Give(i, source, q)
    PROVE  /\ given' \in [Files -> [Items -> Given]]
           /\ \A g \in Files, j \in Items :
                 g # f \/ j # i \/ q = 0 => given'[g][j] = given[g][j]
           /\ \A g \in Files : g # f => given'[g] = given[g]
           /\ \A o \in Sources :
                 given'[f][i][o] = given[f][i][o] + (IF o = source THEN q ELSE 0)
           /\ Imported(f, i)' = Imported(f, i) + q
<1>1. given \in [Files -> [Items -> Given]]
  BY DEF TypeOK
<1>2. PICK r \in Given : r = given[f][i]
  BY <1>1
<1>3. /\ r.normal \in Nat /\ r.rule \in Nat /\ r.target \in Nat
      /\ r = [normal |-> r.normal, rule |-> r.rule, target |-> r.target]
  BY DEF Given
<1>4. PICK n \in Given : /\ n = [r EXCEPT ![source] = @ + q]
                         /\ \A o \in Sources : n[o] = r[o] + (IF o = source THEN q ELSE 0)
                         /\ n.normal + n.rule + n.target = r.normal + r.rule + r.target + q
                         /\ q = 0 => n = r
  <2>1. CASE source = "normal"
    <3>0. [r EXCEPT ![source] = @ + q] = [r EXCEPT !.normal = @ + q]
      BY <2>1
    <3>1. [r EXCEPT ![source] = @ + q]
             = [normal |-> r.normal + q, rule |-> r.rule, target |-> r.target]
      BY <1>3, <3>0 DEF Given
    <3> QED
      BY <1>3, <2>1, <3>1 DEF Given, Sources
  <2>2. CASE source = "rule"
    <3>0. [r EXCEPT ![source] = @ + q] = [r EXCEPT !.rule = @ + q]
      BY <2>2
    <3>1. [r EXCEPT ![source] = @ + q]
             = [normal |-> r.normal, rule |-> r.rule + q, target |-> r.target]
      BY <1>3, <3>0 DEF Given
    <3> QED
      BY <1>3, <2>2, <3>1 DEF Given, Sources
  <2>3. CASE source = "target"
    <3>0. [r EXCEPT ![source] = @ + q] = [r EXCEPT !.target = @ + q]
      BY <2>3
    <3>1. [r EXCEPT ![source] = @ + q]
             = [normal |-> r.normal, rule |-> r.rule, target |-> r.target + q]
      BY <1>3, <3>0 DEF Given
    <3> QED
      BY <1>3, <2>3, <3>1 DEF Given, Sources
  <2> QED
    BY <2>1, <2>2, <2>3 DEF Sources
<1>5. given' = [given EXCEPT ![f] = [given[f] EXCEPT ![i] = n]]
  BY <1>1, <1>2, <1>4 DEF Give
<1>6. given' \in [Files -> [Items -> Given]] /\ given'[f][i] = n
  BY <1>1, <1>5
<1>7. \A g \in Files : g # f => given'[g] = given[g]
  BY <1>1, <1>5
<1>8. \A j \in Items : j # i \/ q = 0 => given'[f][j] = given[f][j]
  BY <1>1, <1>2, <1>4, <1>5
<1>9. Imported(f, i)' = Imported(f, i) + q
  BY <1>2, <1>4, <1>6 DEF Imported
<1> QED
  BY <1>2, <1>4, <1>6, <1>7, <1>8, <1>9

\* What a file gives counts in its total, and in that of the item and source.
LEMMA GiveTotals ==
    ASSUME TypeOK, NEW f \in Files, file = f, NEW i \in Items, NEW source \in Sources,
           NEW q \in Nat, Give(i, source, q), TypeOK'
    PROVE  /\ ImportTotal(f)' = ImportTotal(f) + q
           /\ \A g \in Files : g # f => ImportTotal(g)' = ImportTotal(g)
           /\ \A o \in Sources, S \in SUBSET Items :
                 GivenAs(o, S)' = GivenAs(o, S) + (IF o = source /\ i \in S THEN q ELSE 0)
<1>1. /\ \A g \in Files, j \in Items :
            g # f \/ j # i \/ q = 0 => given'[g][j] = given[g][j]
      /\ \A g \in Files : g # f => given'[g] = given[g]
      /\ \A o \in Sources :
            given'[f][i][o] = given[f][i][o] + (IF o = source THEN q ELSE 0)
      /\ Imported(f, i)' = Imported(f, i) + q
  BY GiveFacts
<1>2. \A g \in Files : g # f => ImportTotal(g)' = ImportTotal(g)
  BY <1>1, SameGiven
<1>3. ImportTotal(f)' = ImportTotal(f) + q
  <2>1. PICK before \in [Items -> Nat] : before = Gifts(f)
    BY GivenFacts
  <2>2. PICK after \in [Items -> Nat] : after = Gifts(f)'
    <3>1. \A j \in Items : Imported(f, j)' \in Nat
      BY DEF TypeOK, Given, Imported
    <3> QED
      BY <3>1 DEF Gifts
  <2>3. \A j \in Items : before[j] = Imported(f, j) /\ after[j] = Imported(f, j)'
    BY <2>1, <2>2 DEF Gifts
  <2>4. \A j \in Items \ {i} : Imported(f, j)' = Imported(f, j)
    BY <1>1 DEF Imported
  <2>5. SumFunction(after) = SumFunction(before) + after[i] - before[i]
    BY <2>3, <2>4, Finite, SumUpdate
  <2>6. after[i] = before[i] + q /\ SumFunction(before) \in Nat
    BY <1>1, <2>3, Finite, SumType
  <2>7. ImportTotal(f)' = SumFunction(after) /\ ImportTotal(f) = SumFunction(before)
    BY <2>1, <2>2 DEF ImportTotal, Gifts
  <2> QED
    BY <2>5, <2>6, <2>7
<1>4. ASSUME NEW o \in Sources, NEW S \in SUBSET Items
      PROVE  GivenAs(o, S)' = GivenAs(o, S) + (IF o = source /\ i \in S THEN q ELSE 0)
  <2> DEFINE more == IF o = source /\ i \in S THEN q ELSE 0
  <2>0. IsFiniteSet(S) /\ more \in Nat
    BY Finite, FS_Subset
  <2>1. \A g \in Files, j \in Items : /\ given'[g][j] \in Given
                                      /\ given'[g][j][o] \in Nat
    BY DEF TypeOK, Given, Sources
  <2>2. ASSUME NEW g \in Files PROVE GivenIn(o, g, S)' \in [S -> Nat]
    BY <2>1 DEF GivenIn
  <2>3. \A g \in Files : g # f => GivenIn(o, g, S)' = GivenIn(o, g, S)
    BY <1>1 DEF GivenIn
  <2>4. SumFunction(GivenIn(o, f, S)') = SumFunction(GivenIn(o, f, S)) + more
    <3>1. PICK before \in [S -> Nat] : before = GivenIn(o, f, S)
      BY GivenAsFacts
    <3>2. PICK after \in [S -> Nat] : after = GivenIn(o, f, S)'
      BY <2>2
    <3>3. \A j \in S : before[j] = given[f][j][o] /\ after[j] = given'[f][j][o]
      BY <3>1, <3>2 DEF GivenIn
    <3>4. CASE i \in S
      <4>1. \A j \in S \ {i} : after[j] = before[j]
        BY <1>1, <3>3
      <4>2. after[i] = before[i] + more
        BY <1>1, <3>3, <3>4
      <4>3. SumFunction(after) = SumFunction(before) + after[i] - before[i]
        BY <2>0, <3>4, <4>1, SumUpdate
      <4>4. SumFunction(before) \in Nat /\ before[i] \in Nat
        BY <2>0, <3>4, SumType
      <4> HIDE DEF more
      <4> QED
        BY <2>0, <3>1, <3>2, <4>2, <4>3, <4>4
    <3>5. CASE i \notin S
      <4>1. after = before
        BY <1>1, <3>3, <3>5
      <4>2. more = 0 /\ SumFunction(before) \in Nat
        BY <2>0, <3>5, SumType
      <4> HIDE DEF more
      <4> QED
        BY <3>1, <3>2, <4>1, <4>2
    <3> QED
      BY <3>4, <3>5
  <2>5. PICK before \in [Files -> Nat] : before = GivenBy(o, S)
    BY GivenAsFacts
  <2>6. PICK after \in [Files -> Nat] : after = GivenBy(o, S)'
    BY <2>0, <2>2, SumType DEF GivenBy
  <2>7. /\ \A g \in Files : /\ before[g] = SumFunction(GivenIn(o, g, S))
                           /\ after[g] = SumFunction(GivenIn(o, g, S)')
    BY <2>5, <2>6 DEF GivenBy
  <2>8. \A g \in Files \ {f} : after[g] = before[g]
    BY <2>3, <2>7
  <2>9. SumFunction(after) = SumFunction(before) + after[f] - before[f]
    BY <2>8, Finite, SumUpdate
  <2>10. GivenAs(o, S)' = SumFunction(after) /\ GivenAs(o, S) = SumFunction(before)
    BY <2>5, <2>6 DEF GivenAs, GivenBy, GivenIn
  <2>11. SumFunction(before) \in Nat /\ before[f] \in Nat
    BY Finite, SumType
  <2>12. after[f] = before[f] + more
    BY <2>4, <2>7
  <2> HIDE DEF more
  <2>13. GivenAs(o, S)' = GivenAs(o, S) + more
    BY <2>0, <2>9, <2>10, <2>11, <2>12
  <2> QED
    BY <2>13 DEF more
<1> QED
  BY <1>2, <1>3, <1>4

-------------------------------------------------------------------------------
(* Init, and steps that throw the results away. *)

LEMMA NothingPlaced ==
    ASSUME \A f \in Files : given[f] = NothingGiven
    PROVE  PlacesInv /\ OrderInv
<1>1. PlacesInv
  BY DEF PlacesInv, NothingGiven
<1>2. OrderInv
  BY NothingFacts DEF OrderInv
<1> QED
  BY <1>1, <1>2

LEMMA InitInv == Init => InboundInv
<1> SUFFICES ASSUME Init PROVE InboundInv
  OBVIOUS
<1>1. /\ phase = "prepare" /\ snapshot = None /\ entered = "nothing"
      /\ \A f \in Files : given[f] = NothingGiven /\ pending[f] = NothingPending
      /\ file = 0
  BY DEF Init
<1>2. TypeOK
  <2>1. order \in [Items -> Item]
    <3>1. 0..MaxQuantity \subseteq Nat
      BY InboundBoundsAssumption
    <3>2. [number : Numbers, site : Sites, kind : Kinds,
           expected : 0..MaxQuantity, history : 0..MaxQuantity] \subseteq Item
      BY <3>1 DEF Item
    <3> QED
      BY <3>2 DEF Init
  <2>2. delivery \in [Files -> Delivery]
    <3>1. 0..MaxQuantity \subseteq Nat
      BY InboundBoundsAssumption
    <3>2. [numbers : SUBSET Numbers \ {{}}, cumulative : 0..MaxQuantity] \subseteq Delivery
      BY <3>1 DEF Delivery
    <3> QED
      BY <3>2 DEF Init
  <2>3. receipt \in [Files -> Receipt]
    BY DEF Init, NoRow, Receipt
  <2>4. given \in [Files -> [Items -> Given]] /\ pending \in [Files -> Pending]
    BY DEF Init, NothingGiven, NothingPending, Given, Pending, Reasons
  <2> QED
    BY <2>1, <2>2, <2>3, <2>4 DEF Init, TypeOK
<1>3. PlacesInv /\ OrderInv
  BY <1>1, NothingPlaced
<1> QED
  BY <1>1, <1>2, <1>3
     DEF InboundInv, SnapshotInv, ReceiptsInv, FilesInv, TodoInv, LeftInv, LimitsInv,
         Untouched, Serves, Serving, Computing

\* Without results everything about them holds.
LEMMA EmptyInv ==
    ASSUME TypeOK', SnapshotInv', ReceiptsInv', phase' \in {"prepare", "draft", "compute"},
           \A f \in Files : given'[f] = NothingGiven /\ pending'[f] = NothingPending
    PROVE  InboundInv'
<1>1. PlacesInv'
  BY DEF PlacesInv, NothingGiven
<1>2. \A f \in Files : Served(f)' = {}
  <2> SUFFICES ASSUME NEW f \in Files, NEW i \in Items PROVE ~ (Imported(f, i)' > 0)
    BY DEF Served
  <2>1. given'[f][i] = [normal |-> 0, rule |-> 0, target |-> 0]
    BY DEF NothingGiven
  <2> QED
    BY <2>1 DEF Imported
<1>3. OrderInv'
  BY <1>2 DEF OrderInv
<1> QED
  BY <1>1, <1>3
     DEF InboundInv, FilesInv, TodoInv, LeftInv, LimitsInv,
         Untouched, Serves, Serving, Computing

\* Types of what requests and preparations do not touch.
LEMMA NoResultsType ==
    ASSUME NoResults
    PROVE  /\ given' \in [Files -> [Items -> Given]] /\ pending' \in [Files -> Pending]
           /\ \A f \in Files : given'[f] = NothingGiven /\ pending'[f] = NothingPending
  BY DEF NoResults, NothingGiven, NothingPending, Given, Pending, Reasons

LEMMA FetchInv == InboundInv /\ Fetch => InboundInv'
<1> SUFFICES ASSUME InboundInv, Fetch PROVE InboundInv'
  OBVIOUS
<1>1. /\ phase = "prepare" /\ snapshot' = Source
      /\ entered' = IF Source = order THEN "nothing" ELSE "another"
      /\ order' = order /\ delivery' = delivery /\ known' = known /\ choice' = choice
      /\ extra' = extra /\ target' = target /\ receipt' = receipt /\ phase' = phase
      /\ file' = file /\ todo' = todo /\ left' = left /\ balance' = balance
      /\ allowance' = allowance /\ addition' = addition
      /\ given' = given /\ pending' = pending /\ workbook' = workbook
      /\ requests' = requests
  BY DEF Fetch, inputs, loop, results
<1>2. TypeOK'
  <2>1. Source \in [Items -> Item]
    BY DEF Source, InboundInv, TypeOK
  <2> QED
    BY <1>1, <2>1 DEF InboundInv, TypeOK
<1>3. SnapshotInv' /\ ReceiptsInv'
  BY <1>1 DEF SnapshotInv, ReceiptsInv
<1>4. \A f \in Files : given[f] = NothingGiven /\ pending[f] = NothingPending
  BY <1>1 DEF InboundInv, FilesInv, Untouched
<1> QED
  BY <1>1, <1>2, <1>3, <1>4, EmptyInv

LEMMA CheckInv == InboundInv /\ Check => InboundInv'
<1> SUFFICES ASSUME InboundInv, Check PROVE InboundInv'
  OBVIOUS
<1>1. /\ phase = "prepare" /\ snapshot # None /\ snapshot' = snapshot /\ entered' = entered
      /\ receipt' = [f \in Files |-> Checked(f)]
      /\ phase' = IF \E f \in Files : Checked(f).state = "issue" THEN "draft" ELSE "compute"
      /\ order' = order /\ delivery' = delivery /\ known' = known /\ choice' = choice
      /\ extra' = extra /\ target' = target
      /\ file' = file /\ todo' = todo /\ left' = left /\ balance' = balance
      /\ allowance' = allowance /\ addition' = addition
      /\ given' = given /\ pending' = pending /\ workbook' = workbook
      /\ requests' = requests
  BY DEF Check, inputs, loop, results
<1>2. receipt' \in [Files -> Receipt]
  BY <1>1, CheckedFacts DEF InboundInv
<1>3. phase' \in {"prepare", "draft", "compute"}
  BY <1>1
<1>4. TypeOK'
  BY <1>1, <1>2, <1>3 DEF InboundInv, TypeOK
<1>5. SnapshotInv'
  BY <1>1 DEF InboundInv, SnapshotInv
<1>6. ReceiptsInv'
  <2>1. \A f \in Files : Checked(f)' = Checked(f)
    BY <1>1, SameData
  <2>2. phase' # "draft" => \A f \in Files : Checked(f).state # "issue"
    BY <1>1
  <2> QED
    BY <1>1, <2>1, <2>2 DEF ReceiptsInv
<1>7. \A f \in Files : given[f] = NothingGiven /\ pending[f] = NothingPending
  BY <1>1 DEF InboundInv, FilesInv, Untouched
<1> QED
  BY <1>1, <1>3, <1>4, <1>5, <1>6, <1>7, EmptyInv

\* The requests that check the batch again: another choice, other additions, or
\* another snapshot.
LEMMA InvalidateInv ==
    ASSUME InboundInv, Invalidate,
           choice' \in [Files -> Sites \cup {NoSite}], extra' \in [Sites -> Nat],
           \/ snapshot' = None /\ entered' = entered
           \/ snapshot' = snapshot /\ entered' = Outdated,
           requests' \in Nat,
           UNCHANGED <<order, delivery, known, workbook, target, loop>>
    PROVE  InboundInv'
<1>1. /\ order' = order /\ delivery' = delivery /\ known' = known /\ target' = target
      /\ workbook' = workbook /\ file' = file /\ todo' = todo /\ left' = left /\ balance' = balance
      /\ allowance' = allowance /\ addition' = addition
  BY DEF loop
<1>2. NoResults /\ phase' = "prepare" /\ receipt' = [f \in Files |-> NoRow]
  BY DEF Invalidate
<1>3. /\ snapshot' \in [Items -> Item] \cup {None}
      /\ entered' \in {"nothing", "this", "another"}
  BY DEF InboundInv, TypeOK, Outdated
<1>4. receipt' \in [Files -> Receipt]
  BY <1>2 DEF NoRow, Receipt
<1>5. TypeOK'
  BY <1>1, <1>2, <1>3, <1>4, NoResultsType DEF InboundInv, TypeOK
<1>6. SnapshotInv'
  <2>1. CASE snapshot' = None
    BY <1>2, <2>1 DEF SnapshotInv
  <2>2. CASE snapshot' = snapshot /\ entered' = Outdated
    BY <1>1, <1>2, <2>2 DEF InboundInv, SnapshotInv, Outdated
  <2> QED
    BY <2>1, <2>2
<1>7. ReceiptsInv'
  BY <1>2 DEF ReceiptsInv
<1> QED
  BY <1>2, <1>5, <1>6, <1>7, NoResultsType, EmptyInv

LEMMA ChooseSiteInv ==
    ASSUME InboundInv, NEW f \in Files, NEW s \in Sites, ChooseSite(f, s)
    PROVE  InboundInv'
<1>1. Invalidate /\ choice' = [choice EXCEPT ![f] = s] /\ requests' = requests + 1
      /\ snapshot' = snapshot /\ entered' = Outdated /\ extra' = extra
      /\ UNCHANGED <<order, delivery, known, workbook, target, loop>>
  BY DEF ChooseSite, Choose, Request
<1>2. /\ choice' \in [Files -> Sites \cup {NoSite}] /\ extra' \in [Sites -> Nat]
      /\ requests' \in Nat
  BY <1>1 DEF InboundInv, TypeOK
<1> QED
  BY <1>1, <1>2, InvalidateInv

LEMMA RefreshInv == InboundInv /\ Refresh => InboundInv'
<1> SUFFICES ASSUME InboundInv, Refresh PROVE InboundInv'
  OBVIOUS
<1>1. Invalidate /\ requests' = requests + 1 /\ snapshot' = None /\ entered' = entered
      /\ choice' = choice /\ extra' = extra
      /\ UNCHANGED <<order, delivery, known, workbook, target, loop>>
  BY DEF Refresh, Request, inputs
<1>2. /\ choice' \in [Files -> Sites \cup {NoSite}] /\ extra' \in [Sites -> Nat]
      /\ requests' \in Nat
  BY <1>1 DEF InboundInv, TypeOK
<1> QED
  BY <1>1, <1>2, InvalidateInv

\* Another workbook in a draft: there is no snapshot until the next preflight.
LEMMA ReplaceInboundInv == InboundInv /\ ReplaceInbound => InboundInv'
<1> SUFFICES ASSUME InboundInv, ReplaceInbound PROVE InboundInv'
  OBVIOUS
<1>1. /\ phase = "draft" /\ phase' = phase /\ snapshot' = None /\ workbook' = order
      /\ receipt' = [f \in Files |-> NoRow] /\ NoResults
      /\ order' = order /\ delivery' = delivery /\ known' = known /\ choice' = choice
      /\ extra' = extra /\ target' = target /\ entered' = entered
      /\ file' = file /\ todo' = todo /\ left' = left /\ balance' = balance
      /\ allowance' = allowance /\ addition' = addition /\ requests' = requests + 1
  BY DEF ReplaceInbound, Request, loop
<1>2. receipt' \in [Files -> Receipt]
  BY <1>1 DEF NoRow, Receipt
<1>3. TypeOK'
  BY <1>1, <1>2, NoResultsType DEF InboundInv, TypeOK
<1>4. entered # "this"
  BY <1>1 DEF InboundInv, SnapshotInv
<1>5. SnapshotInv' /\ ReceiptsInv'
  BY <1>1, <1>4 DEF SnapshotInv, ReceiptsInv
<1> QED
  BY <1>1, <1>3, <1>5, NoResultsType, EmptyInv

LEMMA AdjustInv ==
    ASSUME InboundInv, NEW f \in Files, NEW s \in Sites, NEW z \in Sites,
           NEW q \in 0..MaxExtra, Adjust(f, s, z, q)
    PROVE  InboundInv'
<1>1. Invalidate /\ choice' = [choice EXCEPT ![f] = s] /\ requests' = requests + 1
      /\ snapshot' = snapshot /\ entered' = Outdated /\ extra' = [extra EXCEPT ![z] = q]
      /\ UNCHANGED <<order, delivery, known, workbook, target, loop>>
  BY DEF Adjust, Choose, AddAt, Request
<1>2. q \in Nat
  BY InboundBoundsAssumption
<1>3. /\ choice' \in [Files -> Sites \cup {NoSite}] /\ extra' \in [Sites -> Nat]
      /\ requests' \in Nat
  BY <1>1, <1>2 DEF InboundInv, TypeOK
<1> QED
  BY <1>1, <1>3, InvalidateInv

\* The two requests that compute again what was checked.
LEMMA RecomputeInv ==
    ASSUME InboundInv, phase = "done", Recompute,
           target' \in [Items -> Nat], extra' \in [Sites -> Nat], requests' \in Nat,
           UNCHANGED <<order, delivery, known, choice, workbook, snapshot, receipt, loop>>
    PROVE  InboundInv'
<1>1. /\ order' = order /\ delivery' = delivery /\ known' = known /\ choice' = choice
      /\ snapshot' = snapshot /\ receipt' = receipt /\ workbook' = workbook
      /\ file' = file /\ todo' = todo /\ left' = left /\ balance' = balance
      /\ allowance' = allowance /\ addition' = addition
  BY DEF loop
<1>2. NoResults /\ phase' = "compute" /\ entered' = Outdated
  BY DEF Recompute
<1>3. entered' \in {"nothing", "this", "another"}
  BY <1>2 DEF InboundInv, TypeOK, Outdated
<1>4. TypeOK'
  BY <1>1, <1>2, <1>3, NoResultsType DEF InboundInv, TypeOK
<1>5. SnapshotInv'
  BY <1>1, <1>2 DEF InboundInv, SnapshotInv, Outdated
<1>6. ReceiptsInv'
  <2>1. \A f \in Files : Checked(f)' = Checked(f)
    BY <1>1, SameData
  <2> QED
    BY <1>1, <1>2, <2>1 DEF InboundInv, ReceiptsInv
<1> QED
  BY <1>2, <1>4, <1>5, <1>6, NoResultsType, EmptyInv

LEMMA SaveTargetInv ==
    ASSUME InboundInv, NEW f \in Files, NEW i \in Items, NEW q \in 0..MaxExtra,
           SaveTarget(f, i, q)
    PROVE  InboundInv'
<1>1. /\ phase = "done" /\ Recompute /\ target' = [target EXCEPT ![i] = q]
      /\ requests' = requests + 1 /\ extra' = extra
      /\ UNCHANGED <<order, delivery, known, choice, workbook, snapshot, receipt, loop>>
  BY DEF SaveTarget, Request
<1>2. q \in Nat
  BY InboundBoundsAssumption
<1>3. target' \in [Items -> Nat] /\ extra' \in [Sites -> Nat] /\ requests' \in Nat
  BY <1>1, <1>2 DEF InboundInv, TypeOK
<1> QED
  BY <1>1, <1>3, RecomputeInv

LEMMA SaveExtraInv ==
    ASSUME InboundInv, NEW s \in Sites, NEW q \in 0..MaxExtra, SaveExtra(s, q)
    PROVE  InboundInv'
<1>1. /\ phase = "done" /\ Recompute /\ extra' = [extra EXCEPT ![s] = q]
      /\ requests' = requests + 1 /\ target' = target
      /\ UNCHANGED <<order, delivery, known, choice, workbook, snapshot, receipt, loop>>
  BY DEF SaveExtra, AddAt, Request
<1>2. q \in Nat
  BY InboundBoundsAssumption
<1>3. target' \in [Items -> Nat] /\ extra' \in [Sites -> Nat] /\ requests' \in Nat
  BY <1>1, <1>2 DEF InboundInv, TypeOK
<1> QED
  BY <1>1, <1>3, RecomputeInv

-------------------------------------------------------------------------------
(* Steps of a computation that give nothing. *)

LEMMA ComputingFacts ==
    ASSUME InboundInv, phase \notin {"prepare", "draft"}
    PROVE  /\ snapshot # None /\ snapshot \in [Items -> Item]
           /\ \A f \in Files : /\ receipt[f] = Checked(f) /\ receipt[f] \in Receipt
                               /\ receipt[f].state # "issue" /\ receipt[f].requested \in Nat
                               /\ Matches(f) \in SUBSET Items
                               /\ Candidates(f) \in SUBSET Matches(f)
                               /\ ImportTotal(f) \in Nat
                               /\ pending[f].quantity \in Nat
           /\ \A f \in Files : \A i \in Rows(f) : i \in Candidates(f)
           /\ \A f \in Files : \A i \in Served(f) : i \in Candidates(f) /\ i \in Rows(f)
<1>1. snapshot # None /\ snapshot \in [Items -> Item]
  BY DEF InboundInv, SnapshotInv, TypeOK
<1>2. \A f \in Files : receipt[f] = Checked(f) /\ receipt[f].state # "issue"
  BY DEF InboundInv, ReceiptsInv
<1>3. \A f \in Files : receipt[f] \in Receipt /\ receipt[f].requested \in Nat
  BY DEF InboundInv, TypeOK, Receipt
<1>4. \A f \in Files : pending[f].quantity \in Nat
  BY DEF InboundInv, TypeOK, Pending
<1>5. \A f \in Files : Matches(f) \in SUBSET Items /\ Candidates(f) \in SUBSET Matches(f)
  BY <1>1, MatchFacts DEF InboundInv
<1>6. \A f \in Files : ImportTotal(f) \in Nat
  BY GivenFacts DEF InboundInv
<1>7. ASSUME NEW f \in Files, NEW i \in Items,
             given[f][i] # [normal |-> 0, rule |-> 0, target |-> 0]
      PROVE  i \in Candidates(f) /\ HasRow(given[f][i])
  BY <1>7 DEF InboundInv, PlacesInv
<1>8. \A f \in Files : \A i \in Rows(f) : i \in Candidates(f)
  BY <1>7 DEF Rows, HasRow
<1>9. \A f \in Files : \A i \in Served(f) : i \in Candidates(f) /\ i \in Rows(f)
  BY <1>7 DEF Rows, Served, Imported
<1> QED
  BY <1>1, <1>2, <1>3, <1>4, <1>5, <1>6, <1>8, <1>9

\* What such a step keeps.
LEMMA KeptFacts ==
    ASSUME InboundInv,
           delivery' = delivery, known' = known, choice' = choice, snapshot' = snapshot,
           receipt' = receipt, given' = given
    PROVE  /\ \A f \in Files : /\ Matches(f)' = Matches(f)
                               /\ Candidates(f)' = Candidates(f)
                               /\ Checked(f)' = Checked(f)
                               /\ ImportTotal(f)' = ImportTotal(f)
                               /\ Served(f)' = Served(f) /\ Rows(f)' = Rows(f)
           /\ \A i \in Items : Receivable(i)' = Receivable(i) /\ GivenTo(i)' = GivenTo(i)
           /\ \A i \in Items, source \in Sources :
                 GivenAs(source, {i})' = GivenAs(source, {i})
           /\ \A s \in Sites : At(s)' = At(s) /\ GivenAs("rule", At(s))' = GivenAs("rule", At(s))
           /\ PlacesInv'
<1>1. \A f \in Files : /\ Matches(f)' = Matches(f) /\ Candidates(f)' = Candidates(f)
                       /\ Checked(f)' = Checked(f)
  BY SameData
<1>2. \A f \in Files : /\ ImportTotal(f)' = ImportTotal(f)
                       /\ Served(f)' = Served(f) /\ Rows(f)' = Rows(f)
  BY SameGiven
<1>3. \A i \in Items : Receivable(i)' = Receivable(i) /\ GivenTo(i)' = GivenTo(i)
  BY SameData, SameSums
<1>4. \A i \in Items, source \in Sources : GivenAs(source, {i})' = GivenAs(source, {i})
  BY SameSums
<1>5. ASSUME NEW s \in Sites
      PROVE  At(s)' = At(s) /\ GivenAs("rule", At(s))' = GivenAs("rule", At(s))
  <2>1. At(s)' = At(s)
    BY SameData
  <2> QED
    BY <2>1 DEF GivenAs
<1>6. PlacesInv'
  BY <1>1 DEF InboundInv, PlacesInv
<1> QED
  BY <1>1, <1>2, <1>3, <1>4, <1>5, <1>6

LEMMA LimitsKept ==
    ASSUME InboundInv, phase \in Computing \cup {"done"},
           delivery' = delivery, known' = known, choice' = choice, snapshot' = snapshot,
           receipt' = receipt, given' = given, target' = target, extra' = extra,
           balance' = balance, allowance' = allowance, addition' = addition
    PROVE  LimitsInv'
  BY KeptFacts DEF InboundInv, LimitsInv, Sources

LEMMA StartComputeInv == InboundInv /\ StartCompute => InboundInv'
<1> SUFFICES ASSUME InboundInv, StartCompute PROVE InboundInv'
  OBVIOUS
<1>1. /\ phase = "compute" /\ phase' = "files" /\ file' = 1
      /\ balance' = [i \in Items |-> Receivable(i)]
      /\ allowance' = [s \in Sites |-> Limit + extra[s]]
      /\ addition' = target
      /\ order' = order /\ delivery' = delivery /\ known' = known /\ choice' = choice
      /\ extra' = extra /\ target' = target /\ snapshot' = snapshot /\ receipt' = receipt
      /\ todo' = todo /\ left' = left /\ given' = given /\ pending' = pending
      /\ entered' = entered /\ workbook' = workbook /\ requests' = requests
  BY DEF StartCompute, inputs, results
<1>2. \A i \in Items : Receivable(i) \in Nat
  BY <1>1, ComputingFacts DEF Receivable, Item
<1>3. \A f \in Files : given[f] = NothingGiven /\ pending[f] = NothingPending
  BY <1>1 DEF InboundInv, FilesInv, Untouched
<1>4. TypeOK'
  <2>1. balance' \in [Items -> Nat]
    BY <1>1, <1>2
  <2>2. allowance' \in [Sites -> Nat]
    BY <1>1, InboundAssumption DEF InboundInv, TypeOK
  <2> QED
    BY <1>1, <2>1, <2>2 DEF InboundInv, TypeOK
<1>5. SnapshotInv' /\ ReceiptsInv'
  BY <1>1, KeptFacts DEF InboundInv, SnapshotInv, ReceiptsInv
<1>6. PlacesInv' /\ \A f \in Files : Served(f)' = {}
  BY <1>1, <1>3, KeptFacts, NothingFacts
<1>7. FilesInv'
  BY <1>1, <1>3, InboundAssumption DEF FilesInv, Untouched, Serves, Serving, Computing, Files
<1>8. TodoInv' /\ LeftInv' /\ OrderInv'
  BY <1>1, <1>6 DEF TodoInv, LeftInv, OrderInv, Serves, Serving
<1>9. LimitsInv'
  <2>1. ASSUME NEW i \in Items
        PROVE  /\ GivenAs("normal", {i})' = 0 /\ GivenAs("target", {i})' = 0
               /\ balance'[i] = Receivable(i) /\ Receivable(i)' = Receivable(i)
               /\ addition'[i] = target[i] /\ target[i] \in Nat
    <3>1. GivenAs("normal", {i}) = 0 /\ GivenAs("target", {i}) = 0
      BY <1>3, NothingGivenAs DEF Sources
    <3>2. Receivable(i)' = Receivable(i)
      BY <1>1, KeptFacts
    <3>3. GivenAs("normal", {i})' = GivenAs("normal", {i})
          /\ GivenAs("target", {i})' = GivenAs("target", {i})
      BY <1>1 DEF GivenAs
    <3>4. target[i] \in Nat
      BY DEF InboundInv, TypeOK
    <3> QED
      BY <1>1, <3>1, <3>2, <3>3, <3>4
  <2>2. ASSUME NEW s \in Sites
        PROVE  /\ GivenAs("rule", At(s))' = 0
               /\ allowance'[s] = Limit + extra[s] /\ Limit + extra[s] \in Nat
    <3>1. GivenAs("rule", At(s)) = 0
      BY <1>3, NothingGivenAs DEF Sources, At
    <3>2. Limit + extra[s] \in Nat
      BY InboundAssumption DEF InboundInv, TypeOK
    <3> QED
      BY <1>1, <3>1, <3>2, KeptFacts
  <2> QED
    BY <1>1, <1>2, <2>1, <2>2 DEF LimitsInv
<1> QED
  BY <1>4, <1>5, <1>6, <1>7, <1>8, <1>9 DEF InboundInv

LEMMA SkipFileInv == InboundInv /\ SkipFile => InboundInv'
<1> SUFFICES ASSUME InboundInv, SkipFile PROVE InboundInv'
  OBVIOUS
<1>1. /\ phase = "files" /\ file \in Files /\ phase' = phase /\ file' = file + 1
      /\ order' = order /\ delivery' = delivery /\ known' = known /\ choice' = choice
      /\ extra' = extra /\ target' = target /\ snapshot' = snapshot /\ receipt' = receipt
      /\ todo' = todo /\ left' = left /\ balance' = balance /\ allowance' = allowance
      /\ addition' = addition /\ given' = given
      /\ entered' = entered /\ workbook' = workbook /\ requests' = requests
  BY DEF SkipFile, inputs
<1>2. PICK g \in Files : g = file
  BY <1>1
<1>3. given[g] = NothingGiven /\ pending[g] = NothingPending
  BY <1>1, <1>2 DEF InboundInv, FilesInv, Untouched
<1>4. /\ ImportTotal(g) = 0 /\ Served(g) = {} /\ receipt[g].requested \in Nat
  BY <1>1, <1>3, NothingFacts, ComputingFacts
<1>5. /\ pending' \in [Files -> Pending]
      /\ \A f \in Files : f # g => pending'[f] = pending[f]
      /\ pending'[g].quantity = receipt[g].requested
  <2>1. pending \in [Files -> Pending]
    BY DEF InboundInv, TypeOK
  <2>2. \/ pending' = pending /\ receipt[g].requested = 0
        \/ \E reason \in Reasons : Settle(g, receipt[g].requested, reason)
    BY <1>2 DEF SkipFile, Reasons
  <2>3. CASE pending' = pending /\ receipt[g].requested = 0
    <3>0. NothingPending.quantity = 0
      BY DEF NothingPending
    <3>1. pending[g].quantity = 0
      BY <1>3, <3>0
    <3> QED
      BY <2>1, <2>3, <3>1
  <2>4. CASE \E reason \in Reasons : Settle(g, receipt[g].requested, reason)
    <3>1. PICK reason \in Reasons :
             pending' = [pending EXCEPT
                            ![g] = [quantity |-> receipt[g].requested, reason |-> reason]]
      BY <2>4 DEF Settle
    <3>2. [quantity |-> receipt[g].requested, reason |-> reason] \in Pending
      BY <1>4 DEF Pending
    <3> QED
      BY <2>1, <3>1, <3>2
  <2> QED
    BY <2>2, <2>3, <2>4
<1>6. TypeOK'
  BY <1>1, <1>5 DEF InboundInv, TypeOK, Files
<1>7. SnapshotInv' /\ ReceiptsInv'
  BY <1>1, KeptFacts DEF InboundInv, SnapshotInv, ReceiptsInv
<1>8. FilesInv'
  <2>1. file' \in 1..(NumFiles + 1) /\ NumFiles \in Nat
    BY <1>1, InboundAssumption DEF Files
  <2>2. Settled(g)'
    BY <1>1, <1>4, <1>5, KeptFacts DEF Settled
  <2>3. \A f \in Files : f # g => (Settled(f)' = Settled(f)) /\ (Untouched(f)' = Untouched(f))
    BY <1>1, <1>5, KeptFacts DEF Settled, Untouched
  <2>4. \A f \in Files : f \in Nat /\ (f < file' => f < file \/ f = g) /\ (f >= file' => f > file)
    BY <1>1, <1>2 DEF Files
  <2>5. \A f \in Files : (f < file => Settled(f)) /\ (f > file => Untouched(f))
    BY <1>1 DEF InboundInv, FilesInv, Computing
  <2>6. ASSUME NEW f \in Files
        PROVE  (f < file' => Settled(f)') /\ (f >= file' => Untouched(f)')
    BY <1>2, <2>1, <2>2, <2>3, <2>4, <2>5
  <2>7. \A f \in Files : (f > file' => f >= file') /\ (f = file' => f >= file')
    BY <2>1, <2>4
  <2> QED
    BY <1>1, <2>1, <2>6, <2>7 DEF FilesInv, Serves, Serving
<1>9. TodoInv' /\ LeftInv'
  BY <1>1 DEF TodoInv, LeftInv, Serves, Serving
<1>10. OrderInv'
  <2> SUFFICES ASSUME NEW f \in Files, NEW i \in Served(f) PROVE Ordered(f, i)'
    BY <1>1, KeptFacts DEF OrderInv
  <2>1. f # g
    BY <1>4
  <2>2. Ordered(f, i)
    BY DEF InboundInv, OrderInv
  <2> QED
    BY <1>1, <1>5, <2>1, <2>2, KeptFacts DEF Ordered
<1>11. PlacesInv' /\ LimitsInv'
  BY <1>1, KeptFacts, LimitsKept DEF Computing
<1> QED
  BY <1>6, <1>7, <1>8, <1>9, <1>10, <1>11 DEF InboundInv

LEMMA StartFileInv == InboundInv /\ StartFile => InboundInv'
<1> SUFFICES ASSUME InboundInv, StartFile PROVE InboundInv'
  OBVIOUS
<1>1. /\ phase = "files" /\ file \in Files /\ phase' = "normal" /\ file' = file
      /\ receipt[file].state = "confirmed" /\ Candidates(file) # {}
      /\ todo' = Candidates(file) /\ left' = receipt[file].requested
      /\ order' = order /\ delivery' = delivery /\ known' = known /\ choice' = choice
      /\ extra' = extra /\ target' = target /\ snapshot' = snapshot /\ receipt' = receipt
      /\ balance' = balance /\ allowance' = allowance
      /\ addition' = addition /\ given' = given /\ pending' = pending
      /\ entered' = entered /\ workbook' = workbook /\ requests' = requests
  BY DEF StartFile, inputs, results, Allowances
<1>2. PICK g \in Files : g = file
  BY <1>1
<1>3. given[g] = NothingGiven /\ pending[g] = NothingPending
  BY <1>1, <1>2 DEF InboundInv, FilesInv, Untouched
<1>4. /\ ImportTotal(g) = 0 /\ Rows(g) = {} /\ receipt[g].requested \in Nat
      /\ Candidates(g) \in SUBSET Items
  BY <1>1, <1>3, NothingFacts, ComputingFacts
<1>5. TypeOK'
  BY <1>1, <1>2, <1>4 DEF InboundInv, TypeOK
<1>6. SnapshotInv' /\ ReceiptsInv'
  BY <1>1, KeptFacts DEF InboundInv, SnapshotInv, ReceiptsInv
<1>7. FilesInv'
  <2>1. \A f \in Files : (Settled(f)' = Settled(f)) /\ (Untouched(f)' = Untouched(f))
    BY <1>1, KeptFacts DEF Settled, Untouched
  <2>2. /\ file \in 1..(NumFiles + 1)
        /\ \A f \in Files : (f < file => Settled(f)) /\ (f > file => Untouched(f))
    BY <1>1 DEF InboundInv, FilesInv, Computing
  <2>3. \A f \in Files : Serves(f)' <=> f = g
    BY <1>1, <1>2 DEF Serves, Serving
  <2>4. /\ receipt'[g].state = "confirmed" /\ Candidates(g)' # {} /\ pending'[g] = NothingPending
        /\ receipt'[g].requested = ImportTotal(g)' + left'
    BY <1>1, <1>2, <1>3, <1>4, KeptFacts
  <2> QED
    BY <1>1, <2>1, <2>2, <2>3, <2>4 DEF FilesInv
<1>8. TodoInv' /\ LeftInv'
  BY <1>1, <1>2, <1>4, KeptFacts DEF TodoInv, LeftInv, Serves
<1>9. OrderInv'
  <2>1. \A f \in Files : \A i \in Served(f) : Ordered(f, i)' = Ordered(f, i)
    BY <1>1, KeptFacts DEF Ordered
  <2> QED
    BY <1>1, <2>1, KeptFacts DEF InboundInv, OrderInv
<1>10. PlacesInv' /\ LimitsInv'
  BY <1>1, KeptFacts, LimitsKept DEF Computing
<1> QED
  BY <1>5, <1>6, <1>7, <1>8, <1>9, <1>10 DEF InboundInv

LEMMA FinishFileInv == InboundInv /\ FinishFile => InboundInv'
<1> SUFFICES ASSUME InboundInv, FinishFile PROVE InboundInv'
  OBVIOUS
<1>1. /\ phase = "rest" /\ file' = file + 1 /\ left' = 0
      /\ Settle(file, left, IF left > 0 THEN "limit_exceeded" ELSE "")
      /\ phase' = IF receipt[file].requested = ImportTotal(file) + left
                  THEN "files" ELSE "refused"
      /\ order' = order /\ delivery' = delivery /\ known' = known /\ choice' = choice
      /\ extra' = extra /\ target' = target /\ snapshot' = snapshot /\ receipt' = receipt
      /\ todo' = todo /\ balance' = balance /\ allowance' = allowance
      /\ addition' = addition /\ given' = given
      /\ entered' = entered /\ workbook' = workbook /\ requests' = requests
  BY DEF FinishFile, inputs
<1>2. PICK g \in Files : g = file
  BY <1>1 DEF InboundInv, FilesInv, Serving
<1>3. /\ Serves(g) /\ pending[g] = NothingPending
      /\ receipt[g].requested = ImportTotal(g) + left
      /\ left \in Nat /\ ImportTotal(g) \in Nat
  BY <1>1, <1>2, ComputingFacts DEF InboundInv, FilesInv, Serves, Serving, TypeOK
<1>0. file' = file + 1 /\ file \in Files /\ g = file
  BY <1>1, <1>2
<1>4. phase' = "files"
  BY <1>1, <1>2, <1>3
<1>5. /\ pending' \in [Files -> Pending]
      /\ \A f \in Files : f # g => pending'[f] = pending[f]
      /\ pending'[g].quantity = left
  <2>1. PICK reason \in Reasons :
           pending' = [pending EXCEPT ![g] = [quantity |-> left, reason |-> reason]]
    BY <1>1, <1>2 DEF Settle, Reasons
  <2>2. [quantity |-> left, reason |-> reason] \in Pending
    BY <1>3 DEF Pending
  <2>3. pending \in [Files -> Pending]
    BY DEF InboundInv, TypeOK
  <2> QED
    BY <2>1, <2>2, <2>3
<1>6. TypeOK'
  <2>1. file' \in Nat
    BY <1>0 DEF Files
  <2> QED
    BY <1>1, <1>4, <1>5, <2>1 DEF InboundInv, TypeOK
<1>7. SnapshotInv' /\ ReceiptsInv'
  BY <1>1, <1>4, KeptFacts DEF InboundInv, SnapshotInv, ReceiptsInv
<1>8. FilesInv'
  <2>1. file' \in 1..(NumFiles + 1) /\ NumFiles \in Nat
    BY <1>0, InboundAssumption DEF Files
  <2>2. Settled(g)'
    BY <1>1, <1>3, <1>5, KeptFacts DEF Settled
  <2>3. \A f \in Files : f # g => (Settled(f)' = Settled(f)) /\ (Untouched(f)' = Untouched(f))
    BY <1>1, <1>5, KeptFacts DEF Settled, Untouched
  <2>4. \A f \in Files : f \in Nat /\ (f < file' => f < file \/ f = g) /\ (f >= file' => f > file)
    BY <1>0 DEF Files
  <2>5. \A f \in Files : (f < file => Settled(f)) /\ (f > file => Untouched(f))
    BY <1>1 DEF InboundInv, FilesInv, Computing, Serving
  <2>6. ASSUME NEW f \in Files
        PROVE  (f < file' => Settled(f)') /\ (f >= file' => Untouched(f)')
    BY <1>2, <2>1, <2>2, <2>3, <2>4, <2>5
  <2>7. \A f \in Files : (f > file' => f >= file') /\ (f = file' => f >= file')
    BY <2>1, <2>4
  <2> QED
    BY <1>4, <2>1, <2>6, <2>7 DEF FilesInv, Serves, Serving
<1>9. TodoInv' /\ LeftInv'
  BY <1>4 DEF TodoInv, LeftInv, Serves, Serving
<1>10. OrderInv'
  <2> SUFFICES ASSUME NEW f \in Files, NEW i \in Served(f) PROVE Ordered(f, i)'
    BY <1>1, KeptFacts DEF OrderInv
  <2>1. Ordered(f, i)
    BY DEF InboundInv, OrderInv
  <2>2. CASE f # g
    BY <1>1, <1>5, <2>1, <2>2, KeptFacts DEF Ordered
  <2>3. CASE f = g
    <3>1. i \in Candidates(g) /\ i \in Rows(g)
      BY <1>1, <2>3, ComputingFacts
    <3>2. left > 0 => /\ \A j \in Candidates(g) : balance[j] = 0
                      /\ allowance[snapshot[i].site] = 0 /\ addition[i] = 0
      BY <1>1, <1>3, <3>1 DEF InboundInv, LeftInv
    <3> QED
      BY <1>1, <1>5, <2>1, <2>3, <3>2, KeptFacts DEF Ordered
  <2> QED
    BY <2>2, <2>3
<1>11. PlacesInv' /\ LimitsInv'
  BY <1>1, KeptFacts, LimitsKept DEF Computing, Serving
<1> QED
  BY <1>6, <1>7, <1>8, <1>9, <1>10, <1>11 DEF InboundInv

LEMMA FinishBatchInv == InboundInv /\ FinishBatch => InboundInv'
<1> SUFFICES ASSUME InboundInv, FinishBatch PROVE InboundInv'
  OBVIOUS
<1>1. /\ phase = "files" /\ file \notin Files
      /\ phase' = IF SumFunction([f \in Files |-> receipt[f].requested])
                     = SumFunction([f \in Files |-> ImportTotal(f) + pending[f].quantity])
                  THEN "done" ELSE "refused"
      /\ order' = order /\ delivery' = delivery /\ known' = known /\ choice' = choice
      /\ extra' = extra /\ target' = target /\ snapshot' = snapshot /\ receipt' = receipt
      /\ file' = file /\ todo' = todo /\ left' = left /\ balance' = balance
      /\ allowance' = allowance /\ addition' = addition
      /\ given' = given /\ pending' = pending
      /\ entered' = entered /\ workbook' = workbook /\ requests' = requests
  BY DEF FinishBatch, inputs, loop, results
<1>2. \A f \in Files : Settled(f)
  <2>1. file = NumFiles + 1 /\ NumFiles \in Nat
    BY <1>1, InboundAssumption DEF InboundInv, FilesInv, Computing, Files
  <2>2. \A f \in Files : f < file
    BY <2>1 DEF Files
  <2> QED
    BY <1>1, <2>2 DEF InboundInv, FilesInv, Computing
<1>3. [f \in Files |-> receipt[f].requested] = [f \in Files |-> ImportTotal(f) + pending[f].quantity]
  BY <1>2 DEF Settled
<1>4. phase' = "done"
  BY <1>1, <1>3
<1>5. TypeOK'
  BY <1>1, <1>4 DEF InboundInv, TypeOK
<1>6. SnapshotInv' /\ ReceiptsInv'
  BY <1>1, <1>4, KeptFacts DEF InboundInv, SnapshotInv, ReceiptsInv
<1>7. FilesInv'
  <2>1. \A f \in Files : Settled(f)'
    BY <1>1, <1>2, KeptFacts DEF Settled
  <2> QED
    BY <1>4, <2>1 DEF FilesInv, Serves, Serving, Computing
<1>8. TodoInv' /\ LeftInv'
  BY <1>4 DEF TodoInv, LeftInv, Serves, Serving
<1>9. OrderInv'
  <2>1. \A f \in Files : \A i \in Served(f) : Ordered(f, i)' = Ordered(f, i)
    BY <1>1, KeptFacts DEF Ordered
  <2> QED
    BY <1>1, <2>1, KeptFacts DEF InboundInv, OrderInv
<1>10. PlacesInv' /\ LimitsInv'
  BY <1>1, KeptFacts, LimitsKept DEF Computing
<1> QED
  BY <1>5, <1>6, <1>7, <1>8, <1>9, <1>10 DEF InboundInv

LEMMA EnterResultsInv == InboundInv /\ EnterResults => InboundInv'
<1> SUFFICES ASSUME InboundInv, EnterResults PROVE InboundInv'
  OBVIOUS
<1>1. /\ phase = "done" /\ entered = "nothing" /\ entered' = "this"
      /\ delivery' = delivery /\ known' = known /\ choice' = choice
      /\ extra' = extra /\ target' = target /\ snapshot' = snapshot /\ receipt' = receipt
      /\ phase' = phase /\ file' = file /\ todo' = todo /\ left' = left /\ balance' = balance
      /\ allowance' = allowance /\ addition' = addition
      /\ given' = given /\ pending' = pending /\ workbook' = workbook
      /\ requests' = requests
  BY DEF EnterResults, inputs, loop, results
<1>2. order' \in [Items -> Item] /\ \A i \in Items : order'[i].history = order[i].history + GivenTo(i)
  <2>1. PICK closed \in SUBSET Items :
           order' = [i \in Items |->
              [order[i] EXCEPT
                  !.history = @ + GivenTo(i),
                  !.kind = IF i \in closed THEN "completed" ELSE @]]
    BY DEF EnterResults, GivenTo
  <2>2. ASSUME NEW i \in Items
        PROVE  order'[i] \in Item /\ order'[i].history = order[i].history + GivenTo(i)
    <3>1. PICK r \in Item : r = order[i]
      BY DEF InboundInv, TypeOK
    <3>2. PICK q \in Nat : q = GivenTo(i)
      BY GivenFacts DEF InboundInv
    <3>3. PICK k \in Kinds : k = IF i \in closed THEN "completed" ELSE r.kind
      BY DEF Item, Kinds
    <3>4. order'[i] = [[r EXCEPT !.history = @ + q] EXCEPT !.kind = k]
      BY <2>1, <3>1, <3>2, <3>3
    <3>5. order'[i] = [number |-> r.number, site |-> r.site, kind |-> k,
                       expected |-> r.expected, history |-> r.history + q]
      BY <3>4 DEF Item
    <3> QED
      BY <3>1, <3>2, <3>5 DEF Item
  <2> QED
    BY <2>1, <2>2
<1>3. TypeOK'
  BY <1>1, <1>2 DEF InboundInv, TypeOK
<1>4. SnapshotInv'
  <2>1. snapshot # None /\ order = snapshot
    BY <1>1 DEF InboundInv, SnapshotInv
  <2> QED
    BY <1>1, <1>2, <2>1, KeptFacts DEF SnapshotInv
<1>5. ReceiptsInv'
  BY <1>1, KeptFacts DEF InboundInv, ReceiptsInv
<1>6. FilesInv'
  <2>1. \A f \in Files : Settled(f)'
    BY <1>1, KeptFacts DEF InboundInv, FilesInv, Settled
  <2> QED
    BY <1>1, <2>1 DEF FilesInv, Serves, Serving, Computing
<1>7. TodoInv' /\ LeftInv'
  BY <1>1 DEF TodoInv, LeftInv, Serves, Serving
<1>8. OrderInv'
  <2>1. \A f \in Files : \A i \in Served(f) : Ordered(f, i)' = Ordered(f, i)
    BY <1>1, KeptFacts DEF Ordered
  <2> QED
    BY <1>1, <2>1, KeptFacts DEF InboundInv, OrderInv
<1>9. PlacesInv' /\ LimitsInv'
  BY <1>1, KeptFacts, LimitsKept
<1> QED
  BY <1>3, <1>4, <1>5, <1>6, <1>7, <1>8, <1>9 DEF InboundInv

-------------------------------------------------------------------------------
(* Steps that give. *)

\* What is common to them: the file under way is given q of one source, and what is left
\* of it and of what it came from gets less.
LEMMA GivingFacts ==
    ASSUME InboundInv, NEW g \in Files, Serves(g)
    PROVE  /\ file = g /\ left \in Nat
           /\ Candidates(g) \in SUBSET Items
           /\ pending[g].quantity = 0
           /\ \E s \in Sites : /\ Site = s
                               /\ \A i \in Candidates(g) : snapshot[i].site = s
<1>1. file = g /\ phase \in Serving /\ left \in Nat
  BY DEF Serves, InboundInv, TypeOK
<1>2. /\ snapshot # None /\ snapshot \in [Items -> Item]
      /\ Matches(g) \in SUBSET Items /\ Candidates(g) \in SUBSET Matches(g)
  BY <1>1, ComputingFacts DEF Serving
<1>3. Candidates(g) # {} /\ pending[g] = NothingPending
  BY DEF InboundInv, FilesInv
<1>4. pending[g].quantity = 0
  <2>1. NothingPending.quantity = 0
    BY DEF NothingPending
  <2> QED
    BY <1>3, <2>1
<1>5. PICK c \in Candidates(g) : c = CHOOSE i \in Candidates(g) : TRUE
  BY <1>3
<1>6. Site = snapshot[c].site
  BY <1>1, <1>5 DEF Site
<1>7. snapshot[c].site \in Sites
  BY <1>2, <1>5 DEF Item
<1>8. \A i \in Candidates(g) : snapshot[i].site = snapshot[c].site
  BY <1>2, <1>5, MatchFacts DEF InboundInv
<1> QED
  BY <1>1, <1>2, <1>4, <1>6, <1>7, <1>8

LEMMA GivingInv ==
    ASSUME InboundInv, NEW g \in Files, Serves(g),
           NEW i \in Candidates(g), NEW source \in Sources, NEW q \in Nat, q <= left,
           Give(i, source, q), source = "target" => i \in Rows(g),
           phase' \in Serving, left' = left - q, file' = file, todo' \in SUBSET Items,
           balance' \in [Items -> Nat], allowance' \in [Sites -> Nat],
           addition' \in [Items -> Nat],
           UNCHANGED <<order, inputs, snapshot, receipt, pending, entered, requests>>
    PROVE  /\ TypeOK' /\ SnapshotInv' /\ ReceiptsInv' /\ FilesInv' /\ PlacesInv'
           /\ \A f \in Files : Serves(f)' <=> f = g
           /\ \A f \in Files : Candidates(f)' = Candidates(f)
           /\ source = "target" => Rows(g)' = Rows(g)
           /\ \A s \in Sites : At(s)' = At(s) /\ At(s) \in SUBSET Items
           /\ \A k \in Items : Receivable(k)' = Receivable(k)
           /\ \A o \in Sources, S \in SUBSET Items :
                 GivenAs(o, S)' = GivenAs(o, S) + (IF o = source /\ i \in S THEN q ELSE 0)
<1>1. /\ order' = order /\ delivery' = delivery /\ known' = known /\ choice' = choice
      /\ extra' = extra /\ target' = target /\ snapshot' = snapshot /\ receipt' = receipt
      /\ pending' = pending /\ entered' = entered /\ workbook' = workbook /\ requests' = requests
  BY DEF inputs
<1>2. /\ file = g /\ phase \in Serving /\ left \in Nat /\ i \in Items
      /\ Candidates(g) \in SUBSET Items
  BY GivingFacts DEF Serves
<1>3. TypeOK
  BY DEF InboundInv
<1>4. /\ given' \in [Files -> [Items -> Given]]
      /\ \A f \in Files, j \in Items :
            f # g \/ j # i \/ q = 0 => given'[f][j] = given[f][j]
      /\ \A f \in Files : f # g => given'[f] = given[f]
      /\ \A o \in Sources :
            given'[g][i][o] = given[g][i][o] + (IF o = source THEN q ELSE 0)
  BY <1>2, <1>3, GiveFacts
<1>5. TypeOK'
  <2>1. left' \in Nat /\ file' \in Nat
    BY <1>2 DEF Files
  <2>2. phase' \in {"draft", "prepare", "compute", "files", "normal", "rule",
                    "target", "rest", "done", "refused"}
    BY DEF Serving
  <2> QED
    BY <1>1, <1>4, <2>1, <2>2 DEF InboundInv, TypeOK
<1>6. /\ \A f \in Files : Candidates(f)' = Candidates(f) /\ Checked(f)' = Checked(f)
      /\ \A s \in Sites : At(s)' = At(s)
      /\ \A k \in Items : Receivable(k)' = Receivable(k)
  BY <1>1, SameData
<1>7. /\ ImportTotal(g)' = ImportTotal(g) + q
      /\ \A f \in Files : f # g => ImportTotal(f)' = ImportTotal(f)
      /\ \A o \in Sources, S \in SUBSET Items :
            GivenAs(o, S)' = GivenAs(o, S) + (IF o = source /\ i \in S THEN q ELSE 0)
  BY <1>2, <1>3, <1>5, GiveTotals
<1>8. SnapshotInv'
  BY <1>1, <1>2 DEF InboundInv, SnapshotInv, Serving
<1>9. ReceiptsInv'
  BY <1>1, <1>2, <1>6 DEF InboundInv, ReceiptsInv, Serving
<1>10. \A f \in Files : Serves(f)' <=> f = g
  BY <1>2 DEF Serves
<1>11. FilesInv'
  <2>1. \A f \in Files : f # g => (Settled(f)' = Settled(f)) /\ (Untouched(f)' = Untouched(f))
    BY <1>1, <1>4, <1>7 DEF Settled, Untouched
  <2>2. /\ file \in 1..(NumFiles + 1)
        /\ \A f \in Files : (f < file => Settled(f)) /\ (f > file => Untouched(f))
    BY <1>2 DEF InboundInv, FilesInv, Computing
  <2>3. \A f \in Files : /\ f < file' => f < file /\ f # g
                         /\ f > file' => f > file /\ f # g
    BY <1>2 DEF Files
  <2>4. \A f \in Files : (f < file' => Settled(f)') /\ (f > file' => Untouched(f)')
    BY <2>1, <2>2, <2>3
  <2>5. /\ receipt[g].state = "confirmed" /\ Candidates(g) # {} /\ pending[g] = NothingPending
        /\ receipt[g].requested = ImportTotal(g) + left
    BY DEF InboundInv, FilesInv
  <2>6. ImportTotal(g) \in Nat
    BY <1>3, GivenFacts
  <2>7. /\ receipt'[g].state = "confirmed" /\ Candidates(g)' # {} /\ pending'[g] = NothingPending
        /\ receipt'[g].requested = ImportTotal(g)' + left'
    BY <1>1, <1>2, <1>6, <1>7, <2>5, <2>6
  <2> QED
    BY <1>2, <1>10, <2>2, <2>4, <2>7 DEF FilesInv, Serving
<1>12. PlacesInv'
  <2> SUFFICES ASSUME NEW f \in Files, NEW j \in Items,
                      given'[f][j] # [normal |-> 0, rule |-> 0, target |-> 0]
               PROVE  /\ receipt[f].state = "confirmed" /\ j \in Candidates(f)
                      /\ HasRow(given'[f][j])
    BY <1>1, <1>6 DEF PlacesInv, HasRow
  <2>1. CASE given'[f][j] = given[f][j]
    BY <2>1 DEF InboundInv, PlacesInv
  <2>2. CASE given'[f][j] # given[f][j]
    <3>1. f = g /\ j = i /\ q > 0
      BY <1>4, <2>2
    <3>2. receipt[g].state = "confirmed"
      BY DEF InboundInv, FilesInv
    <3>3. /\ given[g][i].normal \in Nat /\ given[g][i].rule \in Nat
          /\ given'[g][i].normal = given[g][i].normal + (IF source = "normal" THEN q ELSE 0)
          /\ given'[g][i].rule = given[g][i].rule + (IF source = "rule" THEN q ELSE 0)
      BY <1>2, <1>3, <1>4, GivenFacts DEF Sources
    <3>4. source = "target" => given[g][i].normal + given[g][i].rule > 0
      BY DEF Rows, HasRow
    <3>5. given'[g][i].normal + given'[g][i].rule > 0
      BY <3>1, <3>3, <3>4 DEF Sources
    <3> QED
      BY <3>1, <3>2, <3>5 DEF HasRow
  <2> QED
    BY <2>1, <2>2
<1>13. ASSUME source = "target" PROVE Rows(g)' = Rows(g)
  <2>1. \A j \in Items : given'[g][j].normal = given[g][j].normal
                         /\ given'[g][j].rule = given[g][j].rule
    BY <1>2, <1>3, <1>4, <1>13, GivenFacts DEF Sources
  <2> QED
    BY <2>1 DEF Rows, HasRow
<1> QED
  BY <1>5, <1>6, <1>7, <1>8, <1>9, <1>10, <1>11, <1>12, <1>13 DEF At

\* The order of the sources, when nothing that was used up comes back and what the file is
\* given now is in order.
LEMMA OrderGiven ==
    ASSUME InboundInv, NEW g \in Files, Serves(g),
           NEW i \in Candidates(g), NEW source \in Sources, NEW q \in Nat,
           Give(i, source, q), snapshot' = snapshot, pending' = pending,
           \A f \in Files : Candidates(f)' = Candidates(f),
           \A j \in Items : balance[j] = 0 => balance'[j] = 0,
           \A s \in Sites : allowance[s] = 0 => allowance'[s] = 0,
           \A j \in Items : addition[j] = 0 => addition'[j] = 0,
           q > 0 => /\ source = "normal" =>
                          \A j \in Candidates(g) : j < i => balance'[j] = 0
                    /\ source = "rule" => \A j \in Candidates(g) : balance'[j] = 0
                    /\ source = "target" => allowance'[snapshot[i].site] = 0
    PROVE  OrderInv'
<1>1. /\ file = g /\ i \in Items /\ pending[g].quantity = 0
  BY GivingFacts
<1>2. /\ snapshot \in [Items -> Item]
      /\ \A f \in Files : Candidates(f) \in SUBSET Items
  BY ComputingFacts DEF Serves, Serving
<1>3. /\ \A f \in Files, j \in Items :
            f # g \/ j # i \/ q = 0 => given'[f][j] = given[f][j]
      /\ \A o \in Sources :
            given'[g][i][o] = given[g][i][o] + (IF o = source THEN q ELSE 0)
  BY <1>1, GiveFacts DEF InboundInv
<1> SUFFICES ASSUME NEW f \in Files, NEW k \in Items, k \in Served(f)' PROVE Ordered(f, k)'
  BY DEF OrderInv, Served
<1>4. snapshot[k].site \in Sites
  BY <1>2 DEF Item
<1>5. ASSUME Ordered(f, k), given'[f][k] = given[f][k] PROVE Ordered(f, k)'
  BY <1>2, <1>4, <1>5 DEF Ordered
<1>6. CASE given'[f][k] = given[f][k]
  <2>1. k \in Served(f)
    BY <1>6 DEF Served, Imported
  <2> QED
    BY <1>5, <1>6, <2>1 DEF InboundInv, OrderInv
<1>7. CASE given'[f][k] # given[f][k]
  <2>1. f = g /\ k = i /\ q > 0
    BY <1>3, <1>7
  <2>2. /\ given[g][i].normal \in Nat /\ given[g][i].rule \in Nat /\ given[g][i].target \in Nat
        /\ given'[g][i].normal = given[g][i].normal + (IF source = "normal" THEN q ELSE 0)
        /\ given'[g][i].rule = given[g][i].rule + (IF source = "rule" THEN q ELSE 0)
        /\ given'[g][i].target = given[g][i].target + (IF source = "target" THEN q ELSE 0)
    BY <1>1, <1>3, GivenFacts DEF InboundInv, Sources
  <2>3. (given[g][i].normal > 0 \/ given[g][i].rule > 0 \/ given[g][i].target > 0)
           => Ordered(g, i)
    BY <1>1, <2>2 DEF InboundInv, OrderInv, Served, Imported
  <2>4. given'[g][i].normal > 0 => \A j \in Candidates(g) : j < i => balance'[j] = 0
    BY <1>2, <2>1, <2>2, <2>3 DEF Ordered
  <2>5. given'[g][i].rule > 0 => \A j \in Candidates(g) : balance'[j] = 0
    BY <1>2, <2>1, <2>2, <2>3 DEF Ordered
  <2>6. given'[g][i].target > 0 => allowance'[snapshot[i].site] = 0
    BY <1>4, <2>1, <2>2, <2>3 DEF Ordered
  <2> QED
    BY <1>1, <2>1, <2>4, <2>5, <2>6 DEF Ordered
<1> QED
  BY <1>6, <1>7

LEMMA TakeNormalInv == ASSUME InboundInv, NEW i \in Items, TakeNormal(i) PROVE InboundInv'
<1> DEFINE q == Least(left, balance[i])
<1>1. /\ phase = "normal" /\ IsFirst(i, todo) /\ Give(i, "normal", q)
      /\ balance' = [balance EXCEPT ![i] = @ - q]
      /\ left' = left - q /\ todo' = todo \ {i}
      /\ phase' = IF todo = {i} THEN "rule" ELSE phase
      /\ file' = file /\ allowance' = allowance /\ addition' = addition
      /\ UNCHANGED <<order, inputs, snapshot, receipt, pending, entered, requests>>
  BY DEF TakeNormal
<1>2. /\ snapshot' = snapshot /\ pending' = pending /\ target' = target /\ extra' = extra
  BY <1>1 DEF inputs
<1>3. PICK g \in Files : g = file
  BY <1>1 DEF InboundInv, FilesInv, Serving
<1>4. Serves(g)
  BY <1>1, <1>3 DEF Serves, Serving
<1>5. /\ todo \subseteq Candidates(g) /\ i \in todo /\ i \in Candidates(g)
      /\ \A j \in todo : i <= j
  BY <1>1, <1>4 DEF InboundInv, TodoInv, IsFirst
<1>6. /\ left \in Nat /\ Candidates(g) \in SUBSET Items
      /\ balance \in [Items -> Nat] /\ allowance \in [Sites -> Nat]
      /\ addition \in [Items -> Nat] /\ todo \subseteq Items
  BY <1>4, GivingFacts DEF InboundInv, TypeOK
<1>7. /\ q \in Nat /\ q <= left /\ q <= balance[i] /\ (q = left \/ q = balance[i])
  BY <1>6, LeastFacts
<1> HIDE DEF q
<1>8. /\ balance' \in [Items -> Nat] /\ balance'[i] = balance[i] - q
      /\ \A j \in Items : j # i => balance'[j] = balance[j]
  BY <1>1, <1>6, <1>7
<1>9. /\ TypeOK' /\ SnapshotInv' /\ ReceiptsInv' /\ FilesInv' /\ PlacesInv'
      /\ \A f \in Files : Serves(f)' <=> f = g
      /\ \A f \in Files : Candidates(f)' = Candidates(f)
      /\ \A s \in Sites : At(s)' = At(s) /\ At(s) \in SUBSET Items
      /\ \A k \in Items : Receivable(k)' = Receivable(k)
      /\ \A o \in Sources, S \in SUBSET Items :
            GivenAs(o, S)' = GivenAs(o, S) + (IF o = "normal" /\ i \in S THEN q ELSE 0)
  <2>1. phase' \in Serving /\ todo' \in SUBSET Items /\ "normal" \in Sources
    BY <1>1, <1>6 DEF Serving, Sources
  <2>2. PICK source \in Sources : source = "normal"
    BY <2>1
  <2> QED
    BY <1>1, <1>4, <1>5, <1>6, <1>7, <1>8, <2>1, <2>2, GivingInv
<1>10. TodoInv'
  <2>1. CASE todo = {i}
    BY <1>1, <1>9, <2>1 DEF TodoInv
  <2>2. CASE todo # {i}
    BY <1>1, <1>5, <1>9, <2>2 DEF TodoInv
  <2> QED
    BY <2>1, <2>2
<1>11. LeftInv'
  <2> SUFFICES ASSUME left' > 0, NEW j \in Candidates(g), phase' # "normal" \/ j \notin todo'
               PROVE  balance'[j] = 0
    BY <1>1, <1>9 DEF LeftInv
  <2>1. left > 0 /\ balance'[i] = 0
    BY <1>1, <1>6, <1>7, <1>8
  <2>2. j = i \/ j \notin todo
    BY <1>1
  <2> QED
    BY <1>1, <1>4, <1>6, <1>8, <2>1, <2>2 DEF InboundInv, LeftInv
<1>12. OrderInv'
  <2>1. \A j \in Items : balance[j] = 0 => balance'[j] = 0
    BY <1>6, <1>7, <1>8
  <2>2. ASSUME q > 0, NEW j \in Candidates(g), j < i PROVE balance'[j] = 0
    <3>1. j \notin todo
      BY <1>5, <1>6, <2>2 DEF Items
    <3>2. left > 0
      BY <1>6, <1>7, <2>2
    <3>3. balance[j] = 0
      BY <1>1, <1>4, <3>1, <3>2 DEF InboundInv, LeftInv
    <3> QED
      BY <1>6, <2>1, <3>3
  <2>3. PICK source \in Sources : source = "normal"
    BY DEF Sources
  <2> QED
    BY <1>1, <1>2, <1>4, <1>5, <1>7, <1>9, <2>1, <2>2, <2>3, OrderGiven
<1>13. LimitsInv'
  <2>1. /\ \A k \in Items : /\ GivenAs("normal", {k}) + balance[k] = Receivable(k)
                            /\ GivenAs("target", {k}) + addition[k] = target[k]
        /\ \A s \in Sites : GivenAs("rule", At(s)) + allowance[s] = Limit + extra[s]
    BY <1>1 DEF InboundInv, LimitsInv, Computing, Serving
  <2>2. ASSUME NEW k \in Items
        PROVE  /\ GivenAs("normal", {k})' + balance'[k] = Receivable(k)'
               /\ GivenAs("target", {k})' + addition'[k] = target'[k]
    <3>1. PICK n \in Nat, t \in Nat : n = GivenAs("normal", {k}) /\ t = GivenAs("target", {k})
      BY GivenAsFacts DEF InboundInv, Sources
    <3>2. /\ GivenAs("normal", {k})' = n + (IF k = i THEN q ELSE 0)
          /\ GivenAs("target", {k})' = t
      BY <1>9, <3>1 DEF Sources
    <3>3. balance[k] \in Nat /\ balance'[k] = balance[k] - (IF k = i THEN q ELSE 0)
      BY <1>6, <1>8
    <3> QED
      BY <1>1, <1>2, <1>7, <1>9, <2>1, <3>1, <3>2, <3>3
  <2>3. ASSUME NEW s \in Sites PROVE GivenAs("rule", At(s))' + allowance'[s] = Limit + extra'[s]
    <3>1. PICK S \in SUBSET Items : S = At(s) /\ S = At(s)'
      BY <1>9
    <3>2. GivenAs("rule", S)' = GivenAs("rule", S)
      <4>1. GivenAs("rule", S) \in Nat
        BY GivenAsFacts DEF InboundInv, Sources
      <4> QED
        BY <1>9, <4>1 DEF Sources
    <3>3. GivenAs("rule", At(s))' = GivenAs("rule", At(s))
      BY <3>1, <3>2 DEF GivenAs
    <3> QED
      BY <1>1, <1>2, <2>1, <3>3
  <2> QED
    BY <2>2, <2>3 DEF LimitsInv
<1> QED
  BY <1>9, <1>10, <1>11, <1>12, <1>13 DEF InboundInv

LEMMA TakeRuleInv == InboundInv /\ TakeRule => InboundInv'
<1> SUFFICES ASSUME InboundInv, TakeRule PROVE InboundInv'
  OBVIOUS
<1>1. PICK i \in Candidates(file) :
         /\ IsLast(i, Candidates(file)) /\ Give(i, "rule", Least(left, allowance[Site]))
  BY DEF TakeRule
<1>2. PICK g \in Files : g = file
  BY DEF TakeRule, InboundInv, FilesInv, Serving
<1>3. Serves(g)
  BY <1>2 DEF TakeRule, Serves, Serving
<1>4. PICK z \in Sites : Site = z /\ \A j \in Candidates(g) : snapshot[j].site = z
  BY <1>3, GivingFacts
<1> DEFINE q == Least(left, allowance[z])
<1>5. /\ phase = "rule" /\ i \in Candidates(g) /\ Give(i, "rule", q)
      /\ allowance' = [allowance EXCEPT ![z] = @ - q]
      /\ left' = left - q /\ todo' = {k \in Items : HasRow(given'[g][k])}
      /\ phase' = IF todo' = {} THEN "rest" ELSE "target"
      /\ file' = file /\ balance' = balance /\ addition' = addition
      /\ UNCHANGED <<order, inputs, snapshot, receipt, pending, entered, requests>>
  BY <1>1, <1>2, <1>4 DEF TakeRule
<1>6. /\ snapshot' = snapshot /\ pending' = pending /\ target' = target /\ extra' = extra
  BY <1>5 DEF inputs
<1>7. /\ left \in Nat /\ Candidates(g) \in SUBSET Items
      /\ balance \in [Items -> Nat] /\ allowance \in [Sites -> Nat]
      /\ addition \in [Items -> Nat]
  BY <1>3, GivingFacts DEF InboundInv, TypeOK
<1>8. /\ q \in Nat /\ q <= left /\ q <= allowance[z] /\ (q = left \/ q = allowance[z])
  BY <1>7, LeastFacts
<1> HIDE DEF q
<1>9. /\ allowance' \in [Sites -> Nat] /\ allowance'[z] = allowance[z] - q
      /\ \A s \in Sites : s # z => allowance'[s] = allowance[s]
  BY <1>5, <1>7, <1>8
<1>10. PICK source \in Sources : source = "rule"
  BY DEF Sources
<1>11. /\ TypeOK' /\ SnapshotInv' /\ ReceiptsInv' /\ FilesInv' /\ PlacesInv'
       /\ \A f \in Files : Serves(f)' <=> f = g
       /\ \A f \in Files : Candidates(f)' = Candidates(f)
       /\ \A s \in Sites : At(s)' = At(s) /\ At(s) \in SUBSET Items
       /\ \A k \in Items : Receivable(k)' = Receivable(k)
       /\ \A o \in Sources, S \in SUBSET Items :
             GivenAs(o, S)' = GivenAs(o, S) + (IF o = "rule" /\ i \in S THEN q ELSE 0)
  <2>1. phase' \in Serving /\ todo' \in SUBSET Items
    BY <1>5 DEF Serving
  <2> QED
    BY <1>3, <1>5, <1>7, <1>8, <1>9, <1>10, <2>1, GivingInv
<1>12. Rows(g)' = todo'
  BY <1>5 DEF Rows
<1>13. TodoInv'
  BY <1>5, <1>11, <1>12 DEF TodoInv
<1>14. left > 0 => \A j \in Candidates(g) : balance[j] = 0
  BY <1>3, <1>5 DEF InboundInv, LeftInv
<1>15. LeftInv'
  <2> SUFFICES ASSUME left' > 0
               PROVE  /\ \A j \in Candidates(g) : balance'[j] = 0 /\ allowance'[snapshot[j].site] = 0
                      /\ \A j \in Rows(g)' : phase' = "target" /\ j \in todo'
    BY <1>5, <1>6, <1>11 DEF LeftInv
  <2>1. left > 0 /\ allowance'[z] = 0
    BY <1>5, <1>7, <1>8, <1>9
  <2>2. \A j \in Candidates(g) : balance'[j] = 0 /\ allowance'[snapshot[j].site] = 0
    BY <1>4, <1>5, <1>14, <2>1
  <2>3. \A j \in Rows(g)' : phase' = "target" /\ j \in todo'
    BY <1>5, <1>12
  <2> QED
    BY <2>2, <2>3
<1>16. OrderInv'
  <2>1. \A s \in Sites : allowance[s] = 0 => allowance'[s] = 0
    BY <1>7, <1>8, <1>9
  <2>2. q > 0 => \A j \in Candidates(g) : balance'[j] = 0
    BY <1>5, <1>7, <1>8, <1>14
  <2> QED
    BY <1>3, <1>5, <1>6, <1>8, <1>10, <1>11, <2>1, <2>2, OrderGiven
<1>17. LimitsInv'
  <2>1. /\ \A k \in Items : /\ GivenAs("normal", {k}) + balance[k] = Receivable(k)
                            /\ GivenAs("target", {k}) + addition[k] = target[k]
        /\ \A s \in Sites : GivenAs("rule", At(s)) + allowance[s] = Limit + extra[s]
    BY <1>5 DEF InboundInv, LimitsInv, Computing, Serving
  <2>2. ASSUME NEW k \in Items
        PROVE  /\ GivenAs("normal", {k})' + balance'[k] = Receivable(k)'
               /\ GivenAs("target", {k})' + addition'[k] = target'[k]
    <3>1. PICK n \in Nat, t \in Nat : n = GivenAs("normal", {k}) /\ t = GivenAs("target", {k})
      BY GivenAsFacts DEF InboundInv, Sources
    <3>2. GivenAs("normal", {k})' = n /\ GivenAs("target", {k})' = t
      BY <1>11, <3>1 DEF Sources
    <3> QED
      BY <1>5, <1>6, <1>11, <2>1, <3>1, <3>2
  <2>3. ASSUME NEW s \in Sites PROVE GivenAs("rule", At(s))' + allowance'[s] = Limit + extra'[s]
    <3>1. PICK S \in SUBSET Items : S = At(s) /\ S = At(s)'
      BY <1>11
    <3>2. PICK n \in Nat : n = GivenAs("rule", S)
      BY GivenAsFacts DEF InboundInv, Sources
    <3>3. i \in S <=> s = z
      BY <1>4, <1>5, <1>7, <3>1 DEF At
    <3>4. GivenAs("rule", S)' = n + (IF s = z THEN q ELSE 0)
      BY <1>11, <3>2, <3>3 DEF Sources
    <3>5. GivenAs("rule", At(s))' = n + (IF s = z THEN q ELSE 0) /\ GivenAs("rule", At(s)) = n
      BY <3>1, <3>2, <3>4 DEF GivenAs
    <3>6. allowance[s] \in Nat /\ allowance'[s] = allowance[s] - (IF s = z THEN q ELSE 0)
      BY <1>7, <1>9
    <3> QED
      BY <1>6, <1>8, <2>1, <3>2, <3>5, <3>6
  <2> QED
    BY <2>2, <2>3 DEF LimitsInv
<1> QED
  BY <1>11, <1>13, <1>15, <1>16, <1>17 DEF InboundInv

LEMMA TakeTargetInv == ASSUME InboundInv, NEW i \in Items, TakeTarget(i) PROVE InboundInv'
<1> DEFINE q == Least(left, addition[i])
<1>1. /\ phase = "target" /\ IsFirst(i, todo) /\ Give(i, "target", q)
      /\ addition' = [addition EXCEPT ![i] = @ - q]
      /\ left' = left - q /\ todo' = todo \ {i}
      /\ phase' = IF todo = {i} THEN "rest" ELSE phase
      /\ file' = file /\ balance' = balance /\ allowance' = allowance
      /\ UNCHANGED <<order, inputs, snapshot, receipt, pending, entered, requests>>
  BY DEF TakeTarget
<1>2. /\ snapshot' = snapshot /\ pending' = pending /\ target' = target /\ extra' = extra
  BY <1>1 DEF inputs
<1>3. PICK g \in Files : g = file
  BY <1>1 DEF InboundInv, FilesInv, Serving
<1>4. Serves(g)
  BY <1>1, <1>3 DEF Serves, Serving
<1>5. /\ todo \subseteq Rows(g) /\ i \in todo /\ i \in Rows(g) /\ Rows(g) \subseteq Candidates(g)
      /\ i \in Candidates(g)
  BY <1>1, <1>4, ComputingFacts DEF InboundInv, TodoInv, IsFirst
<1>6. /\ left \in Nat /\ Candidates(g) \in SUBSET Items
      /\ balance \in [Items -> Nat] /\ allowance \in [Sites -> Nat]
      /\ addition \in [Items -> Nat] /\ todo \subseteq Items
      /\ snapshot[i].site \in Sites
  <2>1. snapshot \in [Items -> Item]
    BY <1>1, ComputingFacts
  <2> QED
    BY <1>4, <2>1, GivingFacts DEF InboundInv, TypeOK, Item
<1>7. /\ q \in Nat /\ q <= left /\ q <= addition[i] /\ (q = left \/ q = addition[i])
  BY <1>6, LeastFacts
<1> HIDE DEF q
<1>8. /\ addition' \in [Items -> Nat] /\ addition'[i] = addition[i] - q
      /\ \A j \in Items : j # i => addition'[j] = addition[j]
  BY <1>1, <1>6, <1>7
<1>9. PICK source \in Sources : source = "target"
  BY DEF Sources
<1>10. /\ TypeOK' /\ SnapshotInv' /\ ReceiptsInv' /\ FilesInv' /\ PlacesInv'
       /\ \A f \in Files : Serves(f)' <=> f = g
       /\ \A f \in Files : Candidates(f)' = Candidates(f)
       /\ Rows(g)' = Rows(g)
       /\ \A s \in Sites : At(s)' = At(s) /\ At(s) \in SUBSET Items
       /\ \A k \in Items : Receivable(k)' = Receivable(k)
       /\ \A o \in Sources, S \in SUBSET Items :
             GivenAs(o, S)' = GivenAs(o, S) + (IF o = "target" /\ i \in S THEN q ELSE 0)
  <2>1. phase' \in Serving /\ todo' \in SUBSET Items
    BY <1>1, <1>6 DEF Serving
  <2> QED
    BY <1>1, <1>4, <1>5, <1>6, <1>7, <1>8, <1>9, <2>1, GivingInv
<1>11. TodoInv'
  <2>1. CASE todo = {i}
    BY <1>1, <1>10, <2>1 DEF TodoInv
  <2>2. CASE todo # {i}
    BY <1>1, <1>5, <1>10, <2>2 DEF TodoInv
  <2> QED
    BY <2>1, <2>2
<1>12. left > 0 => /\ \A j \in Candidates(g) : balance[j] = 0 /\ allowance[snapshot[j].site] = 0
                   /\ \A j \in Rows(g) : j \notin todo => addition[j] = 0
  BY <1>1, <1>4 DEF InboundInv, LeftInv
<1>13. LeftInv'
  <2> SUFFICES ASSUME left' > 0
               PROVE  /\ \A j \in Candidates(g) : balance[j] = 0 /\ allowance[snapshot[j].site] = 0
                      /\ \A j \in Rows(g) : j \notin todo' => addition'[j] = 0
    <3>1. phase' = "rest" => todo' = {}
      BY <1>1, <1>5
    <3> QED
      BY <1>1, <1>2, <1>10, <3>1 DEF LeftInv
  <2>1. left > 0 /\ addition'[i] = 0
    BY <1>1, <1>6, <1>7, <1>8
  <2>2. \A j \in Rows(g) : j \notin todo' => j = i \/ j \notin todo
    BY <1>1
  <2> QED
    BY <1>5, <1>6, <1>8, <1>12, <2>1, <2>2
<1>14. OrderInv'
  <2>1. \A j \in Items : addition[j] = 0 => addition'[j] = 0
    BY <1>6, <1>7, <1>8
  <2>2. q > 0 => allowance'[snapshot[i].site] = 0
    BY <1>1, <1>5, <1>6, <1>7, <1>12
  <2> QED
    BY <1>1, <1>2, <1>4, <1>5, <1>7, <1>9, <1>10, <2>1, <2>2, OrderGiven
<1>15. LimitsInv'
  <2>1. /\ \A k \in Items : /\ GivenAs("normal", {k}) + balance[k] = Receivable(k)
                            /\ GivenAs("target", {k}) + addition[k] = target[k]
        /\ \A s \in Sites : GivenAs("rule", At(s)) + allowance[s] = Limit + extra[s]
    BY <1>1 DEF InboundInv, LimitsInv, Computing, Serving
  <2>2. ASSUME NEW k \in Items
        PROVE  /\ GivenAs("normal", {k})' + balance'[k] = Receivable(k)'
               /\ GivenAs("target", {k})' + addition'[k] = target'[k]
    <3>1. PICK n \in Nat, t \in Nat : n = GivenAs("normal", {k}) /\ t = GivenAs("target", {k})
      BY GivenAsFacts DEF InboundInv, Sources
    <3>2. /\ GivenAs("normal", {k})' = n
          /\ GivenAs("target", {k})' = t + (IF k = i THEN q ELSE 0)
      BY <1>10, <3>1 DEF Sources
    <3>3. addition[k] \in Nat /\ addition'[k] = addition[k] - (IF k = i THEN q ELSE 0)
      BY <1>6, <1>8
    <3> QED
      BY <1>1, <1>2, <1>7, <1>10, <2>1, <3>1, <3>2, <3>3
  <2>3. ASSUME NEW s \in Sites PROVE GivenAs("rule", At(s))' + allowance'[s] = Limit + extra'[s]
    <3>1. PICK S \in SUBSET Items : S = At(s) /\ S = At(s)'
      BY <1>10
    <3>2. GivenAs("rule", S)' = GivenAs("rule", S)
      <4>1. GivenAs("rule", S) \in Nat
        BY GivenAsFacts DEF InboundInv, Sources
      <4> QED
        BY <1>10, <4>1 DEF Sources
    <3>3. GivenAs("rule", At(s))' = GivenAs("rule", At(s))
      BY <3>1, <3>2 DEF GivenAs
    <3> QED
      BY <1>1, <1>2, <2>1, <3>3
  <2> QED
    BY <2>2, <2>3 DEF LimitsInv
<1> QED
  BY <1>10, <1>11, <1>13, <1>14, <1>15 DEF InboundInv

-------------------------------------------------------------------------------
LEMMA NextInv == InboundInv /\ [Next]_vars => InboundInv'
<1> SUFFICES ASSUME InboundInv, [Next]_vars PROVE InboundInv'
  OBVIOUS
<1>1. CASE Fetch
  BY <1>1, FetchInv
<1>2. CASE Check
  BY <1>2, CheckInv
<1>3. CASE StartCompute
  BY <1>3, StartComputeInv
<1>4. CASE SkipFile
  BY <1>4, SkipFileInv
<1>5. CASE StartFile
  BY <1>5, StartFileInv
<1>6. ASSUME NEW i \in Items, TakeNormal(i) PROVE InboundInv'
  BY <1>6, TakeNormalInv
<1>7. CASE TakeRule
  BY <1>7, TakeRuleInv
<1>8. ASSUME NEW i \in Items, TakeTarget(i) PROVE InboundInv'
  BY <1>8, TakeTargetInv
<1>9. CASE FinishFile
  BY <1>9, FinishFileInv
<1>10. CASE FinishBatch
  BY <1>10, FinishBatchInv
<1>11. ASSUME NEW f \in Files, NEW s \in Sites, ChooseSite(f, s) PROVE InboundInv'
  BY <1>11, ChooseSiteInv
<1>12. CASE Refresh
  BY <1>12, RefreshInv
<1>13. ASSUME NEW f \in Files, NEW i \in Items, NEW q \in 0..MaxExtra, SaveTarget(f, i, q)
       PROVE  InboundInv'
  BY <1>13, SaveTargetInv
<1>14. ASSUME NEW s \in Sites, NEW q \in 0..MaxExtra, SaveExtra(s, q) PROVE InboundInv'
  BY <1>14, SaveExtraInv
<1>15. ASSUME NEW f \in Files, NEW s \in Sites, NEW z \in Sites, NEW q \in 0..MaxExtra,
              Adjust(f, s, z, q)
       PROVE  InboundInv'
  BY <1>15, AdjustInv
<1>16. CASE EnterResults
  BY <1>16, EnterResultsInv
<1>17. CASE ReplaceInbound
  BY <1>17, ReplaceInboundInv
<1>18. CASE UNCHANGED vars
  <2>1. /\ order' = order /\ delivery' = delivery /\ known' = known /\ choice' = choice
        /\ extra' = extra /\ target' = target /\ snapshot' = snapshot /\ receipt' = receipt
        /\ phase' = phase /\ file' = file /\ todo' = todo /\ left' = left
        /\ balance' = balance /\ allowance' = allowance /\ addition' = addition
        /\ given' = given /\ pending' = pending /\ entered' = entered
        /\ workbook' = workbook /\ requests' = requests
    BY <1>18 DEF vars, inputs, loop, results
  <2>2. TypeOK' /\ SnapshotInv' /\ ReceiptsInv' /\ PlacesInv'
    BY <2>1, KeptFacts DEF InboundInv, TypeOK, SnapshotInv, ReceiptsInv
  <2>3. /\ \A f \in Files : /\ Settled(f)' = Settled(f) /\ Untouched(f)' = Untouched(f)
                            /\ Serves(f)' = Serves(f)
        /\ \A f \in Files : \A i \in Served(f) : Ordered(f, i)' = Ordered(f, i)
    BY <2>1, KeptFacts DEF Settled, Untouched, Serves, Ordered
  <2>4. FilesInv'
    BY <2>1, <2>3, KeptFacts DEF InboundInv, FilesInv
  <2>5. TodoInv' /\ LeftInv' /\ OrderInv'
    BY <2>1, <2>3, KeptFacts DEF InboundInv, TodoInv, LeftInv, OrderInv
  <2>6. LimitsInv'
    <3>1. CASE phase \in Computing \cup {"done"}
      BY <2>1, <3>1, LimitsKept
    <3>2. CASE phase \notin Computing \cup {"done"}
      BY <2>1, <3>2 DEF LimitsInv
    <3> QED
      BY <3>1, <3>2
  <2> QED
    BY <2>2, <2>4, <2>5, <2>6 DEF InboundInv
<1> QED
  BY <1>1, <1>2, <1>3, <1>4, <1>5, <1>6, <1>7, <1>8, <1>9, <1>10, <1>11, <1>12, <1>13,
     <1>14, <1>15, <1>16, <1>17, <1>18 DEF Next

LEMMA SpecInv == Spec => []InboundInv
  BY InitInv, NextInv, PTL DEF Spec

-------------------------------------------------------------------------------
(* What the invariant says of a computed batch. *)

\* No two files of a computed batch give to one item: they would claim one history.
LEMMA OneGiver ==
    ASSUME InboundInv, phase = "done", NEW f \in Files, receipt[f].state = "confirmed",
           NEW g \in Files, g # f, NEW i \in Matches(f)
    PROVE  Imported(g, i) = 0
<1>1. SUFFICES ASSUME Imported(g, i) # 0 PROVE FALSE
  OBVIOUS
<1>2. /\ snapshot # None /\ TypeOK
      /\ receipt[f] = Checked(f) /\ receipt[g] = Checked(g)
      /\ Matches(f) \in SUBSET Items /\ Candidates(g) \in SUBSET Matches(g)
  BY ComputingFacts DEF InboundInv
<1>3. given[g][i] # [normal |-> 0, rule |-> 0, target |-> 0]
  <2>1. CASE given[g][i] = [normal |-> 0, rule |-> 0, target |-> 0]
    <3>1. given[g][i].normal = 0 /\ given[g][i].rule = 0 /\ given[g][i].target = 0
      BY <2>1
    <3> QED
      BY <1>1, <3>1 DEF Imported
  <2> QED
    BY <2>1
<1>4. receipt[g].state = "confirmed" /\ i \in Matches(g)
  BY <1>2, <1>3 DEF InboundInv, PlacesInv
<1>5. HasLine(g) /\ ~HasIssue(g) /\ ~Overlaps(f)
  BY <1>2, <1>4, CheckedFacts
<1>6. FullSite(f) = {snapshot[i].site} /\ FullSite(g) = {snapshot[i].site}
  BY <1>2, <1>4, MatchFacts
<1>7. snapshot[i].number \in delivery[f].numbers \cap delivery[g].numbers
  BY <1>4 DEF Matches, Numbered
<1> QED
  BY <1>5, <1>6, <1>7 DEF Overlaps

\* No piece of a file is counted twice or left out, whatever the ERP has received since.
LEMMA PiecesOfFile ==
    ASSUME InboundInv, phase = "done", NEW f \in Files, receipt[f].state = "confirmed"
    PROVE  History(f) + ImportTotal(f) + pending[f].quantity = delivery[f].cumulative
<1>1. /\ snapshot # None /\ TypeOK
      /\ receipt[f] = Checked(f) /\ receipt[f].requested \in Nat
      /\ ImportTotal(f) \in Nat /\ pending[f].quantity \in Nat
  BY ComputingFacts DEF InboundInv
<1>2. receipt[f].requested + History(f) = delivery[f].cumulative /\ History(f) \in Nat
  BY <1>1, CheckedFacts, MatchFacts
<1>3. receipt[f].requested = ImportTotal(f) + pending[f].quantity
  BY DEF InboundInv, FilesInv, Settled
<1> QED
  BY <1>1, <1>2, <1>3

LEMMA PiecesCount ==
    ASSUME InboundInv, phase = "done", entered # "another",
           NEW f \in Files, receipt[f].state = "confirmed"
    PROVE  Received(order, Matches(f)) + pending[f].quantity
             + (IF entered = "nothing" THEN ImportTotal(f) ELSE 0)
           = delivery[f].cumulative
<1>1. /\ snapshot # None /\ snapshot \in [Items -> Item] /\ TypeOK
      /\ receipt[f] = Checked(f) /\ receipt[f].requested \in Nat
      /\ Matches(f) \in SUBSET Items /\ Candidates(f) \in SUBSET Matches(f)
      /\ ImportTotal(f) \in Nat /\ pending[f].quantity \in Nat
  BY ComputingFacts DEF InboundInv
<1>2. receipt[f].requested + History(f) = delivery[f].cumulative /\ History(f) \in Nat
  BY <1>1, CheckedFacts, MatchFacts
<1>3. receipt[f].requested = ImportTotal(f) + pending[f].quantity
  BY DEF InboundInv, FilesInv, Settled
<1>4. CASE entered = "nothing"
  <2>1. Received(order, Matches(f)) = History(f)
    BY <1>1, <1>4 DEF InboundInv, SnapshotInv, History
  <2> QED
    BY <1>1, <1>2, <1>3, <1>4, <2>1
<1>5. CASE entered = "this"
  <2>1. \A i \in Items : order[i].history = snapshot[i].history + GivenTo(i)
    BY <1>5 DEF InboundInv, SnapshotInv
  <2>2. \A i \in Matches(f) : GivenTo(i) = Imported(f, i)
    <3> SUFFICES ASSUME NEW i \in Matches(f) PROVE GivenTo(i) = Imported(f, i)
      OBVIOUS
    <3>1. PICK h \in [Files -> Nat] : h = [g \in Files |-> Imported(g, i)]
      <4>1. \A g \in Files : Imported(g, i) \in Nat
        BY <1>1, GivenFacts
      <4>2. [g \in Files |-> Imported(g, i)] \in [Files -> Nat]
        BY <4>1
      <4> QED
        BY <4>2
    <3>2. \A g \in Files \ {f} : h[g] = 0
      BY <3>1, OneGiver
    <3>3. SumFunction(h) = h[f]
      BY <3>2, Finite, SumOfOne
    <3> QED
      BY <3>1, <3>3 DEF GivenTo
  <2>3. PICK M \in SUBSET Items : M = Matches(f)
    BY <1>1
  <2>4. IsFiniteSet(M)
    BY Finite, FS_Subset
  <2>5. PICK before \in [M -> Nat] : before = [i \in M |-> snapshot[i].history]
    <3>1. [i \in M |-> snapshot[i].history] \in [M -> Nat]
      BY <1>1 DEF Item
    <3> QED
      BY <3>1
  <2>6. PICK gifts \in [Items -> Nat] : gifts = Gifts(f) /\ ImportTotal(f) = SumFunction(gifts)
    BY <1>1, GivenFacts
  <2>7. PICK more \in [M -> Nat] : more = [i \in M |-> gifts[i]]
    OBVIOUS
  <2>8. PICK after \in [M -> Nat] : after = [i \in M |-> before[i] + more[i]]
    <3>1. [i \in M |-> before[i] + more[i]] \in [M -> Nat]
      OBVIOUS
    <3> QED
      BY <3>1
  <2>9. SumFunction(after) = SumFunction(before) + SumFunction(more)
    BY <2>4, <2>8, SumOfPairs
  <2>10. SumFunction(more) = SumFunction(gifts)
    <3>1. \A i \in Items \ M : gifts[i] = 0
      <4> SUFFICES ASSUME NEW i \in Items \ M PROVE Imported(f, i) = 0
        BY <2>6 DEF Gifts
      <4>1. given[f][i] = [normal |-> 0, rule |-> 0, target |-> 0]
        BY <1>1, <2>3 DEF InboundInv, PlacesInv
      <4>2. given[f][i].normal = 0 /\ given[f][i].rule = 0 /\ given[f][i].target = 0
        BY <4>1
      <4> QED
        BY <4>2 DEF Imported
    <3> QED
      BY <2>7, <3>1, Finite, SumOfPart
  <2>11. Received(order, Matches(f)) = SumFunction(after)
    <3>1. \A i \in M : order[i].history = after[i]
      BY <2>1, <2>2, <2>3, <2>5, <2>6, <2>7, <2>8 DEF Gifts
    <3>2. [i \in M |-> order[i].history] = after
      BY <3>1
    <3> QED
      BY <2>3, <3>2 DEF Received
  <2>12. History(f) = SumFunction(before)
    BY <2>3, <2>5 DEF History, Received
  <2> QED
    BY <1>1, <1>2, <1>3, <1>5, <2>6, <2>9, <2>10, <2>11, <2>12
<1> QED
  BY <1>4, <1>5 DEF InboundInv, TypeOK

-------------------------------------------------------------------------------
(* Theorems. *)

\* Balances, allowances, additions and requested quantities never go below zero, for any
\* histories, overlaps and requests.
THEOREM InboundTypeCorrect == Spec => []TypeOK
<1>1. InboundInv => TypeOK
  BY DEF InboundInv
<1> QED
  BY SpecInv, <1>1, PTL

\* For any files, orders, requests, and managed or uploaded workbooks: every piece of a
\* file whose site is known counts once against the snapshot, and against the orders of
\* the ERP unless it has received something else since; no totals stop a computation.
THEOREM EveryPieceOnceHolds == Spec => []EveryPieceOnce
<1>1. InboundInv => EveryPieceOnce
  <2> SUFFICES ASSUME InboundInv PROVE EveryPieceOnce
    OBVIOUS
  <2>1. phase # "refused"
    BY DEF InboundInv, FilesInv
  <2> QED
    BY <2>1, PiecesOfFile, PiecesCount DEF EveryPieceOnce
<1> QED
  BY SpecInv, <1>1, PTL

\* All files together stay within what the orders, the allowance and the additions of a
\* computation are.
THEOREM WithinLimitsHolds == Spec => []WithinLimits
<1>1. InboundInv => WithinLimits
  <2> SUFFICES ASSUME InboundInv, phase = "done" PROVE WithinLimits
    BY DEF WithinLimits
  <2>1. /\ \A i \in Items : /\ GivenAs("normal", {i}) + balance[i] = Receivable(i)
                            /\ GivenAs("target", {i}) + addition[i] = target[i]
        /\ \A s \in Sites : GivenAs("rule", At(s)) + allowance[s] = Limit + extra[s]
    BY DEF InboundInv, LimitsInv
  <2>2. ASSUME NEW i \in Items
        PROVE  GivenAs("normal", {i}) <= Receivable(i) /\ GivenAs("target", {i}) <= target[i]
    <3>1. GivenAs("normal", {i}) \in Nat /\ GivenAs("target", {i}) \in Nat
      BY GivenAsFacts DEF InboundInv, Sources
    <3>2. balance[i] \in Nat /\ addition[i] \in Nat
      BY DEF InboundInv, TypeOK
    <3> QED
      BY <2>1, <3>1, <3>2
  <2>3. ASSUME NEW s \in Sites PROVE GivenAs("rule", At(s)) <= Limit + extra[s]
    <3>1. GivenAs("rule", At(s)) \in Nat
      BY GivenAsFacts DEF InboundInv, Sources, At
    <3>2. allowance[s] \in Nat
      BY DEF InboundInv, TypeOK
    <3> QED
      BY <2>1, <3>1, <3>2
  <2> QED
    BY <2>2, <2>3 DEF WithinLimits, At
<1> QED
  BY SpecInv, <1>1, PTL

\* Orders before the allowance, the allowance before additions, additions before users.
THEOREM SourcesInOrderHolds == Spec => []SourcesInOrder
<1>1. InboundInv => SourcesInOrder
  BY DEF InboundInv, OrderInv, Ordered, SourcesInOrder
<1> QED
  BY SpecInv, <1>1, PTL
===============================================================================
