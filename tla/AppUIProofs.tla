---------------------------- MODULE AppUIProofs ----------------------------
(***************************************************************************)
(* What the screen highlights and what the keys do to it.                  *)
(*                                                                         *)
(* Sorting is a permutation of the map's ids, the filter a shorter list of *)
(* them; the row that host_to_table_row counts up to a host is where       *)
(* draw_table laid its row out, host after host.  An up-to-date screen     *)
(* shows the fields as they are, clamped (ScreenShowsState): this is what  *)
(* makes the properties of the screen inductive.                           *)
(***************************************************************************)
EXTENDS AppUI, DataProofs

-----------------------------------------------------------------------------
(* The sorted list.                                                        *)

(* What App.state can be: TypeOK of it, whatever the looks of the hosts.   *)
States ==
    { s \in [ hosts : Seq(HostId), look : [HostId -> HostLook] ] : IsInjective(s.hosts) }

Ids(s) == ToSet(s.hosts)
Place(s, h) == CHOOSE i \in DOMAIN s.hosts : s.hosts[i] = h

(* The order that sort_by makes of a comparison and the order of the map.  *)
Before(s, col, reverse, g, h) ==
    \/ IF reverse THEN SortKey(s, col, g) > SortKey(s, col, h)
                  ELSE SortKey(s, col, g) < SortKey(s, col, h)
    \/ SortKey(s, col, g) = SortKey(s, col, h) /\ Place(s, g) < Place(s, h)

(* Columns are compared as numbers, whatever the column.                   *)
LEMMA SortKeyIsNumber ==
    ASSUME NEW s \in States, NEW col \in 1..Len(ALL), NEW h \in HostId
    PROVE  SortKey(s, col, h) \in Nat
<1>1. ALL[col] \in ToSet(ALL)
  BY AppAssumption DEF ToSet
<1>2. s.look[h].cur \in Nat /\ s.look[h].key \in [ToSet(ALL) \ {"Current"} -> Nat]
  BY DEF States, HostLook
<1> QED BY <1>1, <1>2 DEF SortKey

(* There are as many ids as places, and no more than hosts there can be.   *)
LEMMA IdsAreFinite ==
    ASSUME NEW s \in States
    PROVE  /\ Len(s.hosts) \in Nat /\ DOMAIN s.hosts = 1..Len(s.hosts)
           /\ Ids(s) \in SUBSET HostId /\ IsFiniteSet(Ids(s))
           /\ Cardinality(Ids(s)) = Len(s.hosts)
           /\ Len(s.hosts) <= Cardinality(HostId)
           /\ \A h \in Ids(s) : Place(s, h) \in 1..Len(s.hosts) /\ s.hosts[Place(s, h)] = h
<1> DEFINE q == s.hosts
           D == 1..Len(q)
<1>1. q \in Seq(HostId) /\ Len(q) \in Nat /\ DOMAIN q = D /\ IsInjective(q)
  BY DEF States
<1>2. /\ \A i \in D : q[i] \in HostId
      /\ \A i, j \in D : q[i] = q[j] => i = j
      /\ Ids(s) = {q[i] : i \in D}
  BY <1>1 DEF IsInjective, Ids, ToSet
<1>3. \A h \in Ids(s) : Place(s, h) \in D /\ q[Place(s, h)] = h
  BY <1>1, <1>2 DEF Place
<1>4. IsFiniteSet(D) /\ Cardinality(D) = Len(q)
  BY <1>1, FS_Interval
<1> DEFINE f == [i \in D |-> q[i]]
<1>5. f \in Injection(D, HostId) /\ f \in Bijection(D, Ids(s))
  <2>1. f \in [D -> HostId] /\ f \in [D -> Ids(s)] /\ IsInjective(f)
    BY <1>2 DEF IsInjective
  <2>2. \A h \in Ids(s) : \E i \in D : f[i] = h
    BY <1>2
  <2> HIDE DEF f, D
  <2> QED BY <2>1, <2>2 DEF Injection, Surjection, Bijection
<1> HIDE DEF f, D
<1>6. Len(q) <= Cardinality(HostId)
  BY <1>4, <1>5, AppAssumption, FS_Injection
<1>7. IsFiniteSet(Ids(s)) /\ Cardinality(Ids(s)) = Len(q)
  <2>1. f \in Surjection(D, Ids(s)) /\ f \in Injection(D, Ids(s))
    BY <1>5 DEF Bijection
  <2> QED BY <1>4, <2>1, FS_Surjection
<1>8. Ids(s) \in SUBSET HostId
  BY <1>2
<1> QED BY <1>1, <1>3, <1>6, <1>7, <1>8 DEF D

(* That order is strict and total.                                         *)
LEMMA BeforeIsTotal ==
    ASSUME NEW s \in States, NEW col \in 1..Len(ALL), NEW reverse \in BOOLEAN
    PROVE  /\ \A x \in Ids(s) : ~Before(s, col, reverse, x, x)
           /\ \A x, y, z \in Ids(s) :
                Before(s, col, reverse, x, y) /\ Before(s, col, reverse, y, z)
                  => Before(s, col, reverse, x, z)
           /\ \A x, y \in Ids(s) :
                x # y => Before(s, col, reverse, x, y) \/ Before(s, col, reverse, y, x)
<1>1. \A x \in Ids(s) : SortKey(s, col, x) \in Nat /\ Place(s, x) \in Nat
  BY IdsAreFinite, SortKeyIsNumber
<1>2. \A x, y \in Ids(s) : Place(s, x) = Place(s, y) => x = y
  BY IdsAreFinite
<1>3. ASSUME NEW x \in Ids(s), NEW y \in Ids(s), NEW z \in Ids(s),
             Before(s, col, reverse, x, y), Before(s, col, reverse, y, z)
      PROVE  Before(s, col, reverse, x, z)
  BY <1>1, <1>3 DEF Before
<1>4. ASSUME NEW x \in Ids(s), NEW y \in Ids(s), x # y
      PROVE  Before(s, col, reverse, x, y) \/ Before(s, col, reverse, y, x)
  BY <1>1, <1>2, <1>4 DEF Before
<1>5. \A x \in Ids(s) : ~Before(s, col, reverse, x, x)
  BY <1>1 DEF Before
<1> QED BY <1>3, <1>4, <1>5

(* sorted_host_ids has every id of the map once, in the order of the       *)
(* column, and those that compare equal in the order of the hash map,      *)
(* reversed or not (sorted_host_ids, model.rs:265-287).                    *)
THEOREM SortedHostIds ==
    ASSUME NEW s \in States, NEW col \in 1..Len(ALL), NEW reverse \in BOOLEAN
    PROVE  LET ids == sorted_host_ids(s, col, reverse)
           IN  /\ ids \in Seq(HostId) /\ Len(ids) = Len(s.hosts)
               /\ \A i \in 1..Len(s.hosts) : ids[i] \in Ids(s)
               /\ \A i, j \in 1..Len(s.hosts) :
                    i < j => Before(s, col, reverse, ids[i], ids[j])
<1> DEFINE R == {p \in Ids(s) \X Ids(s) : Before(s, col, reverse, p[1], p[2])}
           Earlier(h) == {g \in Ids(s) : Before(s, col, reverse, g, h)}
           Ranked(h) == {g \in Ids(s) : <<g, h>> \in R}
           ids == sorted_host_ids(s, col, reverse)
           n == Len(s.hosts)
<1>1. /\ n \in Nat /\ DOMAIN s.hosts = 1..n /\ IsFiniteSet(Ids(s))
      /\ Cardinality(Ids(s)) = n /\ Ids(s) \in SUBSET HostId
  BY IdsAreFinite
<1>2. \A x, y \in Ids(s) : <<x, y>> \in R <=> Before(s, col, reverse, x, y)
  OBVIOUS
<1>3. \A h \in Ids(s) : Earlier(h) = Ranked(h)
  BY <1>2
<1>4. ids = [i \in DOMAIN s.hosts |->
               CHOOSE h \in Ids(s) : Cardinality(Earlier(h)) = i - 1]
  BY DEF sorted_host_ids, Before, Place, Ids
<1> HIDE DEF R, Earlier, Ranked, ids
<1>5. /\ \A x \in Ids(s) : <<x, x>> \notin R
      /\ \A x, y, z \in Ids(s) : <<x, y>> \in R /\ <<y, z>> \in R => <<x, z>> \in R
      /\ \A x, y \in Ids(s) : x # y => <<x, y>> \in R \/ <<y, x>> \in R
  BY <1>2, BeforeIsTotal
<1>6. /\ \A i \in 1..n : \E h \in Ids(s) : Cardinality(Ranked(h)) = i - 1
      /\ \A x, y \in Ids(s) : <<x, y>> \in R => Cardinality(Ranked(x)) < Cardinality(Ranked(y))
  <2> DEFINE S == Ids(s)
  <2>1. /\ IsFiniteSet(S) /\ Cardinality(S) = n
        /\ StrictlyOrders(R, S)
    BY <1>1, <1>5 DEF StrictlyOrders
  <2> HIDE DEF S, n
  <2>2. /\ \A i \in 1..Cardinality(S) :
             \E x \in S : Cardinality({y \in S : <<y, x>> \in R}) = i - 1
        /\ \A x, z \in S : <<x, z>> \in R =>
             Cardinality({y \in S : <<y, x>> \in R}) < Cardinality({y \in S : <<y, z>> \in R})
    BY ONLY <2>1, EveryRankIsTaken
  <2> QED BY <2>1, <2>2 DEF Ranked, S
<1>7. \A i \in 1..n : ids[i] \in Ids(s) /\ Cardinality(Ranked(ids[i])) = i - 1
  <2> TAKE i \in 1..n
  <2>1. ids[i] = CHOOSE h \in Ids(s) : Cardinality(Earlier(h)) = i - 1
    BY <1>1, <1>4
  <2>2. \E h \in Ids(s) : Cardinality(Earlier(h)) = i - 1
    BY <1>3, <1>6
  <2>3. ids[i] \in Ids(s) /\ Cardinality(Earlier(ids[i])) = i - 1
    BY <2>1, <2>2
  <2> QED BY <1>3, <2>3
<1>8. ids \in [1..n -> HostId]
  BY <1>1, <1>4, <1>7
<1>9. ids \in Seq(HostId) /\ Len(ids) = n
  BY <1>1, <1>8
<1>10. ASSUME NEW i \in 1..n, NEW j \in 1..n, i < j
       PROVE  Before(s, col, reverse, ids[i], ids[j])
  <2>1. \A x, y \in Ids(s) : <<x, y>> \in R => Cardinality(Ranked(x)) < Cardinality(Ranked(y))
    BY <1>6
  <2>2. ids[i] # ids[j] /\ ~(Cardinality(Ranked(ids[j])) < Cardinality(Ranked(ids[i])))
    BY <1>7, <1>10
  <2> QED BY <1>2, <1>5, <1>7, <2>1, <2>2
<1> QED BY <1>7, <1>9, <1>10 DEF ids

-----------------------------------------------------------------------------
(* The listed ids.                                                         *)

(* What the filter keeps, id after id.                                     *)
Keeping(s, query) ==
    [p \in Seq(HostId) \X HostId |-> IF Matches(s, p[2], query) THEN Append(p[1], p[2]) ELSE p[1]]

LEMMA KeepingIsStep ==
    ASSUME NEW s, NEW query
    PROVE  /\ IsStep(Keeping(s, query), Seq(HostId), HostId)
           /\ \A kept \in Seq(HostId), h \in HostId :
                Keeping(s, query)[<<kept, h>>] = IF Matches(s, h, query) THEN Append(kept, h) ELSE kept
<1> DEFINE Step(kept, h) == IF Matches(s, h, query) THEN Append(kept, h) ELSE kept
           V == Seq(HostId)
<1>1. \A kept \in V, h \in HostId : Step(kept, h) \in V
  BY AppendProperties
<1>2. Keeping(s, query) = [p \in V \X HostId |-> Step(p[1], p[2])]
  BY DEF Keeping
<1> HIDE DEF Step, V
<1>3. IsStep(Keeping(s, query), V, HostId)
  BY <1>1, <1>2 DEF IsStep
<1>4. \A kept \in V, h \in HostId : Keeping(s, query)[<<kept, h>>] = Step(kept, h)
  BY <1>2
<1> QED BY <1>3, <1>4 DEF Step, V

LEMMA FilteredFolds ==
    ASSUME NEW s, NEW q \in Seq(HostId), NEW query
    PROVE  Filtered(s, q, query) = Folded(Keeping(s, query), <<>>, q)
<1> DEFINE none == <<>>
           F == Keeping(s, query)
           V == Seq(HostId)
           Value(g, t) ==
             IF t = {} THEN none
             ELSE IF Matches(s, q[Max(t)], query) THEN Append(g[t \ {Max(t)}], q[Max(t)])
             ELSE g[t \ {Max(t)}]
           Step(g, t) == IF t = {} THEN none ELSE F[<<g[t \ {Max(t)}], q[Max(t)]>>]
           Is(g) == g = [t \in SUBSET DOMAIN q |-> Value(g, t)]
           it == CHOOSE g : Is(g)
<1>1. Filtered(s, q, query) = it[DOMAIN q]
  BY DEF Filtered, FoldLeft, MapThenFoldSet
<1>0. /\ none \in V /\ IsStep(F, V, HostId)
      /\ \A kept \in V, h \in HostId :
           F[<<kept, h>>] = IF Matches(s, h, query) THEN Append(kept, h) ELSE kept
  BY EmptySeq, KeepingIsStep
<1> HIDE DEF none, F
<1>2. PICK g : IsFoldIteration(g, F, none, q)
  BY <1>0, FoldExists
<1>3. ASSUME NEW t \in SUBSET DOMAIN q, t # {} PROVE Max(t) \in t /\ q[Max(t)] \in HostId
  <2>1. DOMAIN q = 1..Len(q) /\ Len(q) \in Nat
    OBVIOUS
  <2>2. Max(t) \in t
    BY <1>3, <2>1, MaxOfPlaces
  <2> QED BY <2>1, <2>2
<1>4. ASSUME NEW f, \A t \in SUBSET DOMAIN q : f[t] \in V, NEW t \in SUBSET DOMAIN q
      PROVE  Value(f, t) = Step(f, t)
  <2>1. t # {} => f[t \ {Max(t)}] \in V /\ q[Max(t)] \in HostId
    BY <1>3, <1>4
  <2> QED BY <1>0, <2>1
<1>5. \A t \in SUBSET DOMAIN q : g[t] \in V
  BY <1>0, <1>2, FoldExists
<1>6. Is(g)
  <2>1. g = [t \in SUBSET DOMAIN q |-> Step(g, t)]
    BY <1>2 DEF IsFoldIteration
  <2>2. \A t \in SUBSET DOMAIN q : Value(g, t) = Step(g, t)
    BY <1>4, <1>5
  <2> HIDE DEF Value, Step
  <2> QED BY <2>1, <2>2
<1>7. Is(it)
  <2> HIDE DEF Is
  <2> QED BY <1>6
<1> HIDE DEF it
<1>8. Folds(it, F, none, q, V)
  BY <1>0, <1>3, <1>7 DEF Folds
<1> HIDE DEF Is, V
<1>9. it[DOMAIN q] = Folded(F, none, q)
  BY <1>0, <1>8, FoldMatches DEF V
<1> QED BY <1>1, <1>9 DEF F, none

(* The filter keeps ids of the list, and no more of them.                  *)
LEMMA FilteredIsShorter ==
    ASSUME NEW s, NEW query, NEW q \in Seq(HostId)
    PROVE  /\ Filtered(s, q, query) \in Seq(HostId)
           /\ Len(Filtered(s, q, query)) <= Len(q)
<1> DEFINE V == Seq(HostId)
           F == Keeping(s, query)
           none == <<>>
           T == {r \in V : Folded(F, none, r) \in V /\ Len(Folded(F, none, r)) <= Len(r)}
<1>0. /\ none \in V /\ Len(none) = 0 /\ IsStep(F, V, HostId)
      /\ \A kept \in V, h \in HostId :
           F[<<kept, h>>] = IF Matches(s, h, query) THEN Append(kept, h) ELSE kept
  BY EmptySeq, KeepingIsStep
<1> HIDE DEF F
<1>1. none \in T
  <2>1. Folded(F, none, none) = none
    BY <1>0, FoldEmpty
  <2> HIDE DEF none, V
  <2>2. Len(Folded(F, none, none)) <= Len(none) /\ Folded(F, none, none) \in V
    BY <1>0, <2>1
  <2> QED BY <1>0, <2>2
<1>2. ASSUME NEW r \in T, NEW h \in HostId PROVE Append(r, h) \in T
  <2> DEFINE kept == Folded(F, none, r)
             next == Folded(F, none, Append(r, h))
  <2> HIDE DEF none
  <2>1. kept \in V /\ Len(kept) <= Len(r) /\ r \in V
    OBVIOUS
  <2>2. next = F[<<kept, h>>]
    <3>1. r \in Seq(HostId)
      BY <2>1
    <3> HIDE DEF V, T
    <3>2. IsStep(F, V, HostId) /\ none \in V
      BY <1>0
    <3> QED BY ONLY <3>1, <3>2, h \in HostId, FoldAppend DEF kept, next
  <2> HIDE DEF kept, next
  <2>3. next = IF Matches(s, h, query) THEN Append(kept, h) ELSE kept
    BY <1>0, <2>1, <2>2
  <2>4. /\ Append(kept, h) \in V /\ Len(Append(kept, h)) = Len(kept) + 1 /\ Len(kept) \in Nat
        /\ Append(r, h) \in V /\ Len(Append(r, h)) = Len(r) + 1 /\ Len(r) \in Nat
    BY <2>1
  <2>5. next \in V /\ Len(next) <= Len(Append(r, h))
    BY <2>1, <2>3, <2>4
  <2> QED BY <2>4, <2>5 DEF next
<1>3. T = V
  <2>1. T \in SUBSET V
    OBVIOUS
  <2> HIDE DEF T
  <2> QED BY <1>1, <1>2, <2>1, AppendInduction DEF none
<1>4. Filtered(s, q, query) = Folded(F, none, q)
  BY FilteredFolds DEF F
<1> QED BY <1>3, <1>4

(* draw_table lists hosts of the map, and no more than it has; which ones  *)
(* does not depend on the selection or on what is expanded.                *)
LEMMA ListedLaws ==
    ASSUME NEW s \in States, NEW a \in App
    PROVE  /\ Listed(s, a) \in Seq(HostId)
           /\ Len(Listed(s, a)) \in Nat
           /\ Len(Listed(s, a)) <= Len(s.hosts)
           /\ a.search_query = <<>> =>
                Listed(s, a) = sorted_host_ids(s, a.sort_col, a.sort_reverse)
           /\ \A b : /\ b.sort_col = a.sort_col /\ b.sort_reverse = a.sort_reverse
                     /\ b.search_query = a.search_query
                     => Listed(s, b) = Listed(s, a)
<1> DEFINE ids == sorted_host_ids(s, a.sort_col, a.sort_reverse)
<1>1. a.sort_col \in 1..Len(ALL) /\ a.sort_reverse \in BOOLEAN
  BY DEF App
<1>2. ids \in Seq(HostId) /\ Len(ids) = Len(s.hosts)
  BY <1>1, SortedHostIds
<1>3. Listed(s, a) = IF a.search_query = <<>> THEN ids ELSE Filtered(s, ids, a.search_query)
  BY DEF Listed
<1>4. \A b : /\ b.sort_col = a.sort_col /\ b.sort_reverse = a.sort_reverse
             /\ b.search_query = a.search_query
             => Listed(s, b) = Listed(s, a)
  BY DEF Listed
<1> HIDE DEF ids
<1>5. Listed(s, a) \in Seq(HostId) /\ Len(Listed(s, a)) <= Len(s.hosts)
  BY <1>2, <1>3, FilteredIsShorter, IdsAreFinite
<1> QED BY <1>3, <1>4, <1>5 DEF ids

-----------------------------------------------------------------------------
(* The rows of the table.                                                  *)

Row == [host : HostId, detail : BOOLEAN]

(* A host has its own row and, under it, its details.                      *)
LEMMA HostRowsLaws ==
    ASSUME NEW s \in States, NEW a \in App, NEW h \in HostId
    PROVE  /\ DetailRows(s, a, h) \in Nat
           /\ HostRows(s, a, h) \in Seq(Row)
           /\ Len(HostRows(s, a, h)) = 1 + DetailRows(s, a, h)
           /\ HostRows(s, a, h)[1] = [host |-> h, detail |-> FALSE]
<1> DEFINE c == s.look[h].cur
           n == s.look[h].attrs
           first == [host |-> h, detail |-> FALSE]
           own == <<first>>
           details(m) == [r \in 1..m |-> [host |-> h, detail |-> TRUE]]
           jobs == details(c)
           attributes == details(n)
           more == own \o jobs
           all == more \o attributes
           unfolded == h \in a.expanded \/ a.expand_all
<1>1. c \in Nat /\ n \in Nat
  BY DEF States, HostLook
<1>2. /\ DetailRows(s, a, h) = IF unfolded THEN c + n ELSE 0
      /\ HostRows(s, a, h) = IF unfolded THEN all ELSE own
  BY DEF DetailRows, HostRows
<1>3. first \in Row
  BY DEF Row
<1>4. own \in Seq(Row) /\ Len(own) = 1 /\ own[1] = first
  BY <1>3
<1>5. \A m \in Nat : details(m) \in Seq(Row) /\ Len(details(m)) = m
  <2> TAKE m \in Nat
  <2>1. details(m) \in [1..m -> Row]
    BY DEF Row
  <2> HIDE DEF details
  <2>2. details(m) \in Seq(Row)
    BY <2>1
  <2>3. DOMAIN details(m) = 1..m
    BY <2>1
  <2> QED BY <2>2, <2>3
<1>6. /\ jobs \in Seq(Row) /\ Len(jobs) = c
      /\ attributes \in Seq(Row) /\ Len(attributes) = n
  BY <1>1, <1>5
<1> HIDE DEF c, n, first, own, details, jobs, attributes
<1>7. /\ more \in Seq(Row) /\ Len(more) = Len(own) + Len(jobs)
      /\ \A i \in 1..Len(own) + Len(jobs) :
           more[i] = IF i <= Len(own) THEN own[i] ELSE jobs[i - Len(own)]
  BY ONLY <1>4, <1>6, ConcatProperties DEF more
<1>8. more[1] = first /\ Len(more) = 1 + c
  <2>1. 1 \in 1..1 + c
    BY <1>1
  <2> QED BY <1>4, <1>6, <1>7, <2>1
<1> HIDE DEF more
<1>9. /\ all \in Seq(Row) /\ Len(all) = Len(more) + Len(attributes)
      /\ \A i \in 1..Len(more) + Len(attributes) :
           all[i] = IF i <= Len(more) THEN more[i] ELSE attributes[i - Len(more)]
  <2>1. more \in Seq(Row) /\ attributes \in Seq(Row)
    BY <1>6, <1>7
  <2> QED BY ONLY <2>1, ConcatProperties DEF all
<1>10. all[1] = first /\ Len(all) = 1 + (c + n)
  <2>1. 1 \in 1..(1 + c) + n /\ 1 <= 1 + c /\ (1 + c) + n = 1 + (c + n)
    BY <1>1
  <2> QED BY <1>6, <1>8, <1>9, <2>1
<1> HIDE DEF all, unfolded
<1>11. c + n \in Nat /\ 0 \in Nat /\ 1 + 0 = 1
  BY <1>1
<1> QED BY <1>2, <1>4, <1>9, <1>10, <1>11 DEF first

(* Rows are counted as host_to_table_row does.                             *)
Counting(s, a) == [p \in Nat \X HostId |-> p[1] + 1 + DetailRows(s, a, p[2])]
Counted(s, a, q) == Folded(Counting(s, a), 0, q)

LEMMA CountingIsStep ==
    ASSUME NEW s \in States, NEW a \in App
    PROVE  /\ IsStep(Counting(s, a), Nat, HostId)
           /\ \A n \in Nat, h \in HostId :
                Counting(s, a)[<<n, h>>] = n + 1 + DetailRows(s, a, h)
<1>1. \A h \in HostId : DetailRows(s, a, h) \in Nat
  BY HostRowsLaws
<1>2. \A n \in Nat, h \in HostId : n + 1 + DetailRows(s, a, h) \in Nat
  BY <1>1
<1> QED BY <1>2 DEF IsStep, Counting

LEMMA RowCountFolds ==
    ASSUME NEW s \in States, NEW a \in App, NEW ids \in Seq(HostId), NEW k \in 0..Len(ids)
    PROVE  host_to_table_row(ids, k, s, a) = Counted(s, a, SubSeq(ids, 1, k))
<1> DEFINE q == SubSeq(ids, 1, k)
           F == Counting(s, a)
           Value(g, t) ==
             IF t = {} THEN 0 ELSE g[t \ {Max(t)}] + 1 + DetailRows(s, a, q[Max(t)])
           Step(g, t) == IF t = {} THEN 0 ELSE F[<<g[t \ {Max(t)}], q[Max(t)]>>]
           Is(g) == g = [t \in SUBSET DOMAIN q |-> Value(g, t)]
           it == CHOOSE g : Is(g)
<1>1. host_to_table_row(ids, k, s, a) = it[DOMAIN q]
  BY DEF host_to_table_row, FoldLeft, MapThenFoldSet
<1>0. /\ IsStep(F, Nat, HostId) /\ 0 \in Nat
      /\ \A n \in Nat, h \in HostId : F[<<n, h>>] = n + 1 + DetailRows(s, a, h)
  BY CountingIsStep
<1>9. q \in Seq(HostId)
  OBVIOUS
<1> HIDE DEF q, F
<1>2. PICK g : IsFoldIteration(g, F, 0, q)
  BY <1>0, <1>9, FoldExists
<1>3. ASSUME NEW t \in SUBSET DOMAIN q, t # {} PROVE Max(t) \in t /\ q[Max(t)] \in HostId
  <2>1. DOMAIN q = 1..Len(q) /\ Len(q) \in Nat
    BY <1>9
  <2>2. Max(t) \in t
    BY <1>3, <2>1, MaxOfPlaces
  <2> QED BY <1>9, <2>1, <2>2
<1>4. ASSUME NEW f, \A t \in SUBSET DOMAIN q : f[t] \in Nat, NEW t \in SUBSET DOMAIN q
      PROVE  Value(f, t) = Step(f, t)
  <2>1. t # {} => f[t \ {Max(t)}] \in Nat /\ q[Max(t)] \in HostId
    BY <1>3, <1>4
  <2> QED BY <1>0, <2>1
<1>5. \A t \in SUBSET DOMAIN q : g[t] \in Nat
  BY <1>0, <1>2, <1>9, FoldExists
<1>6. Is(g)
  <2>1. g = [t \in SUBSET DOMAIN q |-> Step(g, t)]
    BY <1>2 DEF IsFoldIteration
  <2>2. \A t \in SUBSET DOMAIN q : Value(g, t) = Step(g, t)
    BY <1>4, <1>5
  <2> HIDE DEF Value, Step
  <2> QED BY <2>1, <2>2
<1>7. Is(it)
  <2> HIDE DEF Is
  <2> QED BY <1>6
<1> HIDE DEF it
<1>8. Folds(it, F, 0, q, Nat)
  BY <1>0, <1>3, <1>7 DEF Folds
<1> DEFINE V == Nat
           zero == 0
<1>10. IsStep(F, V, HostId) /\ zero \in V /\ Folds(it, F, zero, q, V)
  BY <1>0, <1>8
<1> HIDE DEF Is, V, zero
<1>11. it[DOMAIN q] = Folded(F, zero, q)
  BY ONLY <1>9, <1>10, FoldMatches
<1> QED BY <1>1, <1>11 DEF F, q, zero, Counted

(* Host after host.                                                        *)
LEMMA CountedLaws ==
    ASSUME NEW s \in States, NEW a \in App
    PROVE  /\ Counted(s, a, <<>>) = 0
           /\ \A q \in Seq(HostId) :
                /\ Counted(s, a, q) \in Nat
                /\ \A h \in HostId :
                     Counted(s, a, Append(q, h)) = Counted(s, a, q) + 1 + DetailRows(s, a, h)
<1>0. IsStep(Counting(s, a), Nat, HostId) /\ 0 \in Nat
  BY CountingIsStep
<1>1. Counted(s, a, <<>>) = 0
  BY <1>0, FoldEmpty DEF Counted
<1>2. \A q \in Seq(HostId) : Counted(s, a, q) \in Nat
  BY <1>0, FoldOfRun DEF Counted
<1>3. \A q \in Seq(HostId), h \in HostId :
        Counted(s, a, Append(q, h)) = Counting(s, a)[<<Counted(s, a, q), h>>]
  BY <1>0, FoldAppend DEF Counted
<1> QED BY <1>1, <1>2, <1>3, CountingIsStep

LEMMA TableRowsLaws ==
    ASSUME NEW s \in States, NEW a \in App
    PROVE  /\ TableRows(<<>>, s, a) = <<>>
           /\ \A q \in Seq(HostId), h \in HostId :
                TableRows(Append(q, h), s, a) = TableRows(q, s, a) \o HostRows(s, a, h)
<1> DEFINE Blocks(q) == [i \in DOMAIN q |-> HostRows(s, a, q[i])]
           none == <<>>
<1>1. \A h \in HostId : HostRows(s, a, h) \in Seq(Row)
  BY HostRowsLaws
<1>2. \A q \in Seq(HostId) : Blocks(q) \in Seq(Seq(Row))
  <2> TAKE q \in Seq(HostId)
  <2>1. Blocks(q) \in [1..Len(q) -> Seq(Row)] /\ Len(q) \in Nat
    BY <1>1
  <2> HIDE DEF Blocks
  <2> QED BY <2>1
<1>3. Blocks(none) = none
  OBVIOUS
<1>4. \A q \in Seq(HostId), h \in HostId : Blocks(Append(q, h)) = Append(Blocks(q), HostRows(s, a, h))
  OBVIOUS
<1> HIDE DEF Blocks, none
<1>5. \A q : TableRows(q, s, a) = FlattenSeq(Blocks(q))
  BY DEF TableRows, Blocks
<1>6. TableRows(none, s, a) = none
  <2>1. FlattenSeq(none) = none
    BY DEF FlattenSeq, none
  <2> QED BY <1>3, <1>5, <2>1
<1>7. ASSUME NEW q \in Seq(HostId), NEW h \in HostId
      PROVE  TableRows(Append(q, h), s, a) = TableRows(q, s, a) \o HostRows(s, a, h)
  <2>1. Blocks(q) \in Seq(Seq(Row)) /\ HostRows(s, a, h) \in Seq(Row)
    BY <1>1, <1>2
  <2>2. FlattenSeq(Append(Blocks(q), HostRows(s, a, h))) = FlattenSeq(Blocks(q)) \o HostRows(s, a, h)
    BY <2>1, FlattenLaws
  <2> QED BY <1>4, <1>5, <2>2
<1> QED BY <1>6, <1>7 DEF none

(* The row that host_to_table_row counts is the one draw_table lays out    *)
(* for the host.                                                           *)
LEMMA CountedRowIsHostRow ==
    ASSUME NEW s \in States, NEW a \in App, NEW ids \in Seq(HostId)
    PROVE  /\ TableRows(ids, s, a) \in Seq(Row)
           /\ Len(ids) = 0 => TableRows(ids, s, a) = <<>>
           /\ \A k \in 1..Len(ids) :
                LET row == host_to_table_row(ids, k - 1, s, a)
                IN  /\ row \in Nat /\ row < Len(TableRows(ids, s, a))
                    /\ TableRows(ids, s, a)[row + 1] = [host |-> ids[k], detail |-> FALSE]
<1> DEFINE C(q) == Counted(s, a, q)
           Right(q) ==
             /\ TableRows(q, s, a) \in Seq(Row)
             /\ Len(TableRows(q, s, a)) = C(q)
             /\ \A k \in 1..Len(q) :
                  LET row == C(SubSeq(q, 1, k - 1))
                  IN  /\ row \in Nat /\ row < C(q)
                      /\ TableRows(q, s, a)[row + 1] = [host |-> q[k], detail |-> FALSE]
           T == {q \in Seq(HostId) : Right(q)}
<1>1. <<>> \in T
  <2>1. TableRows(<<>>, s, a) = <<>> /\ C(<<>>) = 0
    BY CountedLaws, TableRowsLaws
  <2> DEFINE none == <<>>
  <2>2. none \in Seq(HostId) /\ none \in Seq(Row) /\ Len(none) = 0
    BY EmptySeq
  <2>3. TableRows(none, s, a) = none /\ C(none) = 0 /\ 1..Len(none) = {}
    BY <2>1, <2>2
  <2> HIDE DEF C, none
  <2>4. Right(none)
    BY <2>2, <2>3
  <2> QED BY <2>2, <2>4 DEF none
<1>2. ASSUME NEW q \in T, NEW h \in HostId PROVE Append(q, h) \in T
  <2> DEFINE r == Append(q, h)
             t == TableRows(q, s, a)
             u == HostRows(s, a, h)
  <2>1. /\ q \in Seq(HostId) /\ r \in Seq(HostId) /\ Len(q) \in Nat
        /\ Len(r) = Len(q) + 1 /\ r[Len(q) + 1] = h
        /\ \A k \in 1..Len(q) : r[k] = q[k] /\ SubSeq(r, 1, k - 1) = SubSeq(q, 1, k - 1)
        /\ SubSeq(r, 1, Len(q)) = q
    OBVIOUS
  <2>2. /\ t \in Seq(Row) /\ Len(t) = C(q) /\ C(q) \in Nat
        /\ u \in Seq(Row) /\ Len(u) \in Nat /\ Len(u) > 0
        /\ u[1] = [host |-> h, detail |-> FALSE]
        /\ C(r) = C(q) + Len(u)
        /\ TableRows(r, s, a) = t \o u
    <3>1. DetailRows(s, a, h) \in Nat /\ C(q) \in Nat
      BY <2>1, CountedLaws, HostRowsLaws
    <3>2. C(r) = C(q) + 1 + DetailRows(s, a, h)
      BY <2>1, CountedLaws
    <3>3. u \in Seq(Row) /\ Len(u) = 1 + DetailRows(s, a, h) /\ u[1] = [host |-> h, detail |-> FALSE]
      BY HostRowsLaws
    <3>4. TableRows(r, s, a) = t \o u
      BY <2>1, TableRowsLaws
    <3>5. t \in Seq(Row) /\ Len(t) = C(q)
      OBVIOUS
    <3> HIDE DEF C, T, t, u, r
    <3>6. /\ Len(u) \in Nat /\ Len(u) > 0 /\ C(r) = C(q) + Len(u)
      BY <3>1, <3>2, <3>3
    <3> QED BY <3>1, <3>3, <3>4, <3>5, <3>6
  <2>3. \A k \in 1..Len(q) : /\ C(SubSeq(q, 1, k - 1)) \in Nat
                             /\ C(SubSeq(q, 1, k - 1)) < C(q)
                             /\ t[C(SubSeq(q, 1, k - 1)) + 1] = [host |-> q[k], detail |-> FALSE]
    OBVIOUS
  <2> HIDE DEF C, r, t, u, T
  <2>4. /\ t \o u \in Seq(Row) /\ Len(t \o u) = C(r)
        /\ (t \o u)[C(q) + 1] = u[1]
        /\ \A i \in 1..C(q) : (t \o u)[i] = t[i]
    <3>1. /\ t \o u \in Seq(Row) /\ Len(t \o u) = Len(t) + Len(u)
          /\ \A i \in 1..Len(t) + Len(u) :
               (t \o u)[i] = IF i <= Len(t) THEN t[i] ELSE u[i - Len(t)]
      BY <2>2, ConcatProperties
    <3> DEFINE m == Len(t)
               n == Len(u)
    <3>2. m \in Nat /\ n \in Nat /\ n > 0 /\ m = C(q) /\ C(r) = m + n
      BY <2>2
    <3> HIDE DEF m, n
    <3>3. m + 1 \in 1..m + n /\ ~(m + 1 <= m) /\ (m + 1) - m = 1
      BY <3>2
    <3>4. \A i \in 1..m : i \in 1..m + n /\ i <= m
      BY <3>2
    <3> QED BY <3>1, <3>2, <3>3, <3>4 DEF m, n
  <2>5. ASSUME NEW k \in 1..Len(r)
        PROVE  /\ C(SubSeq(r, 1, k - 1)) \in Nat /\ C(SubSeq(r, 1, k - 1)) < C(r)
               /\ (t \o u)[C(SubSeq(r, 1, k - 1)) + 1] = [host |-> r[k], detail |-> FALSE]
    <3>1. CASE k \in 1..Len(q)
      <4>1. SubSeq(r, 1, k - 1) = SubSeq(q, 1, k - 1) /\ r[k] = q[k]
        BY <2>1, <3>1
      <4> DEFINE n == C(SubSeq(q, 1, k - 1))
      <4>2. n \in Nat /\ n < C(q) /\ t[n + 1] = [host |-> q[k], detail |-> FALSE]
        BY <2>3, <3>1
      <4> HIDE DEF n
      <4>3. n + 1 \in 1..C(q) /\ n < C(r)
        BY <2>2, <4>2
      <4>4. (t \o u)[n + 1] = [host |-> q[k], detail |-> FALSE]
        BY <2>4, <4>2, <4>3
      <4> QED BY <4>1, <4>2, <4>3, <4>4 DEF n
    <3>2. CASE k = Len(q) + 1
      <4>1. SubSeq(r, 1, k - 1) = q /\ r[k] = h
        BY <2>1, <3>2
      <4>2. C(q) < C(r)
        BY <2>2
      <4> QED BY <2>2, <2>4, <4>1, <4>2
    <3>3. k \in 1..Len(q) \/ k = Len(q) + 1
      BY <2>1
    <3> QED BY <3>1, <3>2, <3>3
  <2>6. Right(r)
    BY <2>2, <2>4, <2>5
  <2> QED BY <2>1, <2>6 DEF T, r
<1>3. T = Seq(HostId)
  <2>1. T \in SUBSET Seq(HostId)
    OBVIOUS
  <2> HIDE DEF T
  <2> QED BY <1>1, <1>2, <2>1, AppendInduction
<1>4. Right(ids)
  BY <1>3
<1>5. \A k \in 1..Len(ids) : host_to_table_row(ids, k - 1, s, a) = C(SubSeq(ids, 1, k - 1))
  <2> TAKE k \in 1..Len(ids)
  <2>1. k - 1 \in 0..Len(ids)
    OBVIOUS
  <2> QED BY <2>1, RowCountFolds
<1>6. Len(ids) = 0 => TableRows(ids, s, a) = <<>>
  <2>1. Len(ids) = 0 => ids = <<>>
    BY EmptySeq
  <2> QED BY <2>1, TableRowsLaws
<1> HIDE DEF C
<1> QED BY <1>4, <1>5, <1>6

-----------------------------------------------------------------------------
(* The fields of App.                                                      *)

LEMMA SomeHost ==
    Cardinality(HostId) \in Nat \ {0}
BY AppAssumption, FS_CardinalityType, FS_EmptySet

LEMMA SomeColumn ==
    Len(ALL) \in Nat \ {0} /\ DOMAIN ALL = 1..Len(ALL)
BY AppAssumption DEF ToSet

(* draw moves nothing but the selection, and only to the last row it       *)
(* lists; a second draw moves nothing.                                     *)
LEMMA ClampedLaws ==
    ASSUME NEW s \in States, NEW a \in App
    PROVE  /\ Clamped(s, a) \in App
           /\ Clamped(s, a) = [a EXCEPT !.selected = Clamped(s, a).selected]
           /\ Listed(s, Clamped(s, a)) = Listed(s, a)
           /\ Clamped(s, Clamped(s, a)) = Clamped(s, a)
           /\ a.view_mode # "Log" /\ Len(Listed(s, a)) > 0 =>
                Clamped(s, a).selected = IF a.selected < Len(Listed(s, a)) THEN a.selected
                                         ELSE Len(Listed(s, a)) - 1
<1> DEFINE n == Len(Listed(s, a))
           b == Clamped(s, a)
<1>1. n \in Nat /\ n <= Cardinality(HostId) /\ Cardinality(HostId) \in Nat
  <2>1. Len(s.hosts) \in Nat /\ Len(s.hosts) <= Cardinality(HostId)
    BY IdsAreFinite
  <2> QED BY <2>1, ListedLaws, SomeHost
<1>2. a.selected \in Nat /\ a = [a EXCEPT !.selected = a.selected]
  BY SomeHost DEF App
<1>3. b = IF a.view_mode = "Log" \/ n = 0 \/ a.selected < n THEN a
          ELSE [a EXCEPT !.selected = n - 1]
  BY <1>1, <1>2 DEF Clamped
<1> HIDE DEF b
<1>4. b \in App /\ b = [a EXCEPT !.selected = b.selected] /\ b.view_mode = a.view_mode
  BY <1>1, <1>2, <1>3 DEF App
<1>5. Listed(s, b) = Listed(s, a)
  <2>1. /\ b.sort_col = a.sort_col /\ b.sort_reverse = a.sort_reverse
        /\ b.search_query = a.search_query
    BY <1>4 DEF App
  <2> QED BY <2>1, ListedLaws
<1>6. a.view_mode # "Log" /\ n > 0 => b.selected = IF a.selected < n THEN a.selected ELSE n - 1
  BY <1>1, <1>3 DEF App
<1>7. b.view_mode = "Log" \/ Len(Listed(s, b)) - 1 < 0 \/ b.selected <= Len(Listed(s, b)) - 1
  <2> HIDE DEF n
  <2>1. Len(Listed(s, b)) = n
    BY <1>5 DEF n
  <2> QED BY <1>1, <1>2, <1>4, <1>6, <2>1
<1>8. Clamped(s, b) = b
  BY <1>7 DEF Clamped
<1> QED BY <1>4, <1>5, <1>6, <1>8 DEF b

(* Every key leaves the fields within their types.                         *)
LEMMA TableKeysKeepApp ==
    ASSUME NEW s \in States, NEW a \in App, NEW key
    PROVE  handle_table_key(s, a, key) \in App
<1> DEFINE n == Len(s.hosts)
           most == Cardinality(HostId)
<1>1. /\ n \in Nat /\ n <= most /\ most \in Nat \ {0}
      /\ s.hosts # <<>> => n > 0
  BY IdsAreFinite, SomeHost, EmptySeq DEF States
<1>2. \A i \in 0..(most - 1) : [a EXCEPT !.selected = i] \in App
  BY DEF App
<1> HIDE DEF n, most
<1>3. a.selected \in 0..(most - 1) /\ a.sort_col \in 1..Len(ALL) /\ a.sort_reverse \in BOOLEAN
  BY DEF App, most
<1>4. MoveDown(s, a) \in App /\ MoveUp(a) \in App /\ MoveLast(s, a) \in App
      /\ [a EXCEPT !.selected = 0] \in App
  <2>1. s.hosts # <<>> => n - 1 \in 0..(most - 1)
    BY <1>1
  <2>2. a.selected > 0 => a.selected - 1 \in 0..(most - 1)
    BY <1>1, <1>3
  <2>3. s.hosts # <<>> /\ a.selected + 1 < n => a.selected + 1 \in 0..(most - 1)
    BY <1>1, <1>3
  <2>4. 0 \in 0..(most - 1)
    BY <1>1
  <2> QED BY <1>2, <2>1, <2>2, <2>3, <2>4 DEF MoveDown, MoveUp, MoveLast, n
<1>5. NextColumn(a) \in App /\ PrevColumn(a) \in App
  <2>1. \A c \in 1..Len(ALL) : [a EXCEPT !.sort_col = c] \in App
    BY DEF App
  <2>2. /\ (a.sort_col % Len(ALL)) + 1 \in 1..Len(ALL)
        /\ ((a.sort_col + Len(ALL) - 2) % Len(ALL)) + 1 \in 1..Len(ALL)
    <3> DEFINE m == Len(ALL)
               c == a.sort_col
    <3>1. m \in Nat \ {0} /\ c \in 1..m
      BY <1>3, SomeColumn
    <3> HIDE DEF m, c
    <3>2. c \in Nat /\ c + m - 2 \in Nat
      BY <3>1
    <3>3. c % m \in 0..(m - 1) /\ (c + m - 2) % m \in 0..(m - 1)
      BY <3>1, <3>2, Division
    <3>4. \A r \in 0..(m - 1) : r + 1 \in 1..m
      BY <3>1
    <3> QED BY <3>3, <3>4 DEF m, c
  <2> QED BY <2>1, <2>2 DEF NextColumn, PrevColumn
<1>6. ToggleSelected(s, a) \in App
  <2>1. \A e \in SUBSET HostId : [a EXCEPT !.expanded = e] \in App
    BY DEF App
  <2> DEFINE ids == sorted_host_ids(s, a.sort_col, a.sort_reverse)
             id == ids[a.selected + 1]
  <2>2. ids \in Seq(HostId)
    BY <1>3, SortedHostIds
  <2> HIDE DEF ids
  <2>3. a.selected < Len(ids) => id \in HostId
    BY <1>1, <1>3, <2>2
  <2>4. a.expanded \in SUBSET HostId
    BY DEF App
  <2>5. Len(ids) \in Nat /\ a.selected \in Nat
    BY <1>1, <1>3, <2>2
  <2>6. ToggleSelected(s, a) =
          IF a.selected >= Len(ids) THEN a
          ELSE [a EXCEPT !.expanded = IF id \in a.expanded THEN a.expanded \ {id}
                                      ELSE a.expanded \cup {id}]
    BY DEF ToggleSelected, ids
  <2> DEFINE e == IF id \in a.expanded THEN a.expanded \ {id} ELSE a.expanded \cup {id}
  <2> HIDE DEF id
  <2>7. a.selected < Len(ids) => e \in SUBSET HostId
    BY <2>3, <2>4
  <2> HIDE DEF e
  <2>8. ToggleSelected(s, a) =
          IF a.selected >= Len(ids) THEN a ELSE [a EXCEPT !.expanded = e]
    BY <2>6 DEF e
  <2>9. a.selected < Len(ids) \/ a.selected >= Len(ids)
    BY <2>5
  <2> QED BY <2>1, <2>7, <2>8, <2>9
<1>7. [a EXCEPT !.sort_reverse = ~@] \in App
  <2>1. \A b \in BOOLEAN : [a EXCEPT !.sort_reverse = b] \in App
    BY DEF App
  <2> QED BY <1>3, <2>1, Zenon
<1>8. ToggleAll(a) \in App
  <2>1. \A b \in BOOLEAN, e \in SUBSET HostId :
          [a EXCEPT !.expand_all = b, !.expanded = e] \in App
    BY DEF App
  <2> DEFINE b == ~a.expand_all
             e == IF a.expand_all THEN {} ELSE a.expanded
  <2>2. b \in BOOLEAN /\ e \in SUBSET HostId
    BY DEF App
  <2>3. ToggleAll(a) = [a EXCEPT !.expand_all = b, !.expanded = e]
    BY DEF ToggleAll, App
  <2> HIDE DEF b, e
  <2> QED BY <2>1, <2>2, <2>3
<1>9. /\ [a EXCEPT !.view_mode = "Search", !.search_query = <<>>] \in App
      /\ [a EXCEPT !.view_mode = "Log"] \in App
  BY EmptySeq DEF App, ViewMode
<1> QED BY <1>4, <1>5, <1>6, <1>7, <1>8, <1>9, Zenon DEF handle_table_key

LEMMA KeysKeepApp ==
    ASSUME NEW s \in States, NEW a \in App, NEW key
    PROVE  handle_key(s, a, key) \in App
<1>1. handle_search_key(a, key) \in App
  <2>1. a.search_query \in Seq(Letter)
    BY DEF App
  <2>2. a.search_query # <<>> => Front(a.search_query) \in Seq(Letter)
    BY <2>1 DEF Front
  <2>3. key \in Letter => Append(a.search_query, key) \in Seq(Letter)
    BY <2>1
  <2>4. \A q \in Seq(Letter) : [a EXCEPT !.search_query = q] \in App
    BY DEF App
  <2>5. /\ [a EXCEPT !.view_mode = "Table", !.search_query = <<>>] \in App
        /\ [a EXCEPT !.view_mode = "Table"] \in App
    BY EmptySeq DEF App, ViewMode
  <2> QED BY <2>2, <2>3, <2>4, <2>5 DEF handle_search_key
<1>2. handle_log_key(a, key) \in App
  <2>1. [a EXCEPT !.view_mode = "Table"] \in App
    BY DEF App, ViewMode
  <2> QED BY <2>1 DEF handle_log_key
<1>3. a.view_mode \in ViewMode
  BY DEF App
<1> QED BY <1>1, <1>2, <1>3, TableKeysKeepApp DEF handle_key, ViewMode

LEMMA NewAppIsApp ==
    NewApp \in App
<1>1. NewApp.sort_col \in 1..Len(ALL)
  BY AppAssumption, SomeColumn DEF NewApp, ToSet
<1>2. 0 \in 0..(Cardinality(HostId) - 1)
  BY SomeHost
<1> QED BY <1>1, <1>2, EmptySeq DEF NewApp, App, ViewMode

-----------------------------------------------------------------------------
(* The invariants.                                                         *)

(* An up-to-date screen shows the fields as they are, and a draw would     *)
(* change nothing.                                                         *)
ScreenShowsState ==
    UpToDate => screen = Shown(state, app) /\ Clamped(state, app) = app

IInv == TypeOK /\ ScreenShowsState

(* A draw, whatever a key made of the fields.                              *)
LEMMA DrawKeepsIInv ==
    ASSUME TypeOK, NEW a \in App, Draw(a), UNCHANGED <<running, state>>
    PROVE  IInv'
<1>1. state \in States
  BY DEF TypeOK, States
<1>2. app' \in App /\ Clamped(state, app') = app' /\ screen' = Shown(state, app')
  BY <1>1, ClampedLaws DEF Draw
<1>3. state' = state /\ running' = running
  OBVIOUS
<1>4. TypeOK'
  BY <1>2, <1>3 DEF TypeOK
<1>5. ScreenShowsState'
  BY <1>2, <1>3 DEF ScreenShowsState
<1> QED BY <1>4, <1>5 DEF IInv

(* A monitor event that leaves the hosts in some order of the map, each of *)
(* them with one of its looks.                                             *)
LEMMA EventKeepsIInv ==
    ASSUME TypeOK, Behind, state' \in States,
           \A h \in HostId : state'.look[h] \in Look[h]
    PROVE  IInv'
<1>1. TypeOK'
  BY DEF TypeOK, Behind, States
<1>2. ScreenShowsState'
  BY DEF ScreenShowsState, Behind, UpToDate
<1> QED BY <1>1, <1>2 DEF IInv

LEMMA NoHostsType ==
    /\ NoHosts \in States
    /\ \A h \in HostId : NoHosts.look[h] \in Look[h]
<1> DEFINE idle == [h \in HostId |-> CHOOSE look \in Look[h] : look.cur = 0]
<1>1. NoHosts = [hosts |-> <<>>, look |-> idle]
  BY DEF NoHosts
<1>2. <<>> \in Seq(HostId) /\ IsInjective(<<>>)
  BY EmptySeq DEF IsInjective
<1>3. \A h \in HostId : idle[h] \in Look[h] /\ idle[h] \in HostLook
  BY AppAssumption
<1>4. idle \in [HostId -> HostLook]
  BY <1>3
<1> HIDE DEF idle
<1> QED BY <1>1, <1>2, <1>3, <1>4 DEF States

LEMMA InitIInv ==
    Init => IInv
<1> SUFFICES ASSUME Init PROVE IInv
  OBVIOUS
<1>1. TypeOK
  BY NewAppIsApp, NoHostsType DEF Init, TypeOK, States
<1>2. state \in States /\ app \in App
  BY <1>1 DEF TypeOK, States
<1>3. Clamped(state, app) = app
  <2>1. Len(state.hosts) = 0
    BY EmptySeq DEF Init, NoHosts
  <2>2. Len(Listed(state, app)) = 0
    BY <1>2, <2>1, ListedLaws
  <2> QED BY <2>2 DEF Clamped
<1> QED BY <1>1, <1>3 DEF IInv, ScreenShowsState, Init

LEMMA NextIInv ==
    IInv /\ [Next]_vars => IInv'
<1> SUFFICES ASSUME IInv, [Next]_vars PROVE IInv'
  OBVIOUS
<1> USE DEF IInv
<1>1. state \in States /\ app \in App /\ TypeOK
  BY DEF TypeOK, States
<1>2. ASSUME NEW key \in Key, Press(key) PROVE IInv'
  <2>1. handle_key(state, app, key) \in App
    BY <1>1, KeysKeepApp
  <2> QED BY <1>1, <1>2, <2>1, DrawKeepsIInv DEF Press
<1>3. CASE PressQ
  <2>1. UNCHANGED <<state, app, screen>> /\ running' \in BOOLEAN
    BY <1>3 DEF PressQ
  <2> QED BY <2>1 DEF TypeOK, ScreenShowsState, UpToDate
<1>4. ASSUME NEW h \in HostId, HostAppears(h) PROVE IInv'
  <2> DEFINE S == ToSet(state.hosts) \cup {h}
             D == 1..Cardinality(S)
  <2>1. PICK ids \in SetToSeqs(S), look \in Look[h] :
          state' = [state EXCEPT !.hosts = ids, !.look[h] = look]
    BY <1>4 DEF HostAppears
  <2>2. S \in SUBSET HostId /\ Cardinality(S) \in Nat
    <3>1. S \in SUBSET HostId
      BY <1>1, IdsAreFinite DEF Ids
    <3> HIDE DEF S
    <3> QED BY <3>1, AppAssumption, FS_Subset, FS_CardinalityType
  <2>3. ids \in [D -> S] /\ \A i, j \in D : i # j => ids[i] # ids[j]
    BY DEF SetToSeqs
  <2> HIDE DEF S
  <2>4. ids \in Seq(HostId) /\ IsInjective(ids)
    BY <2>2, <2>3 DEF IsInjective
  <2>5. look \in HostLook
    BY AppAssumption
  <2>6. state' \in States /\ \A g \in HostId : state'.look[g] \in Look[g]
    BY <1>1, <2>1, <2>4, <2>5 DEF TypeOK, States
  <2> QED BY <1>1, <1>4, <2>6, EventKeepsIInv DEF HostAppears
<1>5. ASSUME NEW h \in HostId, HostGoes(h) PROVE IInv'
  <2> DEFINE q == state.hosts
  <2>1. PICK i \in DOMAIN q : state' = [state EXCEPT !.hosts = RemoveAt(@, i)]
    BY <1>5 DEF HostGoes
  <2>2. /\ q \in Seq(HostId) /\ Len(q) \in Nat /\ DOMAIN q = 1..Len(q)
        /\ \A j, k \in 1..Len(q) : q[j] = q[k] => j = k
    BY <1>1 DEF States, IsInjective
  <2> DEFINE r == RemoveAt(q, i)
             before == SubSeq(q, 1, i - 1)
             after == SubSeq(q, i + 1, Len(q))
  <2>3. /\ before \in Seq(HostId) /\ Len(before) = i - 1
        /\ after \in Seq(HostId) /\ Len(after) = Len(q) - i
        /\ \A j \in 1..(i - 1) : before[j] = q[j]
        /\ \A j \in 1..(Len(q) - i) : after[j] = q[j + i]
    <3> HIDE DEF q
    <3>1. i \in 1..Len(q) /\ \A j \in 1..Len(q) : q[j] \in HostId
      BY <2>2
    <3> QED BY <2>2, <3>1
  <2>4. r = before \o after
    BY DEF RemoveAt
  <2> HIDE DEF q, r, before, after
  <2>5. /\ r \in Seq(HostId) /\ Len(r) = Len(q) - 1
        /\ \A j \in 1..Len(r) : r[j] = q[IF j < i THEN j ELSE j + 1]
    <3>1. /\ r \in Seq(HostId) /\ Len(r) = Len(before) + Len(after)
          /\ \A j \in 1..Len(before) + Len(after) :
               r[j] = IF j <= Len(before) THEN before[j] ELSE after[j - Len(before)]
      BY <2>3, <2>4, ConcatProperties
    <3>2. i \in 1..Len(q) /\ Len(q) \in Nat
      BY <2>2
    <3>3. Len(r) = Len(q) - 1
      BY <2>3, <3>1, <3>2
    <3>4. ASSUME NEW j \in 1..Len(r) PROVE r[j] = q[IF j < i THEN j ELSE j + 1]
      <4>1. r[j] = IF j <= i - 1 THEN before[j] ELSE after[j - (i - 1)]
        BY <2>3, <3>1, <3>2, <3>3
      <4>2. CASE j < i
        BY <2>3, <3>2, <4>1, <4>2
      <4>3. CASE ~(j < i)
        <5>1. j - (i - 1) \in 1..(Len(q) - i) /\ (j - (i - 1)) + i = j + 1 /\ ~(j <= i - 1)
          BY <3>2, <3>3, <4>3
        <5> QED BY <2>3, <4>1, <4>3, <5>1
      <4> QED BY <4>2, <4>3
    <3> QED BY <3>1, <3>3, <3>4
  <2>6. IsInjective(r)
    <3>1. ASSUME NEW j \in 1..Len(r), NEW k \in 1..Len(r), r[j] = r[k] PROVE j = k
      <4> DEFINE u == IF j < i THEN j ELSE j + 1
                 v == IF k < i THEN k ELSE k + 1
      <4>1. u \in 1..Len(q) /\ v \in 1..Len(q) /\ q[u] = q[v]
        BY <2>2, <2>5, <3>1
      <4>2. u = v
        <5> HIDE DEF u, v
        <5> QED BY <2>2, <4>1
      <4> QED BY <2>2, <4>2
    <3> QED BY <2>5, <3>1 DEF IsInjective
  <2>7. state' = [state EXCEPT !.hosts = r]
    BY <2>1 DEF r, q
  <2>8. state' \in States /\ \A g \in HostId : state'.look[g] \in Look[g]
    BY <1>1, <2>5, <2>6, <2>7 DEF TypeOK, States
  <2> QED BY <1>1, <1>5, <2>8, EventKeepsIInv DEF HostGoes
<1>6. ASSUME NEW h \in HostId, HostChanges(h) PROVE IInv'
  <2>1. PICK look \in Look[h] : state' = [state EXCEPT !.look[h] = look]
    BY <1>6 DEF HostChanges
  <2>2. look \in HostLook
    BY AppAssumption
  <2>3. state' \in States /\ \A g \in HostId : state'.look[g] \in Look[g]
    BY <1>1, <2>1, <2>2 DEF TypeOK, States
  <2> QED BY <1>1, <1>6, <2>3, EventKeepsIInv DEF HostChanges
<1>7. CASE Disconnected
  BY <1>1, <1>7, NoHostsType, EventKeepsIInv DEF Disconnected
<1>8. CASE Redraw
  BY <1>1, <1>8, DrawKeepsIInv DEF Redraw
<1>9. CASE UNCHANGED vars
  BY <1>9 DEF vars, TypeOK, ScreenShowsState, UpToDate
<1> QED BY <1>2, <1>3, <1>4, <1>5, <1>6, <1>7, <1>8, <1>9 DEF Next

(* An up-to-date screen is what the table and the keys before it give: the *)
(* invariant that the properties of rows and keys rest on.                 *)
THEOREM Invariance ==
    Spec => []IInv
BY InitIInv, NextIInv, PTL DEF Spec

(* Whatever is typed and whatever the scheduler reports, the fields of App *)
(* keep their types: the selection stays below the number of hosts there   *)
(* can be.                                                                 *)
THEOREM FieldsTyped ==
    Spec => []TypeOK
<1>1. IInv => TypeOK
  BY DEF IInv
<1> QED BY <1>1, Invariance, PTL

(* The screen is up to date and its table is not empty: what that says of  *)
(* the fields.                                                             *)
LEMMA TableOnScreen ==
    ASSUME IInv, TableShown
    PROVE  /\ state \in States /\ app \in App /\ app.view_mode # "Log"
           /\ Clamped(state, app) = app
           /\ app.selected \in Nat /\ app.selected < Len(Listed(state, app))
           /\ screen.ids = Listed(state, app)
           /\ screen.rows = TableRows(Listed(state, app), state, app)
           /\ screen.selected = app.selected
           /\ screen.highlighted =
                host_to_table_row(Listed(state, app), app.selected, state, app)
<1> DEFINE ids == Listed(state, app)
<1>1. state \in States /\ app \in App
  BY DEF IInv, TypeOK, States
<1>2. screen = Shown(state, app) /\ Clamped(state, app) = app
  BY DEF IInv, ScreenShowsState, TableShown
<1>3. app.view_mode # "Log"
  BY <1>2 DEF TableShown, Shown
<1>4. screen = [ view |-> app.view_mode, ids |-> ids, rows |-> TableRows(ids, state, app),
                 selected |-> app.selected,
                 highlighted |-> IF ids = <<>> THEN 0
                                 ELSE host_to_table_row(ids, app.selected, state, app) ]
  BY <1>2, <1>3 DEF Shown
<1>5. ids \in Seq(HostId) /\ Len(ids) \in Nat
  BY <1>1, ListedLaws
<1> HIDE DEF ids
<1>6. ids # <<>> /\ Len(ids) > 0
  <2>1. screen.rows # <<>> /\ screen.rows = TableRows(ids, state, app)
    BY <1>4 DEF TableShown
  <2>2. Len(ids) # 0
    BY <1>1, <1>5, <2>1, CountedRowIsHostRow
  <2> QED BY <1>5, <2>2, EmptySeq
<1>7. app.selected \in Nat /\ app.selected < Len(ids)
  <2>1. app.selected \in Nat
    BY <1>1, SomeHost DEF App
  <2>2. app.selected = IF app.selected < Len(ids) THEN app.selected ELSE Len(ids) - 1
    BY <1>1, <1>2, <1>3, <1>6, ClampedLaws DEF ids
  <2> QED BY <1>5, <1>6, <2>1, <2>2
<1> QED BY <1>1, <1>2, <1>3, <1>4, <1>6, <1>7 DEF ids

(* The row that host_to_table_row counts is the one draw_table laid out.   *)
LEMMA HighlightFollows ==
    IInv => HighlightIsSelectedHost
<1> SUFFICES ASSUME IInv, TableShown
             PROVE  /\ screen.selected < Len(screen.ids)
                    /\ screen.highlighted < Len(screen.rows)
                    /\ ~screen.rows[screen.highlighted + 1].detail
                    /\ HighlightedHost = screen.ids[screen.selected + 1]
  BY DEF HighlightIsSelectedHost
<1> DEFINE ids == Listed(state, app)
           k == app.selected + 1
           row == host_to_table_row(ids, k - 1, state, app)
<1>1. /\ state \in States /\ app \in App /\ ids \in Seq(HostId)
      /\ app.selected \in Nat /\ app.selected < Len(ids)
      /\ k \in 1..Len(ids) /\ k - 1 = app.selected
  BY TableOnScreen, ListedLaws
<1>2. /\ row < Len(TableRows(ids, state, app))
      /\ TableRows(ids, state, app)[row + 1] = [host |-> ids[k], detail |-> FALSE]
  BY <1>1, CountedRowIsHostRow
<1>3. /\ screen.ids = ids /\ screen.rows = TableRows(ids, state, app)
      /\ screen.selected = app.selected /\ screen.highlighted = row
  BY <1>1, TableOnScreen
<1> HIDE DEF ids, row
<1> QED BY <1>1, <1>2, <1>3 DEF HighlightedHost

(* The highlighted row is the host row of the selected host, for every     *)
(* sort, filter and expansion and however many jobs the hosts have         *)
(* (ui.rs:293-304 against ui.rs:367-432).                                  *)
THEOREM HighlightRight ==
    Spec => []HighlightIsSelectedHost
BY HighlightFollows, Invariance, PTL

-----------------------------------------------------------------------------
(* What a key does to the screen.                                          *)

(* Space on an up-to-date, unfiltered table expands or collapses the       *)
(* highlighted host and no other: it is the host at the selection in the   *)
(* sorted list, which draw_table sorted as the key does.                   *)
THEOREM SpaceRight ==
    Spec => SpaceTogglesHighlighted
<1>1. ASSUME IInv, app.search_query = <<>>,
             app.view_mode = "Table", TableShown, Press("space"), NEW h \in HostId
      PROVE  (h \in app'.expanded) = ((h \in app.expanded) # (h = HighlightedHost))
  <2> DEFINE ids == sorted_host_ids(state, app.sort_col, app.sort_reverse)
             id == ids[app.selected + 1]
             b == ToggleSelected(state, app)
  <2>1. /\ state \in States /\ app \in App /\ b \in App
        /\ Listed(state, app) = ids /\ app.selected < Len(ids)
        /\ screen.ids = ids /\ screen.selected = app.selected
        /\ app.selected \in Nat /\ Len(ids) \in Nat
    <3>1. state \in States /\ app \in App
      BY <1>1, TableOnScreen
    <3>2. handle_table_key(state, app, "space") = b
      BY DEF handle_table_key
    <3>3. b \in App
      BY <3>1, <3>2, TableKeysKeepApp
    <3> HIDE DEF b, ids
    <3>4. Listed(state, app) = ids
      BY <1>1, <3>1, ListedLaws DEF ids
    <3> QED BY <1>1, <3>1, <3>3, <3>4, TableOnScreen, ListedLaws
  <2>2. HighlightedHost = id
    BY <1>1, <2>1, HighlightFollows DEF HighlightIsSelectedHost
  <2>3. app' = Clamped(state, b)
    <3>1. handle_key(state, app, "space") = b
      BY <1>1 DEF handle_key, handle_table_key
    <3> HIDE DEF b
    <3> QED BY <1>1, <3>1 DEF Press, Draw
  <2>4. b.expanded = IF id \in app.expanded THEN app.expanded \ {id} ELSE app.expanded \cup {id}
    BY <2>1 DEF ToggleSelected, App
  <2>5. app'.expanded = b.expanded
    <3> HIDE DEF b
    <3>1. Clamped(state, b) = [b EXCEPT !.selected = Clamped(state, b).selected]
      BY <2>1, ClampedLaws
    <3> QED BY <2>1, <2>3, <3>1 DEF App
  <2> HIDE DEF id
  <2> QED BY <2>2, <2>4, <2>5
<1>2. IInv /\ [Next]_vars =>
        [app.search_query = <<>> /\ app.view_mode = "Table" /\ TableShown /\ Press("space")
         => \A h \in HostId :
              (h \in app'.expanded) = ((h \in app.expanded) # (h = HighlightedHost))]_vars
  BY <1>1
<1> QED BY <1>2, Invariance, PTL DEF Spec, SpaceTogglesHighlighted

(* From an up-to-date table j and k move the highlight to the neighbouring *)
(* host of the list or, at its ends, nowhere: the list is never longer     *)
(* than the map that handle_table_key asks, so that draw_table's clamp     *)
(* stops at the end of the filtered list (ui.rs:94-99, 325-327).           *)
THEOREM MovesRight ==
    Spec => MovesAreSteps
<1>1. ASSUME IInv, TableShown, app.view_mode = "Table",
             NEW key, NEW b \in App, b = handle_table_key(state, app, key),
             b.view_mode = "Table", b.search_query = app.search_query,
             b.sort_col = app.sort_col, b.sort_reverse = app.sort_reverse, Press(key)
      PROVE  screen'.selected = IF b.selected < Len(screen.ids) THEN b.selected
                                ELSE Len(screen.ids) - 1
  <2>1. /\ state \in States /\ app \in App /\ screen.ids = Listed(state, app)
        /\ Len(Listed(state, app)) > 0
    <3>1. /\ state \in States /\ app \in App /\ screen.ids = Listed(state, app)
          /\ app.selected \in Nat /\ app.selected < Len(Listed(state, app))
      BY <1>1, TableOnScreen
    <3> QED BY <3>1, ListedLaws
  <2>2. Listed(state, b) = Listed(state, app)
    BY <1>1, <2>1, ListedLaws
  <2> DEFINE c == Clamped(state, b)
  <2>3. /\ c.selected = IF b.selected < Len(Listed(state, b)) THEN b.selected
                        ELSE Len(Listed(state, b)) - 1
        /\ c.view_mode = "Table"
    <3>1. /\ c = [b EXCEPT !.selected = c.selected]
          /\ b.view_mode # "Log" /\ Len(Listed(state, b)) > 0 =>
               c.selected = IF b.selected < Len(Listed(state, b)) THEN b.selected
                            ELSE Len(Listed(state, b)) - 1
      BY <1>1, <2>1, ClampedLaws
    <3> HIDE DEF c
    <3>2. c.view_mode = b.view_mode
      BY <3>1 DEF App
    <3> QED BY <1>1, <2>1, <2>2, <3>1, <3>2
  <2>4. screen' = Shown(state, c)
    BY <1>1 DEF Press, Draw, handle_key
  <2> HIDE DEF c
  <2>5. screen'.selected = c.selected
    BY <2>3, <2>4 DEF Shown
  <2> QED BY <2>1, <2>2, <2>3, <2>5
<1>2. ASSUME IInv, TableShown, app.view_mode = "Table"
      PROVE  LET at == screen.selected
                 last == Len(screen.ids) - 1
             IN  /\ Press("j") => screen'.selected = IF at < last THEN at + 1 ELSE last
                 /\ Press("k") => screen'.selected = IF at > 0 THEN at - 1 ELSE 0
                 /\ Press("G") => screen'.selected = last
  <2> DEFINE n == Len(screen.ids)
             m == Len(state.hosts)
  <2>1. /\ state \in States /\ app \in App /\ screen.selected = app.selected
        /\ app.selected \in Nat /\ n \in Nat /\ m \in Nat
        /\ app.selected < n /\ n <= m /\ state.hosts # <<>>
    <3>1. /\ state \in States /\ app \in App /\ screen.selected = app.selected
          /\ screen.ids = Listed(state, app)
          /\ app.selected \in Nat /\ app.selected < Len(Listed(state, app))
      BY <1>2, TableOnScreen
    <3>2. n \in Nat /\ n <= m /\ m \in Nat
      BY <3>1, ListedLaws, IdsAreFinite
    <3>3. Len(<<>>) = 0
      BY EmptySeq
    <3> QED BY <3>1, <3>2, <3>3
  <2>2. \A key : handle_table_key(state, app, key) \in App
    BY <2>1, TableKeysKeepApp
  <2>3. \A i : /\ [app EXCEPT !.selected = i].selected = i
               /\ [app EXCEPT !.selected = i].view_mode = app.view_mode
               /\ [app EXCEPT !.selected = i].search_query = app.search_query
               /\ [app EXCEPT !.selected = i].sort_col = app.sort_col
               /\ [app EXCEPT !.selected = i].sort_reverse = app.sort_reverse
    BY <2>1 DEF App
  <2>4. ASSUME NEW key, NEW i, Press(key),
               handle_table_key(state, app, key) = [app EXCEPT !.selected = i]
        PROVE  screen'.selected = IF i < n THEN i ELSE n - 1
    <3> DEFINE b == [app EXCEPT !.selected = i]
    <3>1. /\ b \in App /\ b = handle_table_key(state, app, key) /\ b.selected = i
          /\ b.view_mode = "Table" /\ b.search_query = app.search_query
          /\ b.sort_col = app.sort_col /\ b.sort_reverse = app.sort_reverse
      BY <1>2, <2>2, <2>3, <2>4
    <3> HIDE DEF b
    <3> QED BY <1>1, <1>2, <2>4, <3>1
  <2>5. Press("j") => screen'.selected = IF app.selected < n - 1 THEN app.selected + 1 ELSE n - 1
    <3> DEFINE i == IF app.selected + 1 < m THEN app.selected + 1 ELSE m - 1
    <3>1. handle_table_key(state, app, "j") = [app EXCEPT !.selected = i]
      BY <2>1 DEF handle_table_key, MoveDown
    <3>2. (IF i < n THEN i ELSE n - 1) =
            IF app.selected < n - 1 THEN app.selected + 1 ELSE n - 1
      BY <2>1
    <3> HIDE DEF i
    <3> QED BY <2>4, <3>1, <3>2
  <2>6. Press("k") => screen'.selected = IF app.selected > 0 THEN app.selected - 1 ELSE 0
    <3> DEFINE i == IF app.selected > 0 THEN app.selected - 1 ELSE 0
    <3>1. handle_table_key(state, app, "k") = [app EXCEPT !.selected = i]
      BY <2>1 DEF handle_table_key, MoveUp, App
    <3>2. (IF i < n THEN i ELSE n - 1) = IF app.selected > 0 THEN app.selected - 1 ELSE 0
      BY <2>1
    <3> HIDE DEF i
    <3> QED BY <2>4, <3>1, <3>2
  <2>7. Press("G") => screen'.selected = n - 1
    <3>1. handle_table_key(state, app, "G") = [app EXCEPT !.selected = m - 1]
      BY <2>1 DEF handle_table_key, MoveLast
    <3>2. (IF m - 1 < n THEN m - 1 ELSE n - 1) = n - 1
      BY <2>1
    <3> QED BY <2>4, <3>1, <3>2
  <2> QED BY <2>1, <2>5, <2>6, <2>7
<1>3. IInv /\ [Next]_vars =>
        [TableShown /\ app.view_mode = "Table" =>
         LET at == screen.selected
             last == Len(screen.ids) - 1
         IN  /\ Press("j") => screen'.selected = IF at < last THEN at + 1 ELSE last
             /\ Press("k") => screen'.selected = IF at > 0 THEN at - 1 ELSE 0
             /\ Press("G") => screen'.selected = last]_vars
  BY <1>2
<1> QED BY <1>3, Invariance, PTL DEF Spec, MovesAreSteps
=============================================================================
