-------------------------- MODULE TimeFiltersProofs ---------------------------
(***************************************************************************)
(* Proofs about statistics: the bounds of a time filter ask for what its   *)
(* comparison says, for every time, every precision and every instant      *)
(* compared; and for every table, every configuration and every length of  *)
(* a query, responses are given to those who have the key, of the groups   *)
(* they asked for, and count the rows that all of the query asks for.      *)
(***************************************************************************)
EXTENDS Stats, FiniteSetTheorems, SequenceTheorems, TLAPS

TimeFilter == [comparison : Comparisons, time : Int, precision : Nat \ {0}]

(* A whole number of units that is not negative, not positive, or zero: in *)
(* terms of the instants that filters.go compares.                         *)
LEMMA UnitsCompare ==
    ASSUME NEW value \in Int, NEW time \in Int, NEW length \in Nat \ {0}
    PROVE  /\ Units(value, time, length) \in Int
           /\ Units(value, time, length) >= 0 <=> value >= time
           /\ Units(value, time, length) <= 0 <=> value < time + length
<1> DEFINE d == value - time
           q == d \div length
           m == d % length
<1>1. d \in Int
  OBVIOUS
<1>2. /\ q \in Int
      /\ m \in 0 .. length - 1
      /\ d = length * q + m
  BY <1>1, Z3
<1> HIDE DEF d, q, m
<1>3. CASE q >= 1
  <2>1. length * q >= length
    BY <1>2, <1>3, Z3
  <2> QED
    BY <1>1, <1>2, <1>3, <2>1, SMT DEF Units, d, q
<1>4. CASE q = 0
  <2>1. length * q = 0
    BY <1>4
  <2> QED
    BY <1>1, <1>2, <1>4, <2>1, SMT DEF Units, d, q
<1>5. CASE q <= -1
  <2>1. length * q <= -length
    BY <1>2, <1>5, Z3
  <2> QED
    BY <1>1, <1>2, <1>5, <2>1, SMT DEF Units, d, q
<1> QED
  BY <1>2, <1>3, <1>4, <1>5

(* A time filter selects the instants that its comparison asks for, counted *)
(* in units of its precision: so "le" is "lt" or "eq", "gt" is what "le"    *)
(* leaves, and the bounds of neighbouring units neither overlap nor leave a *)
(* gap.                                                                     *)
THEOREM BoundsAskWhatTheyShould ==
    ASSUME NEW filter \in TimeFilter, NEW value \in Int
    PROVE  WithinBounds(value, TimeBounds(filter)) <=>
           Asked(filter.comparison, Units(value, filter.time, filter.precision))
<1> DEFINE u == Units(value, filter.time, filter.precision)
<1>1. /\ filter.time \in Int
      /\ filter.precision \in Nat \ {0}
      /\ filter.comparison \in Comparisons
  BY DEF TimeFilter
<1>2. /\ u \in Int
      /\ u >= 0 <=> value >= filter.time
      /\ u <= 0 <=> value < filter.time + filter.precision
  BY <1>1, UnitsCompare
<1> HIDE DEF u
<1>3. CASE filter.comparison = "eq"
  <2>1. TimeBounds(filter) = <<<<"<", End(filter)>>, <<">=", Start(filter)>>>>
    BY <1>3 DEF TimeBounds
  <2>2. WithinBounds(value, TimeBounds(filter)) <=>
        value < End(filter) /\ value >= Start(filter)
    BY <2>1, SMT DEF WithinBounds, Compare
  <2> QED
    BY <1>1, <1>2, <1>3, <2>2 DEF Asked, Start, End, u
<1>4. CASE filter.comparison = "le"
  <2>1. TimeBounds(filter) = <<<<"<", End(filter)>>>>
    BY <1>4 DEF TimeBounds
  <2>2. WithinBounds(value, TimeBounds(filter)) <=> value < End(filter)
    BY <2>1, SMT DEF WithinBounds, Compare
  <2> QED
    BY <1>1, <1>2, <1>4, <2>2 DEF Asked, Start, End, u
<1>5. CASE filter.comparison = "ge"
  <2>1. TimeBounds(filter) = <<<<">=", Start(filter)>>>>
    BY <1>5 DEF TimeBounds
  <2>2. WithinBounds(value, TimeBounds(filter)) <=> value >= Start(filter)
    BY <2>1, SMT DEF WithinBounds, Compare
  <2> QED
    BY <1>1, <1>2, <1>5, <2>2 DEF Asked, Start, End, u
<1>6. CASE filter.comparison = "lt"
  <2>1. TimeBounds(filter) = <<<<"<", Start(filter)>>>>
    BY <1>6 DEF TimeBounds
  <2>2. WithinBounds(value, TimeBounds(filter)) <=> value < Start(filter)
    BY <2>1, SMT DEF WithinBounds, Compare
  <2> QED
    BY <1>1, <1>2, <1>6, <2>2 DEF Asked, Start, End, u
<1>7. CASE filter.comparison = "gt"
  <2>1. TimeBounds(filter) = <<<<">=", End(filter)>>>>
    BY <1>7 DEF TimeBounds
  <2>2. WithinBounds(value, TimeBounds(filter)) <=> value >= End(filter)
    BY <2>1, SMT DEF WithinBounds, Compare
  <2> QED
    BY <1>1, <1>2, <1>7, <2>2 DEF Asked, Start, End, u
<1> QED
  BY <1>1, <1>3, <1>4, <1>5, <1>6, <1>7 DEF Comparisons

-----------------------------------------------------------------------------
(* Who gets a response.                                                    *)

HasKey(key) == apiKey # "" /\ key = apiKey

LEMMA GateWithoutAnyKey ==
    ASSUME NEW key, NEW method, NEW head, apiKey = ""
    PROVE  Gate(key, method, head) = 403
  BY Zenon DEF Gate

LEMMA GateWithWrongKey ==
    ASSUME NEW key, NEW method, NEW head, apiKey # "", key # apiKey
    PROVE  Gate(key, method, head) = 401
  BY Zenon DEF Gate

LEMMA GateStops ==
    ASSUME NEW key, NEW method, NEW head
    PROVE  ~HasKey(key) => Gate(key, method, head) \in {401, 403}
  <1>1. CASE apiKey = ""
    <2>1. Gate(key, method, head) = 403
      BY <1>1, GateWithoutAnyKey, Zenon
    <2> QED BY <2>1
  <1>2. CASE apiKey # "" /\ key # apiKey
    <2>1. Gate(key, method, head) = 401
      BY <1>2, GateWithWrongKey, Zenon
    <2> QED BY <2>1
  <1> QED BY <1>1, <1>2, Zenon DEF HasKey

LEMMA KeyIsGiven ==
    ASSUME NEW key, HasKey(key), UNCHANGED apiKey, response'.key = key
    PROVE  StatsNeedKey'
  BY Zenon DEF HasKey, StatsNeedKey

LEMMA NoKeyNeeded ==
    ASSUME response'.status \in {401, 403}
    PROVE  StatsNeedKey'
  BY Zenon DEF StatsNeedKey

(* Nobody is counted for, or told what is wrong with a query, without the  *)
(* key of the configuration, and nobody at all if there is none: Gate is   *)
(* passed before the query is looked at, whatever the method and the path. *)
THEOREM ResponsesNeedKey == Spec => []StatsNeedKey
  <1>1. Init => StatsNeedKey
    BY DEF Init, StatsNeedKey
  <1>2. StatsNeedKey /\ [Next]_vars => StatsNeedKey'
    <2> SUFFICES ASSUME StatsNeedKey, [Next]_vars
                 PROVE  StatsNeedKey'
      OBVIOUS
    <2>1. ASSUME NEW key, NEW order, Datasets(key, order)
          PROVE  StatsNeedKey'
      <3>1. UNCHANGED apiKey /\ Gate(key, "GET", "datasets") = 200 /\ response'.key = key
        BY <2>1 DEF Datasets
      <3> QED BY <3>1, GateStops, KeyIsGiven
    <2>2. ASSUME NEW key, NEW method, NEW head, Refuse(key, method, head)
          PROVE  StatsNeedKey'
      <3>1. /\ UNCHANGED apiKey
            /\ response'.status = Gate(key, method, head) /\ response'.key = key
        BY <2>2 DEF Refuse
      <3> QED BY <3>1, GateStops, KeyIsGiven, NoKeyNeeded
    <2>3. ASSUME UNCHANGED apiKey, response' = response \/ response' = None
          PROVE  StatsNeedKey'
      BY <2>3 DEF StatsNeedKey
    <2>6. ASSUME NEW key, DatasetsError(key)
          PROVE  StatsNeedKey'
      <3>1. UNCHANGED apiKey /\ Gate(key, "GET", "datasets") = 200 /\ response'.key = key
        BY <2>6 DEF DatasetsError
      <3> QED BY <3>1, GateStops, KeyIsGiven
    <2>4. ASSUME NEW param, NEW value, AddValue(param, value)
          PROVE  StatsNeedKey'
      BY <2>3, <2>4 DEF AddValue
    <2>5. CASE NextQuery \/ UNCHANGED vars
      BY <2>3, <2>5 DEF NextQuery, vars
    <2> QED BY <2>1, <2>2, <2>4, <2>5, <2>6 DEF Next
  <1> QED BY <1>1, <1>2, PTL DEF Spec

-----------------------------------------------------------------------------
(* Type correctness.                                                       *)

\* A parameter is given with a value at least.
QueryTyped ==
    \A p \in DOMAIN query : p \in Params /\ query[p] \in Seq(Values(p)) /\ query[p] # << >>

GroupBy == StringOption("group_by", DatasetFilterGroupByPaths)

GroupCounts == [value : GroupValues(GroupBy), count : 0 .. Cardinality(Table)]

StatsInv == QueryTyped /\ StatsTypeOK

\* However a query is read, its datasets are grouped by what it may group by.
LEMMA GroupByTyped == GroupBy \in DOMAIN DatasetFilterGroupByPaths \cup {""}
  BY DEF GroupBy, StringOption

LEMMA GroupValueTyped ==
    ASSUME NEW row \in Table, NEW g \in DOMAIN DatasetFilterGroupByPaths
    PROVE  GroupValue(row, g) \in GroupValues(g)
  <1> DEFINE paths == DatasetFilterGroupByPaths
  <1>1. /\ g \in {"schema", "organization", "access_type", "date_created"}
        /\ paths["schema"] = "schema" /\ paths["organization"] = "org"
        /\ paths["access_type"] = "access"
    BY DEF DatasetFilterGroupByPaths
  <1> HIDE DEF paths
  <1>2. CASE g = "schema"
    <2>1. GroupValue(row, g) = row.schema
      BY <1>1, <1>2 DEF GroupValue, paths
    <2> QED BY <1>2, <2>1, TableAssumption DEF GroupValues
  <1>3. CASE g = "organization"
    <2>1. GroupValue(row, g) = row.org
      BY <1>1, <1>3 DEF GroupValue, paths
    <2> QED BY <1>3, <2>1 DEF GroupValues
  <1>4. CASE g = "access_type"
    <2>1. GroupValue(row, g) = row.access
      BY <1>1, <1>4 DEF GroupValue, paths
    <2> QED BY <1>4, <2>1 DEF GroupValues
  <1>5. CASE g = "date_created"
    BY <1>5 DEF GroupValue, GroupValues
  <1> QED BY <1>1, <1>2, <1>3, <1>4, <1>5

LEMMA RowsCounted ==
    ASSUME NEW rows \in SUBSET Table
    PROVE  Cardinality(rows) \in 0 .. Cardinality(Table)
  <1>1. IsFiniteSet(rows) /\ Cardinality(rows) <= Cardinality(Table)
    BY TableAssumption, FS_Subset
  <1>2. Cardinality(rows) \in Nat /\ Cardinality(Table) \in Nat
    BY <1>1, TableAssumption, FS_CardinalityType
  <1> QED BY <1>1, <1>2

LEMMA CountsTyped ==
    ASSUME NEW rows \in SUBSET Table
    PROVE  CountBy(rows, GroupBy) \subseteq GroupCounts
  <1>1. CASE GroupBy = ""
    <2>1. GroupValues(GroupBy) = {"all"}
      BY <1>1 DEF GroupValues
    <2>2. CountBy(rows, GroupBy) = {[value |-> "all", count |-> Cardinality(rows)]}
      BY <1>1 DEF CountBy
    <2> QED BY <2>1, <2>2, RowsCounted DEF GroupCounts
  <1>2. CASE GroupBy # ""
    <2> DEFINE counted(v) == {row \in rows : GroupValue(row, GroupBy) = v}
    <2>1. CountBy(rows, GroupBy)
            = {[value |-> v, count |-> Cardinality(counted(v))] :
                  v \in {GroupValue(row, GroupBy) : row \in rows}}
      BY <1>2 DEF CountBy
    <2>2. ASSUME NEW row \in rows
          PROVE  /\ GroupValue(row, GroupBy) \in GroupValues(GroupBy)
                 /\ Cardinality(counted(GroupValue(row, GroupBy))) \in 0 .. Cardinality(Table)
      <3>1. counted(GroupValue(row, GroupBy)) \in SUBSET Table
        OBVIOUS
      <3> QED BY <1>2, <3>1, GroupByTyped, GroupValueTyped, RowsCounted
    <2> HIDE DEF counted
    <2> QED BY <2>1, <2>2 DEF GroupCounts
  <1> QED BY <1>1, <1>2

LEMMA CountDatasetsTyped ==
    ASSUME NEW order
    PROVE  CountDatasets(getDatasetFilter(order)) \subseteq GroupCounts
  <1> DEFINE filter == getDatasetFilter(order)
  <1>1. filter.GroupBy = GroupBy
    BY DEF getDatasetFilter, GroupBy
  <1> HIDE DEF filter
  <1>2. Selected(Where(filter)) \in SUBSET Table
    BY DEF Selected
  <1> QED BY <1>1, <1>2, CountsTyped DEF CountDatasets, filter

LEMMA StatsNextInv ==
    ASSUME StatsInv, [Next]_vars
    PROVE  StatsInv'
  <1>1. ASSUME NEW param \in Params, NEW value \in Values(param), AddValue(param, value)
        PROVE  StatsInv'
    <2> DEFINE old(p) == IF Given(p) THEN query[p] ELSE << >>
               new(p) == IF p = param THEN Append(old(p), value) ELSE old(p)
    <2>1. /\ query' = [p \in DOMAIN query \cup {param} |-> new(p)]
          /\ UNCHANGED <<apiKey, response>> /\ response = None
      BY <1>1 DEF AddValue
    <2>2. ASSUME NEW p \in DOMAIN query \cup {param}
          PROVE  p \in Params /\ new(p) \in Seq(Values(p)) /\ new(p) # << >>
      <3>1. p \in DOMAIN query => p \in Params /\ query[p] \in Seq(Values(p)) /\ query[p] # << >>
        BY DEF StatsInv, QueryTyped
      <3>2. old(p) \in Seq(Values(p))
        BY <3>1 DEF Given
      <3>3. CASE p = param
        <4> DEFINE o == old(p)
        <4>1. o \in Seq(Values(p)) /\ value \in Values(p)
          BY <1>1, <3>2, <3>3
        <4> HIDE DEF o
        <4>2. Append(o, value) \in Seq(Values(p)) /\ Append(o, value) # << >>
          BY <4>1, AppendProperties
        <4> QED BY <3>3, <4>2 DEF o
      <3>4. CASE p # param
        BY <2>2, <3>1, <3>2, <3>4 DEF Given
      <3> QED BY <3>3, <3>4
    <2> HIDE DEF new
    <2>3. DOMAIN query' = DOMAIN query \cup {param} /\ \A p \in DOMAIN query' : query'[p] = new(p)
      BY <2>1
    <2>4. \A p \in DOMAIN query' : /\ p \in Params /\ query'[p] \in Seq(Values(p))
                                   /\ query'[p] # << >>
      BY <2>2, <2>3
    <2>5. \A p \in DOMAIN query' : \A i \in DOMAIN query'[p] : query'[p][i] \in Values(p)
      BY <2>4
    <2>6. QueryTyped'
      BY <2>4 DEF QueryTyped
    <2>7. StatsTypeOK'
      <3>1. apiKey' \in Keys /\ response' = None
        BY <2>1 DEF StatsInv, StatsTypeOK
      <3> QED BY <2>4, <2>5, <3>1 DEF StatsTypeOK
    <2> QED BY <2>6, <2>7 DEF StatsInv
  <1>2. ASSUME UNCHANGED <<apiKey, query>>, response' # None =>
                  /\ response'.key \in Keys
                  /\ response'.status \in {200, 400, 401, 403, 404, 405, 500}
                  /\ response'.invalid \subseteq DOMAIN query
                  /\ response'.counts \subseteq GroupCounts
        PROVE  StatsInv'
    <2>1. GroupBy' = GroupBy /\ GroupCounts' = GroupCounts
      BY <1>2 DEF GroupBy, GroupCounts, StringOption, Given, First
    <2> QED BY <1>2, <2>1 DEF StatsInv, QueryTyped, StatsTypeOK, GroupCounts, GroupBy
  <1>3. ASSUME NEW key \in Keys, NEW order, Datasets(key, order)
        PROVE  StatsInv'
    <2>1. Validate \subseteq DOMAIN query
      BY DEF Validate
    <2>2. CASE response' = [key |-> key, status |-> 400, invalid |-> Validate, counts |-> {}]
      BY <1>2, <1>3, <2>1, <2>2 DEF Datasets
    <2>3. CASE response' = [key |-> key, status |-> 200, invalid |-> {},
                            counts |-> CountDatasets(getDatasetFilter(order))]
      BY <1>2, <1>3, <2>3, CountDatasetsTyped DEF Datasets
    <2> QED BY <1>3, <2>2, <2>3 DEF Datasets
  <1>4. ASSUME NEW key \in Keys, NEW method, NEW head, Refuse(key, method, head)
        PROVE  StatsInv'
    <2>1. response' = [key |-> key, status |-> Gate(key, method, head), invalid |-> {},
                       counts |-> {}]
      BY <1>4 DEF Refuse
    <2>2. Gate(key, method, head) \in {200, 401, 403, 404, 405}
      BY DEF Gate
    <2> QED BY <1>2, <1>4, <2>1, <2>2 DEF Refuse
  <1>7. ASSUME NEW key \in Keys, DatasetsError(key)
        PROVE  StatsInv'
    <2>1. response' = [key |-> key, status |-> 500, invalid |-> {}, counts |-> {}]
      BY <1>7 DEF DatasetsError
    <2> QED BY <1>2, <1>7, <2>1 DEF DatasetsError
  <1>5. CASE NextQuery
    <2>1. DOMAIN query' = {} /\ response' = None /\ UNCHANGED apiKey
      BY <1>5 DEF NextQuery, Empty
    <2> QED BY <2>1 DEF StatsInv, QueryTyped, StatsTypeOK
  <1>6. CASE UNCHANGED vars
    BY <1>2, <1>6 DEF vars, StatsInv, StatsTypeOK, GroupCounts, GroupBy
  <1> QED BY <1>1, <1>3, <1>4, <1>5, <1>6, <1>7 DEF Next

(* Whatever is in the table and in a query, a response reports parameters  *)
(* that were given, or counts no more datasets than there are, in groups   *)
(* of the kind that was asked for.                                         *)
THEOREM StatsTypeCorrect == Spec => []StatsTypeOK
  <1>1. Init => StatsInv
    <2> SUFFICES ASSUME Init
                 PROVE  StatsInv
      OBVIOUS
    <2>1. DOMAIN query = {} /\ response = None /\ apiKey \in Keys
      BY DEF Init, Empty
    <2> QED BY <2>1 DEF StatsInv, QueryTyped, StatsTypeOK
  <1>2. StatsInv /\ [Next]_vars => StatsInv'
    BY StatsNextInv
  <1>3. StatsInv => StatsTypeOK
    BY DEF StatsInv
  <1> QED BY <1>1, <1>2, <1>3, PTL DEF Spec

-----------------------------------------------------------------------------
(* Induction.  The provers cannot take a predicate as a parameter, but they *)
(* can take the set of the numbers that satisfy it.                         *)

\* A set with 0 and with what follows its numbers has every number: else the
\* smallest interval 0 .. k with k outside it would have a smaller one.
LEMMA NatSetInduction ==
    ASSUME NEW T \in SUBSET Nat, 0 \in T, \A n \in T : n + 1 \in T
    PROVE  T = Nat
  <1> SUFFICES ASSUME NEW m \in Nat, m \notin T
               PROVE  FALSE
    OBVIOUS
  <1> DEFINE S == 0 .. m
             R == StrictSubsetOrdering(S)
             U == {0 .. k : k \in {j \in 0 .. m : j \notin T}}
  <1>1. IsWellFoundedOn(R, FiniteSubsetsOf(S))
    BY FS_StrictSubsetOrderingWellFounded
  <1>2. FiniteSubsetsOf(S) = SUBSET S
    <2>1. IsFiniteSet(S)
      BY FS_Interval
    <2> HIDE DEF S
    <2> QED BY <2>1, FS_FiniteSubsetsOfFinite
  <1>3. U \subseteq FiniteSubsetsOf(S)
    BY <1>2
  <1>4. 0 .. m \in U
    OBVIOUS
  <1>5. PICK X \in U : \A Y \in U : <<Y, X>> \notin R
    <2> HIDE DEF U, R
    <2> QED BY <1>1, <1>3, <1>4, WFMin
  <1>6. PICK k \in 0 .. m : k \notin T /\ X = 0 .. k
    OBVIOUS
  <1>7. k - 1 \in 0 .. m /\ k - 1 \notin T
    BY <1>6
  <1>8. 0 .. k - 1 \in U
    BY <1>7
  <1>9. <<0 .. k - 1, X>> \in R
    BY <1>6, <1>7 DEF StrictSubsetOrdering
  <1> QED BY <1>5, <1>8, <1>9

\* Numbers between 1 and n have a largest, which Max chooses.
LEMMA MaxExists ==
    ASSUME NEW n \in Nat, NEW X \in SUBSET (1 .. n), X # {}
    PROVE  /\ Max(X) \in X
           /\ \A y \in X : Max(X) >= y
  <1> DEFINE HasMax(Y) == \E x \in Y : \A y \in Y : x >= y
             T == {k \in Nat : \A Y \in SUBSET (1 .. k) : Y # {} => HasMax(Y)}
  <1>1. 0 \in T
    <2>1. 1 .. 0 = {}
      OBVIOUS
    <2> HIDE DEF HasMax
    <2> QED BY <2>1
  <1>2. ASSUME NEW k \in T
        PROVE  k + 1 \in T
    <2> SUFFICES ASSUME NEW Y \in SUBSET (1 .. k + 1), Y # {}
                 PROVE  HasMax(Y)
      OBVIOUS
    <2>1. CASE k + 1 \in Y
      BY <2>1
    <2>2. CASE k + 1 \notin Y
      <3>1. Y \in SUBSET (1 .. k)
        BY <2>2
      <3> QED BY <3>1
    <2> QED BY <2>1, <2>2
  <1>3. T = Nat
    <2> HIDE DEF T
    <2>1. T \subseteq Nat
      BY DEF T
    <2> QED BY <1>1, <1>2, <2>1, NatSetInduction
  <1>4. HasMax(X)
    BY <1>3
  <1> QED BY <1>4 DEF Max

LEMMA MaxOfInterval ==
    ASSUME NEW n \in Nat, NEW X \in SUBSET (1 .. n), n \in X
    PROVE  Max(X) = n
  <1>1. Max(X) \in 1 .. n /\ Max(X) >= n
    BY MaxExists
  <1> QED BY <1>1

(* A fold over the indices 1 .. n, with its step as a function, is defined. *)

IsFold(f, n, W, base, step) ==
    /\ f \in [SUBSET (1 .. n) -> W]
    /\ \A X \in SUBSET (1 .. n) :
          f[X] = IF X = {} THEN base ELSE step[<<f[X \ {Max(X)}], Max(X)>>]

LEMMA FoldDefined ==
    ASSUME NEW n \in Nat, NEW W, NEW base \in W, NEW step \in [W \X (1 .. n) -> W]
    PROVE  \E f : IsFold(f, n, W, base, step)
  <1> DEFINE Folds(f, k) ==
                \A X \in SUBSET (1 .. k) :
                   f[X] = IF X = {} THEN base ELSE step[<<f[X \ {Max(X)}], Max(X)>>]
             Defined(k) == \E f \in [SUBSET (1 .. k) -> W] : Folds(f, k)
             T == {k \in Nat : k <= n => Defined(k)}
  <1>1. 0 \in T
    <2>1. [X \in SUBSET (1 .. 0) |-> base] \in [SUBSET (1 .. 0) -> W]
      OBVIOUS
    <2>2. Folds([X \in SUBSET (1 .. 0) |-> base], 0)
      <3>1. \A X \in SUBSET (1 .. 0) : X = {}
        OBVIOUS
      <3> QED BY <3>1
    <2>3. Defined(0)
      <3> HIDE DEF Folds
      <3> QED BY <2>1, <2>2
    <2> HIDE DEF Defined
    <2> QED BY <2>3
  <1>2. ASSUME NEW k \in Nat, k + 1 <= n, Defined(k)
        PROVE  Defined(k + 1)
    <2>1. PICK g \in [SUBSET (1 .. k) -> W] : Folds(g, k)
      <3> HIDE DEF Folds
      <3> QED BY <1>2
    <2> DEFINE f == [X \in SUBSET (1 .. k + 1) |->
                        IF k + 1 \in X THEN step[<<g[X \ {k + 1}], k + 1>>] ELSE g[X]]
    <2>2. ASSUME NEW X \in SUBSET (1 .. k + 1)
          PROVE  /\ k + 1 \in X => X \ {k + 1} \in SUBSET (1 .. k)
                 /\ k + 1 \notin X => X \in SUBSET (1 .. k)
      OBVIOUS
    <2>3. f \in [SUBSET (1 .. k + 1) -> W]
      <3>1. ASSUME NEW X \in SUBSET (1 .. k + 1)
            PROVE  f[X] \in W
        <4>1. CASE k + 1 \in X
          <5>1. g[X \ {k + 1}] \in W /\ k + 1 \in 1 .. n
            BY <1>2, <2>2, <4>1
          <5> QED BY <4>1, <5>1
        <4>2. CASE k + 1 \notin X
          <5>1. g[X] \in W
            BY <2>2, <4>2
          <5> QED BY <4>2, <5>1
        <4> QED BY <4>1, <4>2
      <3> QED BY <3>1
    <2>4. ASSUME NEW X \in SUBSET (1 .. k + 1)
          PROVE  f[X] = IF X = {} THEN base ELSE step[<<f[X \ {Max(X)}], Max(X)>>]
      <3>1. CASE k + 1 \in X
        <4>1. Max(X) = k + 1
          BY <3>1, MaxOfInterval
        <4>2. X \ {k + 1} \in SUBSET (1 .. k + 1) /\ k + 1 \notin X \ {k + 1}
          OBVIOUS
        <4>3. f[X \ {k + 1}] = g[X \ {k + 1}]
          BY <4>2
        <4>4. f[X] = step[<<g[X \ {k + 1}], k + 1>>]
          BY <3>1
        <4> HIDE DEF f
        <4> QED BY <3>1, <4>1, <4>3, <4>4
      <3>2. CASE k + 1 \notin X
        <4>1. X \in SUBSET (1 .. k) /\ f[X] = g[X]
          BY <2>2, <3>2
        <4>2. f[X \ {Max(X)}] = g[X \ {Max(X)}]
          BY <3>2
        <4> HIDE DEF f
        <4> QED BY <2>1, <4>1, <4>2
      <3> QED BY <3>1, <3>2
    <2>5. Folds(f, k + 1)
      <3> HIDE DEF f
      <3> QED BY <2>4
    <2> HIDE DEF f, Folds
    <2> QED BY <2>3, <2>5
  <1>3. T = Nat
    <2> HIDE DEF Defined
    <2>1. \A k \in T : k + 1 \in T
      BY <1>2
    <2>2. T \subseteq Nat
      OBVIOUS
    <2> HIDE DEF T
    <2> QED BY <1>1, <2>1, <2>2, NatSetInduction
  <1>4. Defined(n)
    <2> HIDE DEF Defined
    <2> QED BY <1>3
  <1> QED BY <1>4 DEF IsFold

-----------------------------------------------------------------------------
(* Folds over sequences.  What each fold is after k elements follows from   *)
(* what it is after k - 1.                                                  *)

\* The indices that are folded last.
LEMMA IndicesFolded ==
    ASSUME NEW n \in Nat, NEW k \in 1 .. n
    PROVE  /\ 1 .. k \in SUBSET (1 .. n)
           /\ 1 .. k # {}
           /\ Max(1 .. k) = k
           /\ (1 .. k) \ {Max(1 .. k)} = 1 .. k - 1
  <1>1. /\ 1 .. k \in SUBSET (1 .. n) /\ 1 .. k # {}
        /\ k \in 1 .. k /\ 1 .. k \in SUBSET (1 .. k) /\ k \in Nat
        /\ (1 .. k) \ {k} = 1 .. k - 1
    OBVIOUS
  <1>2. Max(1 .. k) = k
    BY <1>1, MaxOfInterval
  <1> QED BY <1>1, <1>2

\* Bounds of instants, and WHERE statements whose conditions find their arguments.
Bound == {"<", ">="} \X Int

Columns == {"published", "schema", "user", "org", "created"}

Literals == BOOLEAN \cup {"metax-att", "metax-ida"}

Condition == [column : Columns, op : {"literal", "=", "<", ">="}, arg : Literals \cup Nat]

Builder ==
    {wb \in [conditions : Seq(Condition),
             args       : Seq(Users \cup Orgs \cup Int)] :
        \A i \in DOMAIN wb.conditions :
            wb.conditions[i].op # "literal" => wb.conditions[i].arg \in 1 .. Len(wb.args)}

\* The fold of Where over the time filters.
LEMMA FiltersFold ==
    ASSUME NEW base \in Builder, NEW s \in Seq(TimeFilter),
           \A w \in Builder, e \in TimeFilter : MaybeAddTimeFilter(w, e) \in Builder
    PROVE  \E f : /\ f[{}] = base
                  /\ \A k \in 1 .. Len(s) : f[1 .. k] = MaybeAddTimeFilter(f[1 .. k - 1], s[k])
                  /\ FoldLeft(MaybeAddTimeFilter, base, s) = f[1 .. Len(s)]
  <1> DEFINE n == Len(s)
             op(w, e) == MaybeAddTimeFilter(w, e)
             step == [p \in Builder \X (1 .. n) |-> op(p[1], s[p[2]])]
             body(f) == [X \in SUBSET (1 .. n) |->
                           IF X = {} THEN base ELSE op(f[X \ {Max(X)}], s[Max(X)])]
             fold == CHOOSE f : f = body(f)
  <1>1. n \in Nat /\ DOMAIN s = 1 .. n /\ \A k \in 1 .. n : s[k] \in TimeFilter
    BY LenProperties, ElementOfSeq
  <1>2. FoldLeft(MaybeAddTimeFilter, base, s) = fold[1 .. n]
    <2> HIDE DEF n
    <2> QED BY <1>1 DEF FoldLeft, MapThenFoldSet
  <1> HIDE DEF n, op
  <1>3. step \in [Builder \X (1 .. n) -> Builder]
    BY <1>1 DEF op
  <1>4. PICK g : IsFold(g, n, Builder, base, step)
    <2> HIDE DEF step, body, fold
    <2>1. n \in Nat
      BY <1>1
    <2> QED BY <2>1, <1>3, FoldDefined
  <1>5. g = body(g)
    <2>0. /\ g \in [SUBSET (1 .. n) -> Builder]
          /\ \A X \in SUBSET (1 .. n) :
                g[X] = IF X = {} THEN base ELSE step[<<g[X \ {Max(X)}], Max(X)>>]
      BY <1>4 DEF IsFold
    <2>1. ASSUME NEW X \in SUBSET (1 .. n), X # {}
          PROVE  step[<<g[X \ {Max(X)}], Max(X)>>] = op(g[X \ {Max(X)}], s[Max(X)])
      <3>1. Max(X) \in 1 .. n
        BY <1>1, <2>1, MaxExists
      <3>2. g[X \ {Max(X)}] \in Builder
        BY <2>0
      <3> QED BY <3>1, <3>2
    <2> HIDE DEF step
    <2> QED BY <2>0, <2>1
  <1>6. fold = body(fold)
    <2> HIDE DEF body
    <2> QED BY <1>5
  <1> HIDE DEF fold
  <1>7. fold[{}] = base
    <2>1. {} \in SUBSET (1 .. n)
      OBVIOUS
    <2> QED BY <1>6, <2>1
  <1>8. ASSUME NEW k \in 1 .. n
        PROVE  fold[1 .. k] = op(fold[1 .. k - 1], s[k])
    <2>1. /\ 1 .. k \in SUBSET (1 .. n) /\ 1 .. k # {} /\ Max(1 .. k) = k
          /\ (1 .. k) \ {Max(1 .. k)} = 1 .. k - 1
      BY <1>1, IndicesFolded
    <2>2. fold[1 .. k] = body(fold)[1 .. k]
      BY <1>6
    <2> HIDE DEF fold
    <2> QED BY <2>1, <2>2
  <1> QED BY <1>2, <1>7, <1>8 DEF n, op

\* The fold of MaybeAddTimeFilter over the bounds of a filter.
LEMMA BoundsFold ==
    ASSUME NEW base \in Builder, NEW s \in Seq(Bound),
           \A w \in Builder, e \in Bound : WithArg(w, "created", e[1], e[2]) \in Builder
    PROVE  \E f : /\ f[{}] = base
                  /\ \A k \in 1 .. Len(s) :
                        f[1 .. k] = WithArg(f[1 .. k - 1], "created", s[k][1], s[k][2])
                  /\ FoldLeft(LAMBDA b, bound : WithArg(b, "created", bound[1], bound[2]), base, s)
                        = f[1 .. Len(s)]
  <1> DEFINE n == Len(s)
             op(w, e) == WithArg(w, "created", e[1], e[2])
             step == [p \in Builder \X (1 .. n) |-> op(p[1], s[p[2]])]
             body(f) == [X \in SUBSET (1 .. n) |->
                           IF X = {} THEN base ELSE op(f[X \ {Max(X)}], s[Max(X)])]
             fold == CHOOSE f : f = body(f)
  <1>1. n \in Nat /\ DOMAIN s = 1 .. n /\ \A k \in 1 .. n : s[k] \in Bound
    BY LenProperties, ElementOfSeq
  <1>2. FoldLeft(LAMBDA b, bound : WithArg(b, "created", bound[1], bound[2]), base, s)
           = fold[1 .. n]
    <2> HIDE DEF n
    <2> QED BY <1>1 DEF FoldLeft, MapThenFoldSet
  <1> HIDE DEF n, op
  <1>3. step \in [Builder \X (1 .. n) -> Builder]
    BY <1>1 DEF op
  <1>4. PICK g : IsFold(g, n, Builder, base, step)
    <2> HIDE DEF step, body, fold
    <2>1. n \in Nat
      BY <1>1
    <2> QED BY <2>1, <1>3, FoldDefined
  <1>5. g = body(g)
    <2>0. /\ g \in [SUBSET (1 .. n) -> Builder]
          /\ \A X \in SUBSET (1 .. n) :
                g[X] = IF X = {} THEN base ELSE step[<<g[X \ {Max(X)}], Max(X)>>]
      BY <1>4 DEF IsFold
    <2>1. ASSUME NEW X \in SUBSET (1 .. n), X # {}
          PROVE  step[<<g[X \ {Max(X)}], Max(X)>>] = op(g[X \ {Max(X)}], s[Max(X)])
      <3>1. Max(X) \in 1 .. n
        BY <1>1, <2>1, MaxExists
      <3>2. g[X \ {Max(X)}] \in Builder
        BY <2>0
      <3> QED BY <3>1, <3>2
    <2> HIDE DEF step
    <2> QED BY <2>0, <2>1
  <1>6. fold = body(fold)
    <2> HIDE DEF body
    <2> QED BY <1>5
  <1> HIDE DEF fold
  <1>7. fold[{}] = base
    <2>1. {} \in SUBSET (1 .. n)
      OBVIOUS
    <2> QED BY <1>6, <2>1
  <1>8. ASSUME NEW k \in 1 .. n
        PROVE  fold[1 .. k] = op(fold[1 .. k - 1], s[k])
    <2>1. /\ 1 .. k \in SUBSET (1 .. n) /\ 1 .. k # {} /\ Max(1 .. k) = k
          /\ (1 .. k) \ {Max(1 .. k)} = 1 .. k - 1
      BY <1>1, IndicesFolded
    <2>2. fold[1 .. k] = body(fold)[1 .. k]
      BY <1>6
    <2> HIDE DEF fold
    <2> QED BY <2>1, <2>2
  <1> QED BY <1>2, <1>7, <1>8 DEF n, op

-----------------------------------------------------------------------------
(* What a WHERE statement selects, as it is built.                          *)

Selects(wb, row) ==
    \A i \in DOMAIN wb.conditions : Meets(row, wb.conditions[i], wb.args)

LEMMA BuilderTyped ==
    ASSUME NEW wb \in Builder
    PROVE  /\ wb.conditions \in Seq(Condition)
           /\ wb.args \in Seq(Users \cup Orgs \cup Int)
           /\ Len(wb.conditions) \in Nat /\ DOMAIN wb.conditions = 1 .. Len(wb.conditions)
           /\ Len(wb.args) \in Nat
           /\ \A i \in 1 .. Len(wb.conditions) :
                 wb.conditions[i].op # "literal" => wb.conditions[i].arg \in 1 .. Len(wb.args)
  BY LenProperties DEF Builder

\* Another condition restricts what is selected, and the arguments given so far
\* stay where the conditions expect them.
LEMMA ConditionAdded ==
    ASSUME NEW wb \in Builder, NEW new \in Builder, NEW condition,
           new.conditions = Append(wb.conditions, condition),
           \A i \in 1 .. Len(wb.args) : new.args[i] = wb.args[i],
           NEW row
    PROVE  Selects(new, row) <=> Selects(wb, row) /\ Meets(row, condition, new.args)
  <1> DEFINE n == Len(wb.conditions)
             old(i) == Meets(row, wb.conditions[i], wb.args)
             now(i) == Meets(row, new.conditions[i], new.args)
  <1>1. /\ n \in Nat /\ DOMAIN wb.conditions = 1 .. n
        /\ DOMAIN new.conditions = 1 .. n + 1
        /\ new.conditions[n + 1] = condition
        /\ \A i \in 1 .. n : new.conditions[i] = wb.conditions[i]
    BY BuilderTyped
  <1>2. ASSUME NEW i \in 1 .. n
        PROVE  now(i) <=> old(i)
    <2> DEFINE c == wb.conditions[i]
    <2>1. new.conditions[i] = c /\ (c.op # "literal" => new.args[c.arg] = wb.args[c.arg])
      BY <1>1, BuilderTyped
    <2> HIDE DEF c
    <2>2. Meets(row, c, new.args) <=> Meets(row, c, wb.args)
      <3>1. CASE c.op = "literal"
        BY <3>1 DEF Meets
      <3>2. CASE c.op # "literal"
        <4>1. new.args[c.arg] = wb.args[c.arg]
          BY <2>1, <3>2
        <4> QED BY <4>1 DEF Meets
      <3> QED BY <3>1, <3>2
    <2> QED BY <2>1, <2>2 DEF c
  <1>3. Selects(wb, row) <=> \A i \in 1 .. n : old(i)
    BY <1>1 DEF Selects
  <1>4. Selects(new, row) <=> \A i \in 1 .. n + 1 : now(i)
    BY <1>1 DEF Selects
  <1>5. now(n + 1) <=> Meets(row, condition, new.args)
    BY <1>1
  <1> HIDE DEF n, old, now
  <1>6. (\A i \in 1 .. n + 1 : now(i)) <=> (\A i \in 1 .. n : now(i)) /\ now(n + 1)
    BY <1>1
  <1> QED BY <1>2, <1>3, <1>4, <1>5, <1>6

\* A value meets a condition with an argument; NULL meets none.
Matches(stored, op, value) ==
    /\ stored # None
    /\ op = "=" => stored = value
    /\ op # "=" => Compare(stored, op, value)

\* An argument is found by the number it was given.
LEMMA WithArgSelects ==
    ASSUME NEW wb \in Builder, NEW column \in Columns, NEW op \in {"=", "<", ">="},
           NEW value \in Users \cup Orgs \cup Int, NEW row
    PROVE  /\ WithArg(wb, column, op, value) \in Builder
           /\ Selects(WithArg(wb, column, op, value), row) <=>
                 Selects(wb, row) /\ Matches(row[column], op, value)
  <1> DEFINE new == WithArg(wb, column, op, value)
             k == Len(wb.args) + 1
             condition == [column |-> column, op |-> op, arg |-> k]
  <1>1. /\ Len(wb.args) \in Nat /\ k \in Nat
        /\ new.args \in Seq(Users \cup Orgs \cup Int) /\ Len(new.args) = k /\ new.args[k] = value
        /\ \A i \in 1 .. Len(wb.args) : new.args[i] = wb.args[i]
    <2>1. new.args = Append(wb.args, value)
      BY DEF WithArg
    <2> QED BY <2>1, BuilderTyped, AppendProperties
  <1>2. new.conditions = Append(wb.conditions, condition)
    BY DEF WithArg
  <1>3. new \in Builder
    <2>1. condition \in Condition
      BY <1>1 DEF Condition
    <2> HIDE DEF condition
    <2>2. /\ new.conditions \in Seq(Condition)
          /\ DOMAIN new.conditions = 1 .. Len(wb.conditions) + 1
          /\ \A i \in 1 .. Len(wb.conditions) : new.conditions[i] = wb.conditions[i]
          /\ new.conditions[Len(wb.conditions) + 1] = condition
      BY <1>2, <2>1, BuilderTyped, AppendProperties
    <2>3. \A i \in DOMAIN new.conditions :
             new.conditions[i].op # "literal" => new.conditions[i].arg \in 1 .. Len(new.args)
      <3> SUFFICES ASSUME NEW i \in 1 .. Len(wb.conditions) + 1,
                          new.conditions[i].op # "literal"
                   PROVE  new.conditions[i].arg \in 1 .. Len(new.args)
        BY <2>2
      <3>1. CASE i = Len(wb.conditions) + 1
        <4>1. new.conditions[i].arg = k
          BY <2>2, <3>1 DEF condition
        <4> QED BY <1>1, <4>1
      <3>2. CASE i # Len(wb.conditions) + 1
        <4>1. i \in 1 .. Len(wb.conditions)
          BY <3>2, BuilderTyped
        <4>2. new.conditions[i] = wb.conditions[i]
          BY <2>2, <4>1
        <4>3. wb.conditions[i].arg \in 1 .. Len(wb.args)
          BY <4>1, <4>2, BuilderTyped
        <4> HIDE DEF new
        <4> QED BY <1>1, <4>2, <4>3
      <3> QED BY <3>1, <3>2
    <2>4. new = [conditions |-> new.conditions, args |-> new.args]
      BY DEF WithArg
    <2> HIDE DEF new
    <2> QED BY <1>1, <2>2, <2>3, <2>4 DEF Builder
  <1> HIDE DEF new
  <1>4. Selects(new, row) <=> Selects(wb, row) /\ Meets(row, condition, new.args)
    <2> HIDE DEF condition
    <2> QED BY <1>1, <1>2, <1>3, ConditionAdded
  <1>5. Meets(row, condition, new.args) <=>
           Matches(row[column], op, value)
    BY <1>1 DEF Meets, Matches
  <1> QED BY <1>3, <1>4, <1>5 DEF new

\* A column has the value of a literal.
Holds(row, column, literal) == row[column] # None /\ row[column] = literal

LEMMA MaybeAddSelects ==
    ASSUME NEW wb \in Builder, NEW enabled \in BOOLEAN, NEW column \in Columns,
           NEW literal \in Literals, NEW row
    PROVE  /\ MaybeAdd(wb, enabled, column, literal) \in Builder
           /\ Selects(MaybeAdd(wb, enabled, column, literal), row) <=>
                 /\ Selects(wb, row)
                 /\ enabled => Holds(row, column, literal)
  <1> DEFINE new == MaybeAdd(wb, enabled, column, literal)
             condition == [column |-> column, op |-> "literal", arg |-> literal]
  <1>1. CASE enabled
    <2>1. /\ new = [conditions |-> Append(wb.conditions, condition), args |-> wb.args]
          /\ condition.op = "literal"
      <3>1. wb = [conditions |-> wb.conditions, args |-> wb.args]
        BY DEF Builder
      <3>2. new = [wb EXCEPT !.conditions = Append(@, condition)]
        BY <1>1 DEF MaybeAdd
      <3> HIDE DEF condition, new
      <3>3. new = [conditions |-> Append(wb.conditions, condition), args |-> wb.args]
        BY <3>1, <3>2
      <3> QED BY <3>3 DEF condition
    <2>2. condition \in Condition
      BY DEF Condition
    <2> HIDE DEF condition, new
    <2>3. /\ new.conditions \in Seq(Condition)
          /\ DOMAIN new.conditions = 1 .. Len(wb.conditions) + 1
          /\ \A i \in 1 .. Len(wb.conditions) : new.conditions[i] = wb.conditions[i]
          /\ new.conditions[Len(wb.conditions) + 1] = condition
      BY <2>1, <2>2, BuilderTyped, AppendProperties
    <2>4. ASSUME NEW i \in 1 .. Len(wb.conditions) + 1, new.conditions[i].op # "literal"
          PROVE  new.conditions[i].arg \in 1 .. Len(new.args)
      <3>1. i # Len(wb.conditions) + 1
        BY <2>1, <2>3, <2>4
      <3>2. i \in 1 .. Len(wb.conditions)
        BY <3>1, BuilderTyped
      <3>3. new.conditions[i] = wb.conditions[i] /\ new.args = wb.args
        BY <2>1, <2>3, <3>2
      <3> QED BY <2>4, <3>2, <3>3, BuilderTyped
    <2>5. new \in Builder
      <3>1. new.args \in Seq(Users \cup Orgs \cup Int)
        BY <2>1, BuilderTyped
      <3>2. \A i \in DOMAIN new.conditions :
               new.conditions[i].op # "literal" => new.conditions[i].arg \in 1 .. Len(new.args)
        BY <2>3, <2>4
      <3>3. new = [conditions |-> new.conditions, args |-> new.args]
        BY <2>1
      <3> QED BY <2>3, <3>1, <3>2, <3>3 DEF Builder
    <2>6. Selects(new, row) <=> Selects(wb, row) /\ Meets(row, condition, new.args)
      BY <2>1, <2>5, ConditionAdded
    <2>7. Meets(row, condition, new.args) <=> Holds(row, column, literal)
      BY DEF Meets, condition, Holds
    <2> QED BY <1>1, <2>5, <2>6, <2>7 DEF new
  <1>2. CASE ~enabled
    BY <1>2 DEF MaybeAdd
  <1> QED BY <1>1, <1>2

\* A column has the value of a name, if it is not empty.
MayHold(row, column, s) == s = "" \/ row[column] = s

LEMMA MaybeAddStringSelects ==
    ASSUME NEW wb \in Builder, NEW s \in Users \cup Orgs \cup {""}, NEW column \in Columns, NEW row
    PROVE  /\ MaybeAddString(wb, s, column) \in Builder
           /\ Selects(MaybeAddString(wb, s, column), row) <=>
                 Selects(wb, row) /\ MayHold(row, column, s)
  <1>1. CASE s = ""
    BY <1>1 DEF MaybeAddString, MayHold
  <1>2. CASE s # ""
    <2>1. MaybeAddString(wb, s, column) = WithArg(wb, column, "=", s)
      BY <1>2 DEF MaybeAddString
    <2>2. s \in Users \cup Orgs \cup Int /\ s # None
      BY <1>2, NullAssumption
    <2> DEFINE op == "="
    <2>4. op \in {"=", "<", ">="} /\ op = "="
      OBVIOUS
    <2> HIDE DEF op
    <2>3. /\ WithArg(wb, column, op, s) \in Builder
          /\ Selects(WithArg(wb, column, op, s), row) <=>
                Selects(wb, row) /\ row[column] # None /\ row[column] = s
      <3>1. /\ WithArg(wb, column, op, s) \in Builder
            /\ Selects(WithArg(wb, column, op, s), row) <=>
                  Selects(wb, row) /\ Matches(row[column], op, s)
        BY <2>2, <2>4, WithArgSelects
      <3> QED BY <2>4, <3>1 DEF Matches
    <2> QED BY <1>2, <2>1, <2>2, <2>3 DEF op, MayHold
  <1> QED BY <1>1, <1>2

\* All the bounds of a time filter are added, at the places of their arguments.
LEMMA BoundsSelect ==
    ASSUME NEW wb \in Builder, NEW bounds \in Seq(Bound), NEW row, row.created # None
    PROVE  LET new == FoldLeft(LAMBDA b, bound : WithArg(b, "created", bound[1], bound[2]),
                               wb, bounds)
           IN  /\ new \in Builder
               /\ Selects(new, row) <=> Selects(wb, row) /\ WithinBounds(row.created, bounds)
  <1>1. ASSUME NEW w \in Builder, NEW bound \in Bound
        PROVE  /\ WithArg(w, "created", bound[1], bound[2]) \in Builder
               /\ Selects(WithArg(w, "created", bound[1], bound[2]), row) <=>
                     Selects(w, row) /\ Compare(row.created, bound[1], bound[2])
    <2> DEFINE op == bound[1]
               value == bound[2]
    <2>1. op \in {"=", "<", ">="} /\ op # "=" /\ value \in Users \cup Orgs \cup Int
      BY DEF Bound
    <2> HIDE DEF op, value
    <2>2. "created" \in Columns
      BY DEF Columns
    <2>3. /\ WithArg(w, "created", op, value) \in Builder
          /\ Selects(WithArg(w, "created", op, value), row) <=>
                Selects(w, row) /\ Matches(row["created"], op, value)
      BY <2>1, <2>2, WithArgSelects
    <2> QED BY <2>1, <2>3 DEF op, value, Matches
  <1> DEFINE n == Len(bounds)
             new == FoldLeft(LAMBDA b, bound : WithArg(b, "created", bound[1], bound[2]),
                             wb, bounds)
  <1>2. n \in Nat /\ DOMAIN bounds = 1 .. n /\ \A k \in 1 .. n : bounds[k] \in Bound
    BY LenProperties, ElementOfSeq
  <1>3. PICK f : /\ f[{}] = wb
                 /\ \A k \in 1 .. n :
                       f[1 .. k] = WithArg(f[1 .. k - 1], "created", bounds[k][1], bounds[k][2])
                 /\ new = f[1 .. n]
    BY <1>1, BoundsFold
  <1> HIDE DEF n, new
  <1> DEFINE Within(k) == \A i \in 1 .. k : Compare(row.created, bounds[i][1], bounds[i][2])
             Folded(k) == /\ f[1 .. k] \in Builder
                          /\ Selects(f[1 .. k], row) <=> Selects(wb, row) /\ Within(k)
             T == {k \in Nat : k <= n => Folded(k)}
  <1>4. Folded(0)
    <2>1. 1 .. 0 = {}
      OBVIOUS
    <2> QED BY <1>3, <2>1
  <1>5. ASSUME NEW k \in Nat, k + 1 <= n, Folded(k)
        PROVE  Folded(k + 1)
    <2>1. /\ k + 1 \in 1 .. n /\ bounds[k + 1] \in Bound /\ 1 .. (k + 1) - 1 = 1 .. k
          /\ f[1 .. k] \in Builder
      BY <1>2, <1>5
    <2>2. f[1 .. k + 1] = WithArg(f[1 .. k], "created", bounds[k + 1][1], bounds[k + 1][2])
      BY <1>3, <2>1
    <2>3. Within(k + 1) <=> Within(k) /\ Compare(row.created, bounds[k + 1][1], bounds[k + 1][2])
      OBVIOUS
    <2> HIDE DEF Within
    <2> QED BY <1>1, <1>5, <2>1, <2>2, <2>3
  <1>6. T = Nat
    <2> HIDE DEF Folded
    <2>1. 0 \in T
      BY <1>4
    <2>2. \A k \in T : k + 1 \in T
      BY <1>2, <1>5
    <2>3. T \subseteq Nat
      OBVIOUS
    <2> HIDE DEF T
    <2> QED BY <2>1, <2>2, <2>3, NatSetInduction
  <1>7. Folded(n)
    <2> HIDE DEF Folded
    <2> QED BY <1>2, <1>6
  <1> QED BY <1>2, <1>3, <1>7 DEF WithinBounds, new

LEMMA TimeBoundsTyped ==
    ASSUME NEW filter \in TimeFilter
    PROVE  TimeBounds(filter) \in Seq(Bound)
  <1>1. Start(filter) \in Int /\ End(filter) \in Int /\ filter.comparison \in Comparisons
    BY DEF TimeFilter, Start, End
  <1>2. <<"<", Start(filter)>> \in Bound /\ <<">=", Start(filter)>> \in Bound
    BY <1>1 DEF Bound
  <1>3. <<"<", End(filter)>> \in Bound /\ <<">=", End(filter)>> \in Bound
    BY <1>1 DEF Bound
  <1>4. CASE filter.comparison = "eq"
    <2>1. TimeBounds(filter) = <<<<"<", End(filter)>>, <<">=", Start(filter)>>>>
      BY <1>4 DEF TimeBounds
    <2> QED BY <1>2, <1>3, <2>1
  <1>5. CASE filter.comparison = "le"
    <2>1. TimeBounds(filter) = <<<<"<", End(filter)>>>>
      BY <1>5 DEF TimeBounds
    <2> QED BY <1>3, <2>1
  <1>6. CASE filter.comparison = "ge"
    <2>1. TimeBounds(filter) = <<<<">=", Start(filter)>>>>
      BY <1>6 DEF TimeBounds
    <2> QED BY <1>2, <2>1
  <1>7. CASE filter.comparison = "lt"
    <2>1. TimeBounds(filter) = <<<<"<", Start(filter)>>>>
      BY <1>7 DEF TimeBounds
    <2> QED BY <1>2, <2>1
  <1>8. CASE filter.comparison = "gt"
    <2>1. TimeBounds(filter) = <<<<">=", End(filter)>>>>
      BY <1>8 DEF TimeBounds
    <2> QED BY <1>3, <2>1
  <1> QED BY <1>1, <1>4, <1>5, <1>6, <1>7, <1>8 DEF Comparisons

\* What a time filter asks of a row.
AsksOf(filter, row) ==
    Asked(filter.comparison, Units(row.created, filter.time, filter.precision))

\* A time filter restricts what is selected to what its comparison asks for.
LEMMA TimeFilterSelects ==
    ASSUME NEW wb \in Builder, NEW filter \in TimeFilter
    PROVE  /\ MaybeAddTimeFilter(wb, filter) \in Builder
           /\ ~IsZero(filter) => \A row \in Table :
                 Selects(MaybeAddTimeFilter(wb, filter), row) <=>
                    Selects(wb, row) /\ AsksOf(filter, row)
  <1> DEFINE bounded == FoldLeft(LAMBDA b, bound : WithArg(b, "created", bound[1], bound[2]),
                                 wb, TimeBounds(filter))
  <1>1. CASE IsZero(filter)
    BY <1>1 DEF MaybeAddTimeFilter
  <1>2. CASE ~IsZero(filter)
    <2>1. MaybeAddTimeFilter(wb, filter) = bounded
      BY <1>2, Zenon DEF MaybeAddTimeFilter
    <2>2. ASSUME NEW row, row.created # None
          PROVE  /\ bounded \in Builder
                 /\ Selects(bounded, row) <=>
                       Selects(wb, row) /\ WithinBounds(row.created, TimeBounds(filter))
      BY <2>2, TimeBoundsTyped, BoundsSelect
    <2> HIDE DEF bounded
    <2>3. ASSUME NEW row \in Table
          PROVE  row.created \in Int /\ row.created # None
      BY TableAssumption
    <2>4. bounded \in Builder
      <3>1. PICK null : null # None
        <4>1. TRUE # None
          BY NullAssumption
        <4> QED BY <4>1
      <3> DEFINE row == [created |-> null]
      <3>2. row.created # None
        BY <3>1
      <3> HIDE DEF row
      <3> QED BY <2>2, <3>2
    <2>5. ASSUME NEW row \in Table
          PROVE  WithinBounds(row.created, TimeBounds(filter)) <=> AsksOf(filter, row)
      BY <2>3, BoundsAskWhatTheyShould DEF AsksOf
    <2> QED BY <1>2, <2>1, <2>2, <2>3, <2>4, <2>5
  <1> QED BY <1>1, <1>2

\* What time filters ask of a row.
AskOf(filters, row) == \A i \in DOMAIN filters : AsksOf(filters[i], row)

Filtered(wb, filters) == FoldLeft(MaybeAddTimeFilter, wb, filters)

\* So do any number of them.
LEMMA FiltersSelect ==
    ASSUME NEW wb \in Builder, NEW filters \in Seq(TimeFilter),
           \A i \in DOMAIN filters : ~IsZero(filters[i]),
           NEW row \in Table
    PROVE  Selects(Filtered(wb, filters), row) <=> Selects(wb, row) /\ AskOf(filters, row)
  <1> DEFINE n == Len(filters)
             new == Filtered(wb, filters)
  <1>1. n \in Nat /\ DOMAIN filters = 1 .. n /\ \A k \in 1 .. n : filters[k] \in TimeFilter
    BY LenProperties, ElementOfSeq
  <1>2. PICK f : /\ f[{}] = wb
                 /\ \A k \in 1 .. n :
                       f[1 .. k] = MaybeAddTimeFilter(f[1 .. k - 1], filters[k])
                 /\ new = f[1 .. n]
    BY TimeFilterSelects, FiltersFold DEF Filtered
  <1> HIDE DEF n, new
  <1> DEFINE Asks(k) == \A i \in 1 .. k : AsksOf(filters[i], row)
             Folded(k) == /\ f[1 .. k] \in Builder
                          /\ Selects(f[1 .. k], row) <=> Selects(wb, row) /\ Asks(k)
             T == {k \in Nat : k <= n => Folded(k)}
  <1>3. Folded(0)
    <2>1. 1 .. 0 = {}
      OBVIOUS
    <2> QED BY <1>2, <2>1
  <1>4. ASSUME NEW k \in Nat, k + 1 <= n, Folded(k)
        PROVE  Folded(k + 1)
    <2>1. /\ k + 1 \in 1 .. n /\ filters[k + 1] \in TimeFilter /\ 1 .. (k + 1) - 1 = 1 .. k
          /\ f[1 .. k] \in Builder /\ ~IsZero(filters[k + 1])
      BY <1>1, <1>4
    <2>2. f[1 .. k + 1] = MaybeAddTimeFilter(f[1 .. k], filters[k + 1])
      BY <1>2, <2>1
    <2>3. Asks(k + 1) <=> Asks(k) /\ AsksOf(filters[k + 1], row)
      OBVIOUS
    <2> HIDE DEF Asks
    <2> QED BY <1>4, <2>1, <2>2, <2>3, TimeFilterSelects
  <1>5. T = Nat
    <2> HIDE DEF Folded
    <2>1. 0 \in T
      BY <1>3
    <2>2. \A k \in T : k + 1 \in T
      BY <1>1, <1>4
    <2>3. T \subseteq Nat
      OBVIOUS
    <2> HIDE DEF T
    <2> QED BY <2>1, <2>2, <2>3, NatSetInduction
  <1>6. Folded(n)
    <2> HIDE DEF Folded
    <2> QED BY <1>1, <1>5
  <1> QED BY <1>1, <1>2, <1>6 DEF new, AskOf

-----------------------------------------------------------------------------
(* From the parameters of a query to its filter.                            *)

GivenTimes == TimeParams \cap DOMAIN query

FilterOf(param) == ParseTimeFilter(param, First(param))

WithParam(filters, param) ==
    IF IsZero(FilterOf(param)) THEN filters ELSE Append(filters, FilterOf(param))

\* The fold of DateCreated over an order of the parameters.
LEMMA ParamsFold ==
    ASSUME NEW s \in Seq(GivenTimes),
           \A w \in Seq(TimeFilter), e \in GivenTimes : WithParam(w, e) \in Seq(TimeFilter)
    PROVE  \E f : /\ f[{}] = << >>
                  /\ \A k \in 1 .. Len(s) : f[1 .. k] = WithParam(f[1 .. k - 1], s[k])
                  /\ DateCreated(s) = f[1 .. Len(s)]
  <1> DEFINE n == Len(s)
             op(w, e) == WithParam(w, e)
             step == [p \in Seq(TimeFilter) \X (1 .. n) |-> op(p[1], s[p[2]])]
             body(f) == [X \in SUBSET (1 .. n) |->
                           IF X = {} THEN << >> ELSE op(f[X \ {Max(X)}], s[Max(X)])]
             fold == CHOOSE f : f = body(f)
  <1>1. n \in Nat /\ DOMAIN s = 1 .. n /\ \A k \in 1 .. n : s[k] \in GivenTimes
    BY LenProperties, ElementOfSeq
  <1>2. DateCreated(s) = fold[1 .. n]
    <2> HIDE DEF n
    <2> QED BY <1>1 DEF DateCreated, WithParam, FilterOf, FoldLeft, MapThenFoldSet
  <1> HIDE DEF n, op
  <1>3. step \in [Seq(TimeFilter) \X (1 .. n) -> Seq(TimeFilter)]
    BY <1>1 DEF op
  <1>4. PICK g : IsFold(g, n, Seq(TimeFilter), << >>, step)
    <2> HIDE DEF step, body, fold
    <2>1. n \in Nat /\ << >> \in Seq(TimeFilter)
      BY <1>1
    <2> QED BY <2>1, <1>3, FoldDefined
  <1>5. g = body(g)
    <2>0. /\ g \in [SUBSET (1 .. n) -> Seq(TimeFilter)]
          /\ \A X \in SUBSET (1 .. n) :
                g[X] = IF X = {} THEN << >> ELSE step[<<g[X \ {Max(X)}], Max(X)>>]
      BY <1>4 DEF IsFold
    <2>1. ASSUME NEW X \in SUBSET (1 .. n), X # {}
          PROVE  step[<<g[X \ {Max(X)}], Max(X)>>] = op(g[X \ {Max(X)}], s[Max(X)])
      <3>1. Max(X) \in 1 .. n
        BY <1>1, <2>1, MaxExists
      <3>2. g[X \ {Max(X)}] \in Seq(TimeFilter)
        BY <2>0
      <3> QED BY <3>1, <3>2
    <2> HIDE DEF step
    <2> QED BY <2>0, <2>1
  <1>6. fold = body(fold)
    <2> HIDE DEF body
    <2> QED BY <1>5
  <1> HIDE DEF fold
  <1>7. fold[{}] = << >>
    <2>1. {} \in SUBSET (1 .. n)
      OBVIOUS
    <2> QED BY <1>6, <2>1
  <1>8. ASSUME NEW k \in 1 .. n
        PROVE  fold[1 .. k] = op(fold[1 .. k - 1], s[k])
    <2>1. /\ 1 .. k \in SUBSET (1 .. n) /\ 1 .. k # {} /\ Max(1 .. k) = k
          /\ (1 .. k) \ {Max(1 .. k)} = 1 .. k - 1
      BY <1>1, IndicesFolded
    <2>2. fold[1 .. k] = body(fold)[1 .. k]
      BY <1>6
    <2> HIDE DEF fold
    <2> QED BY <2>1, <2>2
  <1> QED BY <1>2, <1>7, <1>8 DEF n, op

\* If no given time is junk, every order gives the filters of all of them.
LEMMA DateCreatedTyped ==
    ASSUME NEW order \in Seq(GivenTimes),
           \A p \in GivenTimes : FilterOf(p) \in TimeFilter /\ ~IsZero(FilterOf(p))
    PROVE  /\ DateCreated(order) \in Seq(TimeFilter)
           /\ DOMAIN DateCreated(order) = DOMAIN order
           /\ \A i \in DOMAIN order : DateCreated(order)[i] = FilterOf(order[i])
  <1> DEFINE n == Len(order)
             W == Seq(TimeFilter)
             filters == DateCreated(order)
  <1>1. n \in Nat /\ DOMAIN order = 1 .. n /\ \A k \in 1 .. n : order[k] \in GivenTimes
    BY LenProperties, ElementOfSeq
  <1>2. \A w \in W, p \in GivenTimes : WithParam(w, p) = Append(w, FilterOf(p))
    BY DEF WithParam
  <1>3. \A w \in W, p \in GivenTimes : WithParam(w, p) \in W
    BY <1>2, AppendProperties
  <1>4. << >> \in W /\ Len(<< >>) = 0
    OBVIOUS
  <1>5. PICK f : /\ f[{}] = << >>
                 /\ \A k \in 1 .. n : f[1 .. k] = WithParam(f[1 .. k - 1], order[k])
                 /\ filters = f[1 .. n]
    BY <1>3, <1>4, ParamsFold
  <1> HIDE DEF n, filters
  <1> DEFINE Folded(k) == /\ f[1 .. k] \in W
                          /\ Len(f[1 .. k]) = k
                          /\ \A i \in 1 .. k : f[1 .. k][i] = FilterOf(order[i])
             T == {k \in Nat : k <= n => Folded(k)}
  <1>6. Folded(0)
    <2>1. 1 .. 0 = {}
      OBVIOUS
    <2> QED BY <1>4, <1>5, <2>1
  <1>7. ASSUME NEW k \in Nat, k + 1 <= n, Folded(k)
        PROVE  Folded(k + 1)
    <2> DEFINE w == f[1 .. k]
               e == FilterOf(order[k + 1])
    <2>1. /\ k + 1 \in 1 .. n /\ order[k + 1] \in GivenTimes /\ 1 .. (k + 1) - 1 = 1 .. k
          /\ w \in W /\ Len(w) = k /\ e \in TimeFilter
      BY <1>1, <1>7
    <2>2. f[1 .. k + 1] = Append(w, e)
      BY <1>2, <1>5, <2>1
    <2>3. \A i \in 1 .. k : w[i] = FilterOf(order[i])
      BY <1>7
    <2> HIDE DEF w
    <2> HIDE DEF e
    <2>4. /\ Append(w, e) \in W /\ Len(Append(w, e)) = k + 1
          /\ \A i \in 1 .. k : Append(w, e)[i] = w[i]
          /\ Append(w, e)[k + 1] = e
      BY <2>1, AppendProperties
    <2>5. ASSUME NEW i \in 1 .. k + 1
          PROVE  Append(w, e)[i] = FilterOf(order[i])
      <3>1. CASE i = k + 1
        BY <2>4, <3>1 DEF e
      <3>2. CASE i # k + 1
        <4>1. i \in 1 .. k
          BY <3>2, <1>7
        <4> QED BY <2>3, <2>4, <4>1
      <3> QED BY <3>1, <3>2
    <2> QED BY <2>2, <2>4, <2>5
  <1>8. T = Nat
    <2> HIDE DEF Folded
    <2>1. 0 \in T
      BY <1>6
    <2>2. \A k \in T : k + 1 \in T
      BY <1>1, <1>7
    <2>3. T \subseteq Nat
      OBVIOUS
    <2> HIDE DEF T
    <2> QED BY <2>1, <2>2, <2>3, NatSetInduction
  <1>9. Folded(n)
    <2> HIDE DEF Folded
    <2> QED BY <1>1, <1>8
  <1> QED BY <1>1, <1>5, <1>9 DEF filters

\* An order has every time that is given.
LEMMA OrderIsComplete ==
    ASSUME NEW order \in SetToSeqs(GivenTimes)
    PROVE  /\ order \in Seq(GivenTimes)
           /\ \A p \in GivenTimes : \E i \in DOMAIN order : order[i] = p
  <1> DEFINE S == GivenTimes
             D == 1 .. Cardinality(S)
  <1>1. IsFiniteSet(S) /\ Cardinality(S) \in Nat
    <2>1. TimeParams = {"date_created", "date_created_eq", "date_created_le",
                        "date_created_ge", "date_created_lt", "date_created_gt"}
      BY DEF TimeParams, ComparisonSuffixes
    <2>2. IsFiniteSet(TimeParams)
      <3>1. IsFiniteSet({})
        BY FS_EmptySet
      <3>2. IsFiniteSet({} \cup {"date_created"})
        BY <3>1, FS_AddElement
      <3>3. IsFiniteSet(({} \cup {"date_created"}) \cup {"date_created_eq"})
        BY <3>2, FS_AddElement
      <3> DEFINE A == ({} \cup {"date_created"}) \cup {"date_created_eq"}
                 B == A \cup {"date_created_le"}
                 C == B \cup {"date_created_ge"}
                 E == C \cup {"date_created_lt"}
      <3>4. IsFiniteSet(B)
        BY <3>3, FS_AddElement
      <3>5. IsFiniteSet(C)
        <4> HIDE DEF B
        <4> QED BY <3>4, FS_AddElement
      <3>6. IsFiniteSet(E)
        <4> HIDE DEF C
        <4> QED BY <3>5, FS_AddElement
      <3>7. IsFiniteSet(E \cup {"date_created_gt"})
        <4> HIDE DEF E
        <4> QED BY <3>6, FS_AddElement
      <3>8. E \cup {"date_created_gt"} = TimeParams
        BY <2>1
      <3> HIDE DEF E
      <3> QED BY <3>7, <3>8
    <2>3. S \in SUBSET TimeParams
      BY DEF GivenTimes
    <2> HIDE DEF S
    <2> QED BY <2>2, <2>3, FS_Subset, FS_CardinalityType
  <1>2. order \in [D -> S] /\ \A i, j \in D : i # j => order[i] # order[j]
    BY DEF SetToSeqs
  <1> HIDE DEF S
  <1>3. order \in Injection(D, S)
    BY <1>2 DEF Injection, IsInjective
  <1>4. Cardinality(D) = Cardinality(S)
    BY <1>1, FS_Interval
  <1>5. order \in Surjection(D, S)
    BY <1>1, <1>3, <1>4, FS_Injection
  <1>6. \A p \in S : \E i \in D : order[i] = p
    BY <1>5 DEF Surjection
  <1>7. DOMAIN order = D
    BY <1>2
  <1>8. order \in Seq(S)
    BY <1>1, <1>2
  <1> QED BY <1>6, <1>7, <1>8 DEF S

-----------------------------------------------------------------------------
(* What is counted.                                                         *)

LEMMA NothingBelowOne == 1 .. 0 = {}
  OBVIOUS

\* A filter of a valid query: its times are all kept.
ValidFilter(filter) ==
    /\ filter.OnlyDrafts \in BOOLEAN /\ filter.OnlyPublished \in BOOLEAN
    /\ filter.OnlyAtt \in BOOLEAN /\ filter.OnlyIda \in BOOLEAN
    /\ filter.User \in Users \cup {""} /\ filter.Organization \in Orgs \cup {""}
    /\ filter.DateCreated \in Seq(TimeFilter)
    /\ \A i \in DOMAIN filter.DateCreated : ~IsZero(filter.DateCreated[i])

\* What a filter asks of a row.
FilterAsks(filter, row) ==
    /\ filter.OnlyDrafts => ~row.published
    /\ filter.OnlyPublished => row.published
    /\ filter.OnlyAtt => row.schema = "metax-att"
    /\ filter.OnlyIda => row.schema = "metax-ida"
    /\ filter.User = "" \/ row.user = filter.User
    /\ filter.Organization = "" \/ row.org = filter.Organization
    /\ AskOf(filter.DateCreated, row)

\* A WHERE statement selects what its filter asks for.
LEMMA WhereSelects ==
    ASSUME NEW filter, ValidFilter(filter), NEW row \in Table
    PROVE  Selects(Where(filter), row) <=> FilterAsks(filter, row)
  <1>1. /\ row.schema \in {"metax-att", "metax-ida"} /\ row.schema # None
        /\ row.published \in BOOLEAN /\ row.published # None
    BY TableAssumption, NullAssumption
  <1>2. /\ "published" \in Columns /\ "schema" \in Columns /\ "user" \in Columns
        /\ "org" \in Columns
        /\ FALSE \in Literals /\ TRUE \in Literals
        /\ "metax-att" \in Literals /\ "metax-ida" \in Literals
        /\ filter.User \in Users \cup Orgs \cup {""}
        /\ filter.Organization \in Users \cup Orgs \cup {""}
    BY DEF Columns, Literals, ValidFilter
  <1>3. NewWhereBuilder \in Builder /\ Selects(NewWhereBuilder, row)
    <2>1. << >> \in Seq(Condition) /\ << >> \in Seq(Users \cup Orgs \cup Int)
      BY EmptySeq
    <2>2. DOMAIN << >> = {}
      <3> DEFINE none == << >>
      <3>1. none \in Seq(Condition)
        BY <2>1
      <3>2. Len(none) = 0
        OBVIOUS
      <3>3. 1 .. 0 = {}
        BY NothingBelowOne
      <3> HIDE DEF none
      <3>4. DOMAIN none = {}
        BY <3>1, <3>2, <3>3, LenProperties
      <3> QED BY <3>4 DEF none
    <2>3. NewWhereBuilder = [conditions |-> << >>, args |-> << >>]
      BY DEF NewWhereBuilder
    <2> QED BY <2>1, <2>2, <2>3 DEF Builder, Selects
  <1> DEFINE drafts == MaybeAdd(NewWhereBuilder, filter.OnlyDrafts, "published", FALSE)
  <1>4. /\ drafts \in Builder
        /\ Selects(drafts, row) <=>
              Selects(NewWhereBuilder, row) /\ (filter.OnlyDrafts => Holds(row, "published", FALSE))
    BY <1>2, <1>3, MaybeAddSelects DEF ValidFilter
  <1> HIDE DEF drafts
  <1> DEFINE published == MaybeAdd(drafts, filter.OnlyPublished, "published", TRUE)
  <1>5. /\ published \in Builder
        /\ Selects(published, row) <=>
              Selects(drafts, row) /\ (filter.OnlyPublished => Holds(row, "published", TRUE))
    BY <1>2, <1>4, MaybeAddSelects DEF ValidFilter
  <1> HIDE DEF published
  <1> DEFINE att == MaybeAdd(published, filter.OnlyAtt, "schema", "metax-att")
  <1>6. /\ att \in Builder
        /\ Selects(att, row) <=>
              Selects(published, row) /\ (filter.OnlyAtt => Holds(row, "schema", "metax-att"))
    BY <1>2, <1>5, MaybeAddSelects DEF ValidFilter
  <1> HIDE DEF att
  <1> DEFINE ida == MaybeAdd(att, filter.OnlyIda, "schema", "metax-ida")
  <1>7. /\ ida \in Builder
        /\ Selects(ida, row) <=>
              Selects(att, row) /\ (filter.OnlyIda => Holds(row, "schema", "metax-ida"))
    BY <1>2, <1>6, MaybeAddSelects DEF ValidFilter
  <1> HIDE DEF ida
  <1> DEFINE user == MaybeAddString(ida, filter.User, "user")
  <1>8. /\ user \in Builder
        /\ Selects(user, row) <=>
              Selects(ida, row) /\ MayHold(row, "user", filter.User)
    BY <1>2, <1>7, MaybeAddStringSelects
  <1> HIDE DEF user
  <1> DEFINE org == MaybeAddString(user, filter.Organization, "org")
  <1>9. /\ org \in Builder
        /\ Selects(org, row) <=>
              Selects(user, row) /\ MayHold(row, "org", filter.Organization)
    BY <1>2, <1>8, MaybeAddStringSelects
  <1> HIDE DEF org
  <1>10. Where(filter) = Filtered(org, filter.DateCreated)
    BY Zenon DEF Where, Filtered, drafts, published, att, ida, user, org
  <1>11. Selects(Where(filter), row) <=>
            Selects(org, row) /\ AskOf(filter.DateCreated, row)
    <2> DEFINE fs == filter.DateCreated
    <2>1. fs \in Seq(TimeFilter) /\ \A i \in DOMAIN fs : ~IsZero(fs[i])
      BY DEF ValidFilter
    <2>2. Where(filter) = Filtered(org, fs)
      BY <1>10
    <2> HIDE DEF fs
    <2>3. Selects(Filtered(org, fs), row) <=> Selects(org, row) /\ AskOf(fs, row)
      BY <1>9, <2>1, FiltersSelect
    <2>4. Selects(Where(filter), row) <=> Selects(org, row) /\ AskOf(fs, row)
      BY <2>2, <2>3, Zenon
    <2> QED BY <2>4 DEF fs
  <1>12. /\ Holds(row, "published", FALSE) <=> ~row.published
         /\ Holds(row, "published", TRUE) <=> row.published
         /\ Holds(row, "schema", "metax-att") <=> row.schema = "metax-att"
         /\ Holds(row, "schema", "metax-ida") <=> row.schema = "metax-ida"
    BY <1>1 DEF Holds
  <1>13. /\ MayHold(row, "user", filter.User) <=> filter.User = "" \/ row.user = filter.User
         /\ MayHold(row, "org", filter.Organization) <=>
               filter.Organization = "" \/ row.org = filter.Organization
    BY DEF MayHold
  <1> QED BY <1>3, <1>4, <1>5, <1>6, <1>7, <1>8, <1>9, <1>11, <1>12, <1>13 DEF FilterAsks

\* No parameter of the query is reported.
Valid == Validate = {}

\* A parameter of a valid query is known and has one value, of its kind.
LEMMA ValidQuery ==
    ASSUME QueryTyped, Valid, NEW p \in DOMAIN query
    PROVE  /\ p \in Params /\ p # "unknown"
           /\ DOMAIN query[p] = {1}
           /\ First(p) \in Values(p)
           /\ p \in Flags => Flag(p)
           /\ p \in TimeParams => ~IsZero(FilterOf(p))
           /\ p = "group_by" => First(p) \in DOMAIN DatasetFilterGroupByPaths
  <1>1. /\ p # "unknown" /\ ~(Len(query[p]) > 1)
        /\ p \in Flags => Flag(p)
        /\ p \in TimeParams => ~IsZero(FilterOf(p))
        /\ p = "group_by" => First(p) \in DOMAIN DatasetFilterGroupByPaths
    BY DEF Valid, Validate, FilterOf
  <1>2. p \in Params /\ query[p] \in Seq(Values(p)) /\ query[p] # << >>
    BY DEF QueryTyped
  <1> DEFINE s == query[p]
             V == Values(p)
  <1>3. s \in Seq(V) /\ s # << >> /\ ~(Len(s) > 1)
    BY <1>1, <1>2
  <1> HIDE DEF s, V
  <1>4. Len(s) = 1 /\ DOMAIN s = {1} /\ s[1] \in V
    <2>1. Len(s) \in Nat \ {0} /\ DOMAIN s = 1 .. Len(s)
      BY <1>3, EmptySeq, LenProperties
    <2>2. Len(s) = 1 /\ DOMAIN s = {1}
      BY <1>3, <2>1
    <2> QED BY <1>3, <2>2, ElementOfSeq
  <1> QED BY <1>1, <1>2, <1>4 DEF First, s, V

\* A time of a valid query becomes the filter that asks what the time does.
LEMMA ValidTime ==
    ASSUME QueryTyped, Valid, NEW p \in GivenTimes
    PROVE  /\ FilterOf(p) \in TimeFilter /\ ~IsZero(FilterOf(p))
           /\ \A row : AskedOf(row, p, First(p)) <=> AsksOf(FilterOf(p), row)
  <1>1. p \in DOMAIN query /\ p \in TimeParams
    BY DEF GivenTimes
  <1>2. First(p) \in Values(p) /\ ~IsZero(FilterOf(p))
    BY <1>1, ValidQuery
  <1>3. p \in {"date_created", "date_created_eq", "date_created_le",
               "date_created_ge", "date_created_lt", "date_created_gt"}
    BY <1>1 DEF TimeParams, ComparisonSuffixes
  <1>4. Values(p) = Texts \cup {Junk}
    BY <1>1, <1>3 DEF Values, Flags
  <1>5. FilterOf(p) = [comparison |-> ComparisonSuffixes[p], time |-> First(p).time,
                       precision |-> First(p).length]
    BY DEF FilterOf, ParseTimeFilter
  <1>6. First(p) # Junk
    BY <1>2, <1>5 DEF IsZero, Junk, TimeText
  <1>7. First(p).time \in Int /\ First(p).length \in Nat \ {0}
    BY <1>2, <1>4, <1>6, TextsAssumption
  <1>8. ComparisonSuffixes[p] \in Comparisons
    BY <1>3 DEF ComparisonSuffixes, Comparisons
  <1>9. ASSUME NEW row
        PROVE  AskedOf(row, p, First(p)) <=>
                  First(p) # Junk /\ Asked(ComparisonSuffixes[p],
                                           Units(row.created, First(p).time, First(p).length))
    BY <1>1, <1>3 DEF AskedOf
  <1> QED BY <1>2, <1>5, <1>6, <1>7, <1>8, <1>9 DEF TimeFilter, AsksOf

\* What a value asks of a row, by its parameter.
LEMMA AskedOfEach ==
    ASSUME NEW row, NEW value, NEW p
    PROVE  /\ p = "only_drafts" => (AskedOf(row, p, value) <=> ~row.published)
           /\ p = "only_published" => (AskedOf(row, p, value) <=> row.published)
           /\ p = "only_att" => (AskedOf(row, p, value) <=> row.schema = "metax-att")
           /\ p = "only_ida" => (AskedOf(row, p, value) <=> row.schema = "metax-ida")
           /\ p = "user_created" => (AskedOf(row, p, value) <=> value = "" \/ row.user = value)
           /\ p = "organization" => (AskedOf(row, p, value) <=> value = "" \/ row.org = value)
           /\ p = "group_by" =>
                 (AskedOf(row, p, value) <=> value \in DOMAIN DatasetFilterGroupByPaths)
  <1>1. CASE p = "only_drafts"
    BY <1>1, SMT DEF AskedOf, TimeParams, ComparisonSuffixes
  <1>2. CASE p = "only_published"
    BY <1>2, SMT DEF AskedOf, TimeParams, ComparisonSuffixes
  <1>3. CASE p = "only_att"
    BY <1>3, SMT DEF AskedOf, TimeParams, ComparisonSuffixes
  <1>4. CASE p = "only_ida"
    BY <1>4, SMT DEF AskedOf, TimeParams, ComparisonSuffixes
  <1>5. CASE p = "user_created"
    BY <1>5, SMT DEF AskedOf, TimeParams, ComparisonSuffixes
  <1>6. CASE p = "organization"
    BY <1>6, SMT DEF AskedOf, TimeParams, ComparisonSuffixes
  <1>7. CASE p = "group_by"
    BY <1>7, SMT DEF AskedOf, TimeParams, ComparisonSuffixes
  <1> QED BY <1>1, <1>2, <1>3, <1>4, <1>5, <1>6, <1>7, Zenon

\* What a valid query asks of a row by the parameters that have a value each.
LEMMA OneValueEach ==
    ASSUME QueryTyped, Valid, NEW row
    PROVE  (\A p \in DOMAIN query : \A i \in DOMAIN query[p] : AskedOf(row, p, query[p][i]))
              <=> \A p \in DOMAIN query : AskedOf(row, p, First(p))
  <1>1. \A p \in DOMAIN query : DOMAIN query[p] = {1}
    BY ValidQuery
  <1> QED BY <1>1, Zenon DEF First

\* A flag that is given is on.
LEMMA FlagsAsked ==
    ASSUME QueryTyped, Valid, NEW row \in Table
    PROVE  /\ \A p \in Flags : Flag(p) <=> p \in DOMAIN query
           /\ AskedOf(row, "only_drafts", First("only_drafts")) <=> ~row.published
           /\ AskedOf(row, "only_published", First("only_published")) <=> row.published
           /\ AskedOf(row, "only_att", First("only_att")) <=> row.schema = "metax-att"
           /\ AskedOf(row, "only_ida", First("only_ida")) <=> row.schema = "metax-ida"
  <1>1. \A p \in Flags : p \in DOMAIN query => Flag(p)
    BY ValidQuery
  <1>2. \A p \in Flags : Flag(p) => p \in DOMAIN query
    BY DEF Flag, Given
  <1> QED BY <1>1, <1>2, AskedOfEach

\* A name that is not given, or given empty, asks nothing.
LEMMA NamesAsked ==
    ASSUME QueryTyped, Valid, NEW row
    PROVE  /\ String("user_created") \in Users \cup {""}
           /\ String("organization") \in Orgs \cup {""}
           /\ ("user_created" \in DOMAIN query =>
                  AskedOf(row, "user_created", First("user_created"))) <=>
                 (String("user_created") = "" \/ row.user = String("user_created"))
           /\ ("organization" \in DOMAIN query =>
                  AskedOf(row, "organization", First("organization"))) <=>
                 (String("organization") = "" \/ row.org = String("organization"))
  <1>1. "user_created" \in DOMAIN query => First("user_created") \in Users \cup {""}
    <2>1. Values("user_created") = Users \cup {""}
      BY DEF Values, Flags, TimeParams, ComparisonSuffixes
    <2> QED BY <2>1, ValidQuery
  <1>2. "organization" \in DOMAIN query => First("organization") \in Orgs \cup {""}
    <2>1. Values("organization") = Orgs \cup {""}
      BY DEF Values, Flags, TimeParams, ComparisonSuffixes
    <2> QED BY <2>1, ValidQuery
  <1>3. /\ AskedOf(row, "user_created", First("user_created")) <=>
              First("user_created") = "" \/ row.user = First("user_created")
        /\ AskedOf(row, "organization", First("organization")) <=>
              First("organization") = "" \/ row.org = First("organization")
    BY AskedOfEach
  <1>4. ASSUME NEW p
        PROVE  /\ p \in DOMAIN query => String(p) = First(p)
               /\ p \notin DOMAIN query => String(p) = ""
    BY DEF String, Given
  <1>5. String("user_created") \in Users \cup {""} /\ String("organization") \in Orgs \cup {""}
    BY <1>1, <1>2, <1>4
  <1>6. ("user_created" \in DOMAIN query =>
            AskedOf(row, "user_created", First("user_created"))) <=>
           (String("user_created") = "" \/ row.user = String("user_created"))
    BY <1>3, <1>4
  <1>7. ("organization" \in DOMAIN query =>
            AskedOf(row, "organization", First("organization"))) <=>
           (String("organization") = "" \/ row.org = String("organization"))
    BY <1>3, <1>4
  <1> QED BY <1>5, <1>6, <1>7

\* In any order, the time filters ask what the times that are given do.
LEMMA TimesAsked ==
    ASSUME QueryTyped, Valid, NEW order \in SetToSeqs(GivenTimes), NEW row
    PROVE  /\ DateCreated(order) \in Seq(TimeFilter)
           /\ \A i \in DOMAIN DateCreated(order) : ~IsZero(DateCreated(order)[i])
           /\ AskOf(DateCreated(order), row) <=>
                 \A p \in GivenTimes : AskedOf(row, p, First(p))
  <1> DEFINE filters == DateCreated(order)
  <1>1. \A p \in GivenTimes : /\ FilterOf(p) \in TimeFilter /\ ~IsZero(FilterOf(p))
                              /\ AskedOf(row, p, First(p)) <=> AsksOf(FilterOf(p), row)
    BY ValidTime
  <1>2. /\ order \in Seq(GivenTimes)
        /\ \A p \in GivenTimes : \E i \in DOMAIN order : order[i] = p
    BY OrderIsComplete
  <1>3. \A i \in DOMAIN order : order[i] \in GivenTimes
    BY <1>2, ElementOfSeq, LenProperties
  <1>4. /\ filters \in Seq(TimeFilter)
        /\ DOMAIN filters = DOMAIN order
        /\ \A i \in DOMAIN order : filters[i] = FilterOf(order[i])
    BY <1>1, <1>2, DateCreatedTyped
  <1> HIDE DEF filters
  <1>5. \A i \in DOMAIN filters : ~IsZero(filters[i])
    BY <1>1, <1>3, <1>4
  <1>6. AskOf(filters, row) <=> \A i \in DOMAIN order : AsksOf(FilterOf(order[i]), row)
    BY <1>4 DEF AskOf
  <1>7. AskOf(filters, row) <=> \A p \in GivenTimes : AskedOf(row, p, First(p))
    BY <1>1, <1>2, <1>3, <1>6, Zenon
  <1> QED BY <1>4, <1>5, <1>7 DEF filters

\* The rows that a valid query selects are those that all its values ask for.
LEMMA SelectsWhatIsAsked ==
    ASSUME QueryTyped, Valid, NEW order \in SetToSeqs(GivenTimes), NEW row \in Table
    PROVE  Selects(Where(getDatasetFilter(order)), row) <=>
              \A p \in DOMAIN query : \A i \in DOMAIN query[p] : AskedOf(row, p, query[p][i])
  <1> DEFINE filter == getDatasetFilter(order)
             Wants(p) == p \in DOMAIN query => AskedOf(row, p, First(p))
  <1>1. /\ filter.OnlyDrafts = Flag("only_drafts")
        /\ filter.OnlyPublished = Flag("only_published")
        /\ filter.OnlyAtt = Flag("only_att")
        /\ filter.OnlyIda = Flag("only_ida")
        /\ filter.DateCreated = DateCreated(order)
        /\ filter.User = String("user_created")
        /\ filter.Organization = String("organization")
    BY DEF getDatasetFilter
  <1> HIDE DEF filter
  <1>2. /\ filter.OnlyDrafts \in BOOLEAN /\ filter.OnlyPublished \in BOOLEAN
        /\ filter.OnlyAtt \in BOOLEAN /\ filter.OnlyIda \in BOOLEAN
    BY <1>1, Zenon DEF Flag
  <1>3. /\ (filter.OnlyDrafts => ~row.published) <=> Wants("only_drafts")
        /\ (filter.OnlyPublished => row.published) <=> Wants("only_published")
        /\ (filter.OnlyAtt => row.schema = "metax-att") <=> Wants("only_att")
        /\ (filter.OnlyIda => row.schema = "metax-ida") <=> Wants("only_ida")
    <2>1. "only_drafts" \in Flags /\ "only_published" \in Flags
          /\ "only_att" \in Flags /\ "only_ida" \in Flags
      BY DEF Flags
    <2> QED BY <1>1, <2>1, FlagsAsked
  <1>4. /\ filter.User \in Users \cup {""} /\ filter.Organization \in Orgs \cup {""}
        /\ (filter.User = "" \/ row.user = filter.User) <=> Wants("user_created")
        /\ (filter.Organization = "" \/ row.org = filter.Organization) <=> Wants("organization")
    BY <1>1, NamesAsked
  <1>5. /\ filter.DateCreated \in Seq(TimeFilter)
        /\ \A i \in DOMAIN filter.DateCreated : ~IsZero(filter.DateCreated[i])
        /\ AskOf(filter.DateCreated, row) <=> \A p \in TimeParams : Wants(p)
    BY <1>1, TimesAsked DEF GivenTimes
  <1>6. Wants("group_by") /\ Wants("unknown")
    <2>1. "group_by" \in DOMAIN query =>
             First("group_by") \in DOMAIN DatasetFilterGroupByPaths
      BY ValidQuery
    <2>2. "unknown" \notin DOMAIN query
      BY ValidQuery
    <2> QED BY <2>1, <2>2, AskedOfEach
  <1>7. (\A p \in DOMAIN query : AskedOf(row, p, First(p))) <=> \A p \in Params : Wants(p)
    BY ValidQuery
  <1> HIDE DEF Wants
  <1>8. (\A p \in Params : Wants(p)) <=>
           /\ Wants("only_drafts") /\ Wants("only_published") /\ Wants("only_att")
           /\ Wants("only_ida") /\ Wants("user_created") /\ Wants("organization")
           /\ Wants("group_by") /\ Wants("unknown") /\ \A p \in TimeParams : Wants(p)
    BY DEF Params, Flags
  <1>9. Selects(Where(filter), row) <=>
           /\ Wants("only_drafts") /\ Wants("only_published") /\ Wants("only_att")
           /\ Wants("only_ida") /\ Wants("user_created") /\ Wants("organization")
           /\ \A p \in TimeParams : Wants(p)
    <2>1. ValidFilter(filter)
      BY <1>2, <1>4, <1>5 DEF ValidFilter
    <2>2. Selects(Where(filter), row) <=> FilterAsks(filter, row)
      BY <2>1, WhereSelects, Zenon
    <2> QED BY <1>3, <1>4, <1>5, <2>2, Zenon DEF FilterAsks
  <1> QED BY <1>6, <1>7, <1>8, <1>9, OneValueEach DEF filter

\* What is counted, and how it is grouped.
LEMMA CountedAsAsked ==
    ASSUME QueryTyped, Valid, NEW order \in SetToSeqs(GivenTimes)
    PROVE  CountDatasets(getDatasetFilter(order)) =
              CountBy({row \in Table : \A p \in DOMAIN query : \A i \in DOMAIN query[p] :
                          AskedOf(row, p, query[p][i])},
                      String("group_by"))
  <1> DEFINE filter == getDatasetFilter(order)
             rows == {row \in Table : \A p \in DOMAIN query : \A i \in DOMAIN query[p] :
                         AskedOf(row, p, query[p][i])}
  <1>1. filter.GroupBy = String("group_by")
    <2>1. filter.GroupBy = StringOption("group_by", DatasetFilterGroupByPaths)
      BY DEF getDatasetFilter
    <2>2. Given("group_by") => First("group_by") \in DOMAIN DatasetFilterGroupByPaths
      BY ValidQuery DEF Given
    <2> HIDE DEF filter
    <2> QED BY <2>1, <2>2 DEF StringOption, String
  <1>2. Selected(Where(filter)) = rows
    <2>1. Selected(Where(filter)) = {row \in Table : Selects(Where(filter), row)}
      BY DEF Selected, Selects
    <2>2. \A row \in Table : Selects(Where(filter), row) <=> row \in rows
      BY SelectsWhatIsAsked
    <2> HIDE DEF filter, rows
    <2>3. rows \subseteq Table
      BY DEF rows
    <2> QED BY <2>1, <2>2, <2>3
  <1> HIDE DEF filter, rows
  <1>3. CountDatasets(filter) = CountBy(rows, String("group_by"))
    BY <1>1, <1>2 DEF CountDatasets
  <1> QED BY <1>3 DEF filter, rows

\* The counts of the rows that every value asks for.
AskedCounts ==
    CountBy({row \in Table : \A p \in DOMAIN query : \A i \in DOMAIN query[p] :
                AskedOf(row, p, query[p][i])},
            String("group_by"))

\* A response that counts is computed by Datasets alone, of a valid query; until
\* the next query nothing it depends on changes.
LEMMA CountsNextInv ==
    ASSUME StatsInv, CountsWhatIsAsked, [Next]_vars
    PROVE  CountsWhatIsAsked'
  <1>1. ASSUME NEW key \in Keys, NEW order \in SetToSeqs(TimeParams \cap DOMAIN query),
               Datasets(key, order)
        PROVE  CountsWhatIsAsked'
    <2>1. CASE Validate # {}
      <3>1. response'.status = 400
        BY <1>1, <2>1 DEF Datasets
      <3> QED BY <3>1 DEF CountsWhatIsAsked
    <2>2. CASE Validate = {}
      <3>1. response'.counts = CountDatasets(getDatasetFilter(order)) /\ UNCHANGED query
        BY <1>1, <2>2 DEF Datasets
      <3>2. QueryTyped /\ Valid /\ order \in SetToSeqs(GivenTimes)
        BY <1>1, <2>2 DEF StatsInv, Valid, GivenTimes
      <3>3. response'.counts = AskedCounts
        BY <3>1, <3>2, CountedAsAsked DEF AskedCounts
      <3>4. AskedCounts' = AskedCounts
        BY <3>1 DEF AskedCounts, String, Given, First
      <3> QED BY <3>3, <3>4 DEF CountsWhatIsAsked, AskedCounts
    <2> QED BY <2>1, <2>2
  <1>2. ASSUME NEW key, NEW method, NEW head, Refuse(key, method, head)
        PROVE  CountsWhatIsAsked'
    <2>1. response'.status # 200
      BY <1>2 DEF Refuse
    <2> QED BY <2>1 DEF CountsWhatIsAsked
  <1>3. ASSUME NEW param, NEW value, AddValue(param, value)
        PROVE  CountsWhatIsAsked'
    <2>1. response' = None
      BY <1>3 DEF AddValue
    <2> QED BY <2>1 DEF CountsWhatIsAsked
  <1>6. ASSUME NEW key, DatasetsError(key)
        PROVE  CountsWhatIsAsked'
    <2>1. response'.status # 200
      BY <1>6 DEF DatasetsError
    <2> QED BY <2>1 DEF CountsWhatIsAsked
  <1>4. CASE NextQuery
    <2>1. response' = None
      BY <1>4 DEF NextQuery
    <2> QED BY <2>1 DEF CountsWhatIsAsked
  <1>5. CASE UNCHANGED vars
    <2>1. response' = response /\ query' = query
      BY <1>5 DEF vars
    <2>2. AskedCounts' = AskedCounts
      BY <2>1 DEF AskedCounts, String, Given, First
    <2>3. CountsWhatIsAsked <=>
             (response # None /\ response.status = 200 => response.counts = AskedCounts)
      BY DEF CountsWhatIsAsked, AskedCounts
    <2>4. CountsWhatIsAsked' <=>
             (response' # None /\ response'.status = 200 => response'.counts = AskedCounts')
      BY DEF CountsWhatIsAsked, AskedCounts
    <2> QED BY <2>1, <2>2, <2>3, <2>4
  <1> QED BY <1>1, <1>2, <1>3, <1>4, <1>5, <1>6 DEF Next

(* A count is of the rows that every value of every parameter asks for,    *)
(* whatever the table, the times and the names given, however many values  *)
(* a query has, and in whatever order its time filters are taken and their *)
(* arguments numbered: no part of a query is left out without an error.    *)
THEOREM CountsAreOfRowsAsked == Spec => []CountsWhatIsAsked
  <1>1. Init => StatsInv /\ CountsWhatIsAsked
    <2> SUFFICES ASSUME Init
                 PROVE  StatsInv /\ CountsWhatIsAsked
      OBVIOUS
    <2>1. DOMAIN query = {} /\ response = None /\ apiKey \in Keys
      BY DEF Init, Empty
    <2> QED BY <2>1 DEF StatsInv, QueryTyped, StatsTypeOK, CountsWhatIsAsked
  <1>2. StatsInv /\ CountsWhatIsAsked /\ [Next]_vars => StatsInv' /\ CountsWhatIsAsked'
    BY StatsNextInv, CountsNextInv
  <1> QED BY <1>1, <1>2, PTL DEF Spec
===============================================================================
