-------------------------------- MODULE Stats ---------------------------------
(***************************************************************************)
(* GET /api/stats/datasets: the parameters of a query become a filter, the *)
(* filter a WHERE statement with numbered arguments, and the database      *)
(* counts the rows it selects.  The parameters of time filters are taken   *)
(* in the order in which Go iterates over a map, which is any order.       *)
(***************************************************************************)
EXTENDS TimeFilters, FiniteSetsExt, SequencesExt

CONSTANTS
    Table,       \* the rows of the datasets table
    Texts,       \* times given in queries
    Users,       \* users given in queries
    Orgs,        \* organisations given in queries
    Keys,        \* API keys; "" is none
    DayLength,   \* instants in a day
    MaxValues,   \* bound on the values in a query
    None         \* SQL's NULL, and no response

\* A dataset is made with the schema of a validator; it has a creation time and
\* is published or not.
ASSUME TableAssumption ==
    /\ IsFiniteSet(Table)
    /\ \A row \in Table :
          /\ row.schema \in {"metax-att", "metax-ida"}
          /\ row.published \in BOOLEAN
          /\ row.created \in Int \ {None}

\* A time is given down to some unit.
ASSUME TextsAssumption ==
    \A text \in Texts : text.time \in Int /\ text.length \in Nat \ {0}

\* NULL is no value of a column.
ASSUME NullAssumption ==
    /\ None \notin Users
    /\ None \notin Orgs
    /\ None \notin BOOLEAN
    /\ None \notin {"metax-att", "metax-ida"}

VARIABLES
    apiKey,      \* the key of the configuration
    query,       \* the values of each parameter
    response     \* the last response

vars == <<apiKey, query, response>>

-----------------------------------------------------------------------------
(* Queries.                                                                *)

Flags == {"only_drafts", "only_published", "only_att", "only_ida"}

TimeParams == DOMAIN ComparisonSuffixes

\* What datasets can be grouped by, and the column it is.
DatasetFilterGroupByPaths ==
    [schema |-> "schema", organization |-> "org", access_type |-> "access",
     date_created |-> "created"]

Params == Flags \cup TimeParams \cup {"user_created", "organization", "group_by", "unknown"}

\* The values that clients give to a parameter.
Values(param) ==
    CASE param \in Flags         -> {"", "true", "false"}
      [] param \in TimeParams    -> Texts \cup {Junk}
      [] param = "user_created"  -> Users \cup {""}
      [] param = "organization"  -> Orgs \cup {""}
      [] param = "group_by"      -> DOMAIN DatasetFilterGroupByPaths \cup {"colour"}
      [] param = "unknown"       -> {""}

Given(param) == param \in DOMAIN query

First(param) == query[param][1]

-----------------------------------------------------------------------------
(* The query parser.                                                       *)

Flag(param) == Given(param) /\ First(param) \in {"", "true"}

\* The time filters, for an order of the parameters that are given.
DateCreated(order) ==
    FoldLeft(LAMBDA filters, param :
                LET filter == ParseTimeFilter(param, First(param))
                IN  IF IsZero(filter) THEN filters ELSE Append(filters, filter),
             <<>>, order)

String(param) == IF Given(param) THEN First(param) ELSE ""

StringOption(param, options) ==
    IF Given(param) /\ First(param) \in DOMAIN options THEN First(param) ELSE ""

getDatasetFilter(order) ==
    [OnlyDrafts    |-> Flag("only_drafts"),
     OnlyPublished |-> Flag("only_published"),
     OnlyAtt       |-> Flag("only_att"),
     OnlyIda       |-> Flag("only_ida"),
     DateCreated   |-> DateCreated(order),
     User          |-> String("user_created"),
     Organization  |-> String("organization"),
     GroupBy       |-> StringOption("group_by", DatasetFilterGroupByPaths)]

\* The parameters that are reported: not known, of an invalid value, or of
\* several values.
Validate ==
    {p \in DOMAIN query :
        \/ p = "unknown"
        \/ Len(query[p]) > 1
        \/ p \in Flags /\ ~Flag(p)
        \/ p \in TimeParams /\ IsZero(ParseTimeFilter(p, First(p)))
        \/ p = "group_by" /\ First(p) \notin DOMAIN DatasetFilterGroupByPaths}

-----------------------------------------------------------------------------
(* The WHERE statement.  A condition compares a column with a literal, or  *)
(* with the argument of a number.                                          *)

NewWhereBuilder == [conditions |-> <<>>, args |-> <<>>]

\* Mutant: the arguments are passed in the wrong order.
WithArgReversed(wb, column, op, value) ==
    [conditions |-> Append(wb.conditions, [column |-> column, op |-> op, arg |-> Len(wb.args) + 1]),
     args       |-> <<value>> \o wb.args]

\* addArg and cprintf.
WithArg(wb, column, op, value) ==
    [conditions |-> Append(wb.conditions, [column |-> column, op |-> op, arg |-> Len(wb.args) + 1]),
     args       |-> Append(wb.args, value)]

MaybeAdd(wb, enabled, column, literal) ==
    IF enabled
    THEN [wb EXCEPT !.conditions =
             Append(@, [column |-> column, op |-> "literal", arg |-> literal])]
    ELSE wb

MaybeAddString(wb, s, column) == IF s = "" THEN wb ELSE WithArg(wb, column, "=", s)

MaybeAddTimeFilter(wb, filter) ==
    IF IsZero(filter) THEN wb
    ELSE FoldLeft(LAMBDA b, bound : WithArg(b, "created", bound[1], bound[2]),
                  wb, TimeBounds(filter))

Where(filter) ==
    LET drafts    == MaybeAdd(NewWhereBuilder, filter.OnlyDrafts, "published", FALSE)
        published == MaybeAdd(drafts, filter.OnlyPublished, "published", TRUE)
        att       == MaybeAdd(published, filter.OnlyAtt, "schema", "metax-att")
        ida       == MaybeAdd(att, filter.OnlyIda, "schema", "metax-ida")
        user      == MaybeAddString(ida, filter.User, "user")
        org       == MaybeAddString(user, filter.Organization, "org")
    IN  FoldLeft(MaybeAddTimeFilter, org, filter.DateCreated)

-----------------------------------------------------------------------------
(* The database.                                                           *)

\* Whether a row meets a condition; nothing compares with NULL.
Meets(row, condition, args) ==
    LET value == row[condition.column] IN
    /\ value # None
    /\ \/ condition.op = "literal" /\ value = condition.arg
       \/ condition.op = "=" /\ value = args[condition.arg]
       \/ condition.op \in {"<", ">="} /\ Compare(value, condition.op, args[condition.arg])

Selected(where) ==
    {row \in Table :
        \A i \in DOMAIN where.conditions : Meets(row, where.conditions[i], where.args)}

\* Mutant: creation times are not truncated to days.
GroupValueWhole(row, groupBy) == row[DatasetFilterGroupByPaths[groupBy]]

\* The value that a row is grouped under; creation times by day.
GroupValue(row, groupBy) ==
    IF groupBy = "date_created" THEN row.created \div DayLength
                                ELSE row[DatasetFilterGroupByPaths[groupBy]]

CountBy(rows, groupBy) ==
    IF groupBy = "" THEN {[value |-> "all", count |-> Cardinality(rows)]}
    ELSE {[value |-> v, count |-> Cardinality({row \in rows : GroupValue(row, groupBy) = v})] :
             v \in {GroupValue(row, groupBy) : row \in rows}}

CountDatasets(filter) == CountBy(Selected(Where(filter)), filter.GroupBy)

-----------------------------------------------------------------------------
(* The handler.                                                            *)

\* Mutant: a configuration without a key asks for no key.
GateWithoutKey(key, method, head) ==
    IF key # apiKey THEN 401
    ELSE IF method # "GET" THEN 405
    ELSE IF head # "datasets" THEN 404
    ELSE 200

\* The status of a request before its query is looked at.
Gate(key, method, head) ==
    IF apiKey = "" THEN 403
    ELSE IF key # apiKey THEN 401
    ELSE IF method # "GET" THEN 405
    ELSE IF head # "datasets" THEN 404
    ELSE 200

Empty == [p \in {} |-> <<>>]

Init ==
    /\ apiKey \in Keys
    /\ query = Empty
    /\ response = None

\* A client adds a value to its query.
AddValue(param, value) ==
    /\ response = None
    /\ MapThenSumSet(LAMBDA p : Len(query[p]), DOMAIN query) < MaxValues
    /\ query' = [p \in DOMAIN query \cup {param} |->
                    LET old == IF Given(p) THEN query[p] ELSE <<>>
                    IN  IF p = param THEN Append(old, value) ELSE old]
    /\ UNCHANGED <<apiKey, response>>

\* GET /api/stats/datasets with the query, for an order of its time filters.
Datasets(key, order) ==
    /\ response = None
    /\ Gate(key, "GET", "datasets") = 200
    /\ response' = IF Validate # {}
                   THEN [key |-> key, status |-> 400, invalid |-> Validate, counts |-> {}]
                   ELSE [key |-> key, status |-> 200, invalid |-> {},
                         counts |-> CountDatasets(getDatasetFilter(order))]
    /\ UNCHANGED <<apiKey, query>>

\* The same, when the count fails.
DatasetsError(key) ==
    /\ response = None
    /\ Gate(key, "GET", "datasets") = 200
    /\ Validate = {}
    /\ response' = [key |-> key, status |-> 500, invalid |-> {}, counts |-> {}]
    /\ UNCHANGED <<apiKey, query>>

\* A request that does not get so far.
Refuse(key, method, head) ==
    /\ response = None
    /\ Gate(key, method, head) # 200
    /\ response' = [key |-> key, status |-> Gate(key, method, head), invalid |-> {}, counts |-> {}]
    /\ UNCHANGED <<apiKey, query>>

\* The client begins another query.
NextQuery ==
    /\ response # None
    /\ query' = Empty
    /\ response' = None
    /\ UNCHANGED apiKey

Next ==
    \/ \E param \in Params : \E value \in Values(param) : AddValue(param, value)
    \/ \E key \in Keys, order \in SetToSeqs(TimeParams \cap DOMAIN query) : Datasets(key, order)
    \/ \E key \in Keys : DatasetsError(key)
    \/ \E key \in Keys, method \in {"GET", "POST"}, head \in {"datasets", "other"} :
          Refuse(key, method, head)
    \/ NextQuery

Spec == Init /\ [][Next]_vars

-----------------------------------------------------------------------------
(* Properties.                                                             *)

\* The values that rows may be grouped under.
GroupValues(groupBy) ==
    CASE groupBy = ""             -> {"all"}
      [] groupBy = "schema"       -> {"metax-att", "metax-ida"}
      [] groupBy = "organization" -> {row.org : row \in Table}
      [] groupBy = "access_type"  -> {row.access : row \in Table}
      [] groupBy = "date_created" -> {row.created \div DayLength : row \in Table}

(* Every response has a status of the API, and counts groups of the kinds  *)
(* that queries may ask for: schemas, organisations, access types or days. *)
StatsTypeOK ==
    /\ apiKey \in Keys
    /\ \A p \in DOMAIN query : p \in Params /\ \A i \in DOMAIN query[p] : query[p][i] \in Values(p)
    /\ response # None =>
          /\ response.key \in Keys
          /\ response.status \in {200, 400, 401, 403, 404, 405, 500}
          /\ response.invalid \subseteq DOMAIN query
          /\ response.counts \subseteq
                [value : GroupValues(StringOption("group_by", DatasetFilterGroupByPaths)),
                 count : 0 .. Cardinality(Table)]

\* What a value of a parameter asks of a row.
AskedOf(row, param, value) ==
    CASE param = "only_drafts"    -> ~row.published
      [] param = "only_published" -> row.published
      [] param = "only_att"       -> row.schema = "metax-att"
      [] param = "only_ida"       -> row.schema = "metax-ida"
      [] param = "user_created"   -> value = "" \/ row.user = value
      [] param = "organization"   -> value = "" \/ row.org = value
      [] param = "group_by"       -> value \in DOMAIN DatasetFilterGroupByPaths
      [] param = "unknown"        -> FALSE
      [] param \in TimeParams     ->
            value # Junk /\ Asked(ComparisonSuffixes[param],
                                  Units(row.created, value.time, value.length))

(* A count is of the rows that every value of every parameter asks for, in *)
(* whatever order the time filters are taken and their arguments numbered; *)
(* no part of a query is left out without an error.                        *)
CountsWhatIsAsked ==
    response # None /\ response.status = 200 =>
        response.counts =
            CountBy({row \in Table : \A p \in DOMAIN query : \A i \in DOMAIN query[p] :
                        AskedOf(row, p, query[p][i])},
                    String("group_by"))

(* Nobody is counted for, or told what is wrong with a query, without the  *)
(* key of the configuration, and nobody at all if there is none.           *)
StatsNeedKey ==
    response # None /\ response.status \notin {401, 403} =>
        apiKey # "" /\ response.key = apiKey
===============================================================================
