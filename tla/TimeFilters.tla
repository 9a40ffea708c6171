----------------------------- MODULE TimeFilters ------------------------------
(***************************************************************************)
(* The time filters of internal/psql/filters.go and the SQL conditions they *)
(* become.  An instant is an integer; the zero instant is Go's zero time.   *)
(***************************************************************************)
EXTENDS Integers, Sequences

ZeroTime == 0

\* A text that gives a time down to a unit of some length: a year, ..., a second.
TimeText(time, length) == [time |-> time, length |-> length]

\* A text that no layout fits.
Junk == TimeText(ZeroTime, 0)

\* The comparison that each parameter's suffix stands for.
ComparisonSuffixes ==
    [date_created    |-> "eq", date_created_eq |-> "eq",
     date_created_le |-> "le", date_created_ge |-> "ge",
     date_created_lt |-> "lt", date_created_gt |-> "gt"]

Comparisons == {"eq", "le", "ge", "lt", "gt"}

ParseTimeFilter(param, text) ==
    [comparison |-> ComparisonSuffixes[param], time |-> text.time, precision |-> text.length]

Start(filter) == filter.time

End(filter) == filter.time + filter.precision

IsZero(filter) == filter.time = ZeroTime

\* The bounds on a column that a time filter adds to a WHERE statement.
TimeBounds(filter) ==
    CASE filter.comparison = "eq" -> <<<<"<", End(filter)>>, <<">=", Start(filter)>>>>
      [] filter.comparison = "le" -> <<<<"<", End(filter)>>>>
      [] filter.comparison = "ge" -> <<<<">=", Start(filter)>>>>
      [] filter.comparison = "lt" -> <<<<"<", Start(filter)>>>>
      [] filter.comparison = "gt" -> <<<<">=", End(filter)>>>>

\* Whether a value is within a bound, in SQL.
Compare(value, op, bound) ==
    \/ op = "<" /\ value < bound
    \/ op = ">=" /\ value >= bound

WithinBounds(value, bounds) ==
    \A i \in DOMAIN bounds : Compare(value, bounds[i][1], bounds[i][2])

-----------------------------------------------------------------------------
\* How many units of the given length an instant is after a time: "comparisons
\* will be made with the used precision".
Units(value, time, length) == (value - time) \div length

\* What a comparison asks for, in units of the precision.
Asked(comparison, units) ==
    CASE comparison = "eq" -> units = 0
      [] comparison = "le" -> units <= 0
      [] comparison = "ge" -> units >= 0
      [] comparison = "lt" -> units < 0
      [] comparison = "gt" -> units > 0
===============================================================================
