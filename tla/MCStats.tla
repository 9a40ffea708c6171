------------------------------- MODULE MCStats --------------------------------
(* Stats over a table with a row of each kind.                             *)
EXTENDS Stats

MCTable ==
    [published : BOOLEAN, schema : {"metax-att", "metax-ida"}, user : {"matti", "teppo"},
     org : {"csc", None}, access : {"open", "restricted"}, created : 1..7]

\* A day and hours; a day is four hours.
MCTexts == {TimeText(4, 4), TimeText(3, 1), TimeText(5, 1)}
===============================================================================
