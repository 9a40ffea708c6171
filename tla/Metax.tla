-------------------------------- MODULE Metax --------------------------------
(***************************************************************************)
(* The Metax service, as far as Qvain depends on it (external: its code is *)
(* not in this repository; it is modelled from what pkg/metax/api.go sends *)
(* and which answers it handles).                                          *)
(*                                                                         *)
(* metax maps the identifiers Metax has given out to their datasets; a     *)
(* removed dataset stays, marked removed.  clock is the time; Metax stamps *)
(* every change with a modification date of its own, and the clocks of     *)
(* Metax, PostgreSQL and the backend are taken to be synchronised.         *)
(***************************************************************************)
EXTENDS Datasets

CONSTANTS
    MaxClock,  \* bound: one more than the changes Metax makes in a behaviour
    Refused    \* identifiers of the datasets whose records Qvain cannot take: of a
               \* catalog it does not know, or with a record_id that is no id

ASSUME ClockAssumption == MaxClock \in Nat \ {0}

ASSUME RefusedAssumption == Refused \subseteq Idents

VARIABLES
    metax,  \* the datasets Metax has: identifier -> [blob, removed]
    clock   \* the time, from 1 (0 is no time), ticking at every change in Metax

metaxVars == <<metax, clock>>

MetaxRecord == [blob : Blob, removed : BOOLEAN]

MetaxTypeOK ==
    /\ metax = [i \in DOMAIN metax |-> metax[i]]
    /\ DOMAIN metax \subseteq Idents
    /\ \A i \in DOMAIN metax : metax[i] \in MetaxRecord
    /\ clock \in 1 .. MaxClock

MetaxInit == metax = [i \in {} |-> None] /\ clock = 1

Live(i) == i \in DOMAIN metax /\ ~metax[i].removed

Tick == clock < MaxClock /\ clock' = clock + 1

\* The dataset Metax keeps under identifier i when it is given a document now.
Stored(i, blob) ==
    [blob |-> [blob EXCEPT !.ident = i, !.date = clock + 1], removed |-> FALSE]

-----------------------------------------------------------------------------
(* The requests Metax accepts.  It may as well answer any of them with an  *)
(* error, which changes nothing here.                                      *)

\* POST of a document without identifier: a new dataset with a fresh one.
Post(i, blob) ==
    /\ i \notin DOMAIN metax
    /\ Tick
    /\ metax' = With(metax, i, Stored(i, blob))

\* PUT of a document to its identifier; a removed dataset answers 404.
PutDataset(blob) ==
    /\ Live(blob.ident)
    /\ Tick
    /\ metax' = With(metax, blob.ident, Stored(blob.ident, blob))

\* PUT of a document whose files changed: Metax keeps it and makes the
\* dataset n as its new version, in the same catalog and without record_id.
PutNewVersion(blob, n) ==
    /\ Live(blob.ident)
    /\ n \notin DOMAIN metax
    /\ n \in Refused <=> blob.ident \in Refused
    /\ Tick
    /\ metax' = With(With(metax, blob.ident, Stored(blob.ident, blob)),
                     n, Stored(n, [blob EXCEPT !.rec = None]))

\* DELETE of a dataset.
RemoveDataset(i) ==
    /\ Live(i)
    /\ Tick
    /\ metax' = With(metax, i, [blob    |-> [metax[i].blob EXCEPT !.date = clock + 1],
                                removed |-> TRUE])

\* Another service edits a dataset of Metax.
ForeignEdit(i, rd) ==
    /\ Live(i)
    /\ metax[i].blob.rd # rd
    /\ Tick
    /\ metax' = With(metax, i, Stored(i, [metax[i].blob EXCEPT !.rd = rd]))
=============================================================================
