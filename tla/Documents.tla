----------------------------- MODULE Documents -----------------------------
(***************************************************************************)
(* How a POST to /datasets becomes a document (createDataset in the        *)
(* backend, CreateDatasetFromJson in pkg/models, CreateData and            *)
(* ValidateCreated in pkg/metax).                                          *)
(*                                                                         *)
(* CreateData fills in the template of the request's schema and serialises *)
(* it.  There is one template of a schema, a Go map that all requests of   *)
(* the process share: the requests run beside each other in the steps      *)
(* between which another one can write to the map, and what one request    *)
(* leaves in the map the next one finds there.                             *)
(*                                                                         *)
(* Of the value of a field the model keeps whose it is.                    *)
(***************************************************************************)
EXTENDS Naturals, FiniteSets, SequencesExt

CONSTANTS
    Requests,   \* the requests, each of which makes one dataset at most
    Schemas,    \* the schemas that have a template
    AtOnce,     \* bound: how many requests are served at the same time
    None        \* nothing

ASSUME DocumentsAssumption == None \notin Requests \cup Schemas /\ AtOnce \in Nat

\* metadata_provider_org is set after metadata_provider_user and read before it, in
\* the same way, and left out.
Fields == {"research_dataset", "editor", "metadata_provider_user", "cumulative_state"}

\* What a body may have for cumulative_state: a legal value, that of a closed
\* dataset, or a text that is no JSON.
CumulativeStates == {"0", "2", "text"}

Document == [Fields -> Requests \cup {None}]

NoDocument == [f \in Fields |-> None]

VARIABLES
    templates,  \* parsedTemplates: for each schema, whose values its map has
    request,    \* what each request is about and has done
    met,        \* history: the requests beside which a request was in CreateData
    saved       \* the stored documents, by the request they were made for

vars == <<templates, request, met, saved>>

NewRequest == [pc |-> "new", family |-> None, schema |-> None, cum |-> None,
               readonly |-> FALSE, left |-> <<>>, doc |-> NoDocument]

DocumentsTypeOK ==
    /\ templates \in [Schemas -> Document]
    /\ request \in [Requests ->
          [pc       : {"new", "assign", "keys", "marshal", "validate", "create", "done"},
           family   : {"metax", "open", None},
           schema   : Schemas \cup {None},
           cum      : CumulativeStates \cup {None},
           readonly : BOOLEAN,
           left     : Seq(Fields),
           doc      : Document]]
    /\ met \in [Requests -> SUBSET Requests]
    /\ saved \in [Requests -> Document \cup {None}]

Init ==
    /\ templates = [s \in Schemas |-> NoDocument]
    /\ request = [r \in Requests |-> NewRequest]
    /\ met = [r \in Requests |-> {}]
    /\ saved = [r \in Requests |-> None]

-----------------------------------------------------------------------------
At(r, pc) == request[r].pc = pc

\* The requests that are in CreateData with a template.
InCreateData == {r \in Requests : request[r].pc \in {"assign", "keys", "marshal"}}

\* Mutant: a request sets a field that templates do not have.
FieldsSetContracts(cum) ==
    <<"research_dataset", "contracts", "editor", "metadata_provider_user">>
        \o (IF cum = None THEN <<>> ELSE <<"cumulative_state">>)

\* The fields a request sets, in the order in which CreateData sets them.
FieldsSet(cum) ==
    <<"research_dataset", "editor", "metadata_provider_user">>
        \o (IF cum = None THEN <<>> ELSE <<"cumulative_state">>)

\* The keys of a template, in the order in which they are serialised.
KeysOf(template) ==
    (IF template["cumulative_state"] = None THEN <<>> ELSE <<"cumulative_state">>)
        \o <<"editor", "metadata_provider_user", "research_dataset">>

\* A request comes in.
Arrives(r) ==
    /\ At(r, "new")
    /\ Cardinality({q \in Requests : request[q].pc \notin {"new", "done"}}) < AtOnce

\* The request ends: with an error, or a dataset.
Ended(req) == [req EXCEPT !.pc = "done", !.left = <<>>, !.doc = NoDocument]

\* The body is decoded, and is of Metax's family and has a schema with a template:
\* CreateData begins.
\* Bound: a dataset with fields only Metax sets comes without cumulative_state.
CreateFromTemplate(r) ==
    /\ Arrives(r)
    /\ \E schema \in Schemas, cum \in CumulativeStates \cup {None}, readonly \in BOOLEAN :
          /\ readonly => cum = None
          /\ request' = [request EXCEPT
                ![r] = [pc |-> "assign", family |-> "metax", schema |-> schema, cum |-> cum,
                        readonly |-> readonly, left |-> FieldsSet(cum), doc |-> NoDocument]]
    /\ met' = [q \in Requests |->
                  IF q = r THEN InCreateData
                  ELSE IF q \in InCreateData THEN met[q] \cup {r} ELSE met[q]]
    /\ UNCHANGED <<templates, saved>>

\* Another family keeps the dataset of the body as it is.
CreateFromBody(r) ==
    /\ Arrives(r)
    /\ request' = [request EXCEPT ![r].pc = "create", ![r].family = "open",
                                  ![r].doc = [f \in Fields |-> r]]
    /\ UNCHANGED <<templates, met, saved>>

\* The body lacks something, or its family or schema is unknown.
RejectBody(r) ==
    /\ Arrives(r)
    /\ request' = [request EXCEPT ![r] = Ended(@)]
    /\ UNCHANGED <<templates, met, saved>>

\* Mutant: fields that the template has are left as they are.
AssignMissing(r) ==
    /\ At(r, "assign")
    /\ LET f == Head(request[r].left)
           s == request[r].schema
       IN  /\ templates' = IF templates[s][f] = None
                           THEN [templates EXCEPT ![s][f] = r] ELSE templates
           /\ request' = [request EXCEPT
                 ![r].left = Tail(@),
                 ![r].pc   = IF Tail(request[r].left) = <<>> THEN "keys" ELSE "assign"]
    /\ UNCHANGED <<met, saved>>

\* template[field] = value
Assign(r) ==
    /\ At(r, "assign")
    /\ templates' = [templates EXCEPT ![request[r].schema][Head(request[r].left)] = r]
    /\ request' = [request EXCEPT
          ![r].left = Tail(@),
          ![r].pc   = IF Tail(request[r].left) = <<>> THEN "keys" ELSE "assign"]
    /\ UNCHANGED <<met, saved>>

\* MarshalIndent takes the keys of the map and sorts them ...
MapKeys(r) ==
    /\ At(r, "keys")
    /\ request' = [request EXCEPT ![r].pc = "marshal",
                                  ![r].left = KeysOf(templates[request[r].schema])]
    /\ UNCHANGED <<templates, met, saved>>

\* ... and reads the value of each.  A value that is no JSON is an error.
MapIndex(r) ==
    /\ At(r, "marshal")
    /\ LET f == Head(request[r].left)
           v == templates[request[r].schema][f]
           rest == Tail(request[r].left)
           read == [request[r] EXCEPT !.left   = rest,
                                      !.doc[f] = v,
                                      !.pc     = IF rest = <<>> THEN "validate" ELSE "marshal"]
       IN  request' = [request EXCEPT ![r] =
              IF f = "cumulative_state" /\ request[v].cum = "text" THEN Ended(request[r]) ELSE read]
    /\ UNCHANGED <<templates, met, saved>>

\* The value of cumulative_state in a document.
CumulativeState(doc) ==
    IF doc["cumulative_state"] = None THEN None ELSE request[doc["cumulative_state"]].cum

\* Mutant: what the request gave is checked, instead of the document.
ValidRequest(r) == request[r].cum \in {None, "0"} /\ ~request[r].readonly

\* A document's cumulative_state is that of an open dataset, and it has no field
\* that only Metax sets.
Valid(r) ==
    LET doc == request[r].doc
    IN  /\ CumulativeState(doc) \in {None, "0"}
        /\ ~request[doc["research_dataset"]].readonly

ValidateCreated(r) ==
    /\ At(r, "validate")
    /\ request' = [request EXCEPT ![r] = IF Valid(r) THEN [@ EXCEPT !.pc = "create"] ELSE Ended(@)]
    /\ UNCHANGED <<templates, met, saved>>

\* The row is inserted, or that fails.
Create(r) ==
    /\ At(r, "create")
    /\ request' = [request EXCEPT ![r] = Ended(@)]
    /\ \/ saved' = [saved EXCEPT ![r] = request[r].doc]
       \/ UNCHANGED saved
    /\ UNCHANGED <<templates, met>>

\* All that is in memory is gone.
Gone ==
    /\ templates' = [s \in Schemas |-> NoDocument]
    /\ request' = [r \in Requests |-> IF At(r, "new") THEN request[r] ELSE Ended(request[r])]
    /\ UNCHANGED <<met, saved>>

\* One request writes to a map while another uses it: if Go notices, it ends the
\* process.
ConcurrentMapWrites ==
    /\ \E r, q \in InCreateData :
          /\ r # q /\ request[r].schema = request[q].schema
          /\ At(r, "assign")
    /\ Gone

Restart == Gone

Next ==
    \/ \E r \in Requests :
          \/ CreateFromTemplate(r) \/ CreateFromBody(r) \/ RejectBody(r)
          \/ Assign(r) \/ MapKeys(r) \/ MapIndex(r)
          \/ ValidateCreated(r) \/ Create(r)
    \/ ConcurrentMapWrites
    \/ Restart

Spec == Init /\ [][Next]_vars

-----------------------------------------------------------------------------
(* Properties.                                                             *)

\* The stored documents of Metax's family.
SavedByMetax == {r \in Requests : saved[r] # None /\ request[r].family = "metax"}

(* A field that a request sets has, in the document stored for it, the     *)
(* value of that request or of one of the same schema that was in          *)
(* CreateData at the same time: what earlier requests left in the template *)
(* never comes through.                                                    *)
FieldsOfOverlapping ==
    \A r \in SavedByMetax : \A f \in ToSet(FieldsSet(request[r].cum)) :
        /\ saved[r][f] \in {r} \cup met[r]
        /\ request[saved[r][f]].schema = request[r].schema

(* Whatever requests mix up in a template, no document is stored that      *)
(* closes a draft or sets what only Metax sets: validation is of the       *)
(* document that is stored.                                                *)
SavedIsValid ==
    \A r \in SavedByMetax :
        /\ CumulativeState(saved[r]) \in {None, "0"}
        /\ ~request[saved[r]["research_dataset"]].readonly
=============================================================================
