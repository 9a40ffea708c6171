-------------------------- MODULE DocumentsProofs --------------------------
(***************************************************************************)
(* Proofs about Documents, for any number of requests and schemas: of a    *)
(* document's fields, those that its request sets come from requests that  *)
(* overlapped it, and what is stored has been validated.                   *)
(***************************************************************************)
EXTENDS Documents, SequenceTheorems, TLAPS

-----------------------------------------------------------------------------
(* The inductive invariant.                                                *)

RequestStates ==
    [pc       : {"new", "assign", "keys", "marshal", "validate", "create", "done"},
     family   : {"metax", "open", None},
     schema   : Schemas \cup {None},
     cum      : CumulativeStates \cup {None},
     readonly : BOOLEAN,
     left     : Seq(Fields),
     doc      : Document]

\* The requests of r's schema that may have set r's fields.
Fresh(r) == {q \in {r} \cup met[r] : request[q].schema = request[r].schema}

Served(q) == ~At(q, "new")

FieldsOf(r) == ToSet(FieldsSet(request[r].cum))

\* Values come from requests of the template's schema.
TemplatesServed ==
    \A s \in Schemas, f \in Fields :
        templates[s][f] # None => /\ Served(templates[s][f])
                                  /\ request[templates[s][f]].schema = s

MetServed == \A r \in Requests : \A q \in met[r] : Served(q)

\* Requests that are in CreateData have met.
AllMet == \A r, q \in InCreateData : r # q => q \in met[r]

\* The fields of r that it has set, or that others have overwritten since.
TemplateFresh(r, fields) == \A f \in fields : templates[request[r].schema][f] \in Fresh(r)

DocFresh(r, fields) == \A f \in fields : request[r].doc[f] \in Fresh(r)

Progress(r) ==
    /\ r \in InCreateData => request[r].schema \in Schemas /\ request[r].family = "metax"
    /\ At(r, "assign") => /\ request[r].left # <<>>
                          /\ TemplateFresh(r, FieldsOf(r) \ ToSet(request[r].left))
    /\ request[r].pc \in {"keys", "marshal"} => TemplateFresh(r, FieldsOf(r))
    /\ At(r, "marshal") => /\ request[r].left # <<>>
                           /\ DocFresh(r, FieldsOf(r) \ ToSet(request[r].left))
    /\ At(r, "validate") => request[r].family = "metax"
    /\ request[r].pc \in {"validate", "create"} /\ request[r].family = "metax"
           => DocFresh(r, FieldsOf(r))
    /\ At(r, "create") /\ request[r].family = "metax" => Valid(r)
    /\ \A f \in Fields : request[r].doc[f] # None => Served(request[r].doc[f])

SavedSound(r) ==
    saved[r] # None =>
        /\ At(r, "done")
        /\ request[r].family = "metax" =>
              /\ \A f \in FieldsOf(r) : saved[r][f] \in Fresh(r)
              /\ \A f \in Fields : saved[r][f] # None => Served(saved[r][f])
              /\ CumulativeState(saved[r]) \in {None, "0"}
              /\ ~request[saved[r]["research_dataset"]].readonly

DocInv ==
    /\ DocumentsTypeOK
    /\ TemplatesServed
    /\ MetServed
    /\ AllMet
    /\ \A r \in Requests : Progress(r) /\ SavedSound(r)

-----------------------------------------------------------------------------
(* Sequences of fields.                                                    *)

LEMMA HeadAndTail ==
    ASSUME NEW s \in Seq(Fields), s # <<>>
    PROVE  /\ Head(s) \in Fields
           /\ Tail(s) \in Seq(Fields)
           /\ ToSet(s) \subseteq {Head(s)} \cup ToSet(Tail(s))
  <1>1. /\ Len(s) \in Nat /\ Len(s) > 0 /\ DOMAIN s = 1..Len(s)
        /\ Head(s) = s[1] /\ Head(s) \in Fields
        /\ Tail(s) \in Seq(Fields) /\ Len(Tail(s)) = Len(s) - 1
        /\ \A i \in 1..Len(s) - 1 : Tail(s)[i] = s[i + 1]
    OBVIOUS
  <1>2. ASSUME NEW i \in 1..Len(s), i # 1
        PROVE  s[i] \in ToSet(Tail(s))
    <2>1. i - 1 \in 1..Len(s) - 1 /\ Tail(s)[i - 1] = s[i]
      BY <1>1, <1>2
    <2>2. DOMAIN Tail(s) = 1..Len(s) - 1
      BY <1>1
    <2> QED BY <2>1, <2>2 DEF ToSet
  <1> QED BY <1>1, <1>2 DEF ToSet

LEMMA ElementsOfBoth ==
    ASSUME NEW s \in Seq(Fields), NEW t \in Seq(Fields)
    PROVE  /\ s \o t \in Seq(Fields)
           /\ ToSet(s \o t) = ToSet(s) \cup ToSet(t)
           /\ t # <<>> => s \o t # <<>>
           /\ s # <<>> => s \o t # <<>>
  <1>1. /\ s \o t \in Seq(Fields) /\ Len(s \o t) = Len(s) + Len(t)
        /\ \A i \in 1..Len(s) + Len(t) :
              (s \o t)[i] = IF i <= Len(s) THEN s[i] ELSE t[i - Len(s)]
    BY ConcatProperties
  <1>2. /\ Len(s) \in Nat /\ Len(t) \in Nat
        /\ DOMAIN s = 1..Len(s) /\ DOMAIN t = 1..Len(t) /\ DOMAIN (s \o t) = 1..Len(s \o t)
    BY <1>1
  <1>3. ASSUME NEW i \in DOMAIN s
        PROVE  s[i] \in ToSet(s \o t)
    <2>1. i \in DOMAIN (s \o t) /\ (s \o t)[i] = s[i]
      BY <1>1, <1>2
    <2> QED BY <2>1 DEF ToSet
  <1>4. ASSUME NEW i \in DOMAIN t
        PROVE  t[i] \in ToSet(s \o t)
    <2>1. Len(s) + i \in DOMAIN (s \o t) /\ (s \o t)[Len(s) + i] = t[i]
      BY <1>1, <1>2
    <2> QED BY <2>1 DEF ToSet
  <1>5. ASSUME NEW i \in DOMAIN (s \o t)
        PROVE  (s \o t)[i] \in ToSet(s) \cup ToSet(t)
    <2>1. CASE i <= Len(s)
      BY <1>1, <1>2, <2>1 DEF ToSet
    <2>2. CASE ~(i <= Len(s))
      <3>1. i - Len(s) \in DOMAIN t /\ (s \o t)[i] = t[i - Len(s)]
        BY <1>1, <1>2, <2>2
      <3> QED BY <3>1 DEF ToSet
    <2> QED BY <2>1, <2>2
  <1>6. ToSet(s \o t) = ToSet(s) \cup ToSet(t)
    BY <1>3, <1>4, <1>5 DEF ToSet
  <1>7. (s # <<>> => Len(s) > 0) /\ (t # <<>> => Len(t) > 0)
    OBVIOUS
  <1>8. (s # <<>> \/ t # <<>>) => Len(s \o t) > 0
    BY <1>1, <1>2, <1>7
  <1>9. s \o t = <<>> => Len(s \o t) = 0
    OBVIOUS
  <1> QED BY <1>1, <1>6, <1>8, <1>9

\* cumulative_state, alone or not at all.
LEMMA OneOrNone ==
    ASSUME NEW b \in BOOLEAN
    PROVE  LET s == IF b THEN <<>> ELSE <<"cumulative_state">>
           IN  s \in Seq(Fields) /\ (~b => "cumulative_state" \in ToSet(s))
  <1>1. <<>> \in Seq(Fields) /\ <<"cumulative_state">> \in Seq(Fields)
    BY DEF Fields
  <1>2. "cumulative_state" \in ToSet(<<"cumulative_state">>)
    BY DEF ToSet
  <1>3. CASE b
    BY <1>1, <1>3
  <1>4. CASE ~b
    BY <1>1, <1>2, <1>4
  <1> QED BY <1>3, <1>4

LEMMA FieldsSetIs ==
    ASSUME NEW cum
    PROVE  /\ FieldsSet(cum) \in Seq(Fields) /\ FieldsSet(cum) # <<>>
           /\ ToSet(FieldsSet(cum)) \subseteq Fields
           /\ "research_dataset" \in ToSet(FieldsSet(cum))
  <1> DEFINE s == <<"research_dataset", "editor", "metadata_provider_user">>
             t == IF cum = None THEN <<>> ELSE <<"cumulative_state">>
  <1>1. s \in Seq(Fields) /\ s # <<>> /\ "research_dataset" \in ToSet(s)
    BY DEF ToSet, Fields
  <1>2. t \in Seq(Fields)
    BY OneOrNone
  <1>3. FieldsSet(cum) = s \o t
    BY DEF FieldsSet
  <1> HIDE DEF s, t
  <1>4. \A u \in Seq(Fields) : ToSet(u) \subseteq Fields
    BY DEF ToSet
  <1> QED BY <1>1, <1>2, <1>3, <1>4, ElementsOfBoth

LEMMA KeysOfIs ==
    ASSUME NEW t \in Document
    PROVE  /\ KeysOf(t) \in Seq(Fields) /\ KeysOf(t) # <<>>
           /\ \A f \in Fields : t[f] # None => f \in ToSet(KeysOf(t))
  <1> DEFINE u == IF t["cumulative_state"] = None THEN <<>> ELSE <<"cumulative_state">>
             v == <<"editor", "metadata_provider_user", "research_dataset">>
  <1>1. /\ v \in Seq(Fields) /\ v # <<>>
        /\ \A f \in Fields \ {"cumulative_state"} : f \in ToSet(v)
    BY DEF ToSet, Fields
  <1>2. u \in Seq(Fields) /\ (t["cumulative_state"] # None => "cumulative_state" \in ToSet(u))
    BY OneOrNone
  <1>3. KeysOf(t) = u \o v
    BY DEF KeysOf
  <1> HIDE DEF u, v
  <1> QED BY <1>1, <1>2, <1>3, ElementsOfBoth

-----------------------------------------------------------------------------
(* What a step leaves.                                                     *)

\* What is known of a served request stays, and requests only meet more.
Steady ==
    /\ \A q \in Requests : Served(q) =>
          /\ Served(q)'
          /\ request'[q].schema = request[q].schema
          /\ request'[q].family = request[q].family
          /\ request'[q].cum = request[q].cum
          /\ request'[q].readonly = request[q].readonly
          /\ At(q, "done") => At(q, "done")'
          /\ met[q] \subseteq met'[q]

\* A step writes into templates what the requests that use them may find there.
TemplatesStayFresh ==
    \A s \in Schemas, f \in Fields :
        \/ templates'[s][f] = templates[s][f]
        \/ /\ templates'[s][f] \in Requests
           /\ Served(templates'[s][f]) /\ request[templates'[s][f]].schema = s
           /\ \A q \in InCreateData :
                 request[q].schema = s => templates'[s][f] \in {q} \cup met[q]

LEMMA FreshKept ==
    ASSUME DocInv, Steady, NEW q \in Requests, Served(q)
    PROVE  /\ Fresh(q) \subseteq Fresh(q)'
           /\ FieldsOf(q)' = FieldsOf(q)
           /\ \A p \in Fresh(q) : p \in Requests /\ Served(p)
  <1>1. met[q] \subseteq Requests
    BY DEF DocInv, DocumentsTypeOK
  <1>2. \A p \in {q} \cup met[q] : p \in Requests /\ Served(p)
    BY <1>1 DEF DocInv, MetServed
  <1>3. /\ \A p \in {q} \cup met[q] : request'[p].schema = request[p].schema
        /\ request'[q].schema = request[q].schema
        /\ request'[q].cum = request[q].cum
        /\ met[q] \subseteq met'[q]
    BY <1>2 DEF Steady
  <1>4. Fresh(q) \subseteq Fresh(q)'
    BY <1>3 DEF Fresh
  <1>5. FieldsOf(q)' = FieldsOf(q)
    BY <1>3 DEF FieldsOf
  <1> QED BY <1>2, <1>4, <1>5 DEF Fresh

LEMMA TemplatesServedKept ==
    ASSUME DocInv, Steady, DocumentsTypeOK', TemplatesStayFresh
    PROVE  TemplatesServed'
  <1> SUFFICES ASSUME NEW s \in Schemas, NEW f \in Fields, templates'[s][f] # None
               PROVE  /\ request'[templates'[s][f]].pc # "new"
                      /\ request'[templates'[s][f]].schema = s
    BY DEF TemplatesServed, Served, At
  <1>1. templates'[s][f] \in Requests
    BY DEF DocumentsTypeOK, Document
  <1>2. Served(templates'[s][f]) /\ request[templates'[s][f]].schema = s
    BY DEF TemplatesStayFresh, DocInv, TemplatesServed
  <1> QED BY <1>1, <1>2 DEF Steady, Served, At

\* A document that stays in place keeps what it has.
LEMMA DocumentKept ==
    ASSUME DocInv, Steady, NEW d \in Document, \A f \in Fields : d[f] # None => Served(d[f])
    PROVE  /\ \A f \in Fields : d[f] # None =>
                 /\ request'[d[f]].pc # "new"
                 /\ request'[d[f]].cum = request[d[f]].cum
                 /\ request'[d[f]].readonly = request[d[f]].readonly
           /\ CumulativeState(d)' = CumulativeState(d)
  <1>1. \A f \in Fields : d[f] # None => d[f] \in Requests
    BY DEF Document
  <1>2. \A f \in Fields : d[f] # None =>
                 /\ request'[d[f]].pc # "new"
                 /\ request'[d[f]].cum = request[d[f]].cum
                 /\ request'[d[f]].readonly = request[d[f]].readonly
    BY <1>1 DEF Steady, Served, At
  <1> QED BY <1>2 DEF CumulativeState, Fields

LEMMA SavedKept ==
    ASSUME DocInv, Steady, NEW q \in Requests, saved'[q] = saved[q]
    PROVE  SavedSound(q)'
  <1> SUFFICES ASSUME saved[q] # None PROVE SavedSound(q)'
    BY DEF SavedSound
  <1>1. saved[q] \in Document /\ At(q, "done") /\ Served(q)
    BY DEF DocInv, SavedSound, DocumentsTypeOK, Served, At
  <1>2. At(q, "done")' /\ request'[q].family = request[q].family
    BY <1>1 DEF Steady
  <1> SUFFICES ASSUME request[q].family = "metax" PROVE SavedSound(q)'
    BY <1>2 DEF SavedSound
  <1>3. /\ \A f \in FieldsOf(q) : saved[q][f] \in Fresh(q)
        /\ \A f \in Fields : saved[q][f] # None => Served(saved[q][f])
        /\ CumulativeState(saved[q]) \in {None, "0"}
        /\ ~request[saved[q]["research_dataset"]].readonly
    BY DEF DocInv, SavedSound
  <1>4. \A f \in FieldsOf(q)' : saved[q][f] \in Fresh(q)'
    BY <1>1, <1>3, FreshKept
  <1>5. /\ \A f \in Fields : saved[q][f] # None => request'[saved[q][f]].pc # "new"
        /\ request'[saved[q]["research_dataset"]].readonly
              = request[saved[q]["research_dataset"]].readonly
    <2>1. /\ "research_dataset" \in Fields
          /\ saved[q]["research_dataset"] # None
      <3>1. "research_dataset" \in FieldsOf(q)
        BY FieldsSetIs DEF FieldsOf
      <3>2. saved[q]["research_dataset"] \in Requests
        BY <1>1, <1>3, <3>1, FreshKept
      <3> QED BY <3>2, DocumentsAssumption DEF Fields
    <2> QED BY <1>1, <1>3, <2>1, DocumentKept
  <1>6. LET d == saved[q]["cumulative_state"]
        IN  d # None => request'[d].cum = request[d].cum
    <2>1. "cumulative_state" \in Fields
      BY DEF Fields
    <2> QED BY <1>1, <1>3, <2>1, DocumentKept
  <1>7. CumulativeState(saved[q])' \in {None, "0"}
    BY <1>3, <1>6 DEF CumulativeState
  <1> QED BY <1>2, <1>3, <1>4, <1>5, <1>7 DEF SavedSound, Served, At

\* The progress of a request that a step is not of.
LEMMA ProgressKept ==
    ASSUME DocInv, Steady, DocumentsTypeOK', TemplatesStayFresh,
           NEW q \in Requests, request'[q] = request[q]
    PROVE  Progress(q)'
  <1>0. Progress(q) /\ request[q].doc \in Document
    BY DEF DocInv, DocumentsTypeOK
  <1>1. \A f \in Fields : request[q].doc[f] # None => Served(request[q].doc[f])
    BY <1>0 DEF Progress
  <1>2. \A f \in Fields : request'[q].doc[f] # None
                             => request'[request'[q].doc[f]].pc # "new"
    BY <1>0, <1>1, DocumentKept
  <1>3. CASE At(q, "new") \/ At(q, "done")
    BY <1>2, <1>3 DEF Progress, At, InCreateData, Served
  <1>4. CASE ~At(q, "new") /\ ~At(q, "done")
    <2>1. Served(q)
      BY <1>4 DEF Served
    <2>2. /\ Fresh(q) \subseteq Fresh(q)'
          /\ FieldsOf(q)' = FieldsOf(q) /\ FieldsOf(q) \subseteq Fields
          /\ \A p \in Fresh(q) : p \in Requests /\ Served(p)
      BY <2>1, FreshKept, FieldsSetIs DEF FieldsOf
    <2>3. \A F \in SUBSET Fields : DocFresh(q, F) => DocFresh(q, F)'
      BY <2>2 DEF DocFresh
    <2>4. ASSUME q \in InCreateData, NEW F \in SUBSET Fields, TemplateFresh(q, F)
          PROVE  TemplateFresh(q, F)'
      <3>1. request[q].schema \in Schemas /\ request'[q].schema = request[q].schema
        BY <1>0, <2>4 DEF Progress
      <3>2. \A f \in F : \/ templates'[request[q].schema][f] \in Fresh(q)
                         \/ /\ templates'[request[q].schema][f] \in {q} \cup met[q]
                            /\ request[templates'[request[q].schema][f]].schema
                                  = request[q].schema
        BY <2>4, <3>1 DEF TemplatesStayFresh, TemplateFresh
      <3>3. \A f \in F : templates'[request[q].schema][f] \in Fresh(q)
        BY <3>2 DEF Fresh
      <3> QED BY <2>2, <3>1, <3>3 DEF TemplateFresh
    <2>5. FieldsOf(q) \ ToSet(request[q].left) \in SUBSET Fields
      BY <2>2
    <2>6. At(q, "assign") => TemplateFresh(q, FieldsOf(q) \ ToSet(request[q].left))'
      BY <1>0, <2>2, <2>4, <2>5 DEF Progress, InCreateData, At, TemplateFresh
    <2>7. request[q].pc \in {"keys", "marshal"} => TemplateFresh(q, FieldsOf(q))'
      BY <1>0, <2>2, <2>4 DEF Progress, InCreateData, At, TemplateFresh
    <2>8. At(q, "marshal") => DocFresh(q, FieldsOf(q) \ ToSet(request[q].left))'
      BY <1>0, <2>2, <2>3, <2>5 DEF Progress, DocFresh
    <2>9. request[q].pc \in {"validate", "create"} /\ request[q].family = "metax"
             => DocFresh(q, FieldsOf(q))'
      BY <1>0, <2>2, <2>3 DEF Progress, DocFresh
    <2>10. At(q, "create") /\ request[q].family = "metax" => Valid(q)'
      <3> SUFFICES ASSUME At(q, "create"), request[q].family = "metax" PROVE Valid(q)'
        OBVIOUS
      <3>1. Valid(q) /\ DocFresh(q, FieldsOf(q))
        BY <1>0 DEF Progress, At
      <3>2. /\ request[q].doc["research_dataset"] # None
            /\ "research_dataset" \in Fields /\ "cumulative_state" \in Fields
        BY <2>2, <3>1, FieldsSetIs, DocumentsAssumption DEF DocFresh, FieldsOf, Fields
      <3>3. /\ request'[request[q].doc["research_dataset"]].readonly
                  = request[request[q].doc["research_dataset"]].readonly
            /\ LET d == request[q].doc["cumulative_state"]
               IN  d # None => request'[d].cum = request[d].cum
        BY <1>0, <1>1, <3>2, DocumentKept
      <3> QED BY <3>1, <3>3 DEF Valid, CumulativeState
    <2> QED BY <1>0, <1>2, <2>6, <2>7, <2>8, <2>9, <2>10
            DEF Progress, At, InCreateData, Served
  <1> QED BY <1>3, <1>4

-----------------------------------------------------------------------------
(* The steps.                                                              *)

\* A step of r that no request meets.
LEMMA StepOf ==
    ASSUME DocInv, DocumentsTypeOK', Steady, TemplatesStayFresh, met' = met,
           NEW r \in Requests,
           \A q \in Requests \ {r} : request'[q] = request[q] /\ saved'[q] = saved[q],
           r \in InCreateData' => r \in InCreateData,
           Progress(r)', SavedSound(r)'
    PROVE  DocInv'
  <1>1. TemplatesServed'
    BY TemplatesServedKept
  <1>2. MetServed'
    BY DEF DocInv, DocumentsTypeOK, MetServed, Steady
  <1>3. InCreateData' \subseteq InCreateData
    BY DEF InCreateData
  <1>4. AllMet'
    BY <1>3 DEF DocInv, AllMet
  <1>5. ASSUME NEW q \in Requests PROVE Progress(q)' /\ SavedSound(q)'
    <2>1. CASE q = r
      BY <2>1
    <2>2. CASE q # r
      BY <2>2, ProgressKept, SavedKept
    <2> QED BY <2>1, <2>2
  <1> QED BY <1>1, <1>2, <1>4, <1>5 DEF DocInv

LEMMA RequestMoved ==
    ASSUME DocInv, NEW r \in Requests, NEW req \in RequestStates,
           request' = [request EXCEPT ![r] = req]
    PROVE  /\ request' \in [Requests -> RequestStates]
           /\ request'[r] = req
           /\ \A q \in Requests \ {r} : request'[q] = request[q]
  BY DEF DocInv, DocumentsTypeOK, RequestStates

LEMMA RequestTyped ==
    ASSUME DocInv, NEW r \in Requests
    PROVE  request[r] \in RequestStates
  <1>1. request \in [Requests -> RequestStates]
    BY DEF DocInv, DocumentsTypeOK, RequestStates
  <1> QED BY <1>1

LEMMA InitInv == Init => DocInv
  <1> SUFFICES ASSUME Init PROVE DocInv
    OBVIOUS
  <1>1. <<>> \in Seq(Fields) /\ NoDocument \in Document
    BY DEF NoDocument, Document
  <1>2. NewRequest \in RequestStates
    BY <1>1 DEF NewRequest, RequestStates
  <1>3. DocumentsTypeOK
    BY <1>1, <1>2 DEF Init, DocumentsTypeOK, RequestStates
  <1>4. \A r \in Requests : /\ request[r].pc = "new"
                            /\ \A f \in Fields : request[r].doc[f] = None
    BY DEF Init, NewRequest, NoDocument
  <1>5. InCreateData = {}
    BY <1>4 DEF InCreateData
  <1>6. \A r \in Requests : Progress(r)
    BY <1>4, <1>5 DEF Progress, At
  <1>7. TemplatesServed
    BY DEF Init, TemplatesServed, NoDocument
  <1>8. MetServed /\ \A r \in Requests : SavedSound(r)
    BY DEF Init, MetServed, SavedSound
  <1>9. AllMet
    BY <1>5 DEF AllMet
  <1> QED BY <1>3, <1>6, <1>7, <1>8, <1>9 DEF DocInv

LEMMA EndedType ==
    ASSUME DocInv, NEW r \in Requests
    PROVE  /\ Ended(request[r]) \in RequestStates
           /\ Ended(request[r]).pc = "done"
           /\ Ended(request[r]).family = request[r].family
           /\ Ended(request[r]).schema = request[r].schema
           /\ Ended(request[r]).cum = request[r].cum
           /\ Ended(request[r]).readonly = request[r].readonly
           /\ \A f \in Fields : Ended(request[r]).doc[f] = None
  <1>1. <<>> \in Seq(Fields) /\ NoDocument \in Document /\ \A f \in Fields : NoDocument[f] = None
    BY DEF NoDocument, Document
  <1>2. request[r] \in RequestStates
    BY RequestTyped
  <1> DEFINE pc == "done"
             req == [request[r] EXCEPT !.pc = pc, !.left = <<>>, !.doc = NoDocument]
  <1>3. pc \in {"assign", "keys", "marshal", "validate", "create", "done"}
    OBVIOUS
  <1>4. Ended(request[r]) = req
    BY DEF Ended
  <1> HIDE DEF pc
  <1>5. /\ req \in RequestStates /\ req.pc = pc /\ req.doc = NoDocument
        /\ req.family = request[r].family /\ req.schema = request[r].schema
        /\ req.cum = request[r].cum /\ req.readonly = request[r].readonly
    BY <1>1, <1>2, <1>3 DEF RequestStates
  <1> HIDE DEF req
  <1> QED BY <1>1, <1>4, <1>5 DEF pc

\* A request ends and stores nothing.
LEMMA EndsWithout ==
    ASSUME DocInv, NEW r \in Requests, ~At(r, "done"),
           request' = [request EXCEPT ![r] = Ended(@)], UNCHANGED <<templates, met, saved>>
    PROVE  DocInv'
  <1>1. /\ request'[r] = Ended(request[r])
        /\ \A q \in Requests \ {r} : request'[q] = request[q]
    BY DEF DocInv, DocumentsTypeOK
  <1>2. DocumentsTypeOK'
    BY EndedType DEF DocInv, DocumentsTypeOK, RequestStates
  <1>3. Steady
    BY <1>1, EndedType DEF Steady, Served, At
  <1>4. TemplatesStayFresh
    BY DEF TemplatesStayFresh
  <1>5. Progress(r)' /\ r \notin InCreateData'
    BY <1>1, EndedType DEF Progress, InCreateData, At
  <1>6. SavedSound(r)'
    BY <1>3, SavedKept
  <1> QED BY <1>1, <1>2, <1>3, <1>4, <1>5, <1>6, StepOf

LEMMA RejectBodyStep ==
    ASSUME DocInv, NEW r \in Requests, RejectBody(r)
    PROVE  DocInv'
  BY EndsWithout DEF RejectBody, Arrives, At

LEMMA CreateFromBodyStep ==
    ASSUME DocInv, NEW r \in Requests, CreateFromBody(r)
    PROVE  DocInv'
  <1>1. [f \in Fields |-> r] \in Document
    BY DEF Document
  <1> DEFINE req == [request[r] EXCEPT !.pc = "create", !.family = "open",
                                      !.doc = [f \in Fields |-> r]]
  <1>0. /\ request' = [request EXCEPT ![r] = req]
        /\ UNCHANGED <<templates, met, saved>>
    BY DEF CreateFromBody, DocInv, DocumentsTypeOK
  <1>10. request[r] \in RequestStates
    BY RequestTyped
  <1>11. /\ req \in RequestStates /\ req.pc = "create" /\ req.family = "open"
         /\ req.doc = [f \in Fields |-> r]
    BY <1>1, <1>10 DEF RequestStates
  <1> HIDE DEF req
  <1>12. /\ request' \in [Requests -> RequestStates] /\ request'[r] = req
         /\ \A q \in Requests \ {r} : request'[q] = request[q]
    BY <1>0, <1>11, RequestMoved
  <1>2. /\ DocumentsTypeOK' /\ met' = met
        /\ request'[r] = req
        /\ \A q \in Requests \ {r} : request'[q] = request[q] /\ saved'[q] = saved[q]
    BY <1>0, <1>12 DEF DocInv, DocumentsTypeOK, RequestStates
  <1>3. /\ request'[r].pc = "create" /\ request'[r].family = "open"
        /\ request'[r].doc = [f \in Fields |-> r]
    BY <1>2, <1>11
  <1>4. At(r, "new")
    BY DEF CreateFromBody, Arrives
  <1>5. Steady
    BY <1>2, <1>4 DEF Steady, Served, At
  <1>6. TemplatesStayFresh
    BY DEF CreateFromBody, TemplatesStayFresh
  <1>7. Progress(r)'
    <2>1. "open" # "metax"
      OBVIOUS
    <2>2. /\ r \notin InCreateData' /\ ~At(r, "assign")' /\ ~At(r, "marshal")'
          /\ ~At(r, "validate")' /\ request'[r].pc \notin {"keys", "marshal"}
          /\ request'[r].family # "metax"
      BY <1>3 DEF At, InCreateData
    <2>3. \A f \in Fields : request'[r].doc[f] = r
      BY <1>3
    <2>4. \A f \in Fields : request'[request'[r].doc[f]].pc # "new"
      BY <1>3, <2>3
    <2> QED BY <2>2, <2>4 DEF Progress, Served, At
  <1>8. SavedSound(r)'
    BY <1>5, SavedKept DEF CreateFromBody
  <1>9. r \notin InCreateData'
    BY <1>3 DEF InCreateData
  <1> QED BY <1>2, <1>5, <1>6, <1>7, <1>8, <1>9, StepOf

LEMMA ValidateCreatedStep ==
    ASSUME DocInv, NEW r \in Requests, ValidateCreated(r)
    PROVE  DocInv'
  <1>1. CASE ~Valid(r)
    <2>1. request' = [request EXCEPT ![r] = Ended(@)]
      BY <1>1 DEF ValidateCreated
    <2> QED BY <2>1, EndsWithout DEF ValidateCreated, At
  <1>2. CASE Valid(r)
    <2>1. /\ request' = [request EXCEPT ![r].pc = "create"] /\ met' = met
          /\ saved' = saved /\ templates' = templates /\ At(r, "validate")
      BY <1>2 DEF ValidateCreated, DocInv, DocumentsTypeOK
    <2> DEFINE req == [request[r] EXCEPT !.pc = "create"]
    <2>15. request[r] \in RequestStates
      BY RequestTyped
    <2>16. /\ req \in RequestStates
           /\ req.pc = "create" /\ req.family = request[r].family
           /\ req.doc = request[r].doc /\ req.schema = request[r].schema
           /\ req.cum = request[r].cum /\ req.readonly = request[r].readonly
      BY <2>15 DEF RequestStates
    <2>17. request' = [request EXCEPT ![r] = req]
      BY <2>1
    <2> HIDE DEF req
    <2>18. request' \in [Requests -> RequestStates] /\ request'[r] = req
      BY <2>16, <2>17, RequestMoved
    <2>2. /\ DocumentsTypeOK'
          /\ \A q \in Requests \ {r} : request'[q] = request[q]
      BY <2>1, <2>16, <2>17, <2>18, RequestMoved DEF DocInv, DocumentsTypeOK, RequestStates
    <2>3. /\ request'[r].pc = "create" /\ request'[r].family = request[r].family
          /\ request'[r].doc = request[r].doc /\ request'[r].schema = request[r].schema
          /\ request'[r].cum = request[r].cum /\ request'[r].readonly = request[r].readonly
      BY <2>16, <2>18
    <2>4. Steady
      BY <2>1, <2>2, <2>3 DEF Steady, Served, At
    <2>5. TemplatesStayFresh
      BY <2>1 DEF TemplatesStayFresh
    <2>6. Served(r) /\ Progress(r) /\ request[r].doc \in Document
      BY <2>1 DEF Served, At, DocInv, DocumentsTypeOK
    <2>7. /\ DocFresh(r, FieldsOf(r)) /\ request[r].family = "metax"
          /\ \A f \in Fields : request[r].doc[f] # None => Served(request[r].doc[f])
      BY <2>1, <2>6 DEF Progress, At
    <2>8. DocFresh(r, FieldsOf(r))'
      BY <2>3, <2>4, <2>6, <2>7, FreshKept DEF DocFresh
    <2>9. /\ CumulativeState(request[r].doc) \in {None, "0"}
          /\ ~request[request[r].doc["research_dataset"]].readonly
      BY <1>2 DEF Valid
    <2>10. /\ \A f \in Fields : request[r].doc[f] # None =>
                    /\ request'[request[r].doc[f]].pc # "new"
                    /\ request'[request[r].doc[f]].cum = request[request[r].doc[f]].cum
                    /\ request'[request[r].doc[f]].readonly
                          = request[request[r].doc[f]].readonly
      BY <2>4, <2>6, <2>7, DocumentKept
    <2>11. /\ request[r].doc["research_dataset"] # None
           /\ "research_dataset" \in Fields /\ "cumulative_state" \in Fields
      <3>1. "research_dataset" \in FieldsOf(r)
        BY FieldsSetIs DEF FieldsOf
      <3>2. request[r].doc["research_dataset"] \in Requests
        BY <2>4, <2>6, <2>7, <3>1, FreshKept DEF DocFresh
      <3> QED BY <3>2, DocumentsAssumption DEF Fields
    <2>12. Valid(r)'
      BY <2>3, <2>9, <2>10, <2>11 DEF Valid, CumulativeState
    <2>13. Progress(r)' /\ r \notin InCreateData'
      BY <2>3, <2>7, <2>8, <2>10, <2>12 DEF Progress, Served, At, InCreateData
    <2>14. SavedSound(r)'
      BY <2>1, <2>4, SavedKept
    <2> QED BY <2>1, <2>2, <2>4, <2>5, <2>13, <2>14, StepOf
  <1> QED BY <1>1, <1>2

LEMMA CreateStep ==
    ASSUME DocInv, NEW r \in Requests, Create(r)
    PROVE  DocInv'
  <1>1. CASE saved' = saved
    BY <1>1, EndsWithout DEF Create, At
  <1>2. CASE saved' = [saved EXCEPT ![r] = request[r].doc]
    <2>1. /\ At(r, "create") /\ Served(r) /\ Progress(r) /\ request[r].doc \in Document
          /\ met' = met /\ templates' = templates
          /\ request'[r] = Ended(request[r]) /\ saved'[r] = request[r].doc
          /\ \A q \in Requests \ {r} : request'[q] = request[q] /\ saved'[q] = saved[q]
      BY <1>2 DEF Create, DocInv, DocumentsTypeOK, Served, At
    <2>2. DocumentsTypeOK'
      <3>1. request' \in [Requests -> RequestStates]
        BY EndedType DEF Create, DocInv, DocumentsTypeOK, RequestStates
      <3>2. saved' \in [Requests -> Document \cup {None}]
        BY <1>2, <2>1 DEF DocInv, DocumentsTypeOK
      <3> QED BY <2>1, <3>1, <3>2 DEF DocInv, DocumentsTypeOK, RequestStates
    <2>3. Steady
      BY <2>1, EndedType DEF Steady, Served, At
    <2>4. TemplatesStayFresh
      BY <2>1 DEF TemplatesStayFresh
    <2>5. Progress(r)' /\ r \notin InCreateData'
      BY <2>1, EndedType DEF Progress, InCreateData, At
    <2>6. SavedSound(r)'
      <3>1. At(r, "done")' /\ request'[r].family = request[r].family
        BY <2>1, EndedType DEF At
      <3> SUFFICES ASSUME request[r].family = "metax" PROVE SavedSound(r)'
        BY <3>1 DEF SavedSound
      <3>2. /\ DocFresh(r, FieldsOf(r)) /\ Valid(r)
            /\ \A f \in Fields : request[r].doc[f] # None => Served(request[r].doc[f])
        BY <2>1 DEF Progress, At
      <3>3. \A f \in FieldsOf(r)' : saved'[r][f] \in Fresh(r)'
        BY <2>1, <2>3, <3>2, FreshKept DEF DocFresh
      <3>4. /\ \A f \in Fields : request[r].doc[f] # None =>
                    /\ request'[request[r].doc[f]].pc # "new"
                    /\ request'[request[r].doc[f]].cum = request[request[r].doc[f]].cum
                    /\ request'[request[r].doc[f]].readonly
                          = request[request[r].doc[f]].readonly
        BY <2>1, <2>3, <3>2, DocumentKept
      <3>5. /\ request[r].doc["research_dataset"] # None
            /\ "research_dataset" \in Fields /\ "cumulative_state" \in Fields
        <4>1. "research_dataset" \in FieldsOf(r)
          BY FieldsSetIs DEF FieldsOf
        <4>2. request[r].doc["research_dataset"] \in Requests
          BY <2>1, <2>3, <3>2, <4>1, FreshKept DEF DocFresh
        <4> QED BY <4>2, DocumentsAssumption DEF Fields
      <3>6. CumulativeState(saved[r])' \in {None, "0"}
        BY <2>1, <3>2, <3>4, <3>5 DEF Valid, CumulativeState
      <3>7. ~request'[saved'[r]["research_dataset"]].readonly
        BY <2>1, <3>2, <3>4, <3>5 DEF Valid
      <3> QED BY <2>1, <3>1, <3>3, <3>4, <3>6, <3>7 DEF SavedSound, Served, At
    <2> QED BY <2>1, <2>2, <2>3, <2>4, <2>5, <2>6, StepOf
  <1> QED BY <1>1, <1>2 DEF Create

LEMMA AssignStep ==
    ASSUME DocInv, NEW r \in Requests, Assign(r)
    PROVE  DocInv'
  <1> DEFINE s == request[r].schema
             f == Head(request[r].left)
             rest == Tail(request[r].left)
             pc == IF rest = <<>> THEN "keys" ELSE "assign"
  <1>1. /\ At(r, "assign") /\ Served(r) /\ r \in InCreateData
        /\ Progress(r) /\ request[r].left # <<>> /\ s \in Schemas
        /\ request[r].family = "metax"
        /\ TemplateFresh(r, FieldsOf(r) \ ToSet(request[r].left))
    BY DEF Assign, DocInv, Progress, Served, At, InCreateData
  <1>2. /\ f \in Fields /\ rest \in Seq(Fields)
        /\ ToSet(request[r].left) \subseteq {f} \cup ToSet(rest)
    BY <1>1, HeadAndTail DEF DocInv, DocumentsTypeOK
  <1> HIDE DEF s, f, rest
  <1>3. /\ templates' = [templates EXCEPT ![s][f] = r]
        /\ request' = [request EXCEPT ![r] =
              [request[r] EXCEPT !.pc = pc, !.left = rest, !.doc = request[r].doc]]
        /\ met' = met /\ saved' = saved
    BY DEF Assign, s, f, rest, DocInv, DocumentsTypeOK
  <1>4. /\ request' \in [Requests -> RequestStates]
        /\ request'[r].pc = pc /\ request'[r].left = rest
        /\ request'[r].schema = s /\ request'[r].family = request[r].family
        /\ request'[r].doc = request[r].doc
        /\ request'[r].cum = request[r].cum /\ request'[r].readonly = request[r].readonly
        /\ \A q \in Requests \ {r} : request'[q] = request[q]
    <2>0. pc \in {"assign", "keys", "marshal", "validate", "create", "done"}
      OBVIOUS
    <2>3. request[r] \in RequestStates /\ request[r].doc \in Document
      BY RequestTyped DEF RequestStates
    <2> HIDE DEF pc
    <2> DEFINE req == [request[r] EXCEPT !.pc = pc, !.left = rest, !.doc = request[r].doc]
    <2>1. /\ req \in RequestStates
          /\ req.pc = pc /\ req.left = rest /\ req.doc = request[r].doc
          /\ req.schema = request[r].schema /\ req.family = request[r].family
          /\ req.cum = request[r].cum /\ req.readonly = request[r].readonly
      BY <1>2, <2>0, <2>3 DEF RequestStates
    <2>2. request' = [request EXCEPT ![r] = req]
      BY <1>3
    <2> HIDE DEF req
    <2> QED BY <2>1, <2>2, RequestMoved DEF s
  <1>5. /\ templates'[s][f] = r
        /\ \A t \in Schemas, g \in Fields :
              <<t, g>> # <<s, f>> => templates'[t][g] = templates[t][g]
    BY <1>1, <1>2, <1>3 DEF DocInv, DocumentsTypeOK, Document
  <1>6. DocumentsTypeOK'
    <2>1. templates' \in [Schemas -> Document]
      BY <1>2, <1>3 DEF DocInv, DocumentsTypeOK, Document
    <2> QED BY <1>3, <1>4, <2>1 DEF DocInv, DocumentsTypeOK, RequestStates
  <1>7. pc # "new" /\ pc # "done"
    OBVIOUS
  <1>8. Steady
    BY <1>1, <1>3, <1>4, <1>7 DEF Steady, Served, At, s
  <1>9. TemplatesStayFresh
    <2>1. \A q \in InCreateData : r \in {q} \cup met[q]
      BY <1>1 DEF DocInv, AllMet
    <2> QED BY <1>1, <1>5, <2>1 DEF TemplatesStayFresh, s
  <1>10. Progress(r)'
    <2>1. /\ Fresh(r) \subseteq Fresh(r)' /\ FieldsOf(r)' = FieldsOf(r)
          /\ FieldsOf(r) \subseteq Fields /\ r \in Fresh(r)
      BY <1>1, <1>8, FreshKept, FieldsSetIs DEF FieldsOf, Fresh
    <2>2. \A g \in FieldsOf(r) \ ToSet(rest) : templates'[s][g] \in Fresh(r)
      BY <1>1, <1>2, <1>5, <2>1 DEF TemplateFresh, s
    <2>3. /\ request[r].doc \in Document
          /\ \A g \in Fields : request[r].doc[g] # None => Served(request[r].doc[g])
      BY <1>1 DEF DocInv, DocumentsTypeOK, Progress
    <2>4. \A g \in Fields : request[r].doc[g] # None => request'[request[r].doc[g]].pc # "new"
      BY <1>8, <2>3, DocumentKept
    <2>5. CASE rest = <<>>
      <3>1. request'[r].pc = "keys" /\ ToSet(rest) = {}
        BY <1>4, <2>5 DEF ToSet
      <3>2. TemplateFresh(r, FieldsOf(r))'
        BY <1>4, <2>1, <2>2, <3>1 DEF TemplateFresh, s
      <3> QED BY <1>1, <1>4, <2>4, <3>1, <3>2 DEF Progress, At, Served
    <2>6. CASE rest # <<>>
      <3>1. request'[r].pc = "assign"
        BY <1>4, <2>6
      <3>2. TemplateFresh(r, FieldsOf(r) \ ToSet(request[r].left))'
        BY <1>4, <2>1, <2>2 DEF TemplateFresh, s
      <3> QED BY <1>1, <1>4, <2>4, <2>6, <3>1, <3>2 DEF Progress, At, Served
    <2> QED BY <2>5, <2>6
  <1>11. SavedSound(r)'
    BY <1>3, <1>8, SavedKept
  <1> QED BY <1>1, <1>3, <1>4, <1>6, <1>8, <1>9, <1>10, <1>11, StepOf

LEMMA MapKeysStep ==
    ASSUME DocInv, NEW r \in Requests, MapKeys(r)
    PROVE  DocInv'
  <1> DEFINE keys == KeysOf(templates[request[r].schema])
  <1>1. /\ At(r, "keys") /\ Served(r) /\ r \in InCreateData /\ Progress(r)
        /\ request[r].schema \in Schemas /\ request[r].family = "metax"
        /\ TemplateFresh(r, FieldsOf(r))
        /\ request[r].doc \in Document
        /\ \A g \in Fields : request[r].doc[g] # None => Served(request[r].doc[g])
    BY DEF MapKeys, DocInv, DocumentsTypeOK, Progress, Served, At, InCreateData
  <1>2. templates[request[r].schema] \in Document
    BY <1>1 DEF DocInv, DocumentsTypeOK
  <1>3. /\ keys \in Seq(Fields) /\ keys # <<>>
        /\ \A g \in Fields : templates[request[r].schema][g] # None => g \in ToSet(keys)
    BY <1>2, KeysOfIs
  <1> HIDE DEF keys
  <1>4. /\ request' = [request EXCEPT ![r] =
              [request[r] EXCEPT !.pc = "marshal", !.left = keys, !.doc = request[r].doc]]
        /\ templates' = templates /\ met' = met /\ saved' = saved
    BY DEF MapKeys, keys, DocInv, DocumentsTypeOK
  <1>5. /\ request' \in [Requests -> RequestStates]
        /\ request'[r].pc = "marshal" /\ request'[r].left = keys
        /\ request'[r].schema = request[r].schema /\ request'[r].family = request[r].family
        /\ request'[r].doc = request[r].doc
        /\ request'[r].cum = request[r].cum /\ request'[r].readonly = request[r].readonly
        /\ \A q \in Requests \ {r} : request'[q] = request[q]
    <2> DEFINE pc == "marshal"
               req == [request[r] EXCEPT !.pc = pc, !.left = keys, !.doc = request[r].doc]
    <2>0. pc \in {"assign", "keys", "marshal", "validate", "create", "done"}
      OBVIOUS
    <2>2. request' = [request EXCEPT ![r] = req]
      BY <1>4
    <2>3. request[r] \in RequestStates /\ request[r].doc \in Document
      BY RequestTyped DEF RequestStates
    <2> HIDE DEF pc
    <2>1. /\ req \in RequestStates
          /\ req.pc = pc /\ req.left = keys /\ req.doc = request[r].doc
          /\ req.schema = request[r].schema /\ req.family = request[r].family
          /\ req.cum = request[r].cum /\ req.readonly = request[r].readonly
      BY <1>3, <2>0, <2>3 DEF RequestStates
    <2> HIDE DEF req
    <2> QED BY <2>1, <2>2, RequestMoved DEF pc
  <1>6. DocumentsTypeOK'
    BY <1>4, <1>5 DEF DocInv, DocumentsTypeOK, RequestStates
  <1>7. Steady
    BY <1>1, <1>4, <1>5 DEF Steady, Served, At
  <1>8. TemplatesStayFresh
    BY <1>4 DEF TemplatesStayFresh
  <1>9. Progress(r)'
    <2>1. /\ Fresh(r) \subseteq Fresh(r)' /\ FieldsOf(r)' = FieldsOf(r)
          /\ FieldsOf(r) \subseteq Fields /\ \A p \in Fresh(r) : p \in Requests
      BY <1>1, <1>7, FreshKept, FieldsSetIs DEF FieldsOf
    <2>2. TemplateFresh(r, FieldsOf(r))'
      BY <1>1, <1>4, <1>5, <2>1 DEF TemplateFresh
    <2>3. FieldsOf(r) \subseteq ToSet(keys)
      BY <1>1, <1>3, <2>1, DocumentsAssumption DEF TemplateFresh
    <2>4. DocFresh(r, FieldsOf(r) \ ToSet(request[r].left))'
      BY <1>5, <2>1, <2>3 DEF DocFresh
    <2>5. \A g \in Fields : request[r].doc[g] # None => request'[request[r].doc[g]].pc # "new"
      BY <1>1, <1>7, DocumentKept
    <2> QED BY <1>1, <1>3, <1>5, <2>2, <2>4, <2>5 DEF Progress, At, Served
  <1>10. SavedSound(r)'
    BY <1>4, <1>7, SavedKept
  <1> QED BY <1>1, <1>4, <1>5, <1>6, <1>7, <1>8, <1>9, <1>10, StepOf

LEMMA MapIndexStep ==
    ASSUME DocInv, NEW r \in Requests, MapIndex(r)
    PROVE  DocInv'
  <1> DEFINE f == Head(request[r].left)
             rest == Tail(request[r].left)
             v == templates[request[r].schema][f]
             pc == IF rest = <<>> THEN "validate" ELSE "marshal"
  <1>1. /\ At(r, "marshal") /\ Served(r) /\ r \in InCreateData /\ Progress(r)
        /\ request[r].schema \in Schemas /\ request[r].family = "metax"
        /\ request[r].left # <<>>
        /\ TemplateFresh(r, FieldsOf(r))
        /\ DocFresh(r, FieldsOf(r) \ ToSet(request[r].left))
        /\ request[r].doc \in Document
        /\ \A g \in Fields : request[r].doc[g] # None => Served(request[r].doc[g])
    BY DEF MapIndex, DocInv, DocumentsTypeOK, Progress, Served, At, InCreateData
  <1>2. /\ f \in Fields /\ rest \in Seq(Fields)
        /\ ToSet(request[r].left) \subseteq {f} \cup ToSet(rest)
    BY <1>1, HeadAndTail DEF DocInv, DocumentsTypeOK
  <1>3. /\ v \in Requests \cup {None}
        /\ v # None => Served(v)
        /\ f \in FieldsOf(r) => v \in Fresh(r)
    BY <1>1, <1>2 DEF DocInv, DocumentsTypeOK, Document, TemplatesServed, TemplateFresh
  <1>4. CASE f = "cumulative_state" /\ request[v].cum = "text"
    BY <1>1, <1>4, EndsWithout DEF MapIndex, At
  <1>5. CASE ~(f = "cumulative_state" /\ request[v].cum = "text")
    <2>1. pc \in {"marshal", "validate"}
      OBVIOUS
    <2>3. /\ request' = [request EXCEPT ![r] =
                [request[r] EXCEPT !.left = rest, !.doc[f] = v, !.pc = pc]]
          /\ templates' = templates /\ met' = met /\ saved' = saved
      BY <1>5 DEF MapIndex
    <2>4. rest = <<>> => pc = "validate"
      OBVIOUS
    <2>5. rest # <<>> => pc = "marshal"
      OBVIOUS
    <2> HIDE DEF f, rest, v, pc
    <2>6. /\ request' \in [Requests -> RequestStates]
          /\ request'[r].pc = pc /\ request'[r].left = rest
          /\ request'[r].schema = request[r].schema /\ request'[r].family = request[r].family
          /\ request'[r].doc = [request[r].doc EXCEPT ![f] = v]
          /\ request'[r].cum = request[r].cum /\ request'[r].readonly = request[r].readonly
          /\ \A q \in Requests \ {r} : request'[q] = request[q]
      <3> DEFINE req == [request[r] EXCEPT !.left = rest, !.doc[f] = v, !.pc = pc]
      <3>1. [request[r].doc EXCEPT ![f] = v] \in Document
        BY <1>1, <1>2, <1>3 DEF Document
      <3>2. request[r] \in RequestStates
        BY DEF DocInv, DocumentsTypeOK, RequestStates
      <3>3. /\ req \in RequestStates
            /\ req.pc = pc /\ req.left = rest
            /\ req.doc = [request[r].doc EXCEPT ![f] = v]
            /\ req.schema = request[r].schema /\ req.family = request[r].family
            /\ req.cum = request[r].cum /\ req.readonly = request[r].readonly
        BY <1>2, <2>1, <3>1, <3>2 DEF RequestStates
      <3>4. request' = [request EXCEPT ![r] = req]
        BY <2>3
      <3> HIDE DEF req
      <3> QED BY <3>3, <3>4, RequestMoved
    <2>7. /\ request'[r].doc \in Document /\ request'[r].doc[f] = v
          /\ \A g \in Fields \ {f} : request'[r].doc[g] = request[r].doc[g]
      BY <1>1, <1>2, <1>3, <2>6 DEF Document
    <2>8. DocumentsTypeOK'
      BY <2>3, <2>6 DEF DocInv, DocumentsTypeOK, RequestStates
    <2>9. Steady
      BY <1>1, <2>1, <2>3, <2>6 DEF Steady, Served, At
    <2>10. TemplatesStayFresh
      BY <2>3 DEF TemplatesStayFresh
    <2>11. /\ Fresh(r) \subseteq Fresh(r)' /\ FieldsOf(r)' = FieldsOf(r)
           /\ FieldsOf(r) \subseteq Fields
      BY <1>1, <2>9, FreshKept, FieldsSetIs DEF FieldsOf
    <2>12. TemplateFresh(r, FieldsOf(r))'
      BY <1>1, <2>3, <2>6, <2>11 DEF TemplateFresh
    <2>13. \A g \in FieldsOf(r) \ ToSet(rest) : request'[r].doc[g] \in Fresh(r)'
      BY <1>1, <1>2, <1>3, <2>7, <2>11 DEF DocFresh
    <2>14. \A g \in Fields : request'[r].doc[g] # None => request'[request'[r].doc[g]].pc # "new"
      <3>1. \A g \in Fields : request[r].doc[g] # None
                                 => request'[request[r].doc[g]].pc # "new"
        BY <1>1, <2>9, DocumentKept
      <3>2. v # None => request'[v].pc # "new"
        BY <1>3, <2>9 DEF Steady, Served, At
      <3> QED BY <2>7, <3>1, <3>2
    <2>15. Progress(r)'
      <3>1. CASE rest = <<>>
        <4>1. request'[r].pc = "validate" /\ ToSet(rest) = {}
          BY <2>4, <2>6, <3>1 DEF ToSet
        <4>2. DocFresh(r, FieldsOf(r))'
          BY <2>11, <2>13, <4>1 DEF DocFresh
        <4> QED BY <1>1, <2>6, <2>14, <4>1, <4>2 DEF Progress, At, Served, InCreateData
      <3>2. CASE rest # <<>>
        <4>1. request'[r].pc = "marshal"
          BY <2>5, <2>6, <3>2
        <4>2. DocFresh(r, FieldsOf(r) \ ToSet(request[r].left))'
          BY <2>6, <2>11, <2>13 DEF DocFresh
        <4> QED BY <1>1, <2>6, <2>12, <2>14, <3>2, <4>1, <4>2 DEF Progress, At, Served
      <3> QED BY <3>1, <3>2
    <2>16. SavedSound(r)'
      BY <2>3, <2>9, SavedKept
    <2> QED BY <1>1, <2>3, <2>6, <2>8, <2>9, <2>10, <2>15, <2>16, StepOf
  <1> QED BY <1>4, <1>5

LEMMA CreateFromTemplateStep ==
    ASSUME DocInv, NEW r \in Requests, CreateFromTemplate(r)
    PROVE  DocInv'
  <1>1. PICK schema \in Schemas, cum \in CumulativeStates \cup {None}, readonly \in BOOLEAN :
           request' = [request EXCEPT
              ![r] = [pc |-> "assign", family |-> "metax", schema |-> schema, cum |-> cum,
                      readonly |-> readonly, left |-> FieldsSet(cum), doc |-> NoDocument]]
    BY DEF CreateFromTemplate
  <1> DEFINE req == [pc |-> "assign", family |-> "metax", schema |-> schema, cum |-> cum,
                     readonly |-> readonly, left |-> FieldsSet(cum), doc |-> NoDocument]
  <1>2. /\ req \in RequestStates
        /\ req.pc = "assign" /\ req.family = "metax" /\ req.schema = schema /\ req.cum = cum
        /\ req.left = FieldsSet(cum) /\ \A f \in Fields : req.doc[f] = None
    <2>1. NoDocument \in Document /\ \A f \in Fields : NoDocument[f] = None
      BY DEF NoDocument, Document
    <2> QED BY <2>1, FieldsSetIs DEF RequestStates
  <1>3. request' = [request EXCEPT ![r] = req]
    BY <1>1
  <1> HIDE DEF req
  <1>4. /\ request' \in [Requests -> RequestStates] /\ request'[r] = req
        /\ \A q \in Requests \ {r} : request'[q] = request[q]
    BY <1>2, <1>3, RequestMoved
  <1>5. /\ At(r, "new") /\ r \notin InCreateData
        /\ templates' = templates /\ saved' = saved
        /\ met'[r] = InCreateData
        /\ \A q \in InCreateData : met'[q] = met[q] \cup {r}
        /\ \A q \in Requests \ {r} : q \notin InCreateData => met'[q] = met[q]
    BY DEF CreateFromTemplate, Arrives, InCreateData, At
  <1>6. DocumentsTypeOK'
    <2>1. met' \in [Requests -> SUBSET Requests]
      BY DEF CreateFromTemplate, InCreateData, DocInv, DocumentsTypeOK
    <2> QED BY <1>4, <1>5, <2>1 DEF DocInv, DocumentsTypeOK, RequestStates
  <1>7. \A q \in InCreateData : q \in Requests
    BY DEF InCreateData
  <1>8. InCreateData' = InCreateData \cup {r}
    BY <1>2, <1>4 DEF InCreateData
  <1>9. \A q \in Requests : Served(q) => q # r /\ request'[q] = request[q] /\ Served(q)'
    BY <1>4, <1>5 DEF Served, At
  <1>10. TemplatesServed'
    BY <1>5, <1>9 DEF DocInv, DocumentsTypeOK, Document, TemplatesServed, Served, At
  <1>11. \A q \in InCreateData : Served(q)
    BY DEF InCreateData, Served, At
  <1>12. MetServed'
    BY <1>2, <1>4, <1>5, <1>9, <1>11 DEF DocInv, DocumentsTypeOK, MetServed, InCreateData, Served, At
  <1>13. AllMet'
    BY <1>5, <1>8 DEF DocInv, AllMet
  <1>14. Steady
    BY <1>4, <1>5, <1>9 DEF Steady, Served, At
  <1>15. TemplatesStayFresh
    BY <1>5 DEF TemplatesStayFresh
  <1>16. Progress(r)'
    <2>1. /\ request'[r].pc = "assign" /\ request'[r].left = FieldsSet(cum)
          /\ request'[r].cum = cum /\ request'[r].schema = schema
          /\ request'[r].family = "metax" /\ \A f \in Fields : request'[r].doc[f] = None
      BY <1>2, <1>4
    <2>2. FieldsOf(r)' \ ToSet(request'[r].left) = {}
      BY <2>1 DEF FieldsOf
    <2>3. TemplateFresh(r, FieldsOf(r) \ ToSet(request[r].left))'
      BY <2>2 DEF TemplateFresh
    <2>4. FieldsSet(cum) # <<>>
      BY FieldsSetIs
    <2> QED BY <2>1, <2>3, <2>4 DEF Progress, At
  <1>17. ASSUME NEW q \in Requests PROVE Progress(q)' /\ SavedSound(q)'
    <2>1. CASE q = r
      BY <1>5, <1>14, <1>16, <2>1, SavedKept
    <2>2. CASE q # r
      BY <1>4, <1>5, <1>6, <1>14, <1>15, <2>2, ProgressKept, SavedKept
    <2> QED BY <2>1, <2>2
  <1> QED BY <1>6, <1>10, <1>12, <1>13, <1>17 DEF DocInv

LEMMA GoneStep ==
    ASSUME DocInv, Gone
    PROVE  DocInv'
  <1>1. /\ templates' = [s \in Schemas |-> NoDocument] /\ met' = met /\ saved' = saved
        /\ \A r \in Requests :
              /\ At(r, "new") => request'[r] = request[r]
              /\ ~At(r, "new") => request'[r] = Ended(request[r])
    BY DEF Gone
  <1>2. NoDocument \in Document /\ \A f \in Fields : NoDocument[f] = None
    BY DEF NoDocument, Document
  <1>3. request' \in [Requests -> RequestStates]
    <2>1. \A r \in Requests : request'[r] \in RequestStates
      BY <1>1, EndedType DEF DocInv, DocumentsTypeOK, RequestStates
    <2> QED BY <2>1 DEF Gone
  <1>4. DocumentsTypeOK'
    BY <1>1, <1>2, <1>3 DEF DocInv, DocumentsTypeOK, RequestStates
  <1>5. Steady
    BY <1>1, EndedType DEF Steady, Served, At
  <1>6. \A r \in Requests : request'[r].pc \in {"new", "done"}
    BY <1>1, EndedType DEF At
  <1>7. InCreateData' = {}
    BY <1>6 DEF InCreateData
  <1>8. TemplatesServed' /\ AllMet'
    BY <1>1, <1>2, <1>7 DEF TemplatesServed, AllMet
  <1>9. MetServed'
    BY <1>1, <1>5 DEF DocInv, DocumentsTypeOK, MetServed, Steady
  <1>10. ASSUME NEW r \in Requests PROVE Progress(r)'
    <2>1. \A f \in Fields : request'[r].doc[f] # None => request'[request'[r].doc[f]].pc # "new"
      <3>1. CASE At(r, "new")
        <4>1. /\ request[r].doc \in Document
              /\ \A f \in Fields : request[r].doc[f] # None => Served(request[r].doc[f])
          BY DEF DocInv, DocumentsTypeOK, Progress
        <4> QED BY <1>1, <1>5, <3>1, <4>1, DocumentKept
      <3>2. CASE ~At(r, "new")
        BY <1>1, <3>2, EndedType
      <3> QED BY <3>1, <3>2
    <2>2. request'[r].pc \notin {"assign", "keys", "marshal", "validate", "create"}
      BY <1>6
    <2> QED BY <1>7, <2>1, <2>2 DEF Progress, At, Served
  <1>11. \A r \in Requests : SavedSound(r)'
    BY <1>1, <1>5, SavedKept
  <1> QED BY <1>4, <1>8, <1>9, <1>10, <1>11 DEF DocInv

-----------------------------------------------------------------------------
(* The theorems.                                                           *)

(* However many requests share the templates, and whenever the process     *)
(* ends (createDataset, CreateData): the inductive invariant holds.        *)
THEOREM DocumentsInvariant == Spec => []DocInv
  <1>1. Init => DocInv
    BY InitInv
  <1>2. DocInv /\ [Next]_vars => DocInv'
    <2> SUFFICES ASSUME DocInv, [Next]_vars PROVE DocInv'
      OBVIOUS
    <2>1. CASE Next
      <3>1. ASSUME NEW r \in Requests,
                   \/ CreateFromTemplate(r) \/ CreateFromBody(r) \/ RejectBody(r)
                   \/ Assign(r) \/ MapKeys(r) \/ MapIndex(r)
                   \/ ValidateCreated(r) \/ Create(r)
            PROVE  DocInv'
        BY <3>1, CreateFromTemplateStep, CreateFromBodyStep, RejectBodyStep, AssignStep,
           MapKeysStep, MapIndexStep, ValidateCreatedStep, CreateStep
      <3>2. ASSUME ConcurrentMapWrites \/ Restart
            PROVE  DocInv'
        BY <3>2, GoneStep DEF ConcurrentMapWrites, Restart
      <3> QED BY <2>1, <3>1, <3>2 DEF Next
    <2>2. CASE UNCHANGED vars
      <3>1. UNCHANGED <<templates, request, met, saved>>
        BY <2>2 DEF vars
      <3>2. DocumentsTypeOK' /\ TemplatesServed' /\ MetServed'
        BY <3>1 DEF DocInv, DocumentsTypeOK, TemplatesServed, MetServed, Served, At
      <3>3. AllMet'
        BY <3>1 DEF DocInv, AllMet, InCreateData
      <3>4. ASSUME NEW r \in Requests PROVE Progress(r)'
        <4>1. /\ \A fields : TemplateFresh(r, fields) => TemplateFresh(r, fields)'
              /\ \A fields : DocFresh(r, fields) => DocFresh(r, fields)'
          BY <3>1 DEF TemplateFresh, DocFresh, Fresh
        <4>2. Valid(r)' = Valid(r) /\ FieldsOf(r)' = FieldsOf(r)
          BY <3>1 DEF Valid, CumulativeState, FieldsOf
        <4>3. Progress(r)
          BY DEF DocInv
        <4> QED BY <3>1, <4>1, <4>2, <4>3 DEF Progress, InCreateData, Served, At
      <3>5. ASSUME NEW r \in Requests PROVE SavedSound(r)'
        <4>1. SavedSound(r)
          BY DEF DocInv
        <4> QED BY <3>1, <4>1 DEF SavedSound, Fresh, FieldsOf, Served, At, CumulativeState
      <3> QED BY <3>2, <3>3, <3>4, <3>5 DEF DocInv
    <2> QED BY <2>1, <2>2
  <1> QED BY <1>1, <1>2, PTL DEF Spec

(* The templates and the stored documents only ever hold values of         *)
(* requests, and nothing else is reachable.                                *)
THEOREM DocumentsTyped == Spec => []DocumentsTypeOK
  <1>1. DocInv => DocumentsTypeOK
    BY DEF DocInv
  <1> QED BY <1>1, DocumentsInvariant, PTL

(* Every field that a request sets has in its stored document the value of *)
(* that request or of one of the same schema that was in CreateData beside *)
(* it, however many requests there were before.                            *)
THEOREM FieldsOverlap == Spec => []FieldsOfOverlapping
  <1>1. DocInv => FieldsOfOverlapping
    <2> SUFFICES ASSUME DocInv, NEW r \in SavedByMetax, NEW f \in FieldsOf(r)
                 PROVE  /\ saved[r][f] \in {r} \cup met[r]
                        /\ request[saved[r][f]].schema = request[r].schema
      BY DEF FieldsOfOverlapping, FieldsOf
    <2>1. saved[r][f] \in Fresh(r)
      BY DEF SavedByMetax, DocInv, SavedSound
    <2> QED BY <2>1 DEF Fresh
  <1> QED BY <1>1, DocumentsInvariant, PTL

(* No document is stored that closes a draft or sets what only Metax sets, *)
(* although the request that is answered may not be the one whose values   *)
(* are stored (ValidateCreated is of the document).                        *)
THEOREM StoredIsValid == Spec => []SavedIsValid
  <1>1. DocInv => SavedIsValid
    BY DEF SavedIsValid, SavedByMetax, DocInv, SavedSound
  <1> QED BY <1>1, DocumentsInvariant, PTL
=============================================================================
