--------------------------- MODULE SessionsProofs ---------------------------
(***************************************************************************)
(* Proofs about Sessions, for any browsers, persons, projects and numbers  *)
(* of callbacks and proxy requests: type correctness, whose session a      *)
(* session is, where it came from and what it shows, and that a person is  *)
(* registered once if the person's logins are served one at a time.        *)
(***************************************************************************)
EXTENDS Sessions, TLAPS

-----------------------------------------------------------------------------
(* The inductive invariant.                                                *)

LoginStates ==
    [pc      : LoginPCs,
     browser : Browsers \cup {None},
     code    : Code \cup {NoCode},
     claims  : Claims \cup {NoClaims},
     uid     : Uids \cup {None},
     sid     : Sids \cup {None}]

ProxyStates ==
    [pc      : ProxyPCs,
     sid     : Sids \cup {None},
     browser : Browsers \cup {None},
     by      : Session \cup {NoSession},
     reach   : SUBSET Projects,
     content : SUBSET Projects]

Typed ==
    /\ SessionsTypeOK
    /\ DOMAIN opened \subseteq Sids
    /\ login \in [Logins -> LoginStates]
    /\ proxied \in [Requests -> ProxyStates]

\* A login that is being served has come back to the browser where it began.
LoginsBegun ==
    /\ \A h \in Logins : ~At(h, "idle") =>
          /\ login[h].code \in Code
          /\ login[h].browser \in Browsers
          /\ login[h].code.state \in DOMAIN begun
          /\ begun[login[h].code.state] = login[h].browser
    /\ \A c \in codes : c.state \in DOMAIN begun
    /\ \A b \in Browsers : stateCookie[b] # None =>
          /\ stateCookie[b] \in DOMAIN begun
          /\ begun[stateCookie[b]] = b

\* So has one whose session was opened.
SessionsBegun ==
    /\ \A sid \in DOMAIN opened : opened[sid].state \in DOMAIN begun
    /\ \A h \in Logins : At(h, "responding") =>
          /\ login[h].sid \in DOMAIN opened
          /\ opened[login[h].sid] = login[h].code
    /\ \A b \in Browsers : sidCookie[b] # None =>
          /\ sidCookie[b] \in DOMAIN opened
          /\ begun[opened[sidCookie[b]].state] = b

\* The user of a login is in the table, or on the way there.
LoginsRegistered ==
    /\ \A h \in Logins : At(h, "committed") =>
          /\ login[h].uid \in DOMAIN identities
          /\ identities[login[h].uid] = identity(login[h].claims)
    /\ \A h \in Logins : At(h, "inserting") => login[h].uid \in uids \ DOMAIN identities
    /\ \A h, k \in Logins : At(h, "inserting") /\ At(k, "inserting") /\ login[h].uid = login[k].uid
                               => h = k

\* The session of a proxy request, if it is still there, is as it was.
ProxiedBy ==
    \A r \in Requests : proxied[r].pc # "idle" =>
        /\ proxied[r].by \in Session
        /\ proxied[r].sid \in DOMAIN opened
        /\ proxied[r].sid \in DOMAIN sessions => sessions[proxied[r].sid] = proxied[r].by

SessionsInv ==
    /\ Typed
    /\ LoginsBegun
    /\ SessionsBegun
    /\ LoginsRegistered
    /\ SessionsRegistered
    /\ ProxiedBy
    /\ OnlyOwnProjectsShown

\* One login of a person is served at a time, from its claims on.
OneAtATime ==
    \A h, k \in Logins :
        /\ ~At(h, "idle") /\ ~At(h, "exchanging")
        /\ ~At(k, "idle") /\ ~At(k, "exchanging")
        /\ login[h].claims.person = login[k].claims.person
        => h = k

\* Who is about to be inserted is not in the table.
InsertsNew ==
    \A h \in Logins : At(h, "inserting") =>
        \A u \in DOMAIN identities : identities[u] # identity(login[h].claims)

SerialInv == OneAtATime /\ InsertsNew /\ OneUserPerIdentity

-----------------------------------------------------------------------------
(* Facts used by many steps.                                               *)

USE DEF At

LEMMA LoginMoved ==
    ASSUME Typed, NEW h \in Logins, NEW l \in LoginStates, login' = [login EXCEPT ![h] = l]
    PROVE  /\ login' \in [Logins -> LoginStates]
           /\ login'[h] = l
           /\ \A k \in Logins \ {h} : login'[k] = login[k]
  BY DEF Typed

LEMMA ProxyMoved ==
    ASSUME Typed, NEW r \in Requests, NEW p \in ProxyStates, proxied' = [proxied EXCEPT ![r] = p]
    PROVE  /\ proxied' \in [Requests -> ProxyStates]
           /\ proxied'[r] = p
           /\ \A q \in Requests \ {r} : proxied'[q] = proxied[q]
  BY DEF Typed

LEMMA Idles ==
    /\ LoginIdle \in LoginStates /\ LoginIdle.pc = "idle"
    /\ ProxyIdle \in ProxyStates /\ ProxyIdle.pc = "idle" /\ ProxyIdle.content = {}
  BY DEF LoginIdle, LoginStates, LoginPCs, ProxyIdle, ProxyStates, ProxyPCs

\* A state is never None, nor is the id of a session.
LEMMA Nones == None \notin States /\ None \notin Sids
  BY SessionsAssumption

-----------------------------------------------------------------------------
(* The steps.                                                              *)

LEMMA InitInv == Init => SessionsInv
  <1> SUFFICES ASSUME Init PROVE SessionsInv
    OBVIOUS
  <1>1. DOMAIN Empty = {}
    BY DEF Empty
  <1>2. /\ \A h \in Logins : login[h] = LoginIdle
        /\ \A r \in Requests : proxied[r] = ProxyIdle
        /\ \A b \in Browsers : stateCookie[b] = None /\ sidCookie[b] = None
    BY DEF Init
  <1>3. Typed
    <2>1. /\ \A h \in Logins : /\ login[h].pc = "idle"
                               /\ login[h].uid = None
          /\ \A r \in Requests : /\ proxied[r].pc = "idle" /\ proxied[r].by = NoSession
                                 /\ proxied[r].content = {}
      BY <1>2 DEF LoginIdle, ProxyIdle
    <2>2. SessionsTypeOK
      BY <1>1, <2>1 DEF Init, SessionsTypeOK, LoginPCs, ProxyPCs
    <2> QED BY <1>1, <2>2, Idles DEF Init, Typed
  <1>4. LoginsBegun /\ SessionsBegun /\ LoginsRegistered /\ SessionsRegistered
    BY <1>1, <1>2, Idles DEF Init, LoginsBegun, SessionsBegun, LoginsRegistered,
       SessionsRegistered
  <1>5. ProxiedBy /\ OnlyOwnProjectsShown
    BY <1>2, Idles DEF ProxiedBy, OnlyOwnProjectsShown
  <1> QED BY <1>3, <1>4, <1>5 DEF SessionsInv

LEMMA AuthStep ==
    ASSUME SessionsInv, NEW b \in Browsers, Auth(b)
    PROVE  SessionsInv'
  <1>1. PICK state \in States \ DOMAIN begun :
           /\ begun' = With(begun, state, b)
           /\ stateCookie' = [stateCookie EXCEPT ![b] = state]
    BY DEF Auth
  <1>2. UNCHANGED <<identities, sessions, sidCookie, codes, opened, uids, login, proxied>>
    BY DEF Auth
  <1>3. /\ DOMAIN begun' = DOMAIN begun \cup {state} /\ begun'[state] = b
        /\ \A s \in DOMAIN begun : begun'[s] = begun[s]
    BY <1>1 DEF With
  <1>4. Typed'
    BY <1>1, <1>2, <1>3 DEF SessionsInv, Typed, SessionsTypeOK
  <1>5. LoginsBegun'
    BY <1>1, <1>2, <1>3 DEF SessionsInv, Typed, SessionsTypeOK, LoginsBegun
  <1>6. SessionsBegun'
    BY <1>2, <1>3 DEF SessionsInv, SessionsBegun
  <1>7. (LoginsRegistered /\ SessionsRegistered /\ ProxiedBy /\ OnlyOwnProjectsShown)'
    BY <1>2 DEF SessionsInv, LoginsRegistered, SessionsRegistered, ProxiedBy,
                OnlyOwnProjectsShown
  <1> QED BY <1>4, <1>5, <1>6, <1>7 DEF SessionsInv

LEMMA StateCookieExpiresStep ==
    ASSUME SessionsInv, NEW b \in Browsers, StateCookieExpires(b)
    PROVE  SessionsInv'
  <1>1. /\ stateCookie' = [stateCookie EXCEPT ![b] = None]
        /\ UNCHANGED <<identities, sessions, sidCookie, codes, begun, opened, uids, login, proxied>>
    BY DEF StateCookieExpires
  <1>2. Typed' /\ LoginsBegun'
    BY <1>1 DEF SessionsInv, Typed, SessionsTypeOK, LoginsBegun
  <1>3. (SessionsBegun /\ LoginsRegistered /\ SessionsRegistered /\ ProxiedBy
            /\ OnlyOwnProjectsShown)'
    BY <1>1 DEF SessionsInv, SessionsBegun, LoginsRegistered, SessionsRegistered, ProxiedBy,
                OnlyOwnProjectsShown
  <1> QED BY <1>2, <1>3 DEF SessionsInv

LEMMA AuthenticateStep ==
    ASSUME SessionsInv, Authenticate
    PROVE  SessionsInv'
  <1>1. PICK state \in DOMAIN begun, p \in Persons :
           codes' = codes \cup {[state |-> state, person |-> p]}
    BY DEF Authenticate
  <1>2. UNCHANGED <<identities, sessions, stateCookie, sidCookie, begun, opened, uids,
                    login, proxied>>
    BY DEF Authenticate
  <1>3. state \in States
    BY DEF SessionsInv, Typed, SessionsTypeOK
  <1>4. Typed' /\ LoginsBegun'
    BY <1>1, <1>2, <1>3 DEF SessionsInv, Typed, SessionsTypeOK, LoginsBegun, Code
  <1>5. (SessionsBegun /\ LoginsRegistered /\ SessionsRegistered /\ ProxiedBy
            /\ OnlyOwnProjectsShown)'
    BY <1>2 DEF SessionsInv, SessionsBegun, LoginsRegistered, SessionsRegistered, ProxiedBy,
                OnlyOwnProjectsShown
  <1> QED BY <1>4, <1>5 DEF SessionsInv

LEMMA LogoutStep ==
    ASSUME SessionsInv, NEW b \in Browsers, Logout(b)
    PROVE  SessionsInv'
  <1>1. /\ sessions' = Destroy(sidCookie[b])
        /\ sidCookie' = [sidCookie EXCEPT ![b] = None]
        /\ UNCHANGED <<identities, stateCookie, codes, begun, opened, uids, login, proxied>>
    BY DEF Logout
  <1>2. /\ DOMAIN sessions' \subseteq DOMAIN sessions
        /\ \A sid \in DOMAIN sessions' : sessions'[sid] = sessions[sid]
    BY <1>1 DEF Destroy
  <1>3. Typed'
    BY <1>1, <1>2 DEF SessionsInv, Typed, SessionsTypeOK
  <1>4. SessionsBegun'
    BY <1>1 DEF SessionsInv, Typed, SessionsTypeOK, SessionsBegun
  <1>5. SessionsRegistered' /\ ProxiedBy'
    BY <1>1, <1>2 DEF SessionsInv, SessionsRegistered, ProxiedBy
  <1>6. (LoginsBegun /\ LoginsRegistered /\ OnlyOwnProjectsShown)'
    BY <1>1 DEF SessionsInv, LoginsBegun, LoginsRegistered, OnlyOwnProjectsShown
  <1> QED BY <1>3, <1>4, <1>5, <1>6 DEF SessionsInv

LEMMA SessionExpiresStep ==
    ASSUME SessionsInv, NEW sid, SessionExpires(sid)
    PROVE  SessionsInv'
  <1>1. /\ sessions' = Destroy(sid)
        /\ UNCHANGED <<identities, stateCookie, sidCookie, codes, begun, opened, uids, login,
                       proxied>>
    BY DEF SessionExpires
  <1>2. /\ DOMAIN sessions' \subseteq DOMAIN sessions
        /\ \A id \in DOMAIN sessions' : sessions'[id] = sessions[id]
    BY <1>1 DEF Destroy
  <1>3. Typed'
    BY <1>1, <1>2 DEF SessionsInv, Typed, SessionsTypeOK
  <1>4. SessionsRegistered' /\ ProxiedBy'
    BY <1>1, <1>2 DEF SessionsInv, SessionsRegistered, ProxiedBy
  <1>5. (LoginsBegun /\ SessionsBegun /\ LoginsRegistered /\ OnlyOwnProjectsShown)'
    BY <1>1 DEF SessionsInv, LoginsBegun, SessionsBegun, LoginsRegistered, OnlyOwnProjectsShown
  <1> QED BY <1>3, <1>4, <1>5 DEF SessionsInv

LEMMA RestartStep ==
    ASSUME SessionsInv, Restart
    PROVE  SessionsInv'
  <1>1. /\ sessions' = Empty /\ DOMAIN Empty = {}
        /\ \A h \in Logins : login'[h] = LoginIdle
        /\ \A r \in Requests : proxied'[r] = ProxyIdle
        /\ UNCHANGED <<identities, stateCookie, sidCookie, codes, begun, opened, uids>>
    BY DEF Restart, Empty
  <1>2. /\ \A h \in Logins : login'[h].pc = "idle" /\ login'[h].uid = None
        /\ \A r \in Requests : /\ proxied'[r].pc = "idle" /\ proxied'[r].by = NoSession
                               /\ proxied'[r].content = {}
    BY <1>1 DEF LoginIdle, ProxyIdle
  <1>3. Typed'
    <2>1. login' \in [Logins -> LoginStates] /\ proxied' \in [Requests -> ProxyStates]
      BY Idles DEF Restart
    <2>2. SessionsTypeOK'
      BY <1>1, <1>2 DEF SessionsInv, Typed, SessionsTypeOK, LoginPCs, ProxyPCs
    <2> QED BY <1>1, <2>1, <2>2 DEF SessionsInv, Typed
  <1>4. (LoginsBegun /\ SessionsBegun)'
    BY <1>1, <1>2 DEF SessionsInv, LoginsBegun, SessionsBegun
  <1>5. (LoginsRegistered /\ SessionsRegistered)'
    BY <1>1, <1>2 DEF LoginsRegistered, SessionsRegistered
  <1>6. (ProxiedBy /\ OnlyOwnProjectsShown)'
    BY <1>2 DEF ProxiedBy, OnlyOwnProjectsShown
  <1> QED BY <1>3, <1>4, <1>5, <1>6 DEF SessionsInv

LEMMA CallbackStep ==
    ASSUME SessionsInv, NEW h \in Logins, NEW b \in Browsers, NEW code \in codes,
           Callback(h, b, code)
    PROVE  SessionsInv'
  <1> DEFINE l == [LoginIdle EXCEPT !.pc = "exchanging", !.browser = b, !.code = code]
  <1>1. /\ stateCookie[b] = code.state
        /\ login' = [login EXCEPT ![h] = l]
        /\ UNCHANGED <<identities, sessions, stateCookie, sidCookie, codes, begun, opened, uids,
                       proxied>>
    BY DEF Callback
  <1>2. code \in Code /\ code.state \in States
    BY DEF SessionsInv, Typed, SessionsTypeOK, Code
  <1>3. /\ l \in LoginStates /\ l.pc = "exchanging" /\ l.browser = b /\ l.code = code
        /\ l.uid = None
    BY <1>2 DEF LoginIdle, LoginStates, LoginPCs
  <1> HIDE DEF l
  <1>4. /\ login' \in [Logins -> LoginStates] /\ login'[h] = l
        /\ \A k \in Logins \ {h} : login'[k] = login[k]
    BY <1>1, <1>3, LoginMoved DEF SessionsInv
  <1>5. Typed'
    BY <1>1, <1>3, <1>4 DEF SessionsInv, Typed, SessionsTypeOK, LoginPCs
  <1>6. LoginsBegun'
    <2>1. code.state \in DOMAIN begun /\ begun[code.state] = b
      BY <1>1, <1>2, Nones DEF SessionsInv, LoginsBegun
    <2> QED BY <1>1, <1>2, <1>3, <1>4, <2>1 DEF SessionsInv, LoginsBegun
  <1>7. (SessionsBegun /\ LoginsRegistered)'
    BY <1>1, <1>3, <1>4 DEF SessionsInv, SessionsBegun, LoginsRegistered
  <1>8. (SessionsRegistered /\ ProxiedBy /\ OnlyOwnProjectsShown)'
    BY <1>1 DEF SessionsInv, SessionsRegistered, ProxiedBy, OnlyOwnProjectsShown
  <1> QED BY <1>5, <1>6, <1>7, <1>8 DEF SessionsInv

\* A login that ends without a session.
LEMMA LoginEnds ==
    ASSUME SessionsInv, NEW h \in Logins, login' = [login EXCEPT ![h] = LoginIdle],
           codes' \subseteq codes,
           UNCHANGED <<identities, sessions, stateCookie, sidCookie, begun, opened, uids, proxied>>
    PROVE  SessionsInv'
  <1>1. /\ login' \in [Logins -> LoginStates] /\ login'[h].pc = "idle" /\ login'[h].uid = None
        /\ \A k \in Logins \ {h} : login'[k] = login[k]
    BY Idles, LoginMoved DEF SessionsInv, LoginIdle
  <1>2. Typed'
    BY <1>1 DEF SessionsInv, Typed, SessionsTypeOK, LoginPCs
  <1>3. (LoginsBegun /\ SessionsBegun /\ LoginsRegistered)'
    BY <1>1 DEF SessionsInv, LoginsBegun, SessionsBegun, LoginsRegistered
  <1>4. (SessionsRegistered /\ ProxiedBy /\ OnlyOwnProjectsShown)'
    BY DEF SessionsInv, SessionsRegistered, ProxiedBy, OnlyOwnProjectsShown
  <1> QED BY <1>2, <1>3, <1>4 DEF SessionsInv

LEMMA LoginFailStep ==
    ASSUME SessionsInv, NEW h \in Logins, LoginFail(h)
    PROVE  SessionsInv'
  BY LoginEnds DEF LoginFail

\* The claims that are accepted are claims, of the person whom the code is of.
LEMMA Exchanged ==
    ASSUME SessionsInv, NEW h \in Logins, Exchange(h)
    PROVE  /\ codes' \subseteq codes
           /\ UNCHANGED <<identities, sessions, stateCookie, sidCookie, begun, opened, uids, proxied>>
           /\ \/ login' = [login EXCEPT ![h] = LoginIdle]
              \/ \E claims \in Claims :
                    /\ login' = [login EXCEPT
                          ![h] = [login[h] EXCEPT !.pc = "registering", !.claims = claims]]
                    /\ claims.person = login[h].code.person
                    /\ Parallel \/ ~Served(h, claims.person)
           /\ At(h, "exchanging")
  <1>1. PICK claims \in ClaimsOf(login[h].code.person) :
           login' = [login EXCEPT ![h] =
              IF Accepts(claims) THEN [login[h] EXCEPT !.pc = "registering", !.claims = claims]
                                 ELSE LoginIdle]
    BY DEF Exchange
  <1>2. login[h].code.person \in Persons
    BY DEF Exchange, SessionsInv, Typed, SessionsTypeOK, Code
  <1>3. claims \in Claims /\ claims.person = login[h].code.person
    BY <1>2 DEF ClaimsOf, Claims
  <1> QED BY <1>1, <1>3 DEF Exchange

LEMMA ExchangeStep ==
    ASSUME SessionsInv, NEW h \in Logins, Exchange(h)
    PROVE  SessionsInv'
  <1>1. CASE login' = [login EXCEPT ![h] = LoginIdle]
    BY <1>1, Exchanged, LoginEnds
  <1>2. ASSUME NEW claims \in Claims,
               login' = [login EXCEPT
                  ![h] = [login[h] EXCEPT !.pc = "registering", !.claims = claims]]
        PROVE  SessionsInv'
    <2> DEFINE l == [login[h] EXCEPT !.pc = "registering", !.claims = claims]
    <2>1. login[h] \in LoginStates /\ At(h, "exchanging")
      BY Exchanged DEF SessionsInv, Typed
    <2>2. /\ l \in LoginStates /\ l.pc = "registering" /\ l.claims = claims
          /\ l.browser = login[h].browser /\ l.code = login[h].code /\ l.uid = login[h].uid
      BY <2>1 DEF LoginStates, LoginPCs
    <2> HIDE DEF l
    <2>3. /\ login' \in [Logins -> LoginStates] /\ login'[h] = l
          /\ \A k \in Logins \ {h} : login'[k] = login[k]
      BY <1>2, <2>2, LoginMoved DEF SessionsInv, l
    <2>4. /\ codes' \subseteq codes
          /\ UNCHANGED <<identities, sessions, stateCookie, sidCookie, begun, opened, uids, proxied>>
      BY Exchanged
    <2>5. Typed'
      BY <2>2, <2>3, <2>4 DEF SessionsInv, Typed, SessionsTypeOK, LoginPCs
    <2>6. LoginsBegun'
      BY <2>1, <2>2, <2>3, <2>4 DEF SessionsInv, LoginsBegun
    <2>7. (SessionsBegun /\ LoginsRegistered)'
      BY <2>2, <2>3, <2>4 DEF SessionsInv, SessionsBegun, LoginsRegistered
    <2>8. (SessionsRegistered /\ ProxiedBy /\ OnlyOwnProjectsShown)'
      BY <2>4 DEF SessionsInv, SessionsRegistered, ProxiedBy, OnlyOwnProjectsShown
    <2> QED BY <2>5, <2>6, <2>7, <2>8 DEF SessionsInv
  <1> QED BY <1>1, <1>2, Exchanged

\* What a step of register_identity makes of the login.
LEMMA LoginOn ==
    ASSUME Typed, NEW h \in Logins, NEW pc \in {"inserting", "committed"},
           NEW uid \in Uids \cup {None},
           login' = [login EXCEPT ![h] = [login[h] EXCEPT !.pc = pc, !.uid = uid]]
    PROVE  /\ login' \in [Logins -> LoginStates]
           /\ login'[h].pc = pc /\ login'[h].uid = uid
           /\ login'[h].claims = login[h].claims /\ login'[h].code = login[h].code
           /\ login'[h].browser = login[h].browser
           /\ \A k \in Logins \ {h} : login'[k] = login[k]
  <1> DEFINE l == [login[h] EXCEPT !.pc = pc, !.uid = uid]
  <1>1. login[h] \in LoginStates
    BY DEF Typed
  <1>2. /\ l \in LoginStates /\ l.pc = pc /\ l.uid = uid /\ l.claims = login[h].claims
        /\ l.code = login[h].code /\ l.browser = login[h].browser
    BY <1>1 DEF LoginStates, LoginPCs
  <1>3. login' = [login EXCEPT ![h] = l]
    OBVIOUS
  <1> HIDE DEF l
  <1> QED BY <1>2, <1>3, LoginMoved

LEMMA RegisterIdentityStep ==
    ASSUME SessionsInv, NEW h \in Logins, RegisterIdentity(h)
    PROVE  SessionsInv'
  <1>1. /\ At(h, "registering") /\ login[h].claims \in Claims
        /\ UNCHANGED <<identities, sessions, stateCookie, sidCookie, codes, begun, opened, proxied>>
    BY DEF RegisterIdentity, SessionsInv, Typed, SessionsTypeOK
  <1>2. (SessionsRegistered /\ ProxiedBy /\ OnlyOwnProjectsShown)'
    BY <1>1 DEF SessionsInv, SessionsRegistered, ProxiedBy, OnlyOwnProjectsShown
  <1>3. ASSUME NEW u \in Lookup(h), UNCHANGED uids,
               login' = [login EXCEPT ![h].pc = "committed", ![h].uid = u]
        PROVE  SessionsInv'
    <2>1. u \in DOMAIN identities /\ identities[u] = identity(login[h].claims) /\ u \in Uids
      BY DEF Lookup, SessionsInv, Typed, SessionsTypeOK
    <2>2. login' = [login EXCEPT ![h] = [login[h] EXCEPT !.pc = "committed", !.uid = u]]
      BY <1>3 DEF SessionsInv, Typed
    <2>3. /\ login' \in [Logins -> LoginStates]
          /\ login'[h].pc = "committed" /\ login'[h].uid = u
          /\ login'[h].claims = login[h].claims /\ login'[h].code = login[h].code
          /\ login'[h].browser = login[h].browser
          /\ \A k \in Logins \ {h} : login'[k] = login[k]
      BY <2>1, <2>2, LoginOn DEF SessionsInv
    <2>4. Typed'
      BY <1>1, <1>3, <2>1, <2>3 DEF SessionsInv, Typed, SessionsTypeOK, LoginPCs
    <2>5. (LoginsBegun /\ SessionsBegun)'
      BY <1>1, <2>3 DEF SessionsInv, LoginsBegun, SessionsBegun
    <2>6. LoginsRegistered'
      BY <1>1, <1>3, <2>1, <2>3 DEF SessionsInv, LoginsRegistered
    <2> QED BY <1>2, <2>4, <2>5, <2>6 DEF SessionsInv
  <1>4. ASSUME NEW u \in Uids \ uids, uids' = uids \cup {u},
               login' = [login EXCEPT ![h].pc = "inserting", ![h].uid = u]
        PROVE  SessionsInv'
    <2>1. u \notin DOMAIN identities
      BY DEF SessionsInv, Typed, SessionsTypeOK
    <2>2. login' = [login EXCEPT ![h] = [login[h] EXCEPT !.pc = "inserting", !.uid = u]]
      BY <1>4 DEF SessionsInv, Typed
    <2>3. /\ login' \in [Logins -> LoginStates]
          /\ login'[h].pc = "inserting" /\ login'[h].uid = u
          /\ login'[h].claims = login[h].claims /\ login'[h].code = login[h].code
          /\ login'[h].browser = login[h].browser
          /\ \A k \in Logins \ {h} : login'[k] = login[k]
      BY <2>2, LoginOn DEF SessionsInv
    <2>4. Typed'
      BY <1>1, <1>4, <2>3 DEF SessionsInv, Typed, SessionsTypeOK, LoginPCs
    <2>5. (LoginsBegun /\ SessionsBegun)'
      BY <1>1, <2>3 DEF SessionsInv, LoginsBegun, SessionsBegun
    <2>6. LoginsRegistered'
      BY <1>1, <1>4, <2>1, <2>3 DEF SessionsInv, LoginsRegistered
    <2> QED BY <1>2, <2>4, <2>5, <2>6 DEF SessionsInv
  <1> QED BY <1>3, <1>4 DEF RegisterIdentity

LEMMA InsertIdentityStep ==
    ASSUME SessionsInv, NEW h \in Logins, InsertIdentity(h)
    PROVE  SessionsInv'
  <1> DEFINE u == login[h].uid
             id == identity(login[h].claims)
  <1>1. /\ At(h, "inserting") /\ login[h].claims \in Claims /\ u \in uids \ DOMAIN identities
        /\ login[h] \in LoginStates
        /\ UNCHANGED <<sessions, stateCookie, sidCookie, codes, begun, opened, uids, proxied>>
    BY DEF InsertIdentity, SessionsInv, Typed, SessionsTypeOK, LoginsRegistered
  <1>2. /\ DOMAIN identities' = DOMAIN identities \cup {u} /\ identities'[u] = id
        /\ \A v \in DOMAIN identities : identities'[v] = identities[v]
    BY <1>1 DEF InsertIdentity, With
  <1>3. id \in Identity
    BY <1>1 DEF identity, Identity, Claims
  <1>4. login' = [login EXCEPT ![h] = [login[h] EXCEPT !.pc = "committed", !.uid = u]]
    <2>1. login' = [login EXCEPT ![h] = [login[h] EXCEPT !.pc = "committed"]]
      BY DEF InsertIdentity, SessionsInv, Typed
    <2>2. [login[h] EXCEPT !.pc = "committed"] = [login[h] EXCEPT !.pc = "committed", !.uid = u]
      BY <1>1 DEF LoginStates
    <2> QED BY <2>1, <2>2
  <1>5. /\ login' \in [Logins -> LoginStates]
        /\ login'[h].pc = "committed" /\ login'[h].uid = u
        /\ login'[h].claims = login[h].claims /\ login'[h].code = login[h].code
        /\ login'[h].browser = login[h].browser
        /\ \A k \in Logins \ {h} : login'[k] = login[k]
    <2>1. u \in Uids \cup {None}
      BY DEF SessionsInv, Typed, LoginStates
    <2> HIDE DEF u
    <2> QED BY <1>4, <2>1, LoginOn DEF SessionsInv
  <1> HIDE DEF u, id
  <1>6. Typed'
    BY <1>1, <1>2, <1>3, <1>5 DEF SessionsInv, Typed, SessionsTypeOK, LoginPCs
  <1>7. (LoginsBegun /\ SessionsBegun)'
    BY <1>1, <1>5 DEF SessionsInv, LoginsBegun, SessionsBegun
  <1>8. LoginsRegistered'
    <2>1. \A k \in Logins \ {h} : At(k, "inserting") => login[k].uid # u
      BY <1>1 DEF SessionsInv, LoginsRegistered, u
    <2> QED BY <1>1, <1>2, <1>5, <2>1 DEF SessionsInv, LoginsRegistered, id
  <1>9. SessionsRegistered'
    BY <1>1, <1>2 DEF SessionsInv, SessionsRegistered
  <1>10. (ProxiedBy /\ OnlyOwnProjectsShown)'
    BY <1>1 DEF SessionsInv, ProxiedBy, OnlyOwnProjectsShown
  <1> QED BY <1>6, <1>7, <1>8, <1>9, <1>10 DEF SessionsInv

LEMMA NewLoginStep ==
    ASSUME SessionsInv, NEW h \in Logins, NewLogin(h)
    PROVE  SessionsInv'
  <1>1. PICK sid \in Sids \ DOMAIN opened :
           /\ sessions' = new(sid, SessionOf(h))
           /\ opened' = With(opened, sid, login[h].code)
           /\ login' = [login EXCEPT ![h].pc = "responding", ![h].sid = sid]
    BY DEF NewLogin
  <1> DEFINE l == [login[h] EXCEPT !.pc = "responding", !.sid = sid]
  <1>2. /\ At(h, "committed") /\ login[h].claims \in Claims /\ login[h] \in LoginStates
        /\ login[h].uid \in DOMAIN identities
        /\ identities[login[h].uid] = identity(login[h].claims)
        /\ login[h].code \in Code /\ login[h].code.state \in DOMAIN begun
        /\ sid \notin DOMAIN sessions
        /\ UNCHANGED <<identities, stateCookie, sidCookie, codes, begun, uids, proxied>>
    BY DEF NewLogin, SessionsInv, Typed, SessionsTypeOK, LoginsRegistered, LoginsBegun
  <1>3. /\ l \in LoginStates /\ l.pc = "responding" /\ l.sid = sid
        /\ l.claims = login[h].claims /\ l.code = login[h].code
        /\ l.browser = login[h].browser /\ l.uid = login[h].uid
    BY <1>2 DEF LoginStates, LoginPCs
  <1>4. login' = [login EXCEPT ![h] = l]
    BY <1>1 DEF SessionsInv, Typed
  <1> HIDE DEF l
  <1>5. /\ login' \in [Logins -> LoginStates] /\ login'[h] = l
        /\ \A k \in Logins \ {h} : login'[k] = login[k]
    BY <1>3, <1>4, LoginMoved DEF SessionsInv
  <1>6. /\ DOMAIN opened' = DOMAIN opened \cup {sid} /\ opened'[sid] = login[h].code
        /\ \A other \in DOMAIN opened : opened'[other] = opened[other]
    BY <1>1 DEF With
  <1>7. /\ DOMAIN sessions' = DOMAIN sessions \cup {sid} /\ sessions'[sid] = SessionOf(h)
        /\ \A other \in DOMAIN sessions : sessions'[other] = sessions[other]
    BY <1>1, <1>2 DEF new, With
  <1>8. /\ SessionOf(h) \in Session /\ SessionOf(h).uid = login[h].uid
        /\ SessionOf(h).identity = identity(login[h].claims)
    <2>1. login[h].uid \in Uids
      BY <1>2 DEF SessionsInv, Typed, SessionsTypeOK
    <2> QED BY <1>2, <2>1 DEF SessionOf, Session, identity, Identity, Claims
  <1>9. Typed'
    BY <1>1, <1>2, <1>3, <1>5, <1>6, <1>7, <1>8 DEF SessionsInv, Typed, SessionsTypeOK, LoginPCs
  <1>10. LoginsBegun'
    BY <1>2, <1>3, <1>5 DEF SessionsInv, LoginsBegun
  <1>11. SessionsBegun'
    BY <1>1, <1>2, <1>3, <1>5, <1>6 DEF SessionsInv, SessionsBegun
  <1>12. LoginsRegistered'
    BY <1>2, <1>3, <1>5 DEF SessionsInv, LoginsRegistered
  <1>13. SessionsRegistered'
    BY <1>2, <1>7, <1>8 DEF SessionsInv, SessionsRegistered
  <1>14. ProxiedBy'
    BY <1>1, <1>2, <1>6, <1>7 DEF SessionsInv, ProxiedBy
  <1>15. OnlyOwnProjectsShown'
    BY <1>2 DEF SessionsInv, OnlyOwnProjectsShown
  <1> QED BY <1>9, <1>10, <1>11, <1>12, <1>13, <1>14, <1>15 DEF SessionsInv

LEMMA SetSessionCookieStep ==
    ASSUME SessionsInv, NEW h \in Logins, SetSessionCookie(h)
    PROVE  SessionsInv'
  <1>1. /\ At(h, "responding")
        /\ sidCookie' = [sidCookie EXCEPT ![login[h].browser] = login[h].sid]
        /\ login' = [login EXCEPT ![h] = LoginIdle]
        /\ UNCHANGED <<identities, sessions, stateCookie, codes, begun, opened, uids, proxied>>
    BY DEF SetSessionCookie
  <1>2. /\ login' \in [Logins -> LoginStates] /\ login'[h].pc = "idle" /\ login'[h].uid = None
        /\ \A k \in Logins \ {h} : login'[k] = login[k]
    BY <1>1, Idles, LoginMoved DEF SessionsInv, LoginIdle
  <1>3. /\ login[h].browser \in Browsers
        /\ login[h].sid \in DOMAIN opened /\ login[h].sid \in Sids
        /\ begun[opened[login[h].sid].state] = login[h].browser
    BY <1>1 DEF SessionsInv, Typed, LoginsBegun, SessionsBegun
  <1>4. Typed'
    BY <1>1, <1>2, <1>3 DEF SessionsInv, Typed, SessionsTypeOK, LoginPCs
  <1>5. SessionsBegun'
    BY <1>1, <1>2, <1>3 DEF SessionsInv, Typed, SessionsTypeOK, SessionsBegun
  <1>6. (LoginsBegun /\ LoginsRegistered)'
    BY <1>1, <1>2 DEF SessionsInv, LoginsBegun, LoginsRegistered
  <1>7. (SessionsRegistered /\ ProxiedBy /\ OnlyOwnProjectsShown)'
    BY <1>1 DEF SessionsInv, SessionsRegistered, ProxiedBy, OnlyOwnProjectsShown
  <1> QED BY <1>4, <1>5, <1>6, <1>7 DEF SessionsInv

\* A step of a proxy request alone.
LEMMA ProxyStep ==
    ASSUME SessionsInv, NEW r \in Requests, NEW p \in ProxyStates,
           proxied' = [proxied EXCEPT ![r] = p],
           UNCHANGED <<identities, sessions, stateCookie, sidCookie, codes, begun, opened, uids,
                       login>>,
           p.pc # "idle" => /\ p.by \in Session
                            /\ p.sid \in DOMAIN opened
                            /\ p.sid \in DOMAIN sessions => sessions[p.sid] = p.by,
           p.pc = "shown" => p.content \subseteq p.by.projects
    PROVE  SessionsInv'
  <1>1. /\ proxied' \in [Requests -> ProxyStates] /\ proxied'[r] = p
        /\ \A q \in Requests \ {r} : proxied'[q] = proxied[q]
    BY ProxyMoved DEF SessionsInv
  <1>2. Typed'
    <2>1. p.pc \in ProxyPCs /\ p.by \in Session \cup {NoSession} /\ p.content \subseteq Projects
      BY DEF ProxyStates
    <2>2. SessionsTypeOK'
      BY <1>1, <2>1 DEF SessionsInv, Typed, SessionsTypeOK
    <2> QED BY <1>1, <2>2 DEF SessionsInv, Typed
  <1>3. (LoginsBegun /\ SessionsBegun /\ LoginsRegistered /\ SessionsRegistered)'
    BY DEF SessionsInv, LoginsBegun, SessionsBegun, LoginsRegistered, SessionsRegistered
  <1>4. ProxiedBy' /\ OnlyOwnProjectsShown'
    BY <1>1 DEF SessionsInv, ProxiedBy, OnlyOwnProjectsShown
  <1> QED BY <1>2, <1>3, <1>4 DEF SessionsInv

LEMMA ProxyRequestStep ==
    ASSUME SessionsInv, NEW b \in Browsers, NEW r \in Requests, ProxyRequest(r, b)
    PROVE  SessionsInv'
  <1> DEFINE s == sessions[sidCookie[b]]
  <1>1. PICK reach \in {{project} : project \in {p \in Projects : HasProject(s, p)}}
                          \cup {s.projects, Projects} :
           proxied' = [proxied EXCEPT ![r] =
              [ProxyIdle EXCEPT !.pc = "asked", !.sid = sidCookie[b], !.browser = b,
                                !.by = s, !.reach = reach]]
    BY DEF ProxyRequest
  <1>2. /\ sidCookie[b] \in DOMAIN sessions /\ sidCookie[b] \in DOMAIN opened
        /\ sidCookie[b] \in Sids /\ s \in Session
    BY DEF ProxyRequest, HasSession, SessionsInv, Typed, SessionsTypeOK
  <1>3. reach \subseteq Projects
    BY <1>2 DEF Session
  <1> DEFINE p == [ProxyIdle EXCEPT !.pc = "asked", !.sid = sidCookie[b], !.browser = b,
                                    !.by = s, !.reach = reach]
  <1>4. p \in ProxyStates /\ p.pc = "asked" /\ p.by = s /\ p.sid = sidCookie[b]
    BY <1>2, <1>3 DEF ProxyIdle, ProxyStates, ProxyPCs
  <1>5. proxied' = [proxied EXCEPT ![r] = p]
    BY <1>1
  <1>6. UNCHANGED <<identities, sessions, stateCookie, sidCookie, codes, begun, opened, uids,
                    login>>
    BY DEF ProxyRequest
  <1> HIDE DEF p
  <1> QED BY <1>2, <1>4, <1>5, <1>6, ProxyStep

LEMMA MetaxAnswersStep ==
    ASSUME SessionsInv, NEW r \in Requests, MetaxAnswers(r)
    PROVE  SessionsInv'
  <1>1. PICK content \in SUBSET proxied[r].reach :
           proxied' = [proxied EXCEPT ![r].pc = "answered", ![r].content = content]
    BY DEF MetaxAnswers
  <1> DEFINE p == [proxied[r] EXCEPT !.pc = "answered", !.content = content]
  <1>2. proxied[r] \in ProxyStates /\ proxied[r].pc = "asked"
    BY DEF MetaxAnswers, SessionsInv, Typed
  <1>3. p \in ProxyStates /\ p.pc = "answered" /\ p.by = proxied[r].by /\ p.sid = proxied[r].sid
    BY <1>2 DEF ProxyStates, ProxyPCs
  <1>4. proxied' = [proxied EXCEPT ![r] = p]
    BY <1>1 DEF SessionsInv, Typed
  <1>5. UNCHANGED <<identities, sessions, stateCookie, sidCookie, codes, begun, opened, uids,
                    login>>
    BY DEF MetaxAnswers
  <1> HIDE DEF p
  <1>6. /\ proxied[r].by \in Session /\ proxied[r].sid \in DOMAIN opened
        /\ proxied[r].sid \in DOMAIN sessions => sessions[proxied[r].sid] = proxied[r].by
    BY <1>2 DEF SessionsInv, ProxiedBy
  <1> QED BY <1>3, <1>4, <1>5, <1>6, ProxyStep

LEMMA ModifyResponseStep ==
    ASSUME SessionsInv, NEW r \in Requests, ModifyResponse(r)
    PROVE  SessionsInv'
  <1> DEFINE sid == proxied[r].sid
             p == [proxied[r] EXCEPT !.pc = "shown"]
  <1>1. /\ proxied[r] \in ProxyStates /\ proxied[r].pc = "answered"
        /\ UNCHANGED <<identities, sessions, stateCookie, sidCookie, codes, begun, opened, uids,
                       login>>
    BY DEF ModifyResponse, SessionsInv, Typed
  <1>2. CASE sid \in DOMAIN sessions /\ checkProjectIdentifier(sessions[sid], proxied[r].content)
    <2>1. /\ p \in ProxyStates /\ p.pc = "shown" /\ p.by = proxied[r].by
          /\ p.sid = proxied[r].sid /\ p.content = proxied[r].content
      BY <1>1 DEF ProxyStates, ProxyPCs
    <2>2. proxied' = [proxied EXCEPT ![r] = p]
      BY <1>2 DEF ModifyResponse, AnswerSession, SessionsInv, Typed
    <2>3. /\ proxied[r].by \in Session /\ proxied[r].sid \in DOMAIN opened
          /\ sessions[proxied[r].sid] = proxied[r].by
      BY <1>1, <1>2 DEF SessionsInv, ProxiedBy
    <2>4. proxied[r].content \subseteq proxied[r].by.projects
      BY <1>2, <2>3 DEF checkProjectIdentifier, HasProject
    <2> HIDE DEF p
    <2> QED BY <1>1, <2>1, <2>2, <2>3, <2>4, ProxyStep
  <1>3. CASE ~(sid \in DOMAIN sessions
                  /\ checkProjectIdentifier(sessions[sid], proxied[r].content))
    <2>1. proxied' = [proxied EXCEPT ![r] = ProxyIdle]
      BY <1>3 DEF ModifyResponse, AnswerSession
    <2> QED BY <1>1, <2>1, Idles, ProxyStep
  <1> QED BY <1>2, <1>3

LEMMA ProxyEndStep ==
    ASSUME SessionsInv, NEW r \in Requests, ProxyEnd(r)
    PROVE  SessionsInv'
  BY Idles, ProxyStep DEF ProxyEnd

-----------------------------------------------------------------------------
(* The theorems.                                                           *)

\* A step of the next-state relation is one of the steps above.
LEMMA NextKeeps == SessionsInv /\ [Next]_vars => SessionsInv'
  <1> SUFFICES ASSUME SessionsInv, [Next]_vars PROVE SessionsInv'
    OBVIOUS
  <1>1. CASE \E b \in Browsers :
                \/ Auth(b) \/ StateCookieExpires(b) \/ Logout(b)
                \/ \E h \in Logins, code \in codes : Callback(h, b, code)
                \/ \E r \in Requests : ProxyRequest(r, b)
    BY <1>1, AuthStep, StateCookieExpiresStep, LogoutStep, CallbackStep, ProxyRequestStep
  <1>2. CASE Authenticate
    BY <1>2, AuthenticateStep
  <1>3. CASE \E h \in Logins : LoginStep(h)
    BY <1>3, ExchangeStep, RegisterIdentityStep, InsertIdentityStep, NewLoginStep,
       SetSessionCookieStep, LoginFailStep DEF LoginStep
  <1>4. CASE \E r \in Requests : MetaxAnswers(r) \/ ModifyResponse(r) \/ ProxyEnd(r)
    BY <1>4, MetaxAnswersStep, ModifyResponseStep, ProxyEndStep
  <1>5. CASE \E sid \in DOMAIN sessions : SessionExpires(sid)
    BY <1>5, SessionExpiresStep
  <1>6. CASE Restart
    BY <1>6, RestartStep
  <1>7. CASE UNCHANGED vars
    BY <1>7 DEF vars, SessionsInv, Typed, SessionsTypeOK, LoginsBegun, SessionsBegun,
                LoginsRegistered, SessionsRegistered, ProxiedBy, OnlyOwnProjectsShown
  <1> QED BY <1>1, <1>2, <1>3, <1>4, <1>5, <1>6, <1>7 DEF Next

(* The inductive invariant of logins, sessions and proxy requests, with    *)
(* whatever fails, expires or is lost, and restarts of the backend.        *)
THEOREM SessionsInvariant == Spec => []SessionsInv
  BY InitInv, NextKeeps, PTL DEF Spec

(* Rows of the identities table, sessions and the requests being served    *)
(* are of their types.                                                     *)
THEOREM SessionsTyped == Spec => []SessionsTypeOK
  <1>1. SessionsInv => SessionsTypeOK
    BY DEF SessionsInv, Typed
  <1> QED BY <1>1, SessionsInvariant, PTL

(* A session is of a user the database knows under the identity of the     *)
(* login, however many logins register users at a time (NewLogin after     *)
(* register_identity).                                                     *)
THEOREM RegisteredSessions == Spec => []SessionsRegistered
  <1>1. SessionsInv => SessionsRegistered
    BY DEF SessionsInv
  <1> QED BY <1>1, SessionsInvariant, PTL

(* A browser's session comes from a login that began there, with any       *)
(* number of tabs and browsers (the state cookie of internal/oidc).        *)
THEOREM LoginsEndWhereTheyBegan == Spec => []LoginEndsWhereItBegan
  <1>1. SessionsInv => LoginEndsWhereItBegan
    BY DEF SessionsInv, SessionsBegun, LoginEndsWhereItBegan
  <1> QED BY <1>1, SessionsInvariant, PTL

(* The proxy shows nothing of projects the asking session does not have,   *)
(* although it looks the session up again (ModifyResponse).                *)
THEOREM OwnProjectsOnly == Spec => []OnlyOwnProjectsShown
  <1>1. SessionsInv => OnlyOwnProjectsShown
    BY DEF SessionsInv
  <1> QED BY <1>1, SessionsInvariant, PTL

-----------------------------------------------------------------------------
(* One user per identity, if a person's logins are served one at a time.   *)

\* Steps that bring no login to its claims and no user into the table.
LEMMA SerialKept ==
    ASSUME SerialInv, UNCHANGED identities,
           \A k \in Logins :
              \/ login'[k].pc \in {"idle", "exchanging"}
              \/ /\ login[k].pc \notin {"idle", "exchanging"}
                 /\ login'[k].claims = login[k].claims
                 /\ login'[k].pc = "inserting" => login[k].pc = "inserting"
    PROVE  SerialInv'
  <1>1. OneAtATime'
    BY DEF SerialInv, OneAtATime
  <1>2. InsertsNew' /\ OneUserPerIdentity'
    BY DEF SerialInv, InsertsNew, OneUserPerIdentity, identity
  <1> QED BY <1>1, <1>2 DEF SerialInv

LEMMA ExchangeSerial ==
    ASSUME ~Parallel, SessionsInv, SerialInv, NEW h \in Logins, Exchange(h)
    PROVE  SerialInv'
  <1>1. CASE login' = [login EXCEPT ![h] = LoginIdle]
    <2>1. \A k \in Logins : login'[k] = login[k] \/ login'[k].pc = "idle"
      BY <1>1 DEF SessionsInv, Typed, LoginIdle
    <2> QED BY <2>1, Exchanged, SerialKept
  <1>2. ASSUME NEW claims \in Claims, ~Served(h, claims.person),
               login' = [login EXCEPT
                  ![h] = [login[h] EXCEPT !.pc = "registering", !.claims = claims]]
        PROVE  SerialInv'
    <2>1. /\ login'[h].pc = "registering" /\ login'[h].claims = claims
          /\ \A k \in Logins \ {h} : login'[k] = login[k]
          /\ identities' = identities
      <3>1. login[h] \in LoginStates
        BY DEF SessionsInv, Typed
      <3>2. login'[h] = [login[h] EXCEPT !.pc = "registering", !.claims = claims]
        BY <1>2 DEF SessionsInv, Typed
      <3>3. login'[h].pc = "registering" /\ login'[h].claims = claims
        BY <3>1, <3>2 DEF LoginStates
      <3> QED BY <1>2, <3>3, Exchanged DEF SessionsInv, Typed
    <2>2. OneAtATime'
      BY <1>2, <2>1 DEF SerialInv, OneAtATime, Served
    <2>3. InsertsNew' /\ OneUserPerIdentity'
      BY <2>1 DEF SerialInv, InsertsNew, OneUserPerIdentity, identity
    <2> QED BY <2>2, <2>3 DEF SerialInv
  <1> QED BY <1>1, <1>2, Exchanged

LEMMA RegisterIdentitySerial ==
    ASSUME SessionsInv, SerialInv, NEW h \in Logins, RegisterIdentity(h)
    PROVE  SerialInv'
  <1>0. /\ login[h] \in LoginStates /\ At(h, "registering") /\ identities' = identities
        /\ login \in [Logins -> LoginStates]
    BY DEF RegisterIdentity, SessionsInv, Typed
  <1>1. PICK pc \in {"inserting", "committed"}, u \in Uids :
           /\ login' = [login EXCEPT ![h].pc = pc, ![h].uid = u]
           /\ pc = "inserting" => Lookup(h) = {}
    <2>1. \A u \in Lookup(h) : u \in Uids
      BY DEF Lookup, SessionsInv, Typed, SessionsTypeOK
    <2> QED BY <2>1 DEF RegisterIdentity
  <1>2. /\ login'[h].pc = pc /\ login'[h].claims = login[h].claims
        /\ \A k \in Logins \ {h} : login'[k] = login[k]
    BY <1>0, <1>1 DEF LoginStates
  <1>3. OneAtATime'
    BY <1>0, <1>2 DEF SerialInv, OneAtATime
  <1>4. InsertsNew'
    BY <1>0, <1>1, <1>2 DEF SerialInv, InsertsNew, Lookup, identity
  <1>5. OneUserPerIdentity'
    BY <1>0 DEF SerialInv, OneUserPerIdentity
  <1> QED BY <1>3, <1>4, <1>5 DEF SerialInv

LEMMA InsertIdentitySerial ==
    ASSUME SessionsInv, SerialInv, NEW h \in Logins, InsertIdentity(h)
    PROVE  SerialInv'
  <1> DEFINE u == login[h].uid
             id == identity(login[h].claims)
  <1>1. At(h, "inserting") /\ login[h] \in LoginStates /\ u \notin DOMAIN identities
    BY DEF InsertIdentity, SessionsInv, Typed, LoginsRegistered
  <1>2. /\ DOMAIN identities' = DOMAIN identities \cup {u} /\ identities'[u] = id
        /\ \A v \in DOMAIN identities : identities'[v] = identities[v]
    BY <1>1 DEF InsertIdentity, With
  <1>3. /\ login'[h].pc = "committed" /\ login'[h].claims = login[h].claims
        /\ \A k \in Logins \ {h} : login'[k] = login[k]
    BY <1>1 DEF InsertIdentity, SessionsInv, Typed, LoginStates
  <1>4. \A v \in DOMAIN identities : identities[v] # id
    BY <1>1 DEF SerialInv, InsertsNew
  <1>5. OneAtATime'
    BY <1>1, <1>3 DEF SerialInv, OneAtATime
  <1>6. InsertsNew'
    <2> SUFFICES ASSUME NEW k \in Logins, At(k, "inserting")', NEW v \in DOMAIN identities'
                 PROVE  identities'[v] # identity(login'[k].claims)
      BY DEF InsertsNew, identity
    <2>1. k # h /\ login'[k] = login[k] /\ At(k, "inserting")
      BY <1>3
    <2>2. login[k].claims.person # login[h].claims.person
      BY <1>1, <2>1 DEF SerialInv, OneAtATime
    <2>3. CASE v = u
      BY <1>2, <2>1, <2>2, <2>3 DEF identity
    <2>4. CASE v # u
      BY <1>2, <2>1, <2>4 DEF SerialInv, InsertsNew
    <2> QED BY <2>3, <2>4
  <1>7. OneUserPerIdentity'
    BY <1>2, <1>4 DEF SerialInv, OneUserPerIdentity
  <1> QED BY <1>5, <1>6, <1>7 DEF SerialInv

(* While a person's logins are served one at a time, no person is          *)
(* registered twice (register_identity): the SELECT that finds nobody and  *)
(* the INSERT may be as far apart as they like.                            *)
THEOREM OneUser ==
    ASSUME ~Parallel
    PROVE  Spec => []OneUserPerIdentity
  <1>1. Init => SerialInv
    BY DEF Init, SerialInv, OneAtATime, InsertsNew, OneUserPerIdentity, LoginIdle, Empty
  <1>2. SessionsInv /\ SerialInv /\ [Next]_vars => SerialInv'
    <2> SUFFICES ASSUME SessionsInv, SerialInv, [Next]_vars PROVE SerialInv'
      OBVIOUS
    <2>1. CASE \E h \in Logins :
                  Exchange(h) \/ RegisterIdentity(h) \/ InsertIdentity(h)
      BY <2>1, ExchangeSerial, RegisterIdentitySerial, InsertIdentitySerial
    <2>2. CASE \E h \in Logins : NewLogin(h)
      <3>1. PICK h \in Logins : NewLogin(h)
        BY <2>2
      <3>2. /\ login[h] \in LoginStates /\ login \in [Logins -> LoginStates]
            /\ At(h, "committed") /\ identities' = identities
        BY <3>1 DEF NewLogin, SessionsInv, Typed
      <3>3. /\ login'[h].pc = "responding" /\ login'[h].claims = login[h].claims
            /\ \A k \in Logins \ {h} : login'[k] = login[k]
        BY <3>1, <3>2 DEF NewLogin, LoginStates
      <3> QED BY <3>2, <3>3, SerialKept
    <2>3. CASE \E h \in Logins : SetSessionCookie(h) \/ LoginFail(h)
      <3>1. PICK h \in Logins : SetSessionCookie(h) \/ LoginFail(h)
        BY <2>3
      <3>2. \A k \in Logins : login'[k] = login[k] \/ login'[k].pc = "idle"
        BY <3>1 DEF SetSessionCookie, LoginFail, SessionsInv, Typed, LoginIdle
      <3> QED BY <3>1, <3>2, SerialKept DEF SetSessionCookie, LoginFail
    <2>4. CASE \E h \in Logins, b \in Browsers, code \in codes : Callback(h, b, code)
      <3>1. PICK h \in Logins, b \in Browsers, code \in codes : Callback(h, b, code)
        BY <2>4
      <3>2. \A k \in Logins : login'[k] = login[k] \/ login'[k].pc = "exchanging"
        BY <3>1 DEF Callback, SessionsInv, Typed, LoginIdle
      <3> QED BY <3>1, <3>2, SerialKept DEF Callback
    <2>5. CASE Restart
      <3>1. \A k \in Logins : login'[k].pc = "idle"
        BY <2>5 DEF Restart, LoginIdle
      <3> QED BY <2>5, <3>1, SerialKept DEF Restart
    <2>6. CASE UNCHANGED <<login, identities>>
      BY <2>6, SerialKept
    <2>7. \/ Authenticate \/ UNCHANGED vars
          \/ \E b \in Browsers : Auth(b) \/ StateCookieExpires(b) \/ Logout(b)
          \/ \E b \in Browsers, r \in Requests : ProxyRequest(r, b)
          \/ \E r \in Requests : MetaxAnswers(r) \/ ModifyResponse(r) \/ ProxyEnd(r)
          \/ \E sid \in DOMAIN sessions : SessionExpires(sid)
          => UNCHANGED <<login, identities>>
      BY DEF Authenticate, vars, Auth, StateCookieExpires, Logout, ProxyRequest, MetaxAnswers,
             ModifyResponse, ProxyEnd, SessionExpires
    <2> QED BY <2>1, <2>2, <2>3, <2>4, <2>5, <2>6, <2>7 DEF Next, LoginStep
  <1>3. SerialInv => OneUserPerIdentity
    BY DEF SerialInv
  <1> QED BY <1>1, <1>2, <1>3, SessionsInvariant, PTL DEF Spec
=============================================================================
