------------------------------- MODULE Sessions -------------------------------
(***************************************************************************)
(* Logins, the users they register, the sessions they open and the proxy   *)
(* requests made in those sessions: internal/oidc, register_identity,      *)
(* internal/sessions, and the handlers of qvain-backend that use them.     *)
(*                                                                         *)
(* A person at a browser begins a login at the backend, authenticates at   *)
(* the identity provider, and comes back to the backend's callback address *)
(* with a code and the state of the login.  The callback has the code      *)
(* exchanged for the person's claims, finds or registers the person in the *)
(* identities table and opens a session, whose id becomes a cookie.        *)
(* Sessions live in the memory of the backend, users in the database.      *)
(***************************************************************************)
EXTENDS Naturals, FiniteSets

CONSTANTS
    Browsers,
    Persons,             \* subjects of the identity provider
    OldProxy,            \* persons of the old proxy, whose subject is their identity
    RequireCSCUserName,  \* set unless the backend runs in development mode
    Projects,            \* IDA projects
    States,              \* state parameters the backend makes
    Uids,                \* ids of users the backend makes
    Sids,                \* ids of sessions the backend makes
    Logins,              \* callbacks being served at the same time
    Requests,            \* proxy requests being served at the same time
    Parallel,            \* whether a person may have two logins served at a time
    None                 \* a missing value

ASSUME SessionsAssumption ==
    /\ OldProxy \subseteq Persons
    /\ RequireCSCUserName \in BOOLEAN
    /\ Parallel \in BOOLEAN
    /\ None \notin Browsers \cup Persons \cup Projects \cup States \cup Uids \cup Sids

VARIABLES
    identities,   \* the identities table: user id -> external identity
    sessions,     \* the session manager's cache: session id -> session
    stateCookie,  \* the state cookie of each browser
    sidCookie,    \* the session cookie of each browser
    codes,        \* codes of the identity provider that were not exchanged yet
    begun,        \* history: the browser each state was made for
    opened,       \* history: the login each session id was made for
    uids,         \* the user ids made so far
    login,        \* the local state of each callback
    proxied       \* the local state of each proxy request

vars == <<identities, sessions, stateCookie, sidCookie, codes, begun, opened, uids,
          login, proxied>>

-----------------------------------------------------------------------------
(* Values.                                                                 *)

Identity == [person : Persons, csc : BOOLEAN]

Claims == [person : Persons, csc : BOOLEAN, org : BOOLEAN, projects : SUBSET Projects]

Code == [state : States, person : Persons]

Session == [uid : Uids, identity : Identity, projects : SUBSET Projects]

NoCode == [state |-> None, person |-> None]

NoClaims == [person |-> None, csc |-> FALSE, org |-> FALSE, projects |-> {}]

NoSession == [uid |-> None, identity |-> None, projects |-> {}]

LoginIdle == [pc |-> "idle", browser |-> None, code |-> NoCode, claims |-> NoClaims,
              uid |-> None, sid |-> None]

ProxyIdle == [pc |-> "idle", sid |-> None, browser |-> None, by |-> NoSession,
              reach |-> {}, content |-> {}]

LoginPCs == {"idle", "exchanging", "registering", "inserting", "committed", "responding"}

ProxyPCs == {"idle", "asked", "answered", "shown"}

SessionsTypeOK ==
    /\ DOMAIN identities \subseteq uids
    /\ \A u \in DOMAIN identities : identities[u] \in Identity
    /\ DOMAIN sessions \subseteq DOMAIN opened
    /\ \A sid \in DOMAIN sessions : sessions[sid] \in Session
    /\ stateCookie \in [Browsers -> States \cup {None}]
    /\ sidCookie \in [Browsers -> Sids \cup {None}]
    /\ codes \subseteq Code
    /\ DOMAIN begun \subseteq States
    /\ \A sid \in DOMAIN opened : opened[sid] \in Code
    /\ uids \subseteq Uids
    /\ \A h \in Logins :
          /\ login[h].pc \in LoginPCs
          /\ login[h].uid \in Uids \cup {None}
          /\ login[h].pc \notin {"idle", "exchanging"} => login[h].claims \in Claims
    /\ \A r \in Requests :
          /\ proxied[r].pc \in ProxyPCs
          /\ proxied[r].by \in Session \cup {NoSession}
          /\ proxied[r].content \subseteq Projects

Empty == [x \in {} |-> None]

With(f, x, v) == [y \in DOMAIN f \cup {x} |-> IF y = x THEN v ELSE f[y]]

Init ==
    /\ identities = Empty
    /\ sessions = Empty
    /\ stateCookie = [b \in Browsers |-> None]
    /\ sidCookie = [b \in Browsers |-> None]
    /\ codes = {}
    /\ begun = Empty
    /\ opened = Empty
    /\ uids = {}
    /\ login = [h \in Logins |-> LoginIdle]
    /\ proxied = [r \in Requests |-> ProxyIdle]

-----------------------------------------------------------------------------
(* The login, up to the callback.                                          *)

\* GET /api/auth/login: a new state, kept in the browser's cookie.
Auth(b) ==
    /\ \E state \in States \ DOMAIN begun :
          /\ begun' = With(begun, state, b)
          /\ stateCookie' = [stateCookie EXCEPT ![b] = state]
    /\ UNCHANGED <<identities, sessions, sidCookie, codes, opened, uids, login, proxied>>

\* The state cookie's ten minutes are over.
StateCookieExpires(b) ==
    /\ stateCookie[b] # None
    /\ stateCookie' = [stateCookie EXCEPT ![b] = None]
    /\ UNCHANGED <<identities, sessions, sidCookie, codes, begun, opened, uids, login, proxied>>

\* The identity provider authenticates somebody for a login it was asked for,
\* once for each login.
Authenticate ==
    /\ \E state \in DOMAIN begun, p \in Persons :
          /\ \A c \in codes : c.state # state
          /\ \A sid \in DOMAIN opened : opened[sid].state # state
          /\ \A h \in Logins : login[h].code.state # state
          /\ codes' = codes \cup {[state |-> state, person |-> p]}
    /\ UNCHANGED <<identities, sessions, stateCookie, sidCookie, begun, opened, uids,
                   login, proxied>>

-----------------------------------------------------------------------------
(* The callback.                                                           *)

At(h, pc) == login[h].pc = pc

\* Mutant: the state cookie is not compared.
CallbackUnchecked(h, b, code) ==
    /\ At(h, "idle")
    /\ login' = [login EXCEPT ![h] = [LoginIdle EXCEPT !.pc = "exchanging", !.browser = b,
                                                       !.code = code]]
    /\ UNCHANGED <<identities, sessions, stateCookie, sidCookie, codes, begun, opened, uids,
                   proxied>>

\* A browser opens a callback address; the state in it must be the cookie's.
\* Addresses stay in a browser's history and may be opened again.
Callback(h, b, code) ==
    /\ At(h, "idle")
    /\ stateCookie[b] = code.state
    /\ login' = [login EXCEPT ![h] = [LoginIdle EXCEPT !.pc = "exchanging", !.browser = b,
                                                       !.code = code]]
    /\ UNCHANGED <<identities, sessions, stateCookie, sidCookie, codes, begun, opened, uids,
                   proxied>>

\* The claims of the id token that the code is exchanged for.
ClaimsOf(person) ==
    {[person |-> person, csc |-> csc, org |-> org, projects |-> projects] :
        csc \in BOOLEAN, org \in BOOLEAN, projects \in SUBSET Projects}

\* The claims the session handler accepts: a CSC user name unless it is not
\* needed, and a home organisation.
Accepts(claims) ==
    /\ claims.csc \/ claims.person \in OldProxy \/ ~RequireCSCUserName
    /\ claims.org

\* A person is known by the CSC user name, or else by the subject.
identity(claims) == [person |-> claims.person, csc |-> claims.csc]

\* Whether another callback registers the same person.
Served(h, person) ==
    \E other \in Logins \ {h} : login[other].claims.person = person

Exchange(h) ==
    LET code == login[h].code IN
    /\ At(h, "exchanging")
    /\ code \in codes
    /\ Parallel \/ ~Served(h, code.person)
    /\ codes' = codes \ {code}
    /\ \E claims \in ClaimsOf(code.person) :
          login' = [login EXCEPT ![h] =
              IF Accepts(claims) THEN [@ EXCEPT !.pc = "registering", !.claims = claims]
                                 ELSE LoginIdle]
    /\ UNCHANGED <<identities, sessions, stateCookie, sidCookie, begun, opened, uids, proxied>>

\* Mutant: the table is not searched.
LookupNobody(h) == {}

\* The users a login may be taken for.
Lookup(h) == {u \in DOMAIN identities : identities[u] = identity(login[h].claims)}

\* Mutant: an error of the database is not handled, and no user is found.
RegisterIdentityUnchecked(h) ==
    /\ At(h, "registering")
    /\ login' = [login EXCEPT ![h].pc = "committed"]
    /\ UNCHANGED <<identities, sessions, stateCookie, sidCookie, codes, begun, opened, uids,
                   proxied>>

\* register_identity, its SELECT: any of the users found, or a new one.
RegisterIdentity(h) ==
    /\ At(h, "registering")
    /\ IF Lookup(h) # {}
       THEN /\ \E u \in Lookup(h) :
                  login' = [login EXCEPT ![h].pc = "committed", ![h].uid = u]
            /\ UNCHANGED uids
       ELSE \E u \in Uids \ uids :
                  /\ login' = [login EXCEPT ![h].pc = "inserting", ![h].uid = u]
                  /\ uids' = uids \cup {u}
    /\ UNCHANGED <<identities, sessions, stateCookie, sidCookie, codes, begun, opened, proxied>>

\* Mutant: the transaction is rolled back instead of committed.
InsertIdentityRolledBack(h) ==
    /\ At(h, "inserting")
    /\ login' = [login EXCEPT ![h].pc = "committed"]
    /\ UNCHANGED <<identities, sessions, stateCookie, sidCookie, codes, begun, opened, uids,
                   proxied>>

\* register_identity, its INSERT, and the commit.
InsertIdentity(h) ==
    /\ At(h, "inserting")
    /\ identities' = With(identities, login[h].uid, identity(login[h].claims))
    /\ login' = [login EXCEPT ![h].pc = "committed"]
    /\ UNCHANGED <<sessions, stateCookie, sidCookie, codes, begun, opened, uids, proxied>>

\* mgr.new and mgr.Destroy.
new(sid, session) == With(sessions, sid, session)

Destroy(sid) == [other \in DOMAIN sessions \ {sid} |-> sessions[other]]

\* The session of a login: its user, with the IDA projects of the claims.
SessionOf(h) ==
    [uid |-> login[h].uid, identity |-> identity(login[h].claims),
     projects |-> login[h].claims.projects]

\* The session is opened; its id goes to the browser with the response.
NewLogin(h) ==
    /\ At(h, "committed")
    /\ \E sid \in Sids \ DOMAIN opened :
          /\ sessions' = new(sid, SessionOf(h))
          /\ opened' = With(opened, sid, login[h].code)
          /\ login' = [login EXCEPT ![h].pc = "responding", ![h].sid = sid]
    /\ UNCHANGED <<identities, stateCookie, sidCookie, codes, begun, uids, proxied>>

SetSessionCookie(h) ==
    /\ At(h, "responding")
    /\ sidCookie' = [sidCookie EXCEPT ![login[h].browser] = login[h].sid]
    /\ login' = [login EXCEPT ![h] = LoginIdle]
    /\ UNCHANGED <<identities, sessions, stateCookie, codes, begun, opened, uids, proxied>>

\* The callback fails, or its response is lost.  A code the identity provider
\* does not know any more always fails it.
LoginFail(h) ==
    /\ ~At(h, "idle")
    /\ login' = [login EXCEPT ![h] = LoginIdle]
    /\ UNCHANGED <<identities, sessions, stateCookie, sidCookie, codes, begun, opened, uids,
                   proxied>>

-----------------------------------------------------------------------------
(* Sessions.                                                               *)

\* A request that needs a session and has none is answered 401.
HasSession(b) == sidCookie[b] \in DOMAIN sessions

\* POST /api/sessions/logout.
Logout(b) ==
    /\ sidCookie[b] # None
    /\ sessions' = Destroy(sidCookie[b])
    /\ sidCookie' = [sidCookie EXCEPT ![b] = None]
    /\ UNCHANGED <<identities, stateCookie, codes, begun, opened, uids, login, proxied>>

\* Nobody used the session for two hours.
SessionExpires(sid) ==
    /\ sessions' = Destroy(sid)
    /\ UNCHANGED <<identities, stateCookie, sidCookie, codes, begun, opened, uids, login,
                   proxied>>

-----------------------------------------------------------------------------
(* The proxy to the files of Metax.                                        *)

HasProject(session, project) == project \in session.projects

\* Every project_identifier in an answer, however deep, is of the session's projects.
\* The code looks at no more than these: an answer that leaves the field out (as a
\* request for some fields only may have it), or an error's body, passes as it is.
\* So content is the projects an answer names, none for such answers.
checkProjectIdentifier(session, content) ==
    \A project \in content : HasProject(session, project)

\* A request names one of the session's projects, or it is a change, which
\* Metax is told the session's projects for, or it may reach all files.  The
\* check of the path answers 403 and lets the request go on all the same.
ProxyRequest(r, b) ==
    LET session == sessions[sidCookie[b]] IN
    /\ proxied[r].pc = "idle"
    /\ HasSession(b)
    /\ \E reach \in {{project} : project \in {p \in Projects : HasProject(session, p)}}
                       \cup {session.projects, Projects} :
          proxied' = [proxied EXCEPT ![r] =
              [ProxyIdle EXCEPT !.pc = "asked", !.sid = sidCookie[b], !.browser = b,
                                !.by = session, !.reach = reach]]
    /\ UNCHANGED <<identities, sessions, stateCookie, sidCookie, codes, begun, opened, uids,
                   login>>

\* Metax answers with files of the projects that the request may reach.
MetaxAnswers(r) ==
    /\ proxied[r].pc = "asked"
    /\ \E content \in SUBSET proxied[r].reach :
          proxied' = [proxied EXCEPT ![r].pc = "answered", ![r].content = content]
    /\ UNCHANGED <<identities, sessions, stateCookie, sidCookie, codes, begun, opened, uids,
                   login>>

\* Mutant: the session is taken from the browser's cookie as it is now.
AnswerSessionNow(r) == sidCookie[proxied[r].browser]

\* The session the answer is checked against: the request's, looked up again.
AnswerSession(r) == proxied[r].sid

\* The answer is shown if the session is still there and all of it is of the
\* session's projects; else an error is.
ModifyResponse(r) ==
    LET sid == AnswerSession(r) IN
    /\ proxied[r].pc = "answered"
    /\ proxied' = [proxied EXCEPT ![r] =
          IF sid \in DOMAIN sessions /\ checkProjectIdentifier(sessions[sid], proxied[r].content)
          THEN [@ EXCEPT !.pc = "shown"]
          ELSE ProxyIdle]
    /\ UNCHANGED <<identities, sessions, stateCookie, sidCookie, codes, begun, opened, uids,
                   login>>

\* The answer has reached the browser, or Metax answered with an error.
ProxyEnd(r) ==
    /\ proxied[r].pc \in {"asked", "shown"}
    /\ proxied' = [proxied EXCEPT ![r] = ProxyIdle]
    /\ UNCHANGED <<identities, sessions, stateCookie, sidCookie, codes, begun, opened, uids,
                   login>>

-----------------------------------------------------------------------------
\* The backend stops: sessions and requests are gone, users and cookies stay.
Restart ==
    /\ sessions' = Empty
    /\ login' = [h \in Logins |-> LoginIdle]
    /\ proxied' = [r \in Requests |-> ProxyIdle]
    /\ UNCHANGED <<identities, stateCookie, sidCookie, codes, begun, opened, uids>>

LoginStep(h) ==
    \/ Exchange(h) \/ RegisterIdentity(h) \/ InsertIdentity(h)
    \/ NewLogin(h) \/ SetSessionCookie(h) \/ LoginFail(h)

Next ==
    \/ \E b \in Browsers :
          \/ Auth(b) \/ StateCookieExpires(b) \/ Logout(b)
          \/ \E h \in Logins, code \in codes : Callback(h, b, code)
          \/ \E r \in Requests : ProxyRequest(r, b)
    \/ Authenticate
    \/ \E h \in Logins : LoginStep(h)
    \/ \E r \in Requests : MetaxAnswers(r) \/ ModifyResponse(r) \/ ProxyEnd(r)
    \/ \E sid \in DOMAIN sessions : SessionExpires(sid)
    \/ Restart

Spec == Init /\ [][Next]_vars

-----------------------------------------------------------------------------
(* Properties.                                                             *)

(* A session is of a user the database knows, under the identity the user  *)
(* logged in with: the datasets a session may edit are its user's, through *)
(* restarts of the backend and failed registrations.                       *)
SessionsRegistered ==
    \A sid \in DOMAIN sessions :
        /\ sessions[sid].uid \in DOMAIN identities
        /\ identities[sessions[sid].uid] = sessions[sid].identity

(* An external identity is registered once, so that a person comes back to *)
(* the same datasets at each login: RegisterIdentity "allows only unique   *)
(* registrations".                                                         *)
OneUserPerIdentity ==
    \A u, v \in DOMAIN identities : identities[u] = identities[v] => u = v

(* A browser's session comes from a login that began in that browser,      *)
(* whatever other logins, of other tabs and browsers, happen meanwhile.    *)
LoginEndsWhereItBegan ==
    \A b \in Browsers : sidCookie[b] # None => begun[opened[sidCookie[b]].state] = b

(* Of the projects that answers name, the proxy shows only those of whoever *)
(* sent the request, although the session is looked up again when Metax has *)
(* answered, and the person may have logged out or in as somebody else by   *)
(* then.                                                                    *)
OnlyOwnProjectsShown ==
    \A r \in Requests :
        proxied[r].pc = "shown" => proxied[r].content \subseteq proxied[r].by.projects
===============================================================================
