--------------------------- MODULE SessionsProofs ---------------------------
(***************************************************************************)
(* Safety of logins and of the check of every request, for any users,      *)
(* roles, logins and requests, and any number of faults.                   *)
(***************************************************************************)
EXTENDS Sessions, FiniteSetTheorems, TLAPS

(* A session belongs to the login that created it, and its user exists.     *)
SessionsBelong ==
  \A l \in Logins : sessions[l] # Nil =>
    /\ attempt[l].stage \in {"created", "audited", "cookie", "failed"}
    /\ sessions[l].user = attempt[l].user
    /\ users[sessions[l].user] # Nil

(* Only a cookie can be logged out, and only a cookie is sent.              *)
CookiesAreKept ==
  /\ \A l \in loggedOut : HasCookie(l)
  /\ \A r \in Requests :
       /\ request[r].stage # "idle" => request[r].cookie \in Logins /\ HasCookie(request[r].cookie)
       /\ request[r].late => request[r].stage # "idle" /\ request[r].cookie \in loggedOut

(* What the SELECT found was the cookie's authority since it was sent. *)
FoundIsHeld ==
  \A r \in Requests :
    request[r].stage = "found" => request[r].record.role \in held[r]

SuccessIsAudited ==
  \A l \in Logins :
    attempt[l].method = "dev" /\ attempt[l].stage \in {"audited", "cookie"} =>
      audit[l] # Nil /\ audit[l].outcome = "success"

(* Logins that a fault let survive their logout: their session is still not *)
(* revoked, or a late request got past the SELECT while it was not.         *)
Unrevoked == {l \in loggedOut : sessions[l] # Nil /\ ~sessions[l].revoked}
PassedLate ==
  {l \in Logins : \E r \in Requests :
     request[r].stage \in {"found", "serving"} /\ request[r].late /\ request[r].cookie = l}
Escaped == Unrevoked \cup PassedLate

(* Sessions that a fault left without a cookie. *)
Orphans ==
  {l \in Logins : attempt[l].method = "dev" /\ attempt[l].stage = "failed" /\ sessions[l] # Nil}

AtMostFaults(S) == IsFiniteSet(S) /\ Cardinality(S) <= faults

IInv ==
  /\ TypeOK
  /\ SessionsBelong
  /\ CookiesAreKept
  /\ FoundIsHeld
  /\ AuthorityWasHeld
  /\ SuccessIsAudited
  /\ AtMostFaults(Escaped)
  /\ AtMostFaults(Orphans)

(* The next-state relation, one disjunct per action. *)
LEMMA NextCases ==
  ASSUME Next
  PROVE  /\ Observe
         /\ \/ \E l \in Logins : handleDevLogin(l)
            \/ \E l \in Logins, u \in Users : handleCallback(l, u)
            \/ \E l \in Logins : UpsertUser(l)
            \/ \E l \in Logins : CreateSession(l)
            \/ \E l \in Logins : RecordLoginAudit(l)
            \/ \E l \in Logins : setSession(l)
            \/ \E l \in Logins : LoginFails(l)
            \/ \E l \in Logins : handleLogout(l)
            \/ \E l \in Logins : Expire(l)
            \/ \E u \in Users : Grant(u)
            \/ \E u \in Users : Remove(u)
            \/ \E r \in Requests : Send(r)
            \/ \E r \in Requests : GetActiveSession(r)
            \/ \E r \in Requests : requireRole(r)
            \/ \E r \in Requests : Respond(r)
            \/ \E r \in Requests : CheckFails(r)
  BY DEF Next

-----------------------------------------------------------------------------
(* Types. *)

Attempt == [stage: Stages, method: {"dev", "oidc", Nil}, user: Users \cup {Nil},
            role: Roles \cup {Nil}]
Checked == [stage: {"idle", "sent", "found", "serving"}, cookie: Logins \cup {Nil},
            need: Roles \cup {AnyRole}, record: [user: Users, role: Roles] \cup {Nil},
            late: BOOLEAN]

RowsTyped ==
  /\ users \in [Users -> Roles \cup {Nil}]
  /\ sessions \in [Logins -> Session \cup {Nil}]
  /\ audit \in [Logins -> AuditEntry \cup {Nil}]

Known(a) ==
  a.stage \in {"found", "upserted", "created", "audited", "cookie"} =>
    /\ a.user \in Users /\ a.role \in Roles
    /\ a.method \in {"dev", "oidc"}

LoginsTyped ==
  /\ attempt \in [Logins -> Attempt]
  /\ \A l \in Logins : Known(attempt[l])
  /\ loggedOut \subseteq Logins

RequestsTyped == request \in [Requests -> Checked]

HeldTyped == held \in [Requests -> SUBSET (Roles \cup {Nil})]

LEMMA TypeParts ==
  TypeOK <=> RowsTyped /\ LoginsTyped /\ RequestsTyped /\ HeldTyped /\ faults \in 0..MaxFaults
  BY DEF TypeOK, RowsTyped, LoginsTyped, Known, RequestsTyped, HeldTyped, Attempt, Checked

LEMMA InitTypeOK == Init => TypeOK
  BY FaultsAssumption DEF Init, TypeOK, Idle, Stages, AnyRole

(* One attempt, or one request, is replaced. *)
LEMMA AttemptReplaced ==
  ASSUME LoginsTyped, NEW l \in Logins, NEW a \in Attempt, Known(a),
         attempt' = [attempt EXCEPT ![l] = a], loggedOut' = loggedOut
  PROVE  LoginsTyped'
  BY DEF LoginsTyped

LEMMA AttemptSteps ==
  ASSUME LoginsTyped, NEW l \in Logins, NEW st \in Stages, Step(l, st),
         st \in {"none", "refused", "failed"}
           \/ attempt[l].stage \in {"found", "upserted", "created", "audited", "cookie"},
         loggedOut' = loggedOut
  PROVE  LoginsTyped'
<1> DEFINE a == [attempt[l] EXCEPT !.stage = st]
<1>1. a \in Attempt /\ Known(a)
  BY DEF LoginsTyped, Attempt, Known
<1>2. attempt' = [attempt EXCEPT ![l] = a]
  BY DEF Step
<1> HIDE DEF a
<1> QED
  BY <1>1, <1>2, AttemptReplaced

LEMMA IdleTyped == Idle \in Checked
  BY DEF Idle, Checked, AnyRole

LEMMA LoggingInTyped ==
  ASSUME TypeOK, NEW l \in Logins,
         \/ handleDevLogin(l) \/ (\E u \in Users : handleCallback(l, u)) \/ UpsertUser(l)
         \/ CreateSession(l) \/ RecordLoginAudit(l) \/ setSession(l) \/ LoginFails(l)
  PROVE  RowsTyped' /\ LoginsTyped' /\ RequestsTyped' /\ faults' \in 0..MaxFaults
<1>1. RowsTyped /\ LoginsTyped /\ RequestsTyped /\ faults \in 0..MaxFaults
  BY TypeParts
<1>2. attempt[l] \in Attempt
  BY <1>1 DEF LoginsTyped
<1>3. CASE handleDevLogin(l)
  <2>1. PICK a \in Attempt : Known(a) /\ attempt' = [attempt EXCEPT ![l] = a]
    BY <1>1, <1>3 DEF handleDevLogin, Attempt, Known, RowsTyped, Stages
  <2>2. LoginsTyped'
    BY <1>1, <1>3, <2>1, AttemptReplaced DEF handleDevLogin
  <2> QED
    BY <1>1, <1>3, <2>2 DEF handleDevLogin, RowsTyped, RequestsTyped
<1>4. CASE \E u \in Users : handleCallback(l, u)
  <2>1. PICK a \in Attempt : Known(a) /\ attempt' = [attempt EXCEPT ![l] = a]
    BY <1>1, <1>4 DEF handleCallback, Attempt, Known, RowsTyped, Stages
  <2>2. LoginsTyped'
    BY <1>1, <1>4, <2>1, AttemptReplaced DEF handleCallback
  <2> QED
    BY <1>1, <1>4, <2>2 DEF handleCallback, RowsTyped, RequestsTyped
<1>5. CASE UpsertUser(l)
  <2> DEFINE role == IF users[attempt[l].user] = Nil THEN attempt[l].role
                                                     ELSE users[attempt[l].user]
             a == [attempt[l] EXCEPT !.stage = "upserted", !.role = role]
  <2>1. attempt[l].user \in Users /\ attempt[l].role \in Roles
    BY <1>1, <1>5 DEF UpsertUser, LoginsTyped, Known
  <2>2. role \in Roles
    BY <1>1, <2>1 DEF RowsTyped
  <2>3. users' = [users EXCEPT ![attempt[l].user] = role]
        /\ attempt' = [attempt EXCEPT ![l] = a]
    BY <1>5 DEF UpsertUser
  <2> HIDE DEF role
  <2>4. a \in Attempt /\ Known(a)
    BY <1>1, <1>2, <1>5, <2>1, <2>2 DEF Attempt, Stages, Known, UpsertUser
  <2> HIDE DEF a
  <2>5. LoginsTyped'
    BY <1>1, <1>5, <2>3, <2>4, AttemptReplaced DEF UpsertUser
  <2>6. users' \in [Users -> Roles \cup {Nil}]
    BY <1>1, <2>2, <2>3 DEF RowsTyped
  <2>7. UNCHANGED <<sessions, audit, request, faults>>
    BY <1>5 DEF UpsertUser
  <2> QED
    BY <1>1, <2>5, <2>6, <2>7 DEF RowsTyped, RequestsTyped
<1>6. CASE CreateSession(l)
  <2>1. attempt[l].user \in Users /\ attempt[l].method \in {"dev", "oidc"}
    BY <1>1, <1>6 DEF CreateSession, LoginsTyped, Known
  <2>2. LoginsTyped'
    BY <1>1, <1>6, AttemptSteps DEF CreateSession, Stages
  <2> DEFINE s == [user |-> attempt[l].user, method |-> attempt[l].method,
                   revoked |-> FALSE, expired |-> FALSE]
  <2>3. s \in Session
    BY <2>1 DEF Session
  <2>4. sessions' = sessions \/ sessions' = [sessions EXCEPT ![l] = s]
    BY <1>6 DEF CreateSession
  <2> HIDE DEF s
  <2>5. sessions' \in [Logins -> Session \cup {Nil}]
    BY <1>1, <2>3, <2>4 DEF RowsTyped
  <2>6. UNCHANGED <<users, audit, request, faults>>
    BY <1>6 DEF CreateSession
  <2> QED
    BY <1>1, <2>2, <2>5, <2>6 DEF RowsTyped, RequestsTyped
<1>7. CASE RecordLoginAudit(l)
  <2>1. LoginsTyped'
    BY <1>1, <1>7, AttemptSteps DEF RecordLoginAudit, Stages
  <2> QED
    BY <1>1, <1>2, <1>7, <2>1 DEF RecordLoginAudit, RowsTyped, RequestsTyped, AuditEntry, Attempt
<1>8. CASE setSession(l)
  <2>1. LoginsTyped'
    BY <1>1, <1>8, AttemptSteps DEF setSession, Stages
  <2> QED
    BY <1>1, <1>8, <2>1 DEF setSession, RowsTyped, RequestsTyped
<1>9. CASE LoginFails(l)
  <2>1. LoginsTyped'
    BY <1>1, <1>9, AttemptSteps DEF LoginFails, Stages
  <2> QED
    BY <1>1, <1>9, <2>1, FaultsAssumption DEF LoginFails, RowsTyped, RequestsTyped
<1> QED
  BY <1>3, <1>4, <1>5, <1>6, <1>7, <1>8, <1>9

LEMMA SessionsChangeTyped ==
  ASSUME TypeOK, NEW l \in Logins, handleLogout(l) \/ Expire(l)
  PROVE  RowsTyped' /\ LoginsTyped' /\ RequestsTyped' /\ faults' \in 0..MaxFaults
<1>1. RowsTyped /\ LoginsTyped /\ RequestsTyped /\ faults \in 0..MaxFaults
  BY TypeParts
<1>2. UNCHANGED <<users, audit, attempt, request>> /\ loggedOut' \in {loggedOut, loggedOut \cup {l}}
  BY DEF handleLogout, Expire
<1>3. faults' \in 0..MaxFaults
  BY <1>1, FaultsAssumption DEF handleLogout, Expire
<1>4. \/ sessions' = sessions
      \/ sessions[l] # Nil /\ sessions' = [sessions EXCEPT ![l].revoked = TRUE]
      \/ sessions[l] # Nil /\ sessions' = [sessions EXCEPT ![l].expired = TRUE]
  BY DEF handleLogout, Expire
<1>5. sessions[l] # Nil => /\ [sessions[l] EXCEPT !.revoked = TRUE] \in Session
                           /\ [sessions[l] EXCEPT !.expired = TRUE] \in Session
  BY <1>1 DEF RowsTyped, Session
<1>6. sessions' \in [Logins -> Session \cup {Nil}]
  BY <1>1, <1>4, <1>5 DEF RowsTyped
<1> QED
  BY <1>1, <1>2, <1>3, <1>6 DEF RowsTyped, LoginsTyped, RequestsTyped

LEMMA AdministratorTyped ==
  ASSUME TypeOK, NEW u \in Users, Grant(u) \/ Remove(u)
  PROVE  RowsTyped' /\ LoginsTyped' /\ RequestsTyped' /\ faults' \in 0..MaxFaults
<1>1. RowsTyped /\ LoginsTyped /\ RequestsTyped /\ faults \in 0..MaxFaults
  BY TypeParts
<1>2. UNCHANGED <<attempt, loggedOut, request, faults>>
  BY DEF Grant, Remove
<1>3. CASE Grant(u)
  BY <1>1, <1>2, <1>3 DEF Grant, RowsTyped, LoginsTyped, RequestsTyped
<1>4. CASE Remove(u)
  <2>1. \A l \in Logins : audit[l] # Nil => [audit[l] EXCEPT !.user = Nil] \in AuditEntry
    BY <1>1 DEF RowsTyped, AuditEntry
  <2>2. users' \in [Users -> Roles \cup {Nil}]
    BY <1>1, <1>4 DEF Remove, RowsTyped
  <2>3. sessions' \in [Logins -> Session \cup {Nil}]
    BY <1>1, <1>4 DEF Remove, RowsTyped
  <2>4. audit' \in [Logins -> AuditEntry \cup {Nil}]
    BY <1>1, <1>4, <2>1 DEF Remove, RowsTyped
  <2> QED
    BY <1>1, <1>2, <2>2, <2>3, <2>4 DEF RowsTyped, LoginsTyped, RequestsTyped
<1> QED
  BY <1>3, <1>4

(* What a request does to its entry, and to nothing else. *)
LEMMA RequestSteps ==
  ASSUME TypeOK, CookiesAreKept, NEW r \in Requests,
         Send(r) \/ GetActiveSession(r) \/ requireRole(r) \/ Respond(r) \/ CheckFails(r)
  PROVE  /\ \E q \in Checked : request' = [request EXCEPT ![r] = q]
         /\ UNCHANGED <<users, sessions, audit, attempt, loggedOut>>
         /\ faults' \in {faults, faults + 1} /\ faults' \in 0..MaxFaults
<1>1. RowsTyped /\ LoginsTyped /\ RequestsTyped /\ faults \in 0..MaxFaults
  BY TypeParts
<1>2. UNCHANGED <<users, sessions, audit, attempt, loggedOut>>
  BY DEF Send, GetActiveSession, requireRole, Respond, CheckFails
<1>3. faults' \in {faults, faults + 1} /\ faults' \in 0..MaxFaults
  BY <1>1, FaultsAssumption DEF Send, GetActiveSession, requireRole, Respond, CheckFails
<1> SUFFICES \E q \in Checked : request' = [request EXCEPT ![r] = q]
  BY <1>2, <1>3
<1>4. request[r] \in Checked
  BY <1>1 DEF RequestsTyped
<1>5. CASE Send(r)
  <2>1. PICK l \in Logins, need \in Roles \cup {AnyRole} :
          request' = [request EXCEPT ![r] = [stage |-> "sent", cookie |-> l, need |-> need,
                                             record |-> Nil, late |-> l \in loggedOut]]
    BY <1>5 DEF Send
  <2>2. [stage |-> "sent", cookie |-> l, need |-> need, record |-> Nil,
         late |-> l \in loggedOut] \in Checked
    BY DEF Checked
  <2> QED
    BY <2>1, <2>2
<1>6. CASE GetActiveSession(r)
  <2> DEFINE l == request[r].cookie
             record == [user |-> sessions[l].user, role |-> users[sessions[l].user]]
  <2>0. l \in Logins
    BY <1>6 DEF GetActiveSession, CookiesAreKept
  <2>1. CASE ~Active(l)
    BY <1>6, <2>1, IdleTyped DEF GetActiveSession
  <2>2. CASE Active(l)
    <3>1. record \in [user: Users, role: Roles]
      BY <1>1, <2>0, <2>2 DEF Active, RowsTyped, Session
    <3>2. request' = [request EXCEPT ![r] =
                        [request[r] EXCEPT !.stage = "found", !.record = record]]
      BY <1>6, <2>2 DEF GetActiveSession
    <3> HIDE DEF record
    <3>3. [request[r] EXCEPT !.stage = "found", !.record = record] \in Checked
      BY <1>4, <3>1 DEF Checked
    <3> QED
      BY <3>2, <3>3
  <2> QED
    BY <2>1, <2>2
<1>7. CASE requireRole(r)
  <2>1. [request[r] EXCEPT !.stage = "serving"] \in Checked
    BY <1>4 DEF Checked
  <2> QED
    BY <1>7, <2>1, IdleTyped DEF requireRole
<1>8. CASE Respond(r) \/ CheckFails(r)
  BY <1>8, IdleTyped DEF Respond, CheckFails
<1> QED
  BY <1>2, <1>3, <1>5, <1>6, <1>7, <1>8

LEMMA NextTyped ==
  ASSUME TypeOK, CookiesAreKept, Next
  PROVE  RowsTyped' /\ LoginsTyped' /\ RequestsTyped' /\ faults' \in 0..MaxFaults
<1>1. CASE \E r \in Requests :
             Send(r) \/ GetActiveSession(r) \/ requireRole(r) \/ Respond(r) \/ CheckFails(r)
  <2>1. PICK r \in Requests, q \in Checked :
          /\ request' = [request EXCEPT ![r] = q]
          /\ UNCHANGED <<users, sessions, audit, attempt, loggedOut>>
          /\ faults' \in 0..MaxFaults
    BY <1>1, RequestSteps
  <2> QED
    BY <2>1, TypeParts DEF RowsTyped, LoginsTyped, RequestsTyped
<1> QED
  BY <1>1, NextCases, LoggingInTyped, SessionsChangeTyped, AdministratorTyped

-----------------------------------------------------------------------------
(* What a step does to a request and to a login. *)

Stays(r) == request'[r] = request[r]

Ends(r) == request'[r] = Idle

Sent(r) ==
  /\ request'[r].stage = "sent"
  /\ request'[r].cookie \in Logins /\ HasCookie(request'[r].cookie)
  /\ request'[r].late = (request'[r].cookie \in loggedOut)

Goes(r, stage) ==
  /\ request'[r].stage = stage
  /\ request'[r].cookie = request[r].cookie
  /\ request'[r].need = request[r].need
  /\ request'[r].late = request[r].late
  /\ UNCHANGED <<users, sessions, attempt, loggedOut>>

Found(r) ==
  /\ request[r].stage = "sent" /\ Goes(r, "found")
  /\ Active(request[r].cookie)
  /\ request'[r].record.role = Authority(request[r].cookie)

Served(r) ==
  /\ request[r].stage = "found" /\ Goes(r, "serving")
  /\ request[r].record.role = attempt[request[r].cookie].role
  /\ request[r].need \in {AnyRole, attempt[request[r].cookie].role}

LEMMA RequestMoves ==
  ASSUME TypeOK, CookiesAreKept, Next, NEW r \in Requests
  PROVE  Stays(r) \/ Ends(r) \/ Sent(r) \/ Found(r) \/ Served(r)
<1> USE TypeParts DEF RequestsTyped
<1>1. CASE UNCHANGED request
  BY <1>1 DEF Stays
<1>2. CASE \E q \in Requests : Send(q)
  BY <1>2 DEF Send, Stays, Sent
<1>3. CASE \E q \in Requests : GetActiveSession(q)
  <2>1. PICK q \in Requests : GetActiveSession(q)
    BY <1>3
  <2>2. CASE q # r
    BY <2>1, <2>2 DEF GetActiveSession, Stays
  <2>3. CASE q = r /\ ~Active(request[r].cookie)
    BY <2>1, <2>3 DEF GetActiveSession, Ends
  <2>4. CASE q = r /\ Active(request[r].cookie)
    <3> DEFINE l == request[r].cookie
               record == [user |-> sessions[l].user, role |-> users[sessions[l].user]]
    <3>1. l \in Logins
      BY <2>1, <2>4 DEF GetActiveSession, CookiesAreKept
    <3>2. record.role = Authority(l)
      BY <2>4 DEF Authority
    <3>3. request' = [request EXCEPT ![r].stage = "found", ![r].record = record]
      BY <2>1, <2>4 DEF GetActiveSession
    <3> HIDE DEF record
    <3>4. request'[r].record = record /\ Goes(r, "found")
      BY <2>1, <2>4, <3>3 DEF GetActiveSession, Goes, Checked
    <3> QED
      BY <2>1, <2>4, <3>2, <3>4 DEF GetActiveSession, Found
  <2> QED
    BY <2>2, <2>3, <2>4
<1>4. CASE \E q \in Requests : requireRole(q)
  <2>1. PICK q \in Requests : requireRole(q)
    BY <1>4
  <2>2. CASE request' = [request EXCEPT ![q] = Idle]
    BY <2>2 DEF Stays, Ends
  <2>3. CASE request' = [request EXCEPT ![q].stage = "serving"] /\ q # r
    BY <2>3 DEF Stays
  <2>4. CASE request' = [request EXCEPT ![r].stage = "serving"] /\ q = r
                /\ request' # [request EXCEPT ![r] = Idle]
    <3>1. Goes(r, "serving")
      BY <2>1, <2>4 DEF requireRole, Goes, Checked
    <3> QED
      BY <2>1, <2>4, <3>1 DEF requireRole, Served
  <2> QED
    BY <2>1, <2>2, <2>3, <2>4 DEF requireRole
<1>5. CASE \E q \in Requests : Respond(q) \/ CheckFails(q)
  BY <1>5 DEF Respond, CheckFails, Stays, Ends
<1> QED
  BY <1>1, <1>2, <1>3, <1>4, <1>5, NextCases
     DEF handleDevLogin, handleCallback, UpsertUser, CreateSession, RecordLoginAudit, setSession,
         LoginFails, handleLogout, Expire, Grant, Remove

(* A login moves by its own steps only. *)
LEMMA LoginMoves ==
  ASSUME TypeOK, Next, NEW l \in Logins, attempt'[l] # attempt[l]
  PROVE  \/ handleDevLogin(l) \/ (\E u \in Users : handleCallback(l, u)) \/ UpsertUser(l)
         \/ CreateSession(l) \/ RecordLoginAudit(l) \/ setSession(l) \/ LoginFails(l)
<1>1. attempt \in [Logins -> Attempt]
  BY TypeParts DEF LoginsTyped
<1>2. PICK m \in Logins :
        \/ handleDevLogin(m) \/ (\E u \in Users : handleCallback(m, u)) \/ UpsertUser(m)
        \/ CreateSession(m) \/ RecordLoginAudit(m) \/ setSession(m) \/ LoginFails(m)
  BY NextCases
     DEF handleLogout, Expire, Grant, Remove, Send, GetActiveSession, requireRole, Respond,
         CheckFails
<1>3. \E a : attempt' = [attempt EXCEPT ![m] = a]
  BY <1>2 DEF handleDevLogin, UpsertUser, CreateSession, RecordLoginAudit, setSession,
              LoginFails, handleCallback, Step
<1>4. m = l
  BY <1>1, <1>3
<1> QED
  BY <1>2, <1>4

(* A login that has its cookie, or has failed, is over. *)
LEMMA OverIsOver ==
  ASSUME TypeOK, Next, NEW l \in Logins, attempt[l].stage \in {"cookie", "failed"}
  PROVE  attempt'[l] = attempt[l]
  BY LoginMoves DEF handleDevLogin, UpsertUser, CreateSession, RecordLoginAudit, setSession,
                    LoginFails, handleCallback

LEMMA LoggedOutGrows ==
  ASSUME Next
  PROVE  loggedOut' = loggedOut \/ \E l \in Logins : handleLogout(l)
  BY NextCases
     DEF handleDevLogin, handleCallback, UpsertUser, CreateSession, RecordLoginAudit, setSession,
         LoginFails, Expire, Grant, Remove, Send, GetActiveSession, requireRole, Respond, CheckFails

LEMMA NextCookies ==
  ASSUME TypeOK, CookiesAreKept, Next
  PROVE  CookiesAreKept'
<1>1. \A l \in Logins : HasCookie(l) => HasCookie(l)'
  BY OverIsOver DEF HasCookie
<1>2. loggedOut \subseteq loggedOut' /\ loggedOut \subseteq Logins
  BY LoggedOutGrows, TypeParts DEF handleLogout, LoginsTyped
<1>3. \A l \in loggedOut' : HasCookie(l)'
  BY <1>1, <1>2, LoggedOutGrows DEF CookiesAreKept, handleLogout
<1>4. ASSUME NEW r \in Requests
      PROVE  (/\ request[r].stage # "idle" =>
                   request[r].cookie \in Logins /\ HasCookie(request[r].cookie)
              /\ request[r].late => request[r].stage # "idle" /\ request[r].cookie \in loggedOut)'
  <2>1. CASE Stays(r)
    BY <1>1, <1>2, <2>1 DEF Stays, CookiesAreKept, HasCookie
  <2>2. CASE Ends(r)
    BY <2>2 DEF Ends, Idle
  <2>3. CASE Sent(r)
    BY <1>1, <1>2, <2>3 DEF Sent, HasCookie
  <2>4. CASE Found(r) \/ Served(r)
    BY <1>1, <1>2, <2>4 DEF Found, Served, Goes, CookiesAreKept, HasCookie
  <2> QED
    BY <2>1, <2>2, <2>3, <2>4, RequestMoves
<1> QED
  BY <1>3, <1>4 DEF CookiesAreKept

LEMMA NextTypeOK ==
  ASSUME TypeOK, CookiesAreKept, Next
  PROVE  TypeOK'
<1>1. RowsTyped' /\ LoginsTyped' /\ RequestsTyped' /\ faults' \in 0..MaxFaults
  BY NextTyped
<1>2. ASSUME NEW r \in Requests, request'[r].stage # "idle",
             NEW l, l = request'[r].cookie
      PROVE  Authority(l)' \in Roles \cup {Nil}
  <2>1. l \in Logins
    BY <1>2, NextCookies DEF CookiesAreKept
  <2> QED
    BY <1>1, <2>1 DEF Authority, Active, RowsTyped, Session
<1>3. HeldTyped'
  <2>1. held' = [r \in Requests |->
                   IF request'[r].stage = "idle" THEN {}
                   ELSE held[r] \cup {Authority(l)' : l \in {request'[r].cookie}}]
    BY NextCases DEF Observe
  <2>2. HeldTyped
    BY TypeParts
  <2> QED
    BY <1>2, <2>1, <2>2 DEF HeldTyped
<1> QED
  BY <1>1, <1>3
     DEF TypeOK, RowsTyped, LoginsTyped, Known, RequestsTyped, HeldTyped, Attempt, Checked

-----------------------------------------------------------------------------
(* The conjuncts of the inductive invariant. *)

LEMMA NextHeld ==
  ASSUME TypeOK, CookiesAreKept, FoundIsHeld, AuthorityWasHeld, Next
  PROVE  FoundIsHeld' /\ AuthorityWasHeld'
<1>1. held' = [r \in Requests |->
                 IF request'[r].stage = "idle" THEN {}
                 ELSE held[r] \cup {Authority(l)' : l \in {request'[r].cookie}}]
  BY NextCases DEF Observe
<1>2. ASSUME NEW r \in Requests
      PROVE  (/\ request[r].stage = "found" => request[r].record.role \in held[r]
              /\ request[r].stage = "serving" =>
                   /\ attempt[request[r].cookie].role \in held[r]
                   /\ request[r].need \in {AnyRole, attempt[request[r].cookie].role})'
  <2>1. CASE Stays(r)
    <3>1. request[r].stage \in {"found", "serving"} => held[r] \subseteq held'[r]
      BY <1>1, <2>1 DEF Stays
    <3>2. request[r].stage = "serving" => attempt'[request[r].cookie] = attempt[request[r].cookie]
      BY OverIsOver DEF CookiesAreKept, HasCookie
    <3> QED
      BY <2>1, <3>1, <3>2 DEF Stays, FoundIsHeld, AuthorityWasHeld
  <2>2. CASE Ends(r)
    BY <2>2 DEF Ends, Idle
  <2>3. CASE Sent(r)
    BY <2>3 DEF Sent
  <2>4. CASE Found(r)
    <3>1. Authority(request[r].cookie) \in held'[r]
      <4>1. ASSUME NEW l PROVE Authority(l)' = Authority(l)
        BY <2>4 DEF Found, Goes, Authority, Active
      <4> QED
        BY <1>1, <2>4, <4>1 DEF Found, Goes
    <3> QED
      BY <2>4, <3>1 DEF Found, Goes
  <2>5. CASE Served(r)
    <3>1. held[r] \subseteq held'[r]
      BY <1>1, <2>5 DEF Served, Goes
    <3>2. request[r].record.role \in held[r]
      BY <2>5 DEF FoundIsHeld, Served
    <3> QED
      BY <2>5, <3>1, <3>2 DEF Served, Goes
  <2> QED
    BY <2>1, <2>2, <2>3, <2>4, <2>5, RequestMoves
<1> QED
  BY <1>2 DEF FoundIsHeld, AuthorityWasHeld

LEMMA NextAudited ==
  ASSUME TypeOK, SuccessIsAudited, Next
  PROVE  SuccessIsAudited'
<1> SUFFICES ASSUME NEW l \in Logins, attempt'[l].method = "dev",
                    attempt'[l].stage \in {"audited", "cookie"}
             PROVE  audit'[l] # Nil /\ audit'[l].outcome = "success"
  BY DEF SuccessIsAudited
<1>1. RowsTyped /\ LoginsTyped
  BY TypeParts
<1>2. CASE attempt'[l] = attempt[l] /\ audit'[l] = audit[l]
  BY <1>2 DEF SuccessIsAudited
<1>3. CASE \E m \in Logins : handleDevLogin(m) \/ UpsertUser(m) \/ CreateSession(m)
                             \/ LoginFails(m) \/ \E u \in Users : handleCallback(m, u)
  <2>1. PICK m \in Logins : handleDevLogin(m) \/ UpsertUser(m) \/ CreateSession(m)
                            \/ LoginFails(m) \/ \E u \in Users : handleCallback(m, u)
    BY <1>3
  <2>2. m # l
    BY <1>1, <2>1 DEF handleDevLogin, UpsertUser, CreateSession, LoginFails, handleCallback,
                      Step, LoginsTyped, Attempt
  <2>3. attempt'[l] = attempt[l] /\ audit' = audit
    BY <1>1, <2>1, <2>2 DEF handleDevLogin, UpsertUser, CreateSession, LoginFails,
                            handleCallback, Step, LoginsTyped
  <2> QED
    BY <1>2, <2>3
<1>4. CASE \E m \in Logins : RecordLoginAudit(m)
  <2>1. PICK m \in Logins : RecordLoginAudit(m)
    BY <1>4
  <2>2. CASE m # l
    BY <1>1, <1>2, <2>1, <2>2 DEF RecordLoginAudit, Step, LoginsTyped, RowsTyped
  <2>3. CASE m = l
    <3> DEFINE entry == [user |-> attempt[l].user, outcome |-> "success"]
    <3>1. attempt[l].stage = "created" /\ audit' = [audit EXCEPT ![l] = entry]
      BY <1>1, <2>1, <2>3 DEF RecordLoginAudit, Step, LoginsTyped, Attempt
    <3>2. entry \in AuditEntry
      BY <1>1 DEF LoginsTyped, Attempt, AuditEntry
    <3>3. audit'[l] = entry /\ entry.outcome = "success"
      BY <1>1, <3>1 DEF RowsTyped
    <3> HIDE DEF entry
    <3> QED
      BY <3>2, <3>3, NilAssumption
  <2> QED
    BY <2>2, <2>3
<1>5. CASE \E m \in Logins : setSession(m)
  <2>1. PICK m \in Logins : setSession(m)
    BY <1>5
  <2>2. attempt[l].method = "dev" /\ attempt[l].stage \in {"audited", "cookie"} /\ audit' = audit
    BY <1>1, <2>1 DEF setSession, Step, LoginsTyped, Attempt
  <2> QED
    BY <2>2 DEF SuccessIsAudited
<1>6. CASE \E u \in Users : Remove(u)
  <2>1. attempt'[l] = attempt[l]
    BY <1>6 DEF Remove
  <2>2. audit[l] # Nil /\ audit[l].outcome = "success"
    BY <2>1 DEF SuccessIsAudited
  <2>3. audit[l] \in AuditEntry
    BY <1>1, <2>2 DEF RowsTyped
  <2>4. audit'[l] \in {audit[l], [audit[l] EXCEPT !.user = Nil]}
    BY <1>6 DEF Remove
  <2>5. audit'[l] \in AuditEntry /\ audit'[l].outcome = "success"
    BY <2>2, <2>3, <2>4 DEF AuditEntry
  <2> QED
    BY <2>5, NilAssumption
<1>7. CASE UNCHANGED <<attempt, audit>>
  BY <1>2, <1>7
<1> QED
  BY <1>3, <1>4, <1>5, <1>6, <1>7, NextCases
     DEF handleLogout, Expire, Grant, Send, GetActiveSession, requireRole, Respond, CheckFails

(* A session is created once, and goes with its user. *)
LEMMA NextBelong ==
  ASSUME TypeOK, SessionsBelong, Next
  PROVE  SessionsBelong'
<1>1. RowsTyped /\ LoginsTyped
  BY TypeParts
<1> SUFFICES ASSUME NEW l \in Logins, sessions'[l] # Nil
             PROVE  /\ attempt'[l].stage \in {"created", "audited", "cookie", "failed"}
                    /\ sessions'[l].user = attempt'[l].user
                    /\ users'[sessions'[l].user] # Nil
  BY DEF SessionsBelong
<1>2. sessions[l] # Nil => /\ attempt[l].stage \in {"created", "audited", "cookie", "failed"}
                           /\ sessions[l].user = attempt[l].user
                           /\ users[sessions[l].user] # Nil
                           /\ sessions[l] \in Session
  BY <1>1 DEF SessionsBelong, RowsTyped
<1>3. CASE UNCHANGED <<users, sessions, attempt>>
  BY <1>2, <1>3
<1>4. CASE \E m \in Logins : \/ handleDevLogin(m) \/ (\E u \in Users : handleCallback(m, u))
                             \/ RecordLoginAudit(m) \/ setSession(m) \/ LoginFails(m)
  <2>1. PICK m \in Logins : \/ handleDevLogin(m) \/ (\E u \in Users : handleCallback(m, u))
                            \/ RecordLoginAudit(m) \/ setSession(m) \/ LoginFails(m)
    BY <1>4
  <2>2. UNCHANGED <<users, sessions>>
    BY <2>1 DEF handleDevLogin, handleCallback, RecordLoginAudit, setSession, LoginFails
  <2>3. attempt'[l] = attempt[l]
        \/ /\ attempt'[l].user = attempt[l].user
           /\ attempt'[l].stage \in {"audited", "cookie", "failed"}
    BY <1>1, <1>2, <2>1, <2>2
       DEF handleDevLogin, handleCallback, RecordLoginAudit, setSession, LoginFails, Step,
           LoginsTyped, Attempt
  <2> QED
    BY <1>2, <2>2, <2>3
<1>5. CASE \E m \in Logins : UpsertUser(m)
  <2>1. PICK m \in Logins : UpsertUser(m)
    BY <1>5
  <2>2. sessions' = sessions /\ m # l
    BY <1>2, <2>1 DEF UpsertUser
  <2>3. attempt'[l] = attempt[l]
    BY <1>1, <2>1, <2>2 DEF UpsertUser, LoginsTyped
  <2>4. attempt[m].role \in Roles /\ attempt[m].user \in Users
    BY <1>1, <2>1 DEF UpsertUser, LoginsTyped, Known
  <2>5. \A u \in Users : users[u] # Nil => users'[u] # Nil
    BY <1>1, <2>1, <2>4, NilAssumption DEF UpsertUser, RowsTyped
  <2> QED
    BY <1>2, <2>2, <2>3, <2>5 DEF Session
<1>6. CASE \E m \in Logins : CreateSession(m)
  <2>1. PICK m \in Logins : CreateSession(m)
    BY <1>6
  <2>2. users' = users
    BY <2>1 DEF CreateSession
  <2>3. CASE m # l
    BY <1>1, <1>2, <2>1, <2>2, <2>3 DEF CreateSession, Step, LoginsTyped, RowsTyped
  <2>4. CASE m = l
    <3>1. sessions[l] = Nil
      BY <1>2, <2>1, <2>4 DEF CreateSession
    <3>2. users[attempt[l].user] # Nil /\ Step(l, "created")
          /\ sessions' = [sessions EXCEPT ![l] = [user |-> attempt[l].user,
                            method |-> attempt[l].method, revoked |-> FALSE, expired |-> FALSE]]
      BY <2>1, <2>4, <3>1 DEF CreateSession
    <3>3. sessions'[l].user = attempt[l].user
      BY <1>1, <3>2 DEF RowsTyped
    <3>4. attempt'[l].user = attempt[l].user /\ attempt'[l].stage = "created"
      BY <1>1, <3>2 DEF Step, LoginsTyped, Attempt
    <3> QED
      BY <2>2, <3>2, <3>3, <3>4
  <2> QED
    BY <2>3, <2>4
<1>7. CASE \E m \in Logins : handleLogout(m) \/ Expire(m)
  <2>1. UNCHANGED <<users, attempt>>
    BY <1>7 DEF handleLogout, Expire
  <2>2. PICK m \in Logins :
          \/ sessions' = sessions
          \/ sessions[m] # Nil /\ sessions' = [sessions EXCEPT ![m].revoked = TRUE]
          \/ sessions[m] # Nil /\ sessions' = [sessions EXCEPT ![m].expired = TRUE]
    BY <1>7 DEF handleLogout, Expire
  <2>3. sessions[l] # Nil
    BY <1>1, <2>2 DEF RowsTyped
  <2>4. sessions'[l].user = sessions[l].user
    BY <1>1, <1>2, <2>2, <2>3 DEF RowsTyped, Session
  <2> QED
    BY <1>2, <2>1, <2>3, <2>4
<1>8. CASE \E u \in Users : Grant(u)
  <2>1. UNCHANGED <<sessions, attempt>>
    BY <1>8 DEF Grant
  <2>2. \A u \in Users : users[u] # Nil => users'[u] # Nil
    BY <1>1, <1>8, NilAssumption DEF Grant, RowsTyped
  <2> QED
    BY <1>2, <2>1, <2>2 DEF Session
<1>9. CASE \E u \in Users : Remove(u)
  <2>1. PICK u \in Users : Remove(u)
    BY <1>9
  <2>2. attempt' = attempt /\ sessions'[l] = sessions[l] /\ sessions[l].user # u
    BY <1>1, <2>1 DEF Remove, RowsTyped
  <2>3. \A v \in Users : v # u => users'[v] = users[v]
    BY <1>1, <2>1 DEF Remove, RowsTyped
  <2> QED
    BY <1>2, <2>2, <2>3 DEF Session
<1> QED
  BY <1>3, <1>4, <1>5, <1>6, <1>7, <1>8, <1>9, NextCases
     DEF Send, GetActiveSession, requireRole, Respond, CheckFails

(* A set that gains at most one member when a counter goes up. *)
LEMMA CountedGrowth ==
  ASSUME NEW S, NEW T, NEW x, NEW m \in Nat, NEW n \in Nat,
         IsFiniteSet(S), Cardinality(S) <= m, m <= n,
         T \subseteq S \/ (T \subseteq S \cup {x} /\ n = m + 1)
  PROVE  IsFiniteSet(T) /\ Cardinality(T) <= n
<1>1. CASE T \subseteq S
  <2>1. IsFiniteSet(T) /\ Cardinality(T) <= Cardinality(S)
    BY <1>1, FS_Subset
  <2>2. Cardinality(T) \in Nat /\ Cardinality(S) \in Nat
    BY <2>1, FS_CardinalityType
  <2> QED
    BY <2>1, <2>2
<1>2. CASE T \subseteq S \cup {x} /\ n = m + 1
  <2>1. IsFiniteSet(S \cup {x}) /\ Cardinality(S \cup {x}) \in {Cardinality(S), Cardinality(S) + 1}
    BY FS_AddElement
  <2>2. IsFiniteSet(T) /\ Cardinality(T) <= Cardinality(S \cup {x})
    BY <1>2, <2>1, FS_Subset
  <2>3. Cardinality(T) \in Nat /\ Cardinality(S) \in Nat
    BY <2>2, FS_CardinalityType
  <2> QED
    BY <1>2, <2>1, <2>2, <2>3
<1> QED
  BY <1>1, <1>2

LEMMA FaultsGrow ==
  ASSUME TypeOK, CookiesAreKept, Next
  PROVE  faults \in Nat /\ faults' \in Nat /\ faults <= faults'
<1>1. faults \in 0..MaxFaults /\ faults' \in 0..MaxFaults
  BY TypeParts, NextTyped
<1>2. faults' = faults \/ faults' = faults + 1
  BY NextCases
     DEF handleDevLogin, handleCallback, UpsertUser, CreateSession, RecordLoginAudit, setSession,
         LoginFails, handleLogout, Expire, Grant, Remove, Send, GetActiveSession, requireRole,
         Respond, CheckFails
<1> QED
  BY <1>1, <1>2, FaultsAssumption

(* Only a logout whose revocation fails leaves a session it should revoke. *)
LEMMA NextUnrevoked ==
  ASSUME TypeOK, CookiesAreKept, Next
  PROVE  \/ Unrevoked' \subseteq Unrevoked
         \/ faults' = faults + 1 /\ \E l \in Logins : Unrevoked' \subseteq Unrevoked \cup {l}
<1>1. RowsTyped /\ LoginsTyped
  BY TypeParts
<1>2. CASE UNCHANGED <<sessions, loggedOut>>
  BY <1>2 DEF Unrevoked
<1>3. CASE \E m \in Logins : CreateSession(m)
  <2>1. PICK m \in Logins : CreateSession(m)
    BY <1>3
  <2>2. loggedOut' = loggedOut /\ m \notin loggedOut
    BY <2>1 DEF CreateSession, CookiesAreKept, HasCookie
  <2>3. \A l \in loggedOut : sessions'[l] = sessions[l]
    BY <1>1, <2>1, <2>2 DEF CreateSession, RowsTyped, LoginsTyped
  <2> QED
    BY <2>2, <2>3 DEF Unrevoked
<1>4. CASE \E m \in Logins : handleLogout(m)
  <2>1. PICK m \in Logins : handleLogout(m)
    BY <1>4
  <2>2. loggedOut' = loggedOut \cup {m}
    BY <2>1 DEF handleLogout
  <2>3. CASE UNCHANGED sessions /\ faults' = faults + 1
    <3>1. Unrevoked' \subseteq Unrevoked \cup {m}
      BY <2>2, <2>3 DEF Unrevoked
    <3> QED
      BY <2>3, <3>1
  <2>4. CASE sessions' = IF sessions[m] = Nil THEN sessions
                         ELSE [sessions EXCEPT ![m].revoked = TRUE]
    <3>1. \A l \in loggedOut : l # m => sessions'[l] = sessions[l]
      BY <1>1, <2>4 DEF RowsTyped, LoginsTyped
    <3>2. sessions'[m] # Nil => sessions'[m].revoked
      BY <1>1, <2>4 DEF RowsTyped, Session
    <3> QED
      BY <2>2, <3>1, <3>2 DEF Unrevoked
  <2> QED
    BY <2>1, <2>3, <2>4 DEF handleLogout
<1>5. CASE \E m \in Logins : Expire(m)
  <2>1. PICK m \in Logins : Expire(m)
    BY <1>5
  <2>2. \A l \in Logins : sessions'[l] # Nil =>
          sessions[l] # Nil /\ sessions'[l].revoked = sessions[l].revoked
    BY <1>1, <2>1 DEF Expire, RowsTyped, Session
  <2>3. loggedOut' = loggedOut /\ loggedOut \subseteq Logins
    BY <1>1, <2>1 DEF Expire, LoginsTyped
  <2> QED
    BY <2>2, <2>3 DEF Unrevoked
<1>6. CASE \E u \in Users : Remove(u)
  <2>1. \A l \in Logins : sessions'[l] # Nil => sessions'[l] = sessions[l]
    BY <1>1, <1>6 DEF Remove, RowsTyped
  <2>2. loggedOut' = loggedOut /\ loggedOut \subseteq Logins
    BY <1>1, <1>6 DEF Remove, LoginsTyped
  <2> QED
    BY <2>1, <2>2 DEF Unrevoked
<1> QED
  BY <1>2, <1>3, <1>4, <1>5, <1>6, NextCases
     DEF handleDevLogin, handleCallback, UpsertUser, RecordLoginAudit, setSession, LoginFails,
         Grant, Send, GetActiveSession, requireRole, Respond, CheckFails

LEMMA NextPassedLate ==
  ASSUME TypeOK, CookiesAreKept, Next
  PROVE  PassedLate' \subseteq Escaped
<1> SUFFICES ASSUME NEW l \in Logins, NEW r \in Requests,
                    request'[r].stage \in {"found", "serving"}, request'[r].late,
                    request'[r].cookie = l
             PROVE  l \in Escaped
  BY DEF PassedLate
<1>1. CASE Stays(r) \/ Served(r)
  BY <1>1 DEF Stays, Served, Goes, PassedLate, Escaped
<1>2. CASE Ends(r)
  <2>1. Idle.stage = "idle"
    BY DEF Idle
  <2> QED
    BY <1>2, <2>1 DEF Ends
<1>4. CASE Sent(r)
  BY <1>4 DEF Sent
<1>3. CASE Found(r)
  <2>1. l = request[r].cookie /\ l \in loggedOut /\ Active(l)
    BY <1>3 DEF Found, Goes, CookiesAreKept
  <2> QED
    BY <2>1 DEF Active, Unrevoked, Escaped
<1> QED
  BY <1>1, <1>2, <1>3, <1>4, RequestMoves

LEMMA NextEscaped ==
  ASSUME TypeOK, CookiesAreKept, AtMostFaults(Escaped), Next
  PROVE  AtMostFaults(Escaped)'
<1>1. Escaped' = Unrevoked' \cup PassedLate'
  BY DEF Escaped
<1>2. Unrevoked \subseteq Escaped
  BY DEF Escaped
<1>3. \/ Escaped' \subseteq Escaped
      \/ faults' = faults + 1 /\ \E l \in Logins : Escaped' \subseteq Escaped \cup {l}
  BY <1>1, <1>2, NextUnrevoked, NextPassedLate
<1>4. faults \in Nat /\ faults' \in Nat /\ faults <= faults'
  BY FaultsGrow
<1>5. IsFiniteSet(Escaped) /\ Cardinality(Escaped) <= faults
  BY DEF AtMostFaults
<1>6. IsFiniteSet(Escaped') /\ Cardinality(Escaped') <= faults'
  BY <1>3, <1>4, <1>5, CountedGrowth
<1> QED
  BY <1>6 DEF AtMostFaults

(* Only a fault ends a development login that has its session. *)
LEMMA NextOrphans ==
  ASSUME TypeOK, SessionsBelong, CookiesAreKept, AtMostFaults(Orphans), Next
  PROVE  AtMostFaults(Orphans)'
<1>1. RowsTyped /\ LoginsTyped
  BY TypeParts
<1>2. ASSUME NEW l \in Logins, l \in Orphans', l \notin Orphans
      PROVE  LoginFails(l)
  <2>1. /\ attempt'[l].method = "dev" /\ attempt'[l].stage = "failed" /\ sessions'[l] # Nil
        /\ ~(attempt[l].method = "dev" /\ attempt[l].stage = "failed" /\ sessions[l] # Nil)
    BY <1>2 DEF Orphans
  <2>2. CASE attempt'[l] = attempt[l]
    <3>1. sessions[l] = Nil /\ attempt[l].stage = "failed"
      BY <2>1, <2>2
    <3>2. sessions'[l] = Nil
      BY <1>1, <3>1, NextCases
         DEF handleDevLogin, handleCallback, UpsertUser, CreateSession, RecordLoginAudit, setSession,
             LoginFails, handleLogout, Expire, Grant, Remove, Send, GetActiveSession, requireRole,
             Respond, CheckFails, RowsTyped
    <3> QED
      BY <2>1, <3>2
  <2>3. CASE attempt'[l] # attempt[l]
    <3>1. \/ handleDevLogin(l) \/ (\E u \in Users : handleCallback(l, u)) \/ UpsertUser(l)
          \/ CreateSession(l) \/ RecordLoginAudit(l) \/ setSession(l) \/ LoginFails(l)
      BY <2>3, LoginMoves
    <3>2. CASE handleDevLogin(l) \/ (\E u \in Users : handleCallback(l, u)) \/ UpsertUser(l)
               \/ setSession(l)
      BY <1>1, <2>1, <3>2
         DEF handleDevLogin, handleCallback, UpsertUser, setSession, Step, LoginsTyped, Attempt
    <3>3. CASE CreateSession(l)
      BY <1>1, <2>1, <3>3 DEF CreateSession, Step, LoginsTyped, Attempt
    <3>4. CASE RecordLoginAudit(l)
      <4>1. sessions[l] # Nil /\ users[attempt[l].user] # Nil /\ attempt[l].stage = "created"
        BY <2>1, <3>4 DEF RecordLoginAudit, SessionsBelong
      <4>2. Step(l, "audited")
        BY <3>4, <4>1 DEF RecordLoginAudit
      <4> QED
        BY <1>1, <2>1, <4>2 DEF Step, LoginsTyped, Attempt
    <3> QED
      BY <3>1, <3>2, <3>3, <3>4
  <2> QED
    BY <2>2, <2>3
<1>3. \/ Orphans' \subseteq Orphans
      \/ faults' = faults + 1 /\ \E l \in Logins : Orphans' \subseteq Orphans \cup {l}
  <2>1. CASE \E l \in Logins : LoginFails(l)
    <3>1. PICK l \in Logins : LoginFails(l)
      BY <2>1
    <3>2. \A m \in Logins : m # l => attempt'[m] = attempt[m]
      BY <1>1, <3>1 DEF LoginFails, Step, LoginsTyped
    <3>3. sessions' = sessions /\ faults' = faults + 1
      BY <3>1 DEF LoginFails
    <3>4. Orphans' \subseteq Orphans \cup {l}
      BY <3>2, <3>3 DEF Orphans
    <3> QED
      BY <3>3, <3>4
  <2>2. CASE ~\E l \in Logins : LoginFails(l)
    BY <1>2, <2>2 DEF Orphans
  <2> QED
    BY <2>1, <2>2
<1>4. faults \in Nat /\ faults' \in Nat /\ faults <= faults'
  BY FaultsGrow
<1>5. IsFiniteSet(Orphans) /\ Cardinality(Orphans) <= faults
  BY DEF AtMostFaults
<1>6. IsFiniteSet(Orphans') /\ Cardinality(Orphans') <= faults'
  BY <1>3, <1>4, <1>5, CountedGrowth
<1> QED
  BY <1>6 DEF AtMostFaults

-----------------------------------------------------------------------------
LEMMA Quiet ==
  ASSUME IInv, UNCHANGED vars
  PROVE  IInv'
<1> USE DEF vars
<1>1. TypeOK'
  BY DEF IInv, TypeOK
<1>2. SessionsBelong' /\ CookiesAreKept' /\ SuccessIsAudited'
  BY DEF IInv, SessionsBelong, CookiesAreKept, HasCookie, SuccessIsAudited
<1>3. FoundIsHeld' /\ AuthorityWasHeld'
  BY DEF IInv, FoundIsHeld, AuthorityWasHeld
<1>4. AtMostFaults(Escaped)' /\ AtMostFaults(Orphans)'
  <2>1. Escaped' = Escaped /\ Orphans' = Orphans
    BY DEF Escaped, Unrevoked, PassedLate, Orphans
  <2> QED
    BY <2>1 DEF IInv, AtMostFaults
<1> QED
  BY <1>1, <1>2, <1>3, <1>4 DEF IInv

LEMMA Initially == Init => IInv
<1> SUFFICES ASSUME Init PROVE IInv
  OBVIOUS
<1>1. TypeOK
  BY InitTypeOK
<1>2. SessionsBelong /\ CookiesAreKept /\ FoundIsHeld /\ AuthorityWasHeld /\ SuccessIsAudited
  BY DEF Init, Idle, SessionsBelong, CookiesAreKept, FoundIsHeld, AuthorityWasHeld,
         SuccessIsAudited
<1>3. Escaped = {} /\ Orphans = {}
  BY DEF Init, Idle, Escaped, Unrevoked, PassedLate, Orphans
<1>4. AtMostFaults(Escaped) /\ AtMostFaults(Orphans)
  BY <1>3, FS_EmptySet DEF Init, AtMostFaults
<1> QED
  BY <1>1, <1>2, <1>4 DEF IInv

LEMMA Always == Spec => []IInv
<1>1. IInv /\ [Next]_vars => IInv'
  BY Quiet, NextTypeOK, NextBelong, NextCookies, NextHeld, NextAudited, NextEscaped, NextOrphans
     DEF IInv
<1> QED
  BY Initially, <1>1, PTL DEF Spec

(* Rows, logins and requests keep their shape, whatever the interleaving. *)
THEOREM WellTyped == Spec => []TypeOK
  BY Always, PTL DEF IInv

(* No request runs under a role that its session did not have, at some moment *)
(* since the request was sent: not after a change of role, a removal, an      *)
(* expiry or a logout, however long the client kept its cookie.               *)
THEOREM AuthorityHeld == Spec => []AuthorityWasHeld
  BY Always, PTL DEF IInv

(* At most one cookie per fault outlives its logout. *)
THEOREM LogoutFinal == Spec => []LogoutIsFinal
<1>1. IInv => LogoutIsFinal
  <2> SUFFICES ASSUME IInv PROVE LogoutIsFinal
    OBVIOUS
  <2> DEFINE late == {request[r].cookie :
                        r \in {q \in Requests : request[q].stage = "serving" /\ request[q].late}}
  <2>1. late \subseteq Escaped
    BY DEF IInv, CookiesAreKept, Escaped, PassedLate
  <2>2. IsFiniteSet(Escaped) /\ Cardinality(Escaped) <= faults /\ faults \in Nat
    BY TypeParts DEF IInv, AtMostFaults
  <2>3. IsFiniteSet(late) /\ Cardinality(late) <= Cardinality(Escaped)
    BY <2>1, <2>2, FS_Subset
  <2>4. Cardinality(late) \in Nat /\ Cardinality(Escaped) \in Nat
    BY <2>2, <2>3, FS_CardinalityType
  <2>5. Cardinality(late) <= faults
    <3> HIDE DEF late
    <3> QED
      BY <2>2, <2>3, <2>4
  <2> QED
    BY <2>5 DEF LogoutIsFinal
<1> QED
  BY Always, <1>1, PTL

(* Every development login that got its cookie is in the audit log, and at    *)
(* most one session per fault is active without one.                          *)
THEOREM DevLoginsInAudit == Spec => []DevLoginsAudited
<1>1. IInv => DevLoginsAudited
  <2> SUFFICES ASSUME IInv PROVE DevLoginsAudited
    OBVIOUS
  <2> DEFINE dev == {l \in Logins : attempt[l].method = "dev"}
             failed == {l \in dev : attempt[l].stage = "failed" /\ Active(l)}
  <2>1. \A l \in dev : HasCookie(l) => audit[l] # Nil /\ audit[l].outcome = "success"
    BY DEF IInv, SuccessIsAudited, HasCookie
  <2>2. failed \subseteq Orphans
    BY DEF Active, Orphans
  <2>3. IsFiniteSet(Orphans) /\ Cardinality(Orphans) <= faults /\ faults \in Nat
    BY TypeParts DEF IInv, AtMostFaults
  <2>4. IsFiniteSet(failed) /\ Cardinality(failed) <= Cardinality(Orphans)
    BY <2>2, <2>3, FS_Subset
  <2>5. Cardinality(failed) \in Nat /\ Cardinality(Orphans) \in Nat
    BY <2>3, <2>4, FS_CardinalityType
  <2>6. Cardinality(failed) <= faults
    <3> HIDE DEF failed
    <3> QED
      BY <2>3, <2>4, <2>5
  <2> QED
    BY <2>1, <2>6 DEF DevLoginsAudited
<1> QED
  BY Always, <1>1, PTL

(* No login changes the role of a user, whatever role it read and when. *)
THEOREM RolesAdministered == Spec => RolesAreTheAdministrators
<1> DEFINE P == \A u \in Users : users[u] # Nil /\ users'[u] \notin {users[u], Nil} => Grant(u)
<1>1. ASSUME IInv, Next PROVE P
  <2> SUFFICES ASSUME NEW u \in Users, users[u] # Nil, users'[u] \notin {users[u], Nil}
               PROVE  Grant(u)
    OBVIOUS
  <2>1. RowsTyped
    BY <1>1, TypeParts DEF IInv
  <2>2. \/ \E v \in Users : Grant(v) \/ Remove(v)
        \/ \E l \in Logins : UpsertUser(l)
    BY <1>1, NextCases
       DEF handleDevLogin, handleCallback, CreateSession, RecordLoginAudit, setSession,
           LoginFails, handleLogout, Expire, Send, GetActiveSession, requireRole, Respond,
           CheckFails
  <2>3. ASSUME NEW l \in Logins, UpsertUser(l) PROVE FALSE
    BY <2>1, <2>3 DEF UpsertUser, RowsTyped
  <2>4. ASSUME NEW v \in Users, Grant(v) PROVE v = u
    BY <2>1, <2>4 DEF Grant, RowsTyped
  <2>5. ASSUME NEW v \in Users, Remove(v) PROVE FALSE
    BY <2>1, <2>5 DEF Remove, RowsTyped
  <2> QED
    BY <2>2, <2>3, <2>4, <2>5
<1>2. IInv /\ [Next]_vars => [P]_vars
  BY <1>1
<1> QED
  BY Always, <1>2, PTL DEF Spec, RolesAreTheAdministrators
=============================================================================
