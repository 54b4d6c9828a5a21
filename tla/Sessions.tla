------------------------------ MODULE Sessions ------------------------------
(***************************************************************************)
(* Logins, sessions and the check every request passes.  A login is        *)
(* several statements: look the user up, (OIDC) refresh its row, insert    *)
(* the session, (development) audit it; then the cookie is sent.  A        *)
(* request's check is two statements and a comparison of what they gave    *)
(* with the cookie; the handler runs after it.  In between, sessions       *)
(* expire or are revoked, and an administrator changes the role of a user, *)
(* or removes the user and with it its sessions.                           *)
(*                                                                         *)
(* The cookie is sealed, so it holds what the server put in it, but the    *)
(* client may keep it and send it at any time.  A statement may fail and a *)
(* client may go away before the answer, MaxFaults times in all.           *)
(*                                                                         *)
(* A user stands for its row's id and its OIDC subject, an attempt to log  *)
(* in also for the session it creates and the cookie that names it.        *)
(***************************************************************************)
EXTENDS Integers, FiniteSets

CONSTANTS
  Users,
  Roles,
  Logins,      \* attempts to log in
  Requests,    \* requests under way at once
  DevMode,     \* RAXON_AUTH_MODE is "dev"
  MaxFaults,   \* bound on failed statements and lost answers
  Nil

(* Rows of the tables sessions and login_audit. *)
Session == [user: Users, method: {"dev", "oidc"}, revoked: BOOLEAN, expired: BOOLEAN]
AuditEntry == [user: Users \cup {Nil}, outcome: {"success", "failure"}]

ASSUME NilAssumption ==
  Nil \notin Users \cup Roles \cup Logins \cup Session \cup AuditEntry
ASSUME FaultsAssumption == MaxFaults \in Nat

VARIABLES
  users,       \* users: user -> role or Nil
  sessions,    \* sessions: login -> row or Nil
  audit,       \* login_audit: login -> row or Nil
  attempt,     \* login -> what its handler knows and has still to do
  loggedOut,   \* logins whose cookie has been sent to a logout that answered
  request,     \* request -> where its check is
  held,        \* request -> observer: authority its cookie had since it was sent
  faults

vars == <<users, sessions, audit, attempt, loggedOut, request, held, faults>>

AnyRole == "any"   \* requireAuth alone
Idle == [stage |-> "idle", cookie |-> Nil, need |-> AnyRole, record |-> Nil, late |-> FALSE]

Init ==
  /\ users \in [Users -> Roles \cup {Nil}]
  /\ sessions = [l \in Logins |-> Nil]
  /\ audit = [l \in Logins |-> Nil]
  /\ attempt = [l \in Logins |-> [stage |-> "none", method |-> Nil, user |-> Nil, role |-> Nil]]
  /\ loggedOut = {}
  /\ request = [r \in Requests |-> Idle]
  /\ held = [r \in Requests |-> {}]
  /\ faults = 0

(* Slip: the revoked columns are not looked at. *)
ActiveUnlessExpired(l) ==
  sessions[l] # Nil /\ ~sessions[l].expired /\ users[sessions[l].user] # Nil

(* The rows that the SELECT of GetActiveSession finds. *)
Active(l) ==
  /\ sessions[l] # Nil /\ ~sessions[l].revoked /\ ~sessions[l].expired
  /\ users[sessions[l].user] # Nil

-----------------------------------------------------------------------------
(* Logging in. *)

Step(l, stage) == attempt' = [attempt EXCEPT ![l].stage = stage]

(* handleDevLogin: a role that does not exist, or no user for role and       *)
(* identity; otherwise the first such user.                                  *)
handleDevLogin(l) ==
  /\ DevMode /\ attempt[l].stage = "none"
  /\ \/ attempt' = [attempt EXCEPT ![l] =
                      [stage |-> "refused", method |-> "dev", user |-> Nil, role |-> Nil]]
     \/ \E u \in Users :
          /\ users[u] # Nil
          /\ attempt' = [attempt EXCEPT ![l] =
                           [stage |-> "found", method |-> "dev", user |-> u, role |-> users[u]]]
  /\ UNCHANGED <<users, sessions, audit, loggedOut, request, faults>>

(* Slip: a subject without a user is let through. *)
handleCallbackUnchecked(l, u) ==
  /\ attempt[l].stage = "none"
  /\ attempt' = [attempt EXCEPT ![l] =
                   [stage |-> "found", method |-> "oidc", user |-> u, role |-> users[u]]]
  /\ UNCHANGED <<users, sessions, audit, loggedOut, request, faults>>

(* handleCallback, once the ID token has been verified, of subject u. *)
handleCallback(l, u) ==
  /\ attempt[l].stage = "none"
  /\ attempt' = [attempt EXCEPT ![l] =
                   [stage  |-> IF users[u] = Nil THEN "failed" ELSE "found",
                    method |-> "oidc", user |-> u, role |-> users[u]]]
  /\ UNCHANGED <<users, sessions, audit, loggedOut, request, faults>>

(* Slip: the conflict clause writes the role back, too. *)
UpsertUserWithRole(l) ==
  LET a == attempt[l]
  IN  /\ a.stage = "found" /\ a.method = "oidc"
      /\ users' = [users EXCEPT ![a.user] = a.role]
      /\ attempt' = [attempt EXCEPT ![l].stage = "upserted"]
      /\ UNCHANGED <<sessions, audit, loggedOut, request, faults>>

(* Inserts the user if it is gone by now, with the role that was read; keeps *)
(* the role of the row otherwise, and returns it.                            *)
UpsertUser(l) ==
  LET a == attempt[l]
      role == IF users[a.user] = Nil THEN a.role ELSE users[a.user]
  IN  /\ a.stage = "found" /\ a.method = "oidc"
      /\ users' = [users EXCEPT ![a.user] = role]
      /\ attempt' = [attempt EXCEPT ![l].stage = "upserted", ![l].role = role]
      /\ UNCHANGED <<sessions, audit, loggedOut, request, faults>>

(* INSERT ... SELECT FROM users: no user, no session, and an error. *)
CreateSession(l) ==
  LET a == attempt[l]
  IN  /\ a.stage = (IF a.method = "dev" THEN "found" ELSE "upserted")
      /\ IF users[a.user] # Nil
           THEN /\ sessions' = [sessions EXCEPT ![l] =
                     [user |-> a.user, method |-> a.method, revoked |-> FALSE, expired |-> FALSE]]
                /\ Step(l, "created")
           ELSE /\ Step(l, IF a.method = "dev" THEN "refused" ELSE "failed")
                /\ UNCHANGED sessions
      /\ UNCHANGED <<users, audit, loggedOut, request, faults>>

(* The row refers to its user, if it names one.  An error of the success row *)
(* ends the login, one of a failure row is ignored.                          *)
RecordLoginAudit(l) ==
  LET a == attempt[l]
      stored == a.user = Nil \/ users[a.user] # Nil
      success == a.stage = "created"
  IN  /\ a.stage \in {"created", "refused"} /\ a.method = "dev"
      /\ IF stored
           THEN audit' = [audit EXCEPT ![l] =
                            [user |-> a.user, outcome |-> IF success THEN "success" ELSE "failure"]]
           ELSE UNCHANGED audit
      /\ Step(l, IF success /\ stored THEN "audited" ELSE "failed")
      /\ UNCHANGED <<users, sessions, loggedOut, request, faults>>

(* Slip: the cookie is set before the audit entry is written. *)
setSessionEarly(l) ==
  /\ attempt[l].stage \in {"created", "audited"}
  /\ Step(l, "cookie")
  /\ UNCHANGED <<users, sessions, audit, loggedOut, request, faults>>

(* The cookie carries the session, the user and the role the handler has. *)
setSession(l) ==
  /\ attempt[l].stage = IF attempt[l].method = "dev" THEN "audited" ELSE "created"
  /\ Step(l, "cookie")
  /\ UNCHANGED <<users, sessions, audit, loggedOut, request, faults>>

(* A statement fails, or the client is gone; a development login whose       *)
(* session could not be created still records that.                          *)
LoginFails(l) ==
  /\ attempt[l].stage \in {"found", "upserted", "created", "audited", "refused"}
  /\ faults < MaxFaults
  /\ \/ Step(l, "failed")
     \/ attempt[l].stage = "found" /\ attempt[l].method = "dev" /\ Step(l, "refused")
  /\ faults' = faults + 1
  /\ UNCHANGED <<users, sessions, audit, loggedOut, request>>

-----------------------------------------------------------------------------
(* Logging out; the passing of time; the administrator (external). *)

HasCookie(l) == attempt[l].stage = "cookie"

(* handleLogout answers alike whether RevokeSession succeeds or not. *)
handleLogout(l) ==
  /\ HasCookie(l)
  /\ loggedOut' = loggedOut \cup {l}
  /\ \/ /\ sessions' = IF sessions[l] = Nil THEN sessions
                       ELSE [sessions EXCEPT ![l].revoked = TRUE]
        /\ UNCHANGED faults
     \/ /\ faults < MaxFaults /\ faults' = faults + 1
        /\ UNCHANGED sessions
  /\ UNCHANGED <<users, audit, attempt, request>>

Expire(l) ==
  /\ sessions[l] # Nil
  /\ sessions' = [sessions EXCEPT ![l].expired = TRUE]
  /\ UNCHANGED <<users, audit, attempt, loggedOut, request, faults>>

Grant(u) ==
  /\ \E role \in Roles : users' = [users EXCEPT ![u] = role]
  /\ UNCHANGED <<sessions, audit, attempt, loggedOut, request, faults>>

(* Sessions go with their user, audit entries lose it. *)
Remove(u) ==
  /\ users[u] # Nil
  /\ users' = [users EXCEPT ![u] = Nil]
  /\ sessions' = [l \in Logins |-> IF sessions[l] # Nil /\ sessions[l].user = u
                                     THEN Nil ELSE sessions[l]]
  /\ audit' = [l \in Logins |-> IF audit[l] # Nil /\ audit[l].user = u
                                  THEN [audit[l] EXCEPT !.user = Nil] ELSE audit[l]]
  /\ UNCHANGED <<attempt, loggedOut, request, faults>>

-----------------------------------------------------------------------------
(* A request. *)

Send(r) ==
  /\ request[r].stage = "idle"
  /\ \E l \in Logins, need \in Roles \cup {AnyRole} :
       /\ HasCookie(l)
       /\ request' = [request EXCEPT ![r] =
            [stage |-> "sent", cookie |-> l, need |-> need, record |-> Nil,
             late |-> l \in loggedOut]]
  /\ UNCHANGED <<users, sessions, audit, attempt, loggedOut, faults>>

(* The SELECT; session, user and role are read at one moment. *)
GetActiveSession(r) ==
  /\ request[r].stage = "sent"
  /\ LET l == request[r].cookie
     IN  request' = IF Active(l)
           THEN [request EXCEPT ![r].stage = "found",
                                ![r].record = [user |-> sessions[l].user,
                                               role |-> users[sessions[l].user]]]
           ELSE [request EXCEPT ![r] = Idle]
  /\ UNCHANGED <<users, sessions, audit, attempt, loggedOut, faults>>

(* Slip: only the user of the cookie is compared with the database. *)
requireRoleOfCookie(r) ==
  LET q == request[r]
      claims == attempt[q.cookie]
  IN  /\ q.stage = "found"
      /\ request' = IF q.record.user = claims.user /\ q.need \in {AnyRole, claims.role}
                      THEN [request EXCEPT ![r].stage = "serving"]
                      ELSE [request EXCEPT ![r] = Idle]
      /\ UNCHANGED <<users, sessions, audit, attempt, loggedOut, faults>>

(* After the UPDATE of last_seen_at, which matches a row or none, the claims *)
(* of the cookie are compared with the record, and its role with the one the *)
(* route requires.                                                           *)
requireRole(r) ==
  LET q == request[r]
      claims == attempt[q.cookie]
  IN  /\ q.stage = "found"
      /\ request' = IF /\ q.record.user = claims.user /\ q.record.role = claims.role
                       /\ q.need \in {AnyRole, claims.role}
                      THEN [request EXCEPT ![r].stage = "serving"]
                      ELSE [request EXCEPT ![r] = Idle]
      /\ UNCHANGED <<users, sessions, audit, attempt, loggedOut, faults>>

(* The handler is done. *)
Respond(r) ==
  /\ request[r].stage = "serving"
  /\ request' = [request EXCEPT ![r] = Idle]
  /\ UNCHANGED <<users, sessions, audit, attempt, loggedOut, faults>>

(* Either statement of the check fails. *)
CheckFails(r) ==
  /\ request[r].stage \in {"sent", "found"}
  /\ faults < MaxFaults /\ faults' = faults + 1
  /\ request' = [request EXCEPT ![r] = Idle]
  /\ UNCHANGED <<users, sessions, audit, attempt, loggedOut>>

(* What the session of l is worth: the role of its user, while it lasts. *)
Authority(l) == IF Active(l) THEN users[sessions[l].user] ELSE Nil

Observe ==
  held' = [r \in Requests |->
             IF request[r].stage' = "idle" THEN {}
             ELSE held[r] \cup {Authority(l)' : l \in {request[r].cookie'}}]

Next ==
  /\ \/ \E l \in Logins :
          \/ handleDevLogin(l) \/ UpsertUser(l) \/ CreateSession(l) \/ RecordLoginAudit(l)
          \/ setSession(l) \/ LoginFails(l) \/ handleLogout(l) \/ Expire(l)
     \/ \E l \in Logins, u \in Users : handleCallback(l, u)
     \/ \E u \in Users : Grant(u) \/ Remove(u)
     \/ \E r \in Requests :
          Send(r) \/ GetActiveSession(r) \/ requireRole(r) \/ Respond(r) \/ CheckFails(r)
  /\ Observe

Spec == Init /\ [][Next]_vars

-----------------------------------------------------------------------------
Stages == {"none", "refused", "found", "upserted", "created", "audited", "cookie", "failed"}

(* Rows, attempts and requests keep their shape; a login past the lookup     *)
(* knows its method, user and role.                                          *)
TypeOK ==
  /\ users \in [Users -> Roles \cup {Nil}]
  /\ sessions \in [Logins -> Session \cup {Nil}]
  /\ audit \in [Logins -> AuditEntry \cup {Nil}]
  /\ attempt \in [Logins -> [stage: Stages, method: {"dev", "oidc", Nil},
                             user: Users \cup {Nil}, role: Roles \cup {Nil}]]
  /\ \A l \in Logins : attempt[l].stage \in {"found", "upserted", "created", "audited", "cookie"} =>
       /\ attempt[l].user \in Users /\ attempt[l].role \in Roles
       /\ attempt[l].method \in {"dev", "oidc"}
  /\ request \in [Requests -> [stage: {"idle", "sent", "found", "serving"},
                               cookie: Logins \cup {Nil}, need: Roles \cup {AnyRole},
                               record: [user: Users, role: Roles] \cup {Nil}, late: BOOLEAN]]
  /\ held \in [Requests -> SUBSET (Roles \cup {Nil})]
  /\ loggedOut \subseteq Logins
  /\ faults \in 0..MaxFaults

(* A handler runs under a role only if, at some moment since the request was *)
(* sent, its session was active and its user had that role.  Revocation,     *)
(* expiry, removal and a change of role thus bind every request sent later,  *)
(* whatever an old cookie says; one already past the SELECT runs on.         *)
AuthorityWasHeld ==
  \A r \in Requests : request[r].stage = "serving" =>
    /\ attempt[request[r].cookie].role \in held[r]
    /\ request[r].need \in {AnyRole, attempt[request[r].cookie].role}

(* A request sent with a cookie after the logout of its session is served    *)
(* only where a fault swallowed the revocation.                              *)
LogoutIsFinal ==
  Cardinality({request[r].cookie :
                 r \in {q \in Requests : request[q].stage = "serving" /\ request[q].late}})
    <= faults

(* Every development login that got its cookie has its success in the audit  *)
(* log, and an active session whose login failed to get one took a fault.    *)
DevLoginsAudited ==
  LET dev == {l \in Logins : attempt[l].method = "dev"}
  IN  /\ \A l \in dev : HasCookie(l) => audit[l] # Nil /\ audit[l].outcome = "success"
      /\ Cardinality({l \in dev : attempt[l].stage = "failed" /\ Active(l)}) <= faults

(* Logging in, with a role read some statements ago, never changes the role  *)
(* of a user: only the administrator does.                                   *)
RolesAreTheAdministrators ==
  [][\A u \in Users :
       users[u] # Nil /\ users'[u] \notin {users[u], Nil} => Grant(u)]_vars
=============================================================================
