------------------------------- MODULE Sessions -------------------------------
(***************************************************************************)
(* Users, their sessions and the requests of administrators.               *)
(*                                                                         *)
(* A request reads the user it is about without a lock; removing an active *)
(* administrator locks the rows of all of them from the check to the       *)
(* commit, other requests write what follows from what they have read.     *)
(* Usernames are the users themselves.  Failed logins are counted by       *)
(* username and by address: here everybody has the same address.           *)
(***************************************************************************)
EXTENDS Naturals, FiniteSets

CONSTANTS
    Users,          \* usernames
    Callers,        \* concurrent requests
    SessionIds,     \* auth_sessions rows
    FailureLimit,   \* LOGIN_FAILURE_LIMIT
    MaxChanges      \* bound: changes that revoke the sessions of one user

Free == "nobody"
NoUser == "none"

ASSUME SessionConstants ==
    /\ FailureLimit \in Nat \ {0}
    /\ MaxChanges \in Nat
    /\ IsFiniteSet(Callers) /\ Callers # {}
    /\ NoUser \notin Users /\ Free \notin Callers

VARIABLES
    user,      \* the users table
    session,   \* the auth_sessions table
    failures,  \* failed attempts within the last ten minutes
    guesses,   \* history: of these, those answered with 401
    lock,      \* who holds the lock of each user's row
    caller     \* what each request has read and does next

sessionVars == <<user, session, failures, guesses, lock, caller>>

Roles == {"applicant", "admin"}

\* changes: history, how often the user's sessions have been revoked because
\* of a new password, a new role or the end of the account.
UserRow == [role : Roles \cup {"absent"}, active : BOOLEAN, changes : 0 .. MaxChanges]

\* changes: history, the user's at the commit of the login.
SessionRow == [owner : Users \cup {NoUser}, revoked : BOOLEAN, changes : 0 .. MaxChanges]
NoSession == [owner |-> NoUser, revoked |-> FALSE, changes |-> 0]

\* target: whom the request is about; loaded: the target's row as it was
\* read; want: what it asks for; count: the failures it has counted.
NoRow == [role |-> "absent", active |-> FALSE, changes |-> 0]
CallOf(pc, u, want, count) ==
    [pc |-> pc, target |-> u, loaded |-> NoRow, want |-> want, count |-> count]
IdleCaller == CallOf("idle", NoUser, "none", 0)
Wishes == {"none", "applicant", "admin", "deactivate", "activate", "password"}

SessionsTypeOK ==
    /\ user \in [Users -> UserRow]
    /\ session \in [SessionIds -> SessionRow]
    /\ {failures, guesses} \subseteq 0 .. FailureLimit + Cardinality(Callers)
    /\ lock \in [Users -> Callers \cup {Free}]
    /\ DOMAIN caller = Callers
    /\ \A c \in Callers :
          /\ caller[c].pc \in {"idle", "login", "count", "fail", "create", "update", "commit"}
          /\ caller[c].target \in Users \cup {NoUser}
          /\ caller[c].want \in Wishes
          /\ caller[c].loaded \in UserRow

\* One administrator is there from the start.
SessionsInit ==
    /\ \E first \in Users :
          user = [u \in Users |->
                    IF u = first THEN [role |-> "admin", active |-> TRUE, changes |-> 0]
                                 ELSE NoRow]
    /\ session = [s \in SessionIds |-> NoSession]
    /\ failures = 0 /\ guesses = 0
    /\ lock = [u \in Users |-> Free]
    /\ caller = [c \in Callers |-> IdleCaller]

Exists(u) == user[u].role # "absent"
IsActiveAdmin(u) == user[u].role = "admin" /\ user[u].active
EndCall(c) ==
    /\ caller' = [caller EXCEPT ![c] = IdleCaller]
    /\ lock' = [u \in Users |-> IF lock[u] = c THEN Free ELSE lock[u]]
MayWrite(c, u) == lock[u] \in {c, Free}

\* Active sessions of user u are revoked.
RevokeActiveSessions(u) ==
    session' = [s \in SessionIds |->
                  IF session[s].owner = u THEN [session[s] EXCEPT !.revoked = TRUE]
                                          ELSE session[s]]

-----------------------------------------------------------------------------
(* Login and logout                                                        *)

\* login reads the user.  An inactive account is refused with 403, whatever
\* the password, and nothing is counted for the answer.
ReadLogin(c, u, correct) ==
    /\ caller[c].pc = "idle"
    /\ Exists(u) \/ ~ correct
    /\ IF Exists(u) /\ ~ user[u].active
       THEN caller' = [caller EXCEPT ![c] = CallOf("fail", u, "none", FailureLimit)]
       ELSE caller' = [caller EXCEPT ![c] =
              CallOf(IF correct THEN "login" ELSE "count", u, "none", 0)]
    /\ UNCHANGED <<user, session, failures, guesses, lock>>

\* A wrong password: the recent failures are counted ...
CountFailures(c) ==
    /\ caller[c].pc = "count"
    /\ caller' = [caller EXCEPT ![c].pc = "fail",
                                ![c].count = failures]
    /\ UNCHANGED <<user, session, failures, guesses, lock>>

\* Mutant: one failure too many is let through.
LimitedLate(count) == count >= FailureLimit
RateLimited(count) == count >= FailureLimit - 1

\* ... and the attempt is committed, answered with 401 or with 429 (an
\* inactive account with 403).
CommitFailure(c) ==
    /\ caller[c].pc = "fail"
    /\ failures < FailureLimit + Cardinality(Callers)
    /\ failures' = failures + 1
    /\ guesses' = IF RateLimited(caller[c].count) THEN guesses ELSE guesses + 1
    /\ EndCall(c)
    /\ UNCHANGED <<user, session>>

\* The commit of a successful login writes last_login_at, and so needs the
\* user's row, and a session; it looks at nothing it has read again.
CommitLogin(c, s) ==
    LET u == caller[c].target
    IN  /\ caller[c].pc = "login"
        /\ MayWrite(c, u)
        /\ session[s] = NoSession
        /\ session' = [session EXCEPT ![s] = [owner |-> u, revoked |-> FALSE,
                                              changes |-> user[u].changes]]
        /\ EndCall(c)
        /\ UNCHANGED <<user, failures, guesses>>

\* resolve_session: whether a request with session s is let in.
Resolves(s) ==
    /\ session[s].owner # NoUser /\ ~ session[s].revoked
    /\ user[session[s].owner].active

Logout(s) ==
    /\ Resolves(s)
    /\ session' = [session EXCEPT ![s].revoked = TRUE]
    /\ UNCHANGED <<user, failures, guesses, lock, caller>>

LogoutAll(s) ==
    /\ Resolves(s)
    /\ RevokeActiveSessions(session[s].owner)
    /\ UNCHANGED <<user, failures, guesses, lock, caller>>

\* Its expiry and clean_expired_sessions delete a session.
CleanSession(s) ==
    /\ session[s] # NoSession
    /\ session' = [session EXCEPT ![s] = NoSession]
    /\ UNCHANGED <<user, failures, guesses, lock, caller>>

\* Ten minutes pass without an attempt.
FailuresAge ==
    /\ failures > 0
    /\ failures' = 0 /\ guesses' = 0
    /\ UNCHANGED <<user, session, lock, caller>>

-----------------------------------------------------------------------------
(* Administration.  An administrator is somebody with a session.           *)

AdminSession == \E s \in SessionIds : Resolves(s) /\ user[session[s].owner].role = "admin"

\* create_user finds the username free ...
ReadCreate(c, u, role) ==
    /\ caller[c].pc = "idle" /\ AdminSession
    /\ ~ Exists(u)
    /\ caller' = [caller EXCEPT ![c] = CallOf("create", u, role, 0)]
    /\ UNCHANGED <<user, session, failures, guesses, lock>>

\* ... and inserts the user, or fails on the unique constraint.
CommitCreate(c) ==
    LET u == caller[c].target
    IN  /\ caller[c].pc = "create"
        /\ IF Exists(u) THEN UNCHANGED user
           ELSE user' = [user EXCEPT ![u] = [role |-> caller[c].want,
                                             active |-> TRUE, changes |-> 0]]
        /\ EndCall(c)
        /\ UNCHANGED <<session, failures, guesses>>

\* Does the change take an active administrator away?
RemovesActiveAdmin(loaded, want) ==
    /\ loaded.role = "admin" /\ loaded.active
    /\ want \in {"applicant", "deactivate"}

\* The target of a change is read without a lock; what was read decides
\* whether the administrators are looked at.
ReadTarget(c, u, want) ==
    /\ caller[c].pc = "idle" /\ AdminSession
    /\ Exists(u)
    /\ caller' = [caller EXCEPT ![c] =
          [pc |-> IF RemovesActiveAdmin(user[u], want) THEN "update" ELSE "commit",
           target |-> u, loaded |-> user[u], want |-> want, count |-> 0]]
    /\ UNCHANGED <<user, session, failures, guesses, lock>>

\* Mutant: the administrators are read without FOR UPDATE.
LockNone(c, us) == UNCHANGED lock

\* SELECT ... FOR UPDATE waits until nobody else holds one of the rows.
LockUsers(c, us) ==
    /\ \A u \in us : MayWrite(c, u)
    /\ lock' = [u \in Users |-> IF u \in us THEN c ELSE lock[u]]

\* update_user's check, refused if there is no other active administrator.
CheckUpdate(c) ==
    LET admins == {u \in Users : IsActiveAdmin(u)}
    IN  /\ caller[c].pc = "update"
        /\ \A u \in admins : MayWrite(c, u)
        /\ IF admins \subseteq {caller[c].target}
           THEN EndCall(c)
           ELSE /\ caller' = [caller EXCEPT ![c].pc = "commit"]
                /\ LockUsers(c, admins)
        /\ UNCHANGED <<user, session, failures, guesses>>

\* Mutant: ending an account leaves its sessions.
RevokesForRole(loaded, want) ==
    want = "password" \/ (want \in Roles /\ want # loaded.role)

\* Which changes revoke the target's sessions: a password, a role other than
\* the one read, the end of an account read as active.
Revokes(loaded, want) ==
    \/ want = "password"
    \/ want \in Roles /\ want # loaded.role
    \/ want = "deactivate" /\ loaded.active

\* The commit of update_user and of reset_password.  A column is written where
\* it differs from what was read.
Changed(row, loaded, want) ==
    CASE want \in Roles /\ want # loaded.role ->
            [role |-> want, active |-> row.active, changes |-> row.changes + 1]
      [] want = "deactivate" /\ loaded.active ->
            [role |-> row.role, active |-> FALSE, changes |-> row.changes + 1]
      [] want = "activate" /\ ~ loaded.active -> [row EXCEPT !.active = TRUE]
      [] want = "password" -> [row EXCEPT !.changes = @ + 1]
      [] OTHER -> row

CommitChange(c) ==
    LET r == caller[c]
    IN  /\ r.pc = "commit"
        /\ MayWrite(c, r.target)
        /\ user[r.target].changes < MaxChanges
        /\ user' = [user EXCEPT ![r.target] = Changed(@, r.loaded, r.want)]
        /\ IF Revokes(r.loaded, r.want) THEN RevokeActiveSessions(r.target)
                                        ELSE UNCHANGED session
        /\ EndCall(c)
        /\ UNCHANGED <<failures, guesses>>

\* The connection or the API process of a request dies.
CallerDies(c) ==
    /\ caller[c].pc # "idle"
    /\ EndCall(c)
    /\ UNCHANGED <<user, session, failures, guesses>>

SessionsNext ==
    \/ \E c \in Callers, u \in Users :
          \/ \E correct \in BOOLEAN : ReadLogin(c, u, correct)
          \/ \E role \in Roles : ReadCreate(c, u, role)
          \/ \E want \in Wishes \ {"none"} : ReadTarget(c, u, want)
    \/ \E c \in Callers :
          \/ CountFailures(c) \/ CommitFailure(c)
          \/ \E s \in SessionIds : CommitLogin(c, s)
          \/ CommitCreate(c) \/ CheckUpdate(c) \/ CommitChange(c)
          \/ CallerDies(c)
    \/ \E s \in SessionIds : Logout(s) \/ LogoutAll(s) \/ CleanSession(s)
    \/ FailuresAge

-----------------------------------------------------------------------------
\* The check that an administrator may be removed is still true when the
\* removal commits: another active administrator has stayed one, whatever
\* others do in between.
AdminsOutlastChecks ==
    \A c \in Callers :
        LET r == caller[c]
        IN  r.pc = "commit" /\ RemovesActiveAdmin(r.loaded, r.want) =>
            \E u \in Users \ {r.target} : IsActiveAdmin(u)

\* A change of password or role and the end of an account reach every
\* session there was: whoever may still use a session has logged in after the
\* last of them (though perhaps with what was valid before).
RevocationIsComplete ==
    \A s \in SessionIds :
        session[s].owner # NoUser /\ ~ session[s].revoked =>
            session[s].changes = user[session[s].owner].changes

\* Within ten minutes no more failures are answered as a wrong password than
\* the limit allows, and one for each further request that was under way at
\* the same time.
GuessesAreBounded ==
    guesses <= FailureLimit - 1 + (Cardinality(Callers) - 1)
=============================================================================
