------------------------------ MODULE Sessions ------------------------------
(***************************************************************************)
(* Internal sessions: the rows of user_sessions (auth.service.ts), the     *)
(* HTTP-only cookies the controller sets and clears, and the pages that    *)
(* log in, check the session and sign out.  One browser: its tabs and any  *)
(* other client that shares its cookie jar have one request each in        *)
(* flight, and every await of the service is a step of its own.  A request *)
(* carries the cookies of the instant it is sent; answers arrive in any    *)
(* order and some are lost.                                                *)
(***************************************************************************)
EXTENDS Naturals, FiniteSets

CONSTANTS
    AuthTabs,       \* tabs of the browser, each showing one page
    AuthClients,    \* callers of POST /auth/refresh (no page of src/ calls it)
    AuthUsers,
    MaxSessions,    \* bound: rows of user_sessions
    MaxAuthFaults   \* bound: database failures, lost answers, deactivations

NoUser == "nobody"

ASSUME AuthAssumption ==
    /\ NoUser \notin AuthUsers
    /\ AuthTabs \cap AuthClients = {}
    /\ MaxSessions \in Nat
    /\ MaxAuthFaults \in Nat

VARIABLES
    owner,        \* per row of user_sessions: its user, or NoUser when there is no row
    revoked,      \* rows whose revokedAt is set
    lapsed,       \* rows whose expiresAt is past
    parent,       \* history: the row a rotation replaced by this one, 0 after a login
    active,       \* users whose column active is true
    jar,          \* cookies of the browser: the user of access_token, the row of refresh_token
    page,         \* what each tab shows
    request,      \* the request of each tab and client
    authFaults    \* faults that have happened

authVars == <<owner, revoked, lapsed, parent, active, jar, page, request, authFaults>>

Rows == 1..MaxSessions
Callers == AuthTabs \cup AuthClients

\* what a caller sent and how far the service has come with it; row is the
\* refresh cookie sent, user the one the request speaks for, grant the row
\* whose token the answer carries (0: none), wasActive what active said when
\* the request was sent
Idle == [kind |-> "none", phase |-> "idle", row |-> 0, user |-> NoUser,
         grant |-> 0, wasActive |-> FALSE]

AuthRequest ==
    [kind : {"none", "login", "refresh", "logout", "me"},
     phase : {"idle", "sent", "found", "admitted", "rotated", "ok", "refused"},
     row : 0..MaxSessions, user : AuthUsers \cup {NoUser},
     grant : 0..MaxSessions, wasActive : BOOLEAN]

\* Every variable of the sessions keeps its type.
SessionsTypeOK ==
    /\ owner \in [Rows -> AuthUsers \cup {NoUser}]
    /\ revoked \in SUBSET Rows
    /\ lapsed \in SUBSET Rows
    /\ parent \in [Rows -> 0..MaxSessions]
    /\ active \in SUBSET AuthUsers
    /\ jar \in [access : AuthUsers \cup {NoUser}, refresh : 0..MaxSessions]
    /\ page \in [AuthTabs -> {"login", "checking", "inside"}]
    /\ request \in [Callers -> AuthRequest]
    /\ authFaults \in 0..MaxAuthFaults

SessionsInit ==
    /\ owner = [s \in Rows |-> NoUser]
    /\ revoked = {}
    /\ lapsed = {}
    /\ parent = [s \in Rows |-> 0]
    /\ active = AuthUsers
    /\ jar = [access |-> NoUser, refresh |-> 0]
    /\ page = [t \in AuthTabs |-> "login"]
    /\ request = [c \in Callers |-> Idle]
    /\ authFaults = 0

Free(s) == owner[s] = NoUser

\* issueTokens: a fresh row for user u; the caller's answer carries its token
IssueTokens(c, u, from) ==
    \E s \in Rows :
        /\ Free(s) /\ \A q \in 1..(s - 1) : ~Free(q)
        /\ owner' = [owner EXCEPT ![s] = u]
        /\ parent' = [parent EXCEPT ![s] = from]
        /\ request' = [request EXCEPT ![c].phase = "ok", ![c].grant = s]

Answer(c, result) == request' = [request EXCEPT ![c].phase = result]

Sending(c, kind, u) ==
    /\ request[c] = Idle
    /\ request' = [request EXCEPT ![c] =
           [kind |-> kind, phase |-> "sent", row |-> jar.refresh, user |-> u,
            grant |-> 0, wasActive |-> u \in active]]

rowVars == <<owner, revoked, lapsed, parent>>

-----------------------------------------------------------------------------
(* The pages. *)

\* handleSubmit of the login page; isSubmitting keeps a second click out
SubmitLogin(t, u) ==
    /\ page[t] = "login"
    /\ Sending(t, "login", u)
    /\ UNCHANGED <<rowVars, active, jar, page, authFaults>>

\* checkSession of useAuthGuard when the protected layout mounts
CheckSession(t) ==
    /\ page[t] = "checking"
    /\ Sending(t, "me", jar.access)
    /\ UNCHANGED <<rowVars, active, jar, page, authFaults>>

\* handleSignOut of the sidebar
SignOut(t) ==
    /\ page[t] = "inside"
    /\ Sending(t, "logout", jar.access)
    /\ UNCHANGED <<rowVars, active, jar, page, authFaults>>

\* a protected page is opened or reloaded
OpenPage(t) ==
    /\ request[t] = Idle
    /\ page[t] # "checking"
    /\ page' = [page EXCEPT ![t] = "checking"]
    /\ UNCHANGED <<rowVars, active, jar, request, authFaults>>

RequestRefresh(c) ==
    /\ Sending(c, "refresh", IF jar.refresh = 0 THEN NoUser ELSE owner[jar.refresh])
    /\ UNCHANGED <<rowVars, active, jar, page, authFaults>>

\* where a tab goes when its request ends, with an answer or without one
NextPage(t, ok) ==
    CASE request[t].kind = "login" -> IF ok THEN "checking" ELSE "login"
      [] request[t].kind = "me" -> IF ok THEN "inside" ELSE "login"
      [] request[t].kind = "logout" -> "login"
      [] OTHER -> page[t]

Leave(c, ok) ==
    /\ request' = [request EXCEPT ![c] = Idle]
    /\ page' = IF c \in AuthTabs THEN [page EXCEPT ![c] = NextPage(c, ok)] ELSE page

\* the cookies after an answer: setAuthCookies, clearAuthCookies, or neither
Cookies(c) ==
    CASE request[c].grant # 0 ->
            [access |-> request[c].user, refresh |-> request[c].grant]
      [] request[c].kind = "logout" /\ request[c].phase = "ok" ->
            [access |-> NoUser, refresh |-> 0]
      [] OTHER -> jar

Deliver(c) ==
    /\ request[c].phase \in {"ok", "refused"}
    /\ jar' = Cookies(c)
    /\ Leave(c, request[c].phase = "ok")
    /\ UNCHANGED <<rowVars, active, authFaults>>

-----------------------------------------------------------------------------
(* The service. *)

\* login: credentials and active are checked, then the tokens are issued
AdmitLogin(c) ==
    /\ request[c].kind = "login" /\ request[c].phase = "sent"
    /\ \E password \in BOOLEAN :
           Answer(c, IF password /\ request[c].user \in active THEN "admitted" ELSE "refused")
    /\ UNCHANGED <<rowVars, active, jar, page, authFaults>>

Usable(s) == s # 0 /\ s \notin revoked /\ s \notin lapsed

\* refresh: no cookie, no row, a revoked or an expired row is a 401
FindSession(c) ==
    /\ request[c].kind = "refresh" /\ request[c].phase = "sent"
    /\ Answer(c, IF Usable(request[c].row) THEN "found" ELSE "refused")
    /\ UNCHANGED <<rowVars, active, jar, page, authFaults>>

AdmitRefresh(c) ==
    /\ request[c].kind = "refresh" /\ request[c].phase = "found"
    /\ Answer(c, IF request[c].user \in active THEN "admitted" ELSE "refused")
    /\ UNCHANGED <<rowVars, active, jar, page, authFaults>>

\* the old row is saved with revokedAt before the new one is created
RevokeOld(c) ==
    /\ request[c].kind = "refresh" /\ request[c].phase = "admitted"
    /\ revoked' = revoked \cup {request[c].row}
    /\ Answer(c, "rotated")
    /\ UNCHANGED <<owner, lapsed, parent, active, jar, page, authFaults>>

\* Mutant of ReadyToIssue: a refresh issues tokens before the old row is revoked.
ReadyWhenAdmitted(c) ==
    request[c].kind \in {"login", "refresh"} /\ request[c].phase \in {"admitted", "rotated"}

\* the phase after which tokens are issued
ReadyToIssue(c) ==
    \/ request[c].kind = "login" /\ request[c].phase = "admitted"
    \/ request[c].kind = "refresh" /\ request[c].phase = "rotated"

Issue(c) ==
    /\ ReadyToIssue(c)
    /\ IssueTokens(c, request[c].user,
                   IF request[c].kind = "refresh" THEN request[c].row ELSE 0)
    /\ UNCHANGED <<revoked, lapsed, active, jar, page, authFaults>>

\* logout reads the row and, when it is not revoked yet, revokes it
FindForLogout(c) ==
    /\ request[c].kind = "logout" /\ request[c].phase = "sent"
    /\ Answer(c, IF request[c].row # 0 /\ request[c].row \notin revoked THEN "found" ELSE "ok")
    /\ UNCHANGED <<rowVars, active, jar, page, authFaults>>

RevokeForLogout(c) ==
    /\ request[c].kind = "logout" /\ request[c].phase = "found"
    /\ revoked' = revoked \cup {request[c].row}
    /\ Answer(c, "ok")
    /\ UNCHANGED <<owner, lapsed, parent, active, jar, page, authFaults>>

\* GET /auth/me: AccessTokenGuard, then getActiveUserOrFail
Me(c) ==
    /\ request[c].kind = "me" /\ request[c].phase = "sent"
    /\ Answer(c, IF request[c].user \in active THEN "ok" ELSE "refused")
    /\ UNCHANGED <<rowVars, active, jar, page, authFaults>>

-----------------------------------------------------------------------------
(* Time and failures. *)

Fault == authFaults < MaxAuthFaults /\ authFaults' = authFaults + 1

\* the access cookie's maxAge passes together with the token's life
AccessLapses ==
    /\ jar.access # NoUser
    /\ jar' = [jar EXCEPT !.access = NoUser]
    /\ UNCHANGED <<rowVars, active, page, request, authFaults>>

\* expiresAt of a row passes; the cookie, whose age counts from its arrival,
\* goes a little later
SessionLapses(s) ==
    /\ ~Free(s) /\ s \notin lapsed
    /\ Fault
    /\ lapsed' = lapsed \cup {s}
    /\ UNCHANGED <<owner, revoked, parent, active, jar, page, request>>

\* a statement of the service fails: the answer is an error without cookies
StatementFails(c) ==
    /\ request[c].phase \in {"sent", "found", "admitted", "rotated"}
    /\ Fault
    /\ Answer(c, "refused")
    /\ UNCHANGED <<rowVars, active, jar, page>>

\* the answer is lost: apiFetch throws, no cookie arrives (a lost refusal
\* has the effect of a delivered one)
AnswerLost(c) ==
    /\ request[c].phase = "ok"
    /\ Fault
    /\ Leave(c, FALSE)
    /\ UNCHANGED <<rowVars, active, jar>>

\* an operator clears the column active of a user (no code of src/ does)
Deactivate(u) ==
    /\ u \in active
    /\ Fault
    /\ active' = active \ {u}
    /\ UNCHANGED <<rowVars, jar, page, request>>

ServiceStep(c) ==
    \/ AdmitLogin(c)
    \/ FindSession(c)
    \/ AdmitRefresh(c)
    \/ RevokeOld(c)
    \/ Issue(c)
    \/ FindForLogout(c)
    \/ RevokeForLogout(c)
    \/ Me(c)
    \/ Deliver(c)

SessionsNext ==
    \/ \E t \in AuthTabs, u \in AuthUsers : SubmitLogin(t, u)
    \/ \E t \in AuthTabs : CheckSession(t) \/ SignOut(t) \/ OpenPage(t)
    \/ \E c \in AuthClients : RequestRefresh(c)
    \/ \E c \in Callers : ServiceStep(c)
    \/ AccessLapses
    \/ \E s \in Rows : SessionLapses(s)
    \/ \E c \in Callers : StatementFails(c) \/ AnswerLost(c)
    \/ \E u \in AuthUsers : Deactivate(u)

\* the service and the browser finish what was sent, and a mounted guard
\* asks; nobody has to click
SessionsFairness ==
    /\ \A c \in Callers : WF_authVars(ServiceStep(c))
    /\ \A t \in AuthTabs : WF_authVars(CheckSession(t))

SessionsSpec == SessionsInit /\ [][SessionsNext]_authVars

-----------------------------------------------------------------------------
(* A rotated session is revoked before its successor exists, whatever      *)
(* refreshes, logouts and failures interleave with the rotation            *)
(* (auth.service.ts: the comment at line 98).                              *)
RotatedSessionIsDead ==
    \A s \in Rows : parent[s] # 0 => parent[s] \in revoked

(* Without faults a browser never keeps the cookie of a revoked session    *)
(* once the requests that carry it are over: concurrent refreshes and a    *)
(* logout in another tab leave it a usable cookie or none.                 *)
CookieOutlivesNoRotation ==
    (jar.refresh \in revoked /\ authFaults = 0) =>
        \E c \in Callers : request[c].row = jar.refresh

(* No request sent after its user was deactivated is granted a session:    *)
(* both ways to a token check active again.                                *)
NoSessionForDisabledUser ==
    \A c \in Callers : request[c].grant # 0 => request[c].wasActive

(* Sessions stay sound: the types, and the three facts above.              *)
SessionsInv ==
    /\ SessionsTypeOK
    /\ RotatedSessionIsDead
    /\ CookieOutlivesNoRotation
    /\ NoSessionForDisabledUser

(* A page that checks the session reaches the dashboard or the login page: *)
(* an error or a lost answer never leaves it checking.                     *)
EveryCheckSettles ==
    \A t \in AuthTabs : []<>(page[t] # "checking")
=============================================================================
