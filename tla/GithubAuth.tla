----------------------------- MODULE GithubAuth -----------------------------
(***************************************************************************)
(* pkg/auth/github.go: requests authorised by the session of a user who    *)
(* logged in at GitHub, an index of each user's sessions, and the webhooks *)
(* by which GitHub tells that a membership has ended.  The index has a     *)
(* lock of its own, never held together with the session cache's: a        *)
(* handler is a sequence of steps, one per lock it takes.                  *)
(***************************************************************************)
EXTENDS Sessions

CONSTANTS Users, Orgs, Teams,
          RWTeams, ROTeams, RWOrgs, ROOrgs,  \* who is let in, as configured
          NoUser, NoTeam, NoTeamData

\* teamID and username are set together, and desiredurl and state.
SessionValues == [user : Users \cup {NoUser}, state : BOOLEAN]
EmptyValues == [user |-> NoUser, state |-> FALSE]

TeamData == [org : Orgs, team : Teams \cup {NoTeam}]

ASSUME GithubAuthAssumption ==
  /\ RWTeams \subseteq Orgs \X Teams /\ ROTeams \subseteq Orgs \X Teams
  /\ RWOrgs \subseteq Orgs /\ ROOrgs \subseteq Orgs
  /\ Values = SessionValues /\ NoValues = EmptyValues
  /\ NoUser \notin Users
  /\ NoTeamData \notin TeamData

VARIABLES pc,              \* where each request is
          kind,            \* what it asks for
          login,           \* what its login dance found
          toDrop,          \* sessions a webhook has yet to drop
          userSessionIDs,  \* user -> session ID -> membership
          teamToUsers      \* <<org, team>> -> users

indexVars == <<userSessionIDs, teamToUsers>>
vars == <<sessionVars, pc, kind, login, toDrop, indexVars>>

Kinds == {"page", "bearer", "callback", "webhook"}
NoLogin == [user |-> NoUser, data |-> NoTeamData]
TeamName(data) == <<data.org, data.team>>

GithubAuthTypeOK ==
  /\ SessionsTypeOK
  /\ pc \in [Requests -> {"idle", "serve", "index", "save", "cleanup", "mark", "drop", "put"}]
  /\ kind \in [Requests -> Kinds]
  /\ login \in [Requests -> [user : Users, data : TeamData] \cup {NoLogin}]
  /\ toDrop \in [Requests -> SUBSET SessionIDs]
  /\ userSessionIDs \in [Users -> [SessionIDs -> TeamData \cup {NoTeamData}]]
  /\ teamToUsers \in [Orgs \X Teams -> SUBSET Users]

Init ==
  /\ SessionsInit
  /\ pc = [r \in Requests |-> "idle"]
  /\ kind = [r \in Requests |-> "page"]
  /\ login = [r \in Requests |-> NoLogin]
  /\ toDrop = [r \in Requests |-> {}]
  /\ userSessionIDs = [u \in Users |-> [id \in SessionIDs |-> NoTeamData]]
  /\ teamToUsers = [t \in Orgs \X Teams |-> {}]

Goto(r, label) == pc' = [pc EXCEPT ![r] = label]

----------------------------------------------------------------------------
\* Memberships that the dance can record for a user seen in these teams and
\* orgs: a read-write team, else a read-write org, else the read-only team or
\* org met first.  A read-write org is recorded with the name of a read-only
\* team met before it.
Dance(teams, orgs) ==
  LET roNames == {t[2] : t \in teams \cap ROTeams} IN
  IF teams \cap RWTeams # {}
  THEN {[org |-> t[1], team |-> t[2]] : t \in teams \cap RWTeams}
  ELSE IF orgs \cap RWOrgs # {}
  THEN [org : orgs \cap RWOrgs, team : IF roNames = {} THEN {NoTeam} ELSE roNames]
  ELSE IF teams \cap ROTeams # {}
  THEN {[org |-> t[1], team |-> t[2]] : t \in teams \cap ROTeams}
  ELSE [org : orgs \cap ROOrgs, team : {NoTeam}]

Memberships ==
  UNION {Dance(ts, os) : ts \in SUBSET (RWTeams \cup ROTeams),
                         os \in SUBSET (RWOrgs \cup ROOrgs)}

\* Requests that may yet save a session for the first time.  Bound: a request
\* arrives only while an ID is left for each of them.
Unsaved == {r \in Requests : session[r] # NoSession /\ session[r].id = NoID
                             /\ kind[r] # "webhook"}
IDLeft == Cardinality(SessionIDs \ issued) > Cardinality(Unsaved)

\* A request with no cookie, or with the cookie of any session ever saved;
\* GitHub's webhooks carry none.
Arrive(r, k, id) ==
  /\ pc[r] = "idle"
  /\ id \in (IF k = "webhook" THEN {NoID} ELSE issued \cup {NoID})
  /\ k = "webhook" \/ (Known(id) /\ ~sessions[id].destroy) \/ IDLeft
  /\ GetSessionUse(r, id)
  /\ kind' = [kind EXCEPT ![r] = k]
  /\ Goto(r, "serve")
  /\ UNCHANGED <<login, toDrop, indexVars>>

\* A request for a page by a user who is logged in, or not yet: then the
\* state of the coming login is saved and the user sent to GitHub.
AuthorizePage(r) ==
  LET v == session[r].values IN
  /\ pc[r] = "serve" /\ kind[r] = "page"
  /\ Goto(r, "put")
  /\ IF v.user # NoUser THEN UNCHANGED sessionVars
     ELSE SaveSession(r, [v EXCEPT !.state = TRUE])
  /\ UNCHANGED <<kind, login, toDrop, indexVars>>

\* A request that carries a token: the dance is done with it at once.
AuthorizeBearer(r) ==
  /\ pc[r] = "serve" /\ kind[r] = "bearer"
  /\ IF session[r].values.user # NoUser
     THEN Goto(r, "put")
     ELSE \/ Goto(r, "cleanup")     \* malformed token, or not a member
          \/ Goto(r, "put")         \* GitHub failed to answer
  /\ UNCHANGED <<sessionVars, kind, login, toDrop, indexVars>>

\* The user comes back from GitHub.  On a failure before the dance the
\* deferred save comes before the deferred cleanup; a dance that fails to get
\* an answer is not cleaned up after.
LoginCbFails(r) ==
  /\ pc[r] = "serve" /\ kind[r] = "callback"
  /\ SaveSession(r, session[r].values)
  /\ Goto(r, "cleanup")
  /\ UNCHANGED <<kind, login, toDrop, indexVars>>

LoginCbDanceFails(r) ==
  /\ pc[r] = "serve" /\ kind[r] = "callback" /\ session[r].values.state
  /\ \/ Goto(r, "save")     \* GitHub failed to answer
     \/ Goto(r, "cleanup")  \* not a member; the deferred save meets the mark
  /\ UNCHANGED <<sessionVars, kind, login, toDrop, indexVars>>

\* The dance succeeds: the login is saved ...
DanceSaves(r, u, data) ==
  /\ pc[r] = "serve"
  /\ \/ kind[r] = "bearer" /\ session[r].values.user = NoUser
     \/ kind[r] = "callback" /\ session[r].values.state
  /\ SaveSession(r, [session[r].values EXCEPT !.user = u])
  /\ login' = [login EXCEPT ![r] = [user |-> u, data |-> data]]
  /\ Goto(r, "index")
  /\ UNCHANGED <<kind, toDrop, indexVars>>

\* ... and then entered in the index.
AddSessionID(r) ==
  LET u == login[r].user  data == login[r].data IN
  /\ pc[r] = "index"
  /\ userSessionIDs' = [userSessionIDs EXCEPT ![u][session[r].id] = data]
  /\ teamToUsers' = IF data.team = NoTeam THEN teamToUsers
                    ELSE [teamToUsers EXCEPT ![TeamName(data)] = @ \cup {u}]
  /\ login' = [login EXCEPT ![r] = NoLogin]
  /\ Goto(r, IF kind[r] = "callback" THEN "save" ELSE "put")
  /\ UNCHANGED <<sessionVars, kind, toDrop>>

\* LoginCb's deferred save.
SaveAgain(r) ==
  /\ pc[r] = "save"
  /\ SaveSession(r, session[r].values)
  /\ Goto(r, "put")
  /\ UNCHANGED <<kind, login, toDrop, indexVars>>

\* Mutant of CleanupIndex: the session is not marked.
CleanupIndexOnly(r) ==
  LET u == session[r].values.user
      id == session[r].id IN
  /\ pc[r] = "cleanup"
  /\ userSessionIDs' = IF u # NoUser /\ id # NoID
                       THEN [userSessionIDs EXCEPT ![u][id] = NoTeamData]
                       ELSE userSessionIDs
  /\ Goto(r, "put")
  /\ UNCHANGED <<sessionVars, kind, login, toDrop, teamToUsers>>

\* cleanupSession takes the session from the index of the user its copy
\* names, and marks it once the index is unlocked.
CleanupIndex(r) ==
  LET u == session[r].values.user
      id == session[r].id IN
  /\ pc[r] = "cleanup"
  /\ IF u # NoUser /\ id # NoID /\ userSessionIDs[u][id] # NoTeamData
     THEN LET data == userSessionIDs[u][id] IN
          /\ userSessionIDs' = [userSessionIDs EXCEPT ![u][id] = NoTeamData]
          /\ teamToUsers' = IF data.team = NoTeam THEN teamToUsers
                            ELSE [teamToUsers EXCEPT ![TeamName(data)] = @ \ {u}]
     ELSE UNCHANGED indexVars
  /\ Goto(r, "mark")
  /\ UNCHANGED <<sessionVars, kind, login, toDrop>>

CleanupMark(r) ==
  /\ pc[r] = "mark"
  /\ MarkSession(r)
  /\ Goto(r, "put")
  /\ UNCHANGED <<kind, login, toDrop, indexVars>>

----------------------------------------------------------------------------
\* Webhooks.  Each takes sessions from the index and then drops them.
Webhook(r) == pc[r] = "serve" /\ kind[r] = "webhook"

\* The sessions ids(u) of the users are taken from the index.
Steal(r, ids) ==
  /\ toDrop' = [toDrop EXCEPT ![r] = UNION {ids[u] : u \in Users}]
  /\ userSessionIDs' = [u \in Users |-> [id \in SessionIDs |->
                          IF id \in ids[u] THEN NoTeamData
                          ELSE userSessionIDs[u][id]]]
  /\ Goto(r, "drop")
  /\ UNCHANGED <<sessionVars, kind, login>>

IDsOf(u, which) == {id \in SessionIDs : userSessionIDs[u][id] \in which}
Only(u, ids) == [v \in Users |-> IF v = u THEN ids ELSE {}]
InTeam(t) == {data \in TeamData : TeamName(data) = t}

\* Everything of one user: the authorisation of the app was revoked, or the
\* user was added to a read-write team and has to log in afresh.
StealUserSessionIDs(r, u) ==
  /\ Webhook(r)
  /\ Steal(r, Only(u, IDsOf(u, TeamData)))
  /\ teamToUsers' = [t \in Orgs \X Teams |->
                       IF IDsOf(u, InTeam(t)) # {} THEN teamToUsers[t] \ {u}
                       ELSE teamToUsers[t]]

\* The user left the org: sessions let in by the org itself.
StealUserSessionIDsForOrg(r, u, o) ==
  /\ Webhook(r)
  /\ Steal(r, Only(u, IDsOf(u, {[org |-> o, team |-> NoTeam]})))
  /\ UNCHANGED teamToUsers

\* The user left the team.
StealUserSessionIDsForOrgAndTeam(r, u, t) ==
  /\ Webhook(r)
  /\ Steal(r, Only(u, IDsOf(u, InTeam(t))))
  /\ teamToUsers' = IF IDsOf(u, InTeam(t)) # {}
                    THEN [teamToUsers EXCEPT ![t] = @ \ {u}] ELSE teamToUsers

\* The team was deleted or renamed.
StealSessionIDsForOrgAndTeam(r, t) ==
  /\ Webhook(r)
  /\ Steal(r, [u \in Users |-> IF u \in teamToUsers[t] THEN IDsOf(u, InTeam(t)) ELSE {}])
  /\ teamToUsers' = [teamToUsers EXCEPT ![t] = {}]

LoginWebhook(r) ==
  \/ \E u \in Users : StealUserSessionIDs(r, u)
  \/ \E u \in Users, o \in Orgs : StealUserSessionIDsForOrg(r, u, o)
  \/ \E u \in Users, t \in Orgs \X Teams : StealUserSessionIDsForOrgAndTeam(r, u, t)
  \/ \E t \in Orgs \X Teams : StealSessionIDsForOrgAndTeam(r, t)

DropStolen(r) ==
  /\ pc[r] = "drop"
  /\ UNCHANGED <<kind, login, indexVars>>
  /\ \/ /\ toDrop[r] = {}
        /\ Goto(r, "put")
        /\ UNCHANGED <<sessionVars, toDrop>>
     \/ \E id \in toDrop[r] :
          /\ MarkOrDestroySessionByID(id)
          /\ toDrop' = [toDrop EXCEPT ![r] = @ \ {id}]
          /\ UNCHANGED pc

\* The middleware's deferred put.
Answered(r) ==
  /\ pc[r] = "put"
  /\ PutSessionUse(r)
  /\ Goto(r, "idle")
  /\ kind' = [kind EXCEPT ![r] = "page"]
  /\ UNCHANGED <<login, toDrop, indexVars>>

----------------------------------------------------------------------------
Serve(r) ==
  \/ AuthorizePage(r) \/ AuthorizeBearer(r)
  \/ LoginCbFails(r) \/ LoginCbDanceFails(r)
  \/ \E u \in Users, data \in Memberships : DanceSaves(r, u, data)
  \/ AddSessionID(r) \/ SaveAgain(r) \/ CleanupIndex(r) \/ CleanupMark(r)
  \/ LoginWebhook(r) \/ DropStolen(r) \/ Answered(r)

Next == \E r \in Requests :
          \/ \E k \in Kinds, id \in SessionIDs \cup {NoID} : Arrive(r, k, id)
          \/ Serve(r)

Spec == Init /\ [][Next]_vars

\* A handler that was started runs to its end: requests to GitHub end or are
\* cancelled with the client's connection.  Nobody has to send a request.
FairSpec == Spec /\ \A r \in Requests : WF_vars(Serve(r))

----------------------------------------------------------------------------
\* A session that lets a user in can be found by the webhooks: it is in the
\* user's index, or the request that is about to enter it there, to mark it
\* or to drop it is under way.
LoggedInIsIndexed ==
  \A id \in SessionIDs :
    Known(id) /\ ~sessions[id].destroy /\ sessions[id].values.user # NoUser =>
      LET u == sessions[id].values.user IN
      \/ userSessionIDs[u][id] # NoTeamData
      \/ \E r \in Requests :
           \/ pc[r] = "index" /\ session[r].id = id /\ login[r].user = u
           \/ pc[r] = "mark" /\ session[r].id = id
           \/ id \in toDrop[r]

\* A session that a webhook took out of the index is gone once the webhook and
\* the requests that use the session are answered.
DroppedIsDestroyed ==
  \A id \in SessionIDs :
    (\E r \in Requests : id \in toDrop[r]) ~> sessions[id] = NoSession
=============================================================================
