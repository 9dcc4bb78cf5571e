------------------------------ MODULE Sessions ------------------------------
(***************************************************************************)
(* The session store of pkg/sessions with its in-memory cache.  Every      *)
(* request takes a use of its session when it arrives and puts it back     *)
(* when it is answered; a request works on its own copy of the session's   *)
(* values and saves the whole copy.  One mutex guards the cache, so each   *)
(* operation on it is one step.                                            *)
(***************************************************************************)
EXTENDS Integers, FiniteSets

CONSTANTS Requests,    \* requests that can be in progress at a time
          SessionIDs,  \* random strings, each drawn at most once
          Values,      \* what a session can hold
          NoValues,    \* an empty session's values, an element of Values
          NoID,        \* the empty ID of a session not saved yet
          NoSession

SessionInfo == [values : Values, uses : Nat, destroy : BOOLEAN]
Session == [id : SessionIDs \cup {NoID}, values : Values, marked : BOOLEAN]

ASSUME SessionsAssumption ==
  /\ IsFiniteSet(Requests)
  /\ NoValues \in Values
  /\ NoID \notin SessionIDs
  /\ NoSession \notin SessionInfo \cup Session

VARIABLES sessions,  \* memCache.sessions
          session,   \* the session object of each request in progress
          issued     \* IDs drawn so far

sessionVars == <<sessions, session, issued>>

SessionsTypeOK ==
  /\ sessions \in [SessionIDs -> SessionInfo \cup {NoSession}]
  /\ session \in [Requests -> Session \cup {NoSession}]
  /\ issued \subseteq SessionIDs

SessionsInit ==
  /\ sessions = [id \in SessionIDs |-> NoSession]
  /\ session = [r \in Requests |-> NoSession]
  /\ issued = {}

Known(id) == id \in SessionIDs /\ sessions[id] # NoSession

Holders(id) == {r \in Requests : session[r] # NoSession /\ session[r].id = id}

----------------------------------------------------------------------------
\* A request arrives with the ID of its cookie, or NoID.
GetSessionUse(r, id) ==
  /\ session[r] = NoSession
  /\ UNCHANGED issued
  /\ IF Known(id) /\ ~sessions[id].destroy
     THEN /\ sessions' = [sessions EXCEPT ![id].uses = @ + 1]
          /\ session' = [session EXCEPT ![r] =
               [id |-> id, values |-> sessions[id].values, marked |-> FALSE]]
     ELSE /\ UNCHANGED sessions
          /\ session' = [session EXCEPT ![r] =
               [id |-> NoID, values |-> NoValues, marked |-> FALSE]]

\* Mutant of SaveSession: a save writes a fresh entry, without the mark.
SaveSessionUnmarked(r, values) ==
  LET id == session[r].id IN
  /\ session' = [session EXCEPT ![r].values = values,
                               ![r].id = IF id = NoID THEN CHOOSE new \in SessionIDs \ issued : TRUE ELSE id]
  /\ sessions' = [sessions EXCEPT ![session'[r].id] =
       [values |-> values, destroy |-> FALSE, uses |-> IF id = NoID THEN 1 ELSE @.uses]]
  /\ issued' = issued \cup {session'[r].id}

\* The request sets values and saves.  The first save of a session draws its
\* ID; one that was marked meanwhile is left alone and the object follows.
SaveSession(r, values) ==
  LET id == session[r].id IN
  \/ /\ session[r].marked
     /\ session' = [session EXCEPT ![r].values = values]
     /\ UNCHANGED <<sessions, issued>>
  \/ /\ ~session[r].marked /\ Known(id)
     /\ UNCHANGED issued
     /\ IF sessions[id].destroy
        THEN /\ session' = [session EXCEPT ![r].values = values,
                                           ![r].marked = TRUE]
             /\ UNCHANGED sessions
        ELSE /\ session' = [session EXCEPT ![r].values = values]
             /\ sessions' = [sessions EXCEPT ![id].values = values]
  \/ /\ ~session[r].marked /\ ~Known(id)
     /\ \E new \in SessionIDs \ issued :
          /\ issued' = issued \cup {new}
          /\ session' = [session EXCEPT ![r].id = new, ![r].values = values]
          /\ sessions' = [sessions EXCEPT ![new] =
               [values |-> values, uses |-> 1, destroy |-> FALSE]]

\* Mutant of MarkSession: marking gives up the use as well.
MarkSessionReleased(r) ==
  /\ session' = [session EXCEPT ![r].marked = TRUE]
  /\ sessions' = IF Known(session[r].id)
                 THEN [sessions EXCEPT ![session[r].id].destroy = TRUE,
                                       ![session[r].id].uses = @ - 1]
                 ELSE sessions
  /\ UNCHANGED issued

\* Session.Mark: the holder wants the session gone.
MarkSession(r) ==
  /\ session' = [session EXCEPT ![r].marked = TRUE]
  /\ sessions' = IF Known(session[r].id)
                 THEN [sessions EXCEPT ![session[r].id].destroy = TRUE]
                 ELSE sessions
  /\ UNCHANGED issued

\* Mutant of MarkOrDestroySessionByID: destroys whoever uses the session.
DestroySessionByID(id) ==
  /\ sessions' = [sessions EXCEPT ![id] = NoSession]
  /\ UNCHANGED <<session, issued>>

\* Somebody who does not hold the session wants it gone.
MarkOrDestroySessionByID(id) ==
  /\ sessions' =
       IF ~Known(id) THEN sessions
       ELSE IF sessions[id].uses > 0
            THEN [sessions EXCEPT ![id].destroy = TRUE]
            ELSE [sessions EXCEPT ![id] = NoSession]
  /\ UNCHANGED <<session, issued>>

\* Mutant of PutSessionUse: the last user leaves a marked session behind.
PutSessionUseOnly(r) ==
  /\ session' = [session EXCEPT ![r] = NoSession]
  /\ sessions' = IF Known(session[r].id)
                 THEN [sessions EXCEPT ![session[r].id].uses = @ - 1] ELSE sessions
  /\ UNCHANGED issued

\* The request is answered.
PutSessionUse(r) ==
  LET id == session[r].id IN
  /\ session' = [session EXCEPT ![r] = NoSession]
  /\ sessions' =
       IF ~Known(id) THEN sessions
       ELSE IF sessions[id].destroy /\ sessions[id].uses = 1
            THEN [sessions EXCEPT ![id] = NoSession]
            ELSE [sessions EXCEPT ![id].uses = @ - 1]
  /\ UNCHANGED issued

----------------------------------------------------------------------------
\* The use count of a session is the number of requests that hold it, so a
\* put never meets a count of zero (the panic in PutSessionUse), a session is
\* not destroyed under a request, and none stays behind marked and unused.
UsesAreHolders ==
  \A id \in SessionIDs :
    IF Known(id)
    THEN /\ sessions[id].uses = Cardinality(Holders(id))
         /\ sessions[id].destroy => sessions[id].uses > 0
    ELSE Holders(id) = {}

\* A session marked for destruction keeps its mark and its values until it is
\* gone, and its ID is not given to a session again.
MarkIsFinal ==
  [][\A id \in SessionIDs :
       /\ Known(id) /\ sessions[id].destroy =>
            sessions'[id] = NoSession
              \/ (sessions'[id].destroy /\ sessions'[id].values = sessions[id].values)
       /\ id \in issued /\ ~Known(id) => sessions'[id] = NoSession]_sessionVars
=============================================================================
