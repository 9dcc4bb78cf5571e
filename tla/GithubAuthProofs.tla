-------------------------- MODULE GithubAuthProofs --------------------------
(***************************************************************************)
(* Proofs about Sessions and GithubAuth for any number of requests,        *)
(* sessions, users, organisations and teams and any configuration.         *)
(***************************************************************************)
EXTENDS GithubAuth, FiniteSetTheorems, TLAPS

-----------------------------------------------------------------------------
(* The session store is sound when its use counts are right and only       *)
(* sessions whose ID was drawn are in it.                                  *)
Issued == \A id \in SessionIDs : Known(id) => id \in issued

StoreSound == SessionsTypeOK /\ UsesAreHolders /\ Issued

(* A user bears on a session when the store, or the copy of a request that *)
(* may yet save it, says that the session is the user's.                   *)
Live(id) == Known(id) /\ ~sessions[id].destroy

Bears(id, u) ==
  /\ Live(id)
  /\ \/ sessions[id].values.user = u
     \/ \E r \in Requests : /\ session[r] # NoSession
                            /\ session[r].id = id /\ session[r].values.user = u

(* The webhooks that end the user's memberships will find the session.     *)
Found(id, u) ==
  \/ userSessionIDs[u][id] # NoTeamData
  \/ \E r \in Requests :
       \/ pc[r] = "index" /\ session[r].id = id /\ login[r].user = u
       \/ pc[r] = "mark" /\ session[r].id = id
       \/ id \in toDrop[r]

Covered == \A id \in SessionIDs, u \in Users : Bears(id, u) => Found(id, u)

(* What a request has done by the time it is at a step of its handler: an  *)
(* object that was never saved carries no login and is marked only when    *)
(* its request is about to be answered.                                    *)
ControlOf(r) ==
  /\ pc[r] = "idle" <=> session[r] = NoSession
  /\ session[r] # NoSession /\ session[r].id = NoID =>
       /\ session[r].values.user = NoUser
       /\ session[r].marked => pc[r] = "put"
  /\ pc[r] = "index" => session[r].id # NoID /\ login[r] # NoLogin
  /\ pc[r] # "drop" => toDrop[r] = {}

Inv ==
  /\ GithubAuthTypeOK
  /\ UsesAreHolders
  /\ Issued
  /\ \A r \in Requests : ControlOf(r)
  /\ Covered

-----------------------------------------------------------------------------
(* The holders of a session.                                               *)

LEMMA HoldersFinite ==
  ASSUME NEW id
  PROVE  IsFiniteSet(Holders(id)) /\ Cardinality(Holders(id)) \in Nat
<1>1. Holders(id) \in SUBSET Requests
  BY DEF Holders
<1> QED BY <1>1, SessionsAssumption, FS_Subset, FS_CardinalityType DEF SessionsAssumption

(* One use less is what the count says of the holders without the request. *)
LEMMA HolderLeaves ==
  ASSUME NEW id, NEW r \in Holders(id)
  PROVE  /\ Cardinality(Holders(id) \ {r}) = Cardinality(Holders(id)) - 1
         /\ Cardinality(Holders(id)) > 0
         /\ Cardinality(Holders(id)) = 1 => Holders(id) = {r}
<1>1. Cardinality(Holders(id) \ {r}) = Cardinality(Holders(id)) - 1
  BY HoldersFinite, FS_RemoveElement
<1>2. IsFiniteSet(Holders(id) \ {r}) /\ Cardinality(Holders(id) \ {r}) \in Nat
  BY HoldersFinite, FS_RemoveElement, FS_CardinalityType
<1>3. Cardinality(Holders(id) \ {r}) = 0 => Holders(id) \ {r} = {}
  BY <1>2, FS_EmptySet
<1> QED BY <1>1, <1>2, <1>3, HoldersFinite

LEMMA SessionConstants ==
  NoSession \notin Session /\ NoSession \notin SessionInfo
    /\ NoID \notin SessionIDs /\ NoValues \in Values
BY SessionsAssumption DEF SessionsAssumption

LEMMA NoHolder == Cardinality({}) = 0
BY FS_EmptySet

(* A session object that has an ID is of a session in the cache.           *)
LEMMA HeldIsKnown ==
  ASSUME StoreSound, NEW r \in Requests, session[r] # NoSession, session[r].id # NoID
  PROVE  /\ session[r].id \in SessionIDs
         /\ r \in Holders(session[r].id)
         /\ Known(session[r].id)
<1>1. session[r] \in Session
  BY DEF StoreSound, SessionsTypeOK
<1>2. session[r].id \in SessionIDs
  BY <1>1 DEF Session
<1>3. r \in Holders(session[r].id)
  BY DEF Holders
<1> QED BY <1>2, <1>3 DEF StoreSound, UsesAreHolders

-----------------------------------------------------------------------------
(* The operations of the store keep it sound.  What a step may not do to a *)
(* session that is marked or gone is proved with each.                     *)

MarksStay ==
  \A id \in SessionIDs :
    /\ Known(id) /\ sessions[id].destroy =>
         sessions'[id] = NoSession
           \/ (sessions'[id].destroy /\ sessions'[id].values = sessions[id].values)
    /\ id \in issued /\ ~Known(id) => sessions'[id] = NoSession

LEMMA GetSessionUseSound ==
  ASSUME StoreSound, NEW r \in Requests, NEW id \in SessionIDs \cup {NoID},
         GetSessionUse(r, id)
  PROVE  StoreSound' /\ MarksStay
<1> USE SessionConstants
<1>0. SessionsTypeOK /\ UsesAreHolders /\ Issued /\ session[r] = NoSession /\ issued' = issued
  BY DEF StoreSound, GetSessionUse
<1>1. CASE Known(id) /\ ~sessions[id].destroy
  <2> DEFINE s == [id |-> id, values |-> sessions[id].values, marked |-> FALSE]
  <2>1. /\ id \in SessionIDs /\ sessions[id] \in SessionInfo
        /\ sessions' = [sessions EXCEPT ![id].uses = @ + 1]
        /\ session' = [session EXCEPT ![r] = s]
    BY <1>0, <1>1 DEF GetSessionUse, Known, SessionsTypeOK
  <2>2. s \in Session /\ s # NoSession
    <3>1. s \in Session
      BY <2>1 DEF SessionInfo, Session
    <3> QED BY <3>1
  <2>3. SessionsTypeOK'
    BY <1>0, <2>1, <2>2 DEF SessionsTypeOK, SessionInfo
  <2>4. sessions'[id] \in SessionInfo /\ sessions'[id].uses = sessions[id].uses + 1
        /\ sessions'[id].destroy = FALSE
    BY <1>0, <1>1, <2>1 DEF SessionsTypeOK, SessionInfo
  <2>5. Holders(id)' = Holders(id) \cup {r} /\ r \notin Holders(id)
    BY <1>0, <2>1, <2>2 DEF Holders, SessionsTypeOK
  <2>6. \A i \in SessionIDs \ {id} : Holders(i)' = Holders(i) /\ sessions'[i] = sessions[i]
    BY <1>0, <2>1, <2>2 DEF Holders, SessionsTypeOK
  <2>7. Cardinality(Holders(id)') = Cardinality(Holders(id)) + 1
    BY <2>5, HoldersFinite, FS_AddElement
  <2>8. UsesAreHolders'
    <3> SUFFICES ASSUME NEW i \in SessionIDs
                 PROVE  IF Known(i)'
                        THEN /\ sessions'[i].uses = Cardinality(Holders(i)')
                             /\ sessions'[i].destroy => sessions'[i].uses > 0
                        ELSE Holders(i)' = {}
      BY DEF UsesAreHolders
    <3>1. CASE i = id
      BY <1>0, <1>1, <3>1, <2>4, <2>7 DEF UsesAreHolders, Known
    <3>2. CASE i # id
      BY <1>0, <3>2, <2>6 DEF UsesAreHolders, Known
    <3> QED BY <3>1, <3>2
  <2>9. Issued' /\ MarksStay
    BY <1>0, <1>1, <2>4, <2>6 DEF Issued, MarksStay, Known
  <2> QED BY <2>3, <2>8, <2>9 DEF StoreSound
<1>2. CASE ~(Known(id) /\ ~sessions[id].destroy)
  <2> DEFINE s == [id |-> NoID, values |-> NoValues, marked |-> FALSE]
  <2>1. sessions' = sessions /\ session' = [session EXCEPT ![r] = s]
    BY <1>2 DEF GetSessionUse
  <2>2. s \in Session /\ s # NoSession
    <3>1. s \in Session
      BY DEF Session
    <3> QED BY <3>1
  <2>3. SessionsTypeOK'
    BY <1>0, <2>1, <2>2 DEF SessionsTypeOK
  <2>4. \A i \in SessionIDs : Holders(i)' = Holders(i)
    BY <1>0, <2>1, <2>2 DEF Holders, SessionsTypeOK
  <2>5. UsesAreHolders' /\ Issued' /\ MarksStay
    BY <1>0, <2>1, <2>4 DEF UsesAreHolders, Issued, MarksStay, Known
  <2> QED BY <2>3, <2>5 DEF StoreSound
<1> QED BY <1>1, <1>2

(* A request that changes its copy, but not whose copy it is, holds on.    *)
LEMMA SameHolders ==
  ASSUME StoreSound, NEW r \in Requests, session[r] # NoSession,
         NEW s \in Session, s.id = session[r].id, session' = [session EXCEPT ![r] = s]
  PROVE  /\ session' \in [Requests -> Session \cup {NoSession}]
         /\ \A id \in SessionIDs : Holders(id)' = Holders(id)
<1>1. session \in [Requests -> Session \cup {NoSession}] /\ s # NoSession
  BY SessionConstants DEF StoreSound, SessionsTypeOK
<1> QED BY <1>1 DEF Holders

LEMMA SaveSessionSound ==
  ASSUME StoreSound, NEW r \in Requests, session[r] # NoSession, NEW values \in Values,
         SaveSession(r, values)
  PROVE  /\ StoreSound' /\ MarksStay
         /\ session'[r] # NoSession /\ session'[r].values = values
         /\ \A q \in Requests \ {r} : session'[q] = session[q]
         /\ session[r].id # NoID => session'[r].id = session[r].id
         /\ session[r].id = NoID /\ ~session[r].marked =>
              session'[r].id \in SessionIDs \ issued /\ ~session'[r].marked
<1> USE SessionConstants
<1> DEFINE id == session[r].id
<1>0. /\ SessionsTypeOK /\ UsesAreHolders /\ Issued /\ session[r] \in Session
      /\ sessions \in [SessionIDs -> SessionInfo \cup {NoSession}]
      /\ session \in [Requests -> Session \cup {NoSession}]
  BY DEF StoreSound, SessionsTypeOK
<1>1. CASE session[r].marked /\ session' = [session EXCEPT ![r].values = values]
             /\ UNCHANGED <<sessions, issued>>
  <2>1. session'[r] \in Session /\ session'[r].id = id /\ session'[r].values = values
        /\ session' = [session EXCEPT ![r] = session'[r]]
    BY <1>0, <1>1 DEF Session
  <2>2. \A i \in SessionIDs : Holders(i)' = Holders(i)
    BY <2>1, SameHolders
  <2>3. SessionsTypeOK'
    BY <1>0, <1>1, <2>1, SameHolders DEF SessionsTypeOK
  <2>4. UsesAreHolders' /\ Issued' /\ MarksStay
    BY <1>0, <1>1, <2>2 DEF UsesAreHolders, Issued, MarksStay, Known
  <2> QED BY <1>0, <1>1, <2>1, <2>3, <2>4 DEF StoreSound
<1>2. CASE ~session[r].marked /\ Known(id) /\ sessions[id].destroy /\ issued' = issued
             /\ session' = [session EXCEPT ![r].values = values, ![r].marked = TRUE]
             /\ UNCHANGED sessions
  <2>1. session'[r] \in Session /\ session'[r].id = id /\ session'[r].values = values
        /\ session' = [session EXCEPT ![r] = session'[r]]
    BY <1>0, <1>2 DEF Session
  <2>2. \A i \in SessionIDs : Holders(i)' = Holders(i)
    BY <2>1, SameHolders
  <2>3. SessionsTypeOK'
    BY <1>0, <1>2, <2>1, SameHolders DEF SessionsTypeOK
  <2>4. UsesAreHolders' /\ Issued' /\ MarksStay
    BY <1>0, <1>2, <2>2 DEF UsesAreHolders, Issued, MarksStay, Known
  <2> QED BY <1>0, <1>2, <2>1, <2>3, <2>4 DEF StoreSound, Known
<1>3. CASE ~session[r].marked /\ Known(id) /\ ~sessions[id].destroy /\ issued' = issued
             /\ session' = [session EXCEPT ![r].values = values]
             /\ sessions' = [sessions EXCEPT ![id].values = values]
  <2>1. session'[r] \in Session /\ session'[r].id = id /\ session'[r].values = values
        /\ session' = [session EXCEPT ![r] = session'[r]]
    BY <1>0, <1>3 DEF Session
  <2>2. \A i \in SessionIDs : Holders(i)' = Holders(i)
    BY <2>1, SameHolders
  <2>3. /\ sessions'[id] \in SessionInfo /\ sessions'[id].uses = sessions[id].uses
        /\ sessions'[id].destroy = sessions[id].destroy
        /\ sessions' = [sessions EXCEPT ![id] = sessions'[id]]
    BY <1>0, <1>3 DEF Known, SessionInfo
  <2>4. SessionsTypeOK'
    BY <1>0, <1>3, <2>1, <2>3, SameHolders DEF SessionsTypeOK
  <2>5. \A i \in SessionIDs \ {id} : sessions'[i] = sessions[i]
    BY <1>0, <1>3 DEF Known
  <2>6. UsesAreHolders'
    BY <1>0, <1>3, <2>2, <2>3, <2>5 DEF UsesAreHolders, Known
  <2>7. Issued' /\ MarksStay
    BY <1>0, <1>3, <2>3, <2>5 DEF Issued, MarksStay, Known
  <2> QED BY <1>0, <1>3, <2>1, <2>4, <2>6, <2>7 DEF StoreSound, Known
<1>4. ASSUME ~session[r].marked, ~Known(id), NEW new \in SessionIDs \ issued,
             issued' = issued \cup {new},
             session' = [session EXCEPT ![r].id = new, ![r].values = values],
             sessions' = [sessions EXCEPT ![new] =
                            [values |-> values, uses |-> 1, destroy |-> FALSE]]
      PROVE  /\ StoreSound' /\ MarksStay
             /\ session'[r] # NoSession /\ session'[r].values = values
             /\ \A q \in Requests \ {r} : session'[q] = session[q]
             /\ id = NoID /\ session'[r].id \in SessionIDs \ issued
             /\ ~session'[r].marked
  <2>1. id = NoID
    BY <1>4, HeldIsKnown
  <2>2. /\ session'[r] \in Session /\ session'[r].id = new /\ session'[r].values = values
        /\ ~session'[r].marked
        /\ session' = [session EXCEPT ![r] = session'[r]]
    BY <1>0, <1>4 DEF Session
  <2>3. sessions'[new] = [values |-> values, uses |-> 1, destroy |-> FALSE]
        /\ sessions'[new] \in SessionInfo
    BY <1>0, <1>4 DEF SessionInfo
  <2>4. SessionsTypeOK'
    BY <1>0, <1>4, <2>2, <2>3 DEF SessionsTypeOK
  <2>5. \A i \in SessionIDs \ {new} : sessions'[i] = sessions[i] /\ Holders(i)' = Holders(i)
    BY <1>0, <1>4, <2>1, <2>2 DEF Holders
  <2>6. Holders(new) = {}
    BY <1>0, <1>4 DEF UsesAreHolders, Issued
  <2>7. Holders(new)' = {r} /\ Cardinality({r}) = 1
    <3>1. /\ session'[r] # NoSession
          /\ \A q \in Requests \ {r} : session'[q] = session[q]
      BY <1>0, <1>4, <2>2
    <3>2. Holders(new)' = {r}
      BY <3>1, <2>2, <2>6 DEF Holders
    <3> QED BY <3>2, FS_Singleton
  <2>8. UsesAreHolders'
    <3> SUFFICES ASSUME NEW i \in SessionIDs
                 PROVE  IF Known(i)'
                        THEN /\ sessions'[i].uses = Cardinality(Holders(i)')
                             /\ sessions'[i].destroy => sessions'[i].uses > 0
                        ELSE Holders(i)' = {}
      BY DEF UsesAreHolders
    <3>1. CASE i = new
      <4>1. sessions'[new] # NoSession
        BY <2>3
      <4>2. sessions'[new].uses = 1 /\ sessions'[new].destroy = FALSE
        BY <2>3
      <4> QED BY <4>1, <4>2, <3>1, <2>7 DEF Known
    <3>2. CASE i # new
      BY <1>0, <3>2, <2>5 DEF UsesAreHolders, Known
    <3> QED BY <3>1, <3>2
  <2>9. Issued' /\ MarksStay
    BY <1>0, <1>4, <2>3, <2>5 DEF Issued, MarksStay, Known
  <2> QED BY <1>0, <1>4, <2>1, <2>2, <2>4, <2>8, <2>9 DEF StoreSound
<1> QED BY <1>1, <1>2, <1>3, <1>4 DEF SaveSession

LEMMA MarkSessionSound ==
  ASSUME StoreSound, NEW r \in Requests, session[r] # NoSession, MarkSession(r)
  PROVE  /\ StoreSound' /\ MarksStay
         /\ session'[r] = [session[r] EXCEPT !.marked = TRUE]
         /\ session'[r] # NoSession
         /\ \A q \in Requests \ {r} : session'[q] = session[q]
<1> USE SessionConstants
<1> DEFINE id == session[r].id
<1>0. /\ SessionsTypeOK /\ UsesAreHolders /\ Issued /\ session[r] \in Session
      /\ sessions \in [SessionIDs -> SessionInfo \cup {NoSession}]
      /\ session \in [Requests -> Session \cup {NoSession}]
      /\ issued' = issued
  BY DEF StoreSound, SessionsTypeOK, MarkSession
<1>1. /\ session'[r] = [session[r] EXCEPT !.marked = TRUE]
      /\ session'[r] \in Session /\ session'[r].id = id
      /\ session' = [session EXCEPT ![r] = session'[r]]
  BY <1>0 DEF Session, MarkSession
<1>2. \A i \in SessionIDs : Holders(i)' = Holders(i)
  BY <1>1, SameHolders
<1>3. CASE Known(id)
  <2>1. /\ sessions'[id] \in SessionInfo /\ sessions'[id].uses = sessions[id].uses
        /\ sessions'[id].values = sessions[id].values
        /\ sessions'[id].destroy
        /\ sessions' = [sessions EXCEPT ![id] = sessions'[id]]
    BY <1>0, <1>3 DEF Known, SessionInfo, MarkSession
  <2>2. SessionsTypeOK'
    BY <1>0, <1>3, <1>1, <2>1, SameHolders DEF SessionsTypeOK
  <2>3. \A i \in SessionIDs \ {id} : sessions'[i] = sessions[i]
    BY <1>0, <2>1 DEF Known
  <2>4. sessions[id].uses > 0
    <3>1. r \in Holders(id) /\ id \in SessionIDs
      BY <1>3 DEF Holders, Known
    <3>2. sessions[id].uses = Cardinality(Holders(id))
      BY <1>0, <1>3, <3>1 DEF UsesAreHolders
    <3> QED BY <3>1, <3>2, HolderLeaves
  <2>5. UsesAreHolders'
    BY <1>0, <1>3, <1>2, <2>1, <2>3, <2>4 DEF UsesAreHolders, Known
  <2>6. Issued' /\ MarksStay
    BY <1>0, <1>3, <2>1, <2>3 DEF Issued, MarksStay, Known
  <2> QED BY <1>0, <1>1, <2>2, <2>5, <2>6 DEF StoreSound
<1>4. CASE ~Known(id)
  <2>1. sessions' = sessions
    BY <1>4 DEF MarkSession
  <2>2. SessionsTypeOK'
    BY <1>0, <1>1, <2>1, SameHolders DEF SessionsTypeOK
  <2>3. UsesAreHolders' /\ Issued' /\ MarksStay
    BY <1>0, <1>2, <2>1 DEF UsesAreHolders, Issued, MarksStay, Known
  <2> QED BY <1>0, <1>1, <2>2, <2>3 DEF StoreSound
<1> QED BY <1>3, <1>4

LEMMA MarkOrDestroySessionByIDSound ==
  ASSUME StoreSound, NEW id \in SessionIDs, MarkOrDestroySessionByID(id)
  PROVE  StoreSound' /\ MarksStay
<1> USE SessionConstants
<1>0. /\ SessionsTypeOK /\ UsesAreHolders /\ Issued
      /\ sessions \in [SessionIDs -> SessionInfo \cup {NoSession}]
      /\ issued' = issued /\ session' = session
  BY DEF StoreSound, SessionsTypeOK, MarkOrDestroySessionByID
<1>1. \A i \in SessionIDs : Holders(i)' = Holders(i)
  BY <1>0 DEF Holders
<1>2. CASE ~Known(id)
  <2>1. sessions' = sessions
    BY <1>2 DEF MarkOrDestroySessionByID
  <2> QED BY <1>0, <1>1, <2>1 DEF StoreSound, SessionsTypeOK, UsesAreHolders, Issued,
                                  MarksStay, Known
<1>3. CASE Known(id) /\ sessions[id].uses > 0
  <2>1. /\ sessions'[id] \in SessionInfo /\ sessions'[id].uses = sessions[id].uses
        /\ sessions'[id].values = sessions[id].values
        /\ sessions'[id].destroy
        /\ sessions' = [sessions EXCEPT ![id] = sessions'[id]]
    BY <1>0, <1>3 DEF Known, SessionInfo, MarkOrDestroySessionByID
  <2>2. SessionsTypeOK'
    BY <1>0, <2>1 DEF SessionsTypeOK
  <2>3. \A i \in SessionIDs \ {id} : sessions'[i] = sessions[i]
    BY <1>0, <2>1
  <2>4. UsesAreHolders'
    BY <1>0, <1>3, <1>1, <2>1, <2>3 DEF UsesAreHolders, Known
  <2>5. Issued' /\ MarksStay
    BY <1>0, <1>3, <2>1, <2>3 DEF Issued, MarksStay, Known
  <2> QED BY <2>2, <2>4, <2>5 DEF StoreSound
<1>4. CASE Known(id) /\ ~(sessions[id].uses > 0)
  <2>1. sessions' = [sessions EXCEPT ![id] = NoSession]
    BY <1>4 DEF MarkOrDestroySessionByID
  <2>2. SessionsTypeOK'
    BY <1>0, <2>1 DEF SessionsTypeOK
  <2>3. Holders(id) = {}
    <3>1. sessions[id].uses = Cardinality(Holders(id))
      BY <1>0, <1>4 DEF UsesAreHolders
    <3> QED BY <3>1, <1>4, HoldersFinite, FS_EmptySet
  <2>4. UsesAreHolders'
    BY <1>0, <1>1, <2>1, <2>3 DEF UsesAreHolders, Known
  <2>5. Issued' /\ MarksStay
    BY <1>0, <2>1 DEF Issued, MarksStay, Known
  <2> QED BY <2>2, <2>4, <2>5 DEF StoreSound
<1> QED BY <1>2, <1>3, <1>4

LEMMA PutSessionUseSound ==
  ASSUME StoreSound, NEW r \in Requests, NEW id, session[r] # NoSession,
         id = session[r].id, PutSessionUse(r)
  PROVE  StoreSound' /\ MarksStay
<1> USE SessionConstants
<1>0. /\ SessionsTypeOK /\ UsesAreHolders /\ Issued /\ session[r] \in Session
      /\ sessions \in [SessionIDs -> SessionInfo \cup {NoSession}]
      /\ session \in [Requests -> Session \cup {NoSession}]
      /\ issued' = issued /\ session' = [session EXCEPT ![r] = NoSession]
  BY DEF StoreSound, SessionsTypeOK, PutSessionUse
<1>1. \A i : Holders(i)' = Holders(i) \ {r}
  BY <1>0 DEF Holders
<1>2. \A i \in SessionIDs \ {id} : Holders(i)' = Holders(i)
  BY <1>0 DEF Holders
<1>3. CASE ~Known(id)
  <2>1. sessions' = sessions /\ id \notin SessionIDs
    BY <1>3, HeldIsKnown DEF PutSessionUse
  <2> QED BY <1>0, <1>2, <2>1 DEF StoreSound, SessionsTypeOK, UsesAreHolders, Issued,
                                  MarksStay, Known
<1>4. CASE Known(id)
  <2>1. /\ id \in SessionIDs /\ sessions[id] \in SessionInfo /\ r \in Holders(id)
        /\ sessions[id].uses = Cardinality(Holders(id)) /\ sessions[id].uses \in Nat
    BY <1>0, <1>4 DEF Known, Holders, UsesAreHolders, SessionInfo
  <2>2. sessions[id].uses > 0
    BY <2>1, HolderLeaves
  <2>3. CASE sessions[id].destroy /\ sessions[id].uses = 1
    <3>1. sessions' = [sessions EXCEPT ![id] = NoSession]
      BY <1>4, <2>3 DEF PutSessionUse
    <3>2. Holders(id)' = {}
      <4>1. Holders(id) = {r}
        BY <2>1, <2>3, HolderLeaves
      <4> QED BY <1>1, <4>1
    <3>3. SessionsTypeOK'
      BY <1>0, <3>1 DEF SessionsTypeOK
    <3>4. UsesAreHolders'
      <4>1. sessions'[id] = NoSession /\ \A i \in SessionIDs \ {id} : sessions'[i] = sessions[i]
        BY <1>0, <2>1, <3>1
      <4> QED BY <1>0, <1>2, <2>1, <3>2, <4>1 DEF UsesAreHolders, Known
    <3>5. Issued' /\ MarksStay
      BY <1>0, <3>1 DEF Issued, MarksStay, Known
    <3> QED BY <3>3, <3>4, <3>5 DEF StoreSound
  <2>4. CASE ~(sessions[id].destroy /\ sessions[id].uses = 1)
    <3>1. /\ sessions'[id] \in SessionInfo /\ sessions'[id].uses = sessions[id].uses - 1
          /\ sessions'[id].values = sessions[id].values
          /\ sessions'[id].destroy = sessions[id].destroy
          /\ sessions' = [sessions EXCEPT ![id] = sessions'[id]]
      <4>1. sessions' = [sessions EXCEPT ![id].uses = @ - 1]
        BY <1>4, <2>4 DEF PutSessionUse
      <4>2. sessions[id].uses - 1 \in Nat
        BY <2>1, <2>2
      <4> QED BY <1>0, <2>1, <4>1, <4>2 DEF SessionInfo
    <3>2. \A i \in SessionIDs \ {id} : sessions'[i] = sessions[i]
      BY <1>0, <3>1
    <3>3. SessionsTypeOK'
      BY <1>0, <3>1 DEF SessionsTypeOK
    <3>4. Cardinality(Holders(id)') = sessions'[id].uses
      <4>1. Holders(id)' = Holders(id) \ {r}
        BY <1>1
      <4>2. Cardinality(Holders(id) \ {r}) = Cardinality(Holders(id)) - 1
        BY <2>1, HolderLeaves
      <4> QED BY <2>1, <3>1, <4>1, <4>2
    <3>5. sessions'[id].destroy => sessions'[id].uses > 0
      BY <2>1, <2>2, <2>4, <3>1
    <3>6. UsesAreHolders'
      <4>1. sessions'[id] # NoSession
        BY <3>1
      <4>2. /\ sessions'[id].uses = Cardinality(Holders(id)')
            /\ sessions'[id].destroy => sessions'[id].uses > 0
        BY <3>4, <3>5
      <4> QED BY <1>0, <1>2, <3>2, <4>1, <4>2 DEF UsesAreHolders, Known
    <3>7. Issued' /\ MarksStay
      BY <1>0, <1>4, <3>1, <3>2 DEF Issued, MarksStay, Known
    <3> QED BY <3>3, <3>6, <3>7 DEF StoreSound
  <2> QED BY <2>3, <2>4
<1> QED BY <1>3, <1>4

-----------------------------------------------------------------------------
(* No operation of the store gives a session a user, except a save of the  *)
(* request's values; an ended session bears no user.                       *)

LEMMA GetSessionUseBears ==
  ASSUME StoreSound, NEW r \in Requests, NEW c \in SessionIDs \cup {NoID},
         GetSessionUse(r, c), NEW id \in SessionIDs, NEW u, Bears(id, u)'
  PROVE  Bears(id, u)
<1> USE SessionConstants
<1>1. /\ session \in [Requests -> Session \cup {NoSession}]
      /\ sessions \in [SessionIDs -> SessionInfo \cup {NoSession}]
      /\ session[r] = NoSession
  BY DEF StoreSound, SessionsTypeOK, GetSessionUse
<1>2. CASE Known(c) /\ ~sessions[c].destroy
  <2>1. /\ sessions' = [sessions EXCEPT ![c].uses = @ + 1] /\ c \in SessionIDs
        /\ session' = [session EXCEPT ![r] =
                         [id |-> c, values |-> sessions[c].values, marked |-> FALSE]]
    BY <1>2 DEF GetSessionUse, Known
  <2>2. /\ session'[r].id = c /\ session'[r].values = sessions[c].values
        /\ \A q \in Requests \ {r} : session'[q] = session[q]
    BY <1>1, <2>1
  <2>3. /\ sessions'[c].destroy = sessions[c].destroy
        /\ sessions'[c].values = sessions[c].values
        /\ \A i \in SessionIDs \ {c} : sessions'[i] = sessions[i]
    BY <1>1, <1>2, <2>1 DEF Known, SessionInfo
  <2> QED BY <1>2, <2>2, <2>3 DEF Bears, Live, Known
<1>3. CASE ~(Known(c) /\ ~sessions[c].destroy)
  <2>1. /\ sessions' = sessions
        /\ session' = [session EXCEPT ![r] =
                         [id |-> NoID, values |-> NoValues, marked |-> FALSE]]
    BY <1>3 DEF GetSessionUse
  <2>2. session'[r].id = NoID /\ \A q \in Requests \ {r} : session'[q] = session[q]
    BY <1>1, <2>1
  <2> QED BY <2>1, <2>2 DEF Bears, Live, Known
<1> QED BY <1>2, <1>3

LEMMA SaveSessionBears ==
  ASSUME StoreSound, NEW r \in Requests, session[r] # NoSession, NEW values \in Values,
         SaveSession(r, values), NEW id \in SessionIDs, NEW u, Bears(id, u)'
  PROVE  Bears(id, u) \/ (id = session'[r].id /\ u = values.user)
<1> USE SessionConstants
<1>0. /\ SessionsTypeOK /\ UsesAreHolders /\ Issued /\ session[r] \in Session
      /\ sessions \in [SessionIDs -> SessionInfo \cup {NoSession}]
      /\ session \in [Requests -> Session \cup {NoSession}]
  BY DEF StoreSound, SessionsTypeOK
<1>1. /\ \A q \in Requests \ {r} : session'[q] = session[q]
      /\ session'[r] # NoSession /\ session'[r].values = values
  BY SaveSessionSound
<1>2. \/ sessions'[id] = sessions[id]
      \/ Live(id) /\ id = session'[r].id /\ sessions'[id].values = values
      \/ /\ id = session'[r].id /\ sessions'[id].values = values
         /\ \A q \in Requests \ {r} : session[q] = NoSession \/ session[q].id # id
  <2>1. CASE UNCHANGED sessions
    BY <2>1
  <2>2. CASE /\ Known(session[r].id) /\ ~sessions[session[r].id].destroy
             /\ session' = [session EXCEPT ![r].values = values]
             /\ sessions' = [sessions EXCEPT ![session[r].id].values = values]
    <3>1. session'[r].id = session[r].id
      BY <1>0, <2>2 DEF Session
    <3>2. CASE id = session[r].id
      <4>1. sessions'[id].values = values
        BY <1>0, <2>2, <3>2 DEF Known, SessionInfo
      <4> QED BY <2>2, <3>1, <3>2, <4>1 DEF Live
    <3>3. CASE id # session[r].id
      BY <1>0, <2>2, <3>3 DEF Known
    <3> QED BY <3>2, <3>3
  <2>3. ASSUME NEW new \in SessionIDs \ issued,
               session' = [session EXCEPT ![r].id = new, ![r].values = values],
               sessions' = [sessions EXCEPT ![new] =
                              [values |-> values, uses |-> 1, destroy |-> FALSE]]
        PROVE  \/ sessions'[id] = sessions[id]
               \/ /\ id = session'[r].id /\ sessions'[id].values = values
                  /\ \A q \in Requests \ {r} : session[q] = NoSession \/ session[q].id # id
    <3>1. session'[r].id = new
      BY <1>0, <2>3 DEF Session
    <3>2. CASE id = new
      <4>1. Holders(id) = {}
        BY <1>0, <2>3, <3>2 DEF UsesAreHolders, Issued
      <4>2. sessions'[id] = [values |-> values, uses |-> 1, destroy |-> FALSE]
        BY <1>0, <2>3, <3>2
      <4> QED BY <3>1, <3>2, <4>1, <4>2 DEF Holders
    <3>3. CASE id # new
      BY <1>0, <2>3, <3>3
    <3> QED BY <3>2, <3>3
  <2> QED BY <2>1, <2>2, <2>3 DEF SaveSession
<1>3. CASE sessions'[id] = sessions[id]
  <2>1. Live(id)' <=> Live(id)
    BY <1>3 DEF Live, Known
  <2> QED BY <1>1, <1>3, <2>1 DEF Bears
<1>4. CASE Live(id) /\ id = session'[r].id /\ sessions'[id].values = values
  BY <1>1, <1>4 DEF Bears
<1>5. CASE /\ id = session'[r].id /\ sessions'[id].values = values
           /\ \A q \in Requests \ {r} : session[q] = NoSession \/ session[q].id # id
  BY <1>1, <1>5 DEF Bears
<1> QED BY <1>2, <1>3, <1>4, <1>5

LEMMA MarkSessionBears ==
  ASSUME StoreSound, NEW r \in Requests, session[r] # NoSession, MarkSession(r),
         NEW id \in SessionIDs, NEW u, Bears(id, u)'
  PROVE  Bears(id, u) /\ session[r].id # id
<1> USE SessionConstants
<1>0. /\ session[r] \in Session
      /\ sessions \in [SessionIDs -> SessionInfo \cup {NoSession}]
  BY DEF StoreSound, SessionsTypeOK
<1>1. /\ session'[r].id = session[r].id /\ session'[r].values = session[r].values
      /\ \A q \in Requests \ {r} : session'[q] = session[q]
  BY <1>0, MarkSessionSound DEF Session
<1>2. CASE id = session[r].id /\ Known(id)
  <2>1. sessions'[id].destroy
    BY <1>0, <1>2 DEF MarkSession, SessionInfo, Known
  <2> QED BY <2>1 DEF Bears, Live
<1>3. CASE id # session[r].id
  <2>1. sessions'[id] = sessions[id]
    BY <1>0, <1>3 DEF MarkSession, Known
  <2> QED BY <1>1, <1>3, <2>1 DEF Bears, Live, Known
<1>4. CASE id = session[r].id /\ ~Known(id)
  BY <1>4, HeldIsKnown
<1> QED BY <1>2, <1>3, <1>4

LEMMA MarkOrDestroySessionByIDBears ==
  ASSUME StoreSound, NEW d \in SessionIDs, MarkOrDestroySessionByID(d),
         NEW id \in SessionIDs, NEW u, Bears(id, u)'
  PROVE  Bears(id, u) /\ id # d
<1> USE SessionConstants
<1>0. sessions \in [SessionIDs -> SessionInfo \cup {NoSession}] /\ session' = session
  BY DEF StoreSound, SessionsTypeOK, MarkOrDestroySessionByID
<1>1. CASE id # d
  <2>1. sessions'[id] = sessions[id]
    BY <1>0, <1>1 DEF MarkOrDestroySessionByID, Known
  <2> QED BY <1>0, <1>1, <2>1 DEF Bears, Live, Known
<1>2. CASE id = d
  <2>1. ~Live(id)'
    BY <1>0, <1>2 DEF MarkOrDestroySessionByID, Live, Known, SessionInfo
  <2> QED BY <2>1 DEF Bears
<1> QED BY <1>1, <1>2

LEMMA PutSessionUseBears ==
  ASSUME StoreSound, NEW r \in Requests, session[r] # NoSession, PutSessionUse(r),
         NEW id \in SessionIDs, NEW u, Bears(id, u)'
  PROVE  Bears(id, u)
<1> USE SessionConstants
<1>0. /\ sessions \in [SessionIDs -> SessionInfo \cup {NoSession}]
      /\ session \in [Requests -> Session \cup {NoSession}]
  BY DEF StoreSound, SessionsTypeOK
<1>1. session'[r] = NoSession /\ \A q \in Requests \ {r} : session'[q] = session[q]
  BY <1>0 DEF PutSessionUse
<1>2. \/ sessions'[id] = NoSession
      \/ sessions'[id] = sessions[id]
      \/ /\ sessions'[id].values = sessions[id].values
         /\ sessions'[id].destroy = sessions[id].destroy /\ Known(id)
  <2>1. CASE ~Known(session[r].id)
    BY <2>1 DEF PutSessionUse
  <2>2. CASE Known(session[r].id) /\ sessions[session[r].id].destroy
             /\ sessions[session[r].id].uses = 1
    BY <1>0, <2>2 DEF PutSessionUse
  <2>3. CASE Known(session[r].id) /\ sessions' = [sessions EXCEPT ![session[r].id].uses = @ - 1]
    BY <1>0, <2>3 DEF Known, SessionInfo
  <2> QED BY <2>1, <2>2, <2>3 DEF PutSessionUse
<1> QED BY <1>1, <1>2 DEF Bears, Live, Known

-----------------------------------------------------------------------------
(* The steps of the handlers.                                              *)

LEMMA AuthConstants ==
  /\ Values = SessionValues /\ NoValues = EmptyValues
  /\ NoUser \notin Users /\ NoTeamData \notin TeamData
  /\ [user : Users, data : TeamData] \cap {NoLogin} = {}
<1>1. /\ Values = SessionValues /\ NoValues = EmptyValues
      /\ NoUser \notin Users /\ NoTeamData \notin TeamData
  BY GithubAuthAssumption DEF GithubAuthAssumption
<1>2. NoLogin \notin [user : Users, data : TeamData]
  BY <1>1 DEF NoLogin
<1> QED BY <1>1, <1>2

(* What the dance records is a membership.                                 *)
LEMMA MembershipsAreTeamData == Memberships \subseteq TeamData
<1> SUFFICES ASSUME NEW ts \in SUBSET (RWTeams \cup ROTeams),
                    NEW os \in SUBSET (RWOrgs \cup ROOrgs), NEW d \in Dance(ts, os)
             PROVE  d \in TeamData
  BY DEF Memberships
<1>1. ts \subseteq Orgs \X Teams /\ os \subseteq Orgs
  BY GithubAuthAssumption DEF GithubAuthAssumption
<1>2. \A t \in ts : t[1] \in Orgs /\ t[2] \in Teams
  BY <1>1
<1> QED BY <1>1, <1>2 DEF Dance, TeamData

LEMMA InvStore == Inv => StoreSound /\ Covered
BY DEF Inv, GithubAuthTypeOK, StoreSound

LEMMA NoDropping ==
  ASSUME Inv, NEW r \in Requests, pc[r] # "drop"
  PROVE  toDrop[r] = {}
BY DEF Inv, ControlOf

LEMMA Working ==
  ASSUME Inv, NEW r \in Requests, pc[r] # "idle"
  PROVE  session[r] # NoSession /\ session[r] \in Session /\ session[r].values \in SessionValues
BY AuthConstants DEF Inv, ControlOf, GithubAuthTypeOK, SessionsTypeOK, Session

(* A request that was not about to enter or to mark a session goes on.     *)
LEMMA FoundStays ==
  ASSUME Inv, NEW r \in Requests, pc[r] \notin {"index", "mark"},
         NEW label, Goto(r, label), UNCHANGED <<toDrop, userSessionIDs>>,
         \A q \in Requests \ {r} : session'[q] = session[q] /\ login'[q] = login[q],
         NEW id \in SessionIDs, NEW u, Found(id, u)
  PROVE  Found(id, u)'
<1>1. \A q \in Requests \ {r} : pc'[q] = pc[q]
  BY DEF Goto, Inv, GithubAuthTypeOK
<1> QED BY <1>1 DEF Found

(* The requests whose turn it is not keep what they had.                   *)
LEMMA OthersKeep ==
  ASSUME Inv, NEW r \in Requests, NEW label, Goto(r, label),
         \A q \in Requests \ {r} :
           /\ session'[q] = session[q] /\ login'[q] = login[q] /\ toDrop'[q] = toDrop[q]
  PROVE  \A q \in Requests \ {r} : ControlOf(q)'
BY DEF Inv, ControlOf, Goto, GithubAuthTypeOK

LEMMA ArriveKeeps ==
  ASSUME Inv, NEW r \in Requests, NEW k \in Kinds, NEW c \in SessionIDs \cup {NoID},
         Arrive(r, k, c)
  PROVE  Inv' /\ MarksStay
<1> USE SessionConstants, AuthConstants
<1>0. StoreSound /\ Covered /\ GetSessionUse(r, c) /\ pc[r] = "idle" /\ Goto(r, "serve")
      /\ UNCHANGED <<login, toDrop, userSessionIDs, teamToUsers>>
  BY InvStore DEF Arrive, indexVars
<1>1. StoreSound' /\ MarksStay
  BY <1>0, GetSessionUseSound
<1>2. GithubAuthTypeOK'
  BY <1>0, <1>1 DEF Inv, GithubAuthTypeOK, StoreSound, Arrive, Goto
<1>3. /\ session'[r] # NoSession
      /\ session'[r].id = NoID => session'[r].values.user = NoUser /\ ~session'[r].marked
      /\ \A q \in Requests \ {r} : session'[q] = session[q]
  <2>0. session \in [Requests -> Session \cup {NoSession}]
        /\ session' \in [Requests -> Session \cup {NoSession}]
        /\ sessions \in [SessionIDs -> SessionInfo \cup {NoSession}]
    BY <1>0, <1>1 DEF StoreSound, SessionsTypeOK
  <2>1. CASE Known(c) /\ ~sessions[c].destroy
    <3>1. /\ session' = [session EXCEPT ![r] =
               [id |-> c, values |-> sessions[c].values, marked |-> FALSE]]
          /\ c \in SessionIDs /\ sessions[c].values \in Values
      BY <1>0, <2>0, <2>1 DEF GetSessionUse, Known, SessionInfo
    <3>2. [id |-> c, values |-> sessions[c].values, marked |-> FALSE] \in Session
      BY <3>1 DEF Session
    <3> QED BY <2>0, <3>1, <3>2
  <2>2. CASE ~(Known(c) /\ ~sessions[c].destroy)
    <3>1. session' = [session EXCEPT ![r] =
               [id |-> NoID, values |-> NoValues, marked |-> FALSE]]
      BY <1>0, <2>2 DEF GetSessionUse
    <3>2. [id |-> NoID, values |-> NoValues, marked |-> FALSE] \in Session
      BY DEF Session
    <3> QED BY <2>0, <3>1, <3>2 DEF EmptyValues
  <2> QED BY <2>1, <2>2
<1>4. \A q \in Requests : ControlOf(q)'
  <2>1. ControlOf(r)'
    BY <1>0, <1>3, NoDropping DEF ControlOf, Inv, GithubAuthTypeOK, Goto
  <2> QED BY <1>0, <1>3, <2>1, OthersKeep
<1>5. Covered'
  BY <1>0, <1>3, FoundStays, GetSessionUseBears DEF Covered
<1> QED BY <1>1, <1>2, <1>4, <1>5 DEF Inv, StoreSound

(* A request that saves its values and goes on, not to the index.          *)
LEMMA SavingKeeps ==
  ASSUME Inv, NEW r \in Requests, NEW label \in {"cleanup", "put"},
         pc[r] \in {"serve", "save"}, Goto(r, label), NEW values \in SessionValues,
         values.user = session[r].values.user, SaveSession(r, values),
         UNCHANGED <<kind, login, toDrop, indexVars>>
  PROVE  Inv' /\ MarksStay
<1> USE SessionConstants, AuthConstants
<1>0. StoreSound /\ Covered /\ UNCHANGED <<login, toDrop, userSessionIDs, teamToUsers>>
      /\ session[r] # NoSession /\ session[r] \in Session /\ ControlOf(r)
  BY InvStore, Working DEF indexVars, Inv
<1>1. /\ StoreSound' /\ MarksStay
      /\ session'[r] # NoSession /\ session'[r].values = values
      /\ \A q \in Requests \ {r} : session'[q] = session[q]
      /\ session[r].id # NoID => session'[r].id = session[r].id
      /\ session[r].id = NoID => session'[r].id \in SessionIDs
  BY <1>0, SaveSessionSound DEF ControlOf
<1>2. GithubAuthTypeOK'
  BY <1>0, <1>1 DEF Inv, GithubAuthTypeOK, StoreSound, Goto
<1>3. \A q \in Requests : ControlOf(q)'
  <2>1. ControlOf(r)'
    BY <1>0, <1>1, NoDropping DEF ControlOf, Inv, GithubAuthTypeOK, Goto
  <2> QED BY <1>0, <1>1, <2>1, OthersKeep
<1>4. Covered'
  <2> SUFFICES ASSUME NEW id \in SessionIDs, NEW u \in Users, Bears(id, u)'
               PROVE  Bears(id, u)
    BY <1>0, <1>1, FoundStays DEF Covered
  <2>1. CASE id = session'[r].id /\ u = values.user
    <3>1. session[r].id # NoID /\ session[r].id = id
      BY <1>0, <1>1, <2>1 DEF ControlOf
    <3>2. CASE Live(id)
      BY <1>0, <2>1, <3>1, <3>2 DEF Bears
    <3>3. CASE ~Live(id)
      <4>1. Known(id) /\ sessions[id].destroy
        BY <1>0, <3>1, <3>3, HeldIsKnown DEF Live
      <4>2. ~Live(id)'
        BY <1>1, <4>1 DEF MarksStay, Live, Known
      <4> QED BY <4>2 DEF Bears
    <3> QED BY <3>2, <3>3
  <2> QED BY <1>0, <2>1, SaveSessionBears
<1> QED BY <1>1, <1>2, <1>3, <1>4 DEF Inv, StoreSound

(* A request that only goes on.                                            *)
LEMMA GoingOnKeeps ==
  ASSUME Inv, NEW r \in Requests, NEW label \in {"cleanup", "put", "save"},
         pc[r] \in {"serve", "drop"}, toDrop[r] = {}, Goto(r, label),
         UNCHANGED <<sessionVars, kind, login, toDrop, indexVars>>
  PROVE  Inv' /\ MarksStay
<1>0. StoreSound /\ Covered /\ ControlOf(r)
      /\ UNCHANGED <<sessions, session, issued, kind, login, toDrop, userSessionIDs, teamToUsers>>
  BY InvStore DEF sessionVars, indexVars, Inv
<1>1. GithubAuthTypeOK'
  BY <1>0 DEF Inv, GithubAuthTypeOK, SessionsTypeOK, Goto
<1>2. UsesAreHolders' /\ Issued' /\ MarksStay
  BY <1>0 DEF StoreSound, UsesAreHolders, Issued, MarksStay, Known, Holders
<1>3. \A q \in Requests : ControlOf(q)'
  <2>1. ControlOf(r)'
    BY <1>0 DEF ControlOf, Inv, GithubAuthTypeOK, Goto
  <2> QED BY <1>0, <2>1, OthersKeep
<1>4. \A id, u : Bears(id, u)' => Bears(id, u)
  BY <1>0 DEF Bears, Live, Known
<1>5. Covered'
  BY <1>0, <1>4, FoundStays DEF Covered
<1> QED BY <1>1, <1>2, <1>3, <1>5 DEF Inv

LEMMA AuthorizePageKeeps ==
  ASSUME Inv, NEW r \in Requests, AuthorizePage(r)
  PROVE  Inv' /\ MarksStay
<1>1. session[r].values \in SessionValues /\ toDrop[r] = {}
  BY Working, NoDropping DEF AuthorizePage
<1>2. CASE session[r].values.user # NoUser
  BY <1>1, <1>2, GoingOnKeeps DEF AuthorizePage
<1>3. CASE session[r].values.user = NoUser
  <2> DEFINE v == [session[r].values EXCEPT !.state = TRUE]
  <2>1. v \in SessionValues /\ v.user = session[r].values.user
    BY <1>1 DEF SessionValues
  <2>2. SaveSession(r, v) /\ Goto(r, "put") /\ pc[r] = "serve"
        /\ UNCHANGED <<kind, login, toDrop, indexVars>>
    BY <1>3 DEF AuthorizePage
  <2> HIDE DEF v
  <2> QED BY <2>1, <2>2, SavingKeeps
<1> QED BY <1>2, <1>3

LEMMA AuthorizeBearerKeeps ==
  ASSUME Inv, NEW r \in Requests, AuthorizeBearer(r)
  PROVE  Inv' /\ MarksStay
<1>1. toDrop[r] = {}
  BY NoDropping DEF AuthorizeBearer
<1> QED BY <1>1, GoingOnKeeps DEF AuthorizeBearer

LEMMA LoginCbKeeps ==
  ASSUME Inv, NEW r \in Requests,
         LoginCbFails(r) \/ LoginCbDanceFails(r) \/ SaveAgain(r)
  PROVE  Inv' /\ MarksStay
<1>1. CASE LoginCbFails(r)
  BY <1>1, Working, SavingKeeps DEF LoginCbFails
<1>2. CASE LoginCbDanceFails(r)
  <2>1. toDrop[r] = {}
    BY <1>2, NoDropping DEF LoginCbDanceFails
  <2> QED BY <1>2, <2>1, GoingOnKeeps DEF LoginCbDanceFails
<1>3. CASE SaveAgain(r)
  BY <1>3, Working, SavingKeeps DEF SaveAgain
<1> QED BY <1>1, <1>2, <1>3

LEMMA DanceSavesKeeps ==
  ASSUME Inv, NEW r \in Requests, NEW u \in Users, NEW data \in Memberships,
         DanceSaves(r, u, data)
  PROVE  Inv' /\ MarksStay
<1> USE SessionConstants, AuthConstants
<1> DEFINE values == [session[r].values EXCEPT !.user = u]
           new == [user |-> u, data |-> data]
<1>0. /\ StoreSound /\ Covered /\ UNCHANGED <<kind, toDrop, userSessionIDs, teamToUsers>>
      /\ session[r] # NoSession /\ session[r] \in Session /\ ControlOf(r)
      /\ pc[r] = "serve" /\ Goto(r, "index") /\ SaveSession(r, values)
      /\ login' = [login EXCEPT ![r] = new]
      /\ session[r].values \in SessionValues
  BY InvStore, Working DEF indexVars, Inv, DanceSaves
<1>1. values \in Values /\ values.user = u
  BY <1>0 DEF SessionValues
<1>2. new \in [user : Users, data : TeamData] /\ new # NoLogin /\ new.user = u
  BY MembershipsAreTeamData
<1>3. /\ login' \in [Requests -> [user : Users, data : TeamData] \cup {NoLogin}]
      /\ login'[r] = new /\ \A q \in Requests \ {r} : login'[q] = login[q]
  BY <1>0, <1>2 DEF Inv, GithubAuthTypeOK
<1> HIDE DEF values, new
<1>4. /\ StoreSound' /\ MarksStay
      /\ session'[r] # NoSession /\ session'[r].values = values
      /\ \A q \in Requests \ {r} : session'[q] = session[q]
      /\ session[r].id # NoID => session'[r].id = session[r].id
      /\ session[r].id = NoID => session'[r].id \in SessionIDs
  BY <1>0, <1>1, SaveSessionSound DEF ControlOf
<1>5. GithubAuthTypeOK'
  BY <1>0, <1>3, <1>4 DEF Inv, GithubAuthTypeOK, StoreSound, Goto
<1>6. pc'[r] = "index"
  BY <1>0 DEF Inv, GithubAuthTypeOK, Goto
<1>7. \A q \in Requests : ControlOf(q)'
  <2>1. ControlOf(r)'
    BY <1>0, <1>2, <1>3, <1>4, <1>6, NoDropping DEF ControlOf
  <2> QED BY <1>0, <1>3, <1>4, <2>1, OthersKeep
<1>8. Covered'
  <2> SUFFICES ASSUME NEW id \in SessionIDs, NEW w \in Users, Bears(id, w)'
               PROVE  Found(id, w)'
    BY DEF Covered
  <2>1. CASE Bears(id, w)
    <3>1. Found(id, w)
      BY <1>0, <2>1 DEF Covered
    <3> QED BY <1>0, <1>3, <1>4, <3>1, FoundStays
  <2>2. CASE id = session'[r].id /\ w = values.user
    BY <1>1, <1>2, <1>3, <1>6, <2>2 DEF Found
  <2> QED BY <1>0, <1>1, <2>1, <2>2, SaveSessionBears
<1> QED BY <1>4, <1>5, <1>7, <1>8 DEF Inv, StoreSound

LEMMA AddSessionIDKeeps ==
  ASSUME Inv, NEW r \in Requests, AddSessionID(r)
  PROVE  Inv' /\ MarksStay
<1> USE SessionConstants, AuthConstants
<1> DEFINE u == login[r].user
           data == login[r].data
           c == session[r].id
           next == IF kind[r] = "callback" THEN "save" ELSE "put"
<1>0. /\ StoreSound /\ Covered /\ ControlOf(r) /\ pc[r] = "index" /\ Goto(r, next)
      /\ UNCHANGED <<sessions, session, issued, kind, toDrop>>
      /\ login' = [login EXCEPT ![r] = NoLogin]
      /\ userSessionIDs' = [userSessionIDs EXCEPT ![u][c] = data]
  BY InvStore DEF sessionVars, Inv, AddSessionID
<1>1. login[r] \in [user : Users, data : TeamData] /\ u \in Users /\ data \in TeamData
  <2>1. login[r] \in [user : Users, data : TeamData]
    BY <1>0 DEF ControlOf, Inv, GithubAuthTypeOK
  <2> QED BY <2>1
<1>2. c \in SessionIDs
  BY <1>0, Working, HeldIsKnown DEF ControlOf
<1>3. teamToUsers' \in [Orgs \X Teams -> SUBSET Users]
  <2>1. CASE data.team = NoTeam
    BY <2>1 DEF AddSessionID, Inv, GithubAuthTypeOK
  <2>2. CASE data.team # NoTeam
    <3>1. teamToUsers' = [teamToUsers EXCEPT ![TeamName(data)] = @ \cup {u}]
      BY <2>2 DEF AddSessionID
    <3> QED BY <1>1, <3>1 DEF Inv, GithubAuthTypeOK
  <2> QED BY <2>1, <2>2
<1>4. /\ userSessionIDs' \in [Users -> [SessionIDs -> TeamData \cup {NoTeamData}]]
      /\ userSessionIDs'[u][c] = data
      /\ \A w \in Users, id \in SessionIDs :
           w # u \/ id # c => userSessionIDs'[w][id] = userSessionIDs[w][id]
  BY <1>0, <1>1, <1>2 DEF Inv, GithubAuthTypeOK
<1>5. /\ pc'[r] = next /\ \A q \in Requests \ {r} : pc'[q] = pc[q] /\ login'[q] = login[q]
      /\ login'[r] = NoLogin
  BY <1>0 DEF Inv, GithubAuthTypeOK, Goto
<1>6. GithubAuthTypeOK'
  BY <1>0, <1>3, <1>4 DEF Inv, GithubAuthTypeOK, SessionsTypeOK, Goto
<1>7. UsesAreHolders' /\ Issued' /\ MarksStay
  BY <1>0 DEF StoreSound, UsesAreHolders, Issued, MarksStay, Known, Holders
<1>8. \A q \in Requests : ControlOf(q)'
  <2>1. ControlOf(r)'
    BY <1>0, <1>5 DEF ControlOf
  <2> QED BY <1>0, <1>5, <2>1, OthersKeep
<1>9. Covered'
  <2> SUFFICES ASSUME NEW id \in SessionIDs, NEW w \in Users, Found(id, w)
               PROVE  Found(id, w)'
    BY <1>0 DEF Covered, Bears, Live, Known
  <2>1. CASE w = u /\ id = c
    BY <1>1, <1>4, <2>1 DEF Found
  <2>2. CASE ~(w = u /\ id = c)
    BY <1>0, <1>4, <1>5, <2>2 DEF Found
  <2> QED BY <2>1, <2>2
<1> QED BY <1>6, <1>7, <1>8, <1>9 DEF Inv

LEMMA CleanupIndexKeeps ==
  ASSUME Inv, NEW r \in Requests, CleanupIndex(r)
  PROVE  Inv' /\ MarksStay
<1> USE SessionConstants, AuthConstants
<1> DEFINE u == session[r].values.user
           c == session[r].id
<1>0. /\ StoreSound /\ Covered /\ ControlOf(r) /\ pc[r] = "cleanup" /\ Goto(r, "mark")
      /\ UNCHANGED <<sessions, session, issued, kind, login, toDrop>>
  BY InvStore DEF sessionVars, Inv, CleanupIndex
<1>1. /\ userSessionIDs' \in [Users -> [SessionIDs -> TeamData \cup {NoTeamData}]]
      /\ teamToUsers' \in [Orgs \X Teams -> SUBSET Users]
      /\ \A w \in Users, id \in SessionIDs :
           id # c => userSessionIDs'[w][id] = userSessionIDs[w][id]
  <2>1. CASE u # NoUser /\ c # NoID /\ userSessionIDs[u][c] # NoTeamData
    <3> DEFINE data == userSessionIDs[u][c]
    <3>1. u \in Users /\ c \in SessionIDs
      BY <1>0, <2>1, Working DEF Session, SessionValues
    <3>2. data \in TeamData
      BY <2>1, <3>1 DEF Inv, GithubAuthTypeOK
    <3>3. /\ userSessionIDs' = [userSessionIDs EXCEPT ![u][c] = NoTeamData]
          /\ teamToUsers' = IF data.team = NoTeam THEN teamToUsers
                            ELSE [teamToUsers EXCEPT ![TeamName(data)] = @ \ {u}]
      BY <2>1 DEF CleanupIndex
    <3>4. teamToUsers' \in [Orgs \X Teams -> SUBSET Users]
      <4>1. CASE data.team = NoTeam
        BY <3>3, <4>1 DEF Inv, GithubAuthTypeOK
      <4>2. CASE data.team # NoTeam
        <5>1. teamToUsers' = [teamToUsers EXCEPT ![TeamName(data)] = @ \ {u}]
          BY <3>3, <4>2
        <5> QED BY <5>1 DEF Inv, GithubAuthTypeOK
      <4> QED BY <4>1, <4>2
    <3> QED BY <3>1, <3>3, <3>4 DEF Inv, GithubAuthTypeOK
  <2>2. CASE ~(u # NoUser /\ c # NoID /\ userSessionIDs[u][c] # NoTeamData)
    BY <2>2 DEF CleanupIndex, indexVars, Inv, GithubAuthTypeOK
  <2> QED BY <2>1, <2>2
<1>2. pc'[r] = "mark" /\ \A q \in Requests \ {r} : pc'[q] = pc[q]
  BY <1>0 DEF Inv, GithubAuthTypeOK, Goto
<1>3. GithubAuthTypeOK'
  BY <1>0, <1>1 DEF Inv, GithubAuthTypeOK, SessionsTypeOK, Goto
<1>4. UsesAreHolders' /\ Issued' /\ MarksStay
  BY <1>0 DEF StoreSound, UsesAreHolders, Issued, MarksStay, Known, Holders
<1>5. \A q \in Requests : ControlOf(q)'
  <2>1. ControlOf(r)'
    BY <1>0, <1>2 DEF ControlOf
  <2> QED BY <1>0, <2>1, OthersKeep
<1>6. Covered'
  <2> SUFFICES ASSUME NEW id \in SessionIDs, NEW w \in Users, Found(id, w)
               PROVE  Found(id, w)'
    BY <1>0 DEF Covered, Bears, Live, Known
  <2>1. CASE id = c
    BY <1>0, <1>2, <2>1 DEF Found
  <2>2. CASE id # c
    BY <1>0, <1>1, <1>2, <2>2 DEF Found
  <2> QED BY <2>1, <2>2
<1> QED BY <1>3, <1>4, <1>5, <1>6 DEF Inv

LEMMA CleanupMarkKeeps ==
  ASSUME Inv, NEW r \in Requests, CleanupMark(r)
  PROVE  Inv' /\ MarksStay
<1> USE SessionConstants, AuthConstants
<1>0. /\ StoreSound /\ Covered /\ ControlOf(r) /\ pc[r] = "mark" /\ Goto(r, "put")
      /\ UNCHANGED <<kind, login, toDrop, userSessionIDs, teamToUsers>>
      /\ MarkSession(r) /\ session[r] # NoSession /\ session[r] \in Session
  BY InvStore, Working DEF indexVars, Inv, CleanupMark
<1>1. /\ StoreSound' /\ MarksStay /\ session'[r] # NoSession
      /\ session'[r] = [session[r] EXCEPT !.marked = TRUE]
      /\ \A q \in Requests \ {r} : session'[q] = session[q]
  BY <1>0, MarkSessionSound
<1>2. session'[r].id = session[r].id /\ session'[r].values = session[r].values
  BY <1>0, <1>1 DEF Session
<1>3. pc'[r] = "put" /\ \A q \in Requests \ {r} : pc'[q] = pc[q]
  BY <1>0 DEF Inv, GithubAuthTypeOK, Goto
<1>4. GithubAuthTypeOK'
  BY <1>0, <1>1 DEF Inv, GithubAuthTypeOK, StoreSound, Goto
<1>5. \A q \in Requests : ControlOf(q)'
  <2>1. ControlOf(r)'
    BY <1>0, <1>1, <1>2, <1>3 DEF ControlOf
  <2> QED BY <1>0, <1>1, <2>1, OthersKeep
<1>6. Covered'
  <2> SUFFICES ASSUME NEW id \in SessionIDs, NEW u \in Users, Bears(id, u), session[r].id # id
               PROVE  Found(id, u)'
    BY <1>0, MarkSessionBears DEF Covered
  <2>1. Found(id, u)
    BY <1>0 DEF Covered
  <2> QED BY <1>0, <1>1, <1>3, <2>1 DEF Found
<1> QED BY <1>1, <1>4, <1>5, <1>6 DEF Inv, StoreSound

(* Every session that a webhook takes from the index is one it will drop.  *)
LEMMA StealKeeps ==
  ASSUME Inv, NEW r \in Requests, Webhook(r),
         NEW ids \in [Users -> SUBSET SessionIDs], Steal(r, ids),
         teamToUsers' \in [Orgs \X Teams -> SUBSET Users]
  PROVE  Inv' /\ MarksStay
<1> USE SessionConstants, AuthConstants
<1>0. /\ StoreSound /\ Covered /\ ControlOf(r) /\ pc[r] = "serve" /\ Goto(r, "drop")
      /\ UNCHANGED <<sessions, session, issued, kind, login>>
      /\ toDrop' = [toDrop EXCEPT ![r] = UNION {ids[u] : u \in Users}]
  BY InvStore DEF sessionVars, Inv, Webhook, Steal
<1>1. UNION {ids[u] : u \in Users} \in SUBSET SessionIDs
  OBVIOUS
<1>2. /\ userSessionIDs' \in [Users -> [SessionIDs -> TeamData \cup {NoTeamData}]]
      /\ \A w \in Users, id \in SessionIDs :
           \/ id \in ids[w]
           \/ userSessionIDs'[w][id] = userSessionIDs[w][id]
  <2>1. userSessionIDs' = [u \in Users |-> [id \in SessionIDs |->
                             IF id \in ids[u] THEN NoTeamData ELSE userSessionIDs[u][id]]]
    BY DEF Steal
  <2>2. userSessionIDs \in [Users -> [SessionIDs -> TeamData \cup {NoTeamData}]]
    BY DEF Inv, GithubAuthTypeOK
  <2> QED BY <2>1, <2>2
<1>3. /\ pc'[r] = "drop" /\ \A q \in Requests \ {r} : pc'[q] = pc[q] /\ toDrop'[q] = toDrop[q]
      /\ toDrop'[r] = UNION {ids[u] : u \in Users}
      /\ toDrop' \in [Requests -> SUBSET SessionIDs]
  BY <1>0, <1>1 DEF Inv, GithubAuthTypeOK, Goto
<1>4. GithubAuthTypeOK'
  BY <1>0, <1>2, <1>3 DEF Inv, GithubAuthTypeOK, SessionsTypeOK, Goto
<1>5. UsesAreHolders' /\ Issued' /\ MarksStay
  BY <1>0 DEF StoreSound, UsesAreHolders, Issued, MarksStay, Known, Holders
<1>6. \A q \in Requests : ControlOf(q)'
  <2>1. ControlOf(r)'
    BY <1>0, <1>3 DEF ControlOf
  <2> QED BY <1>0, <1>3, <2>1, OthersKeep
<1>7. Covered'
  <2> SUFFICES ASSUME NEW id \in SessionIDs, NEW w \in Users, Found(id, w)
               PROVE  Found(id, w)'
    BY <1>0 DEF Covered, Bears, Live, Known
  <2>1. CASE id \in ids[w]
    BY <1>3, <2>1 DEF Found
  <2>2. CASE id \notin ids[w]
    <3>1. toDrop[r] = {}
      BY <1>0 DEF ControlOf
    <3> QED BY <1>0, <1>2, <1>3, <2>2, <3>1 DEF Found
  <2> QED BY <2>1, <2>2
<1> QED BY <1>4, <1>5, <1>6, <1>7 DEF Inv

LEMMA LoginWebhookKeeps ==
  ASSUME Inv, NEW r \in Requests, LoginWebhook(r)
  PROVE  Inv' /\ MarksStay
<1>0. teamToUsers \in [Orgs \X Teams -> SUBSET Users]
  BY DEF Inv, GithubAuthTypeOK
<1>1. \A u \in Users : \A w : IDsOf(u, w) \in SUBSET SessionIDs
  BY DEF IDsOf
<1>2. \A u \in Users : \A w : Only(u, IDsOf(u, w)) \in [Users -> SUBSET SessionIDs]
  BY <1>1 DEF Only
<1>3. ASSUME NEW u \in Users, StealUserSessionIDs(r, u)
      PROVE  Inv' /\ MarksStay
  <2>1. teamToUsers' \in [Orgs \X Teams -> SUBSET Users]
    BY <1>0, <1>3 DEF StealUserSessionIDs
  <2> QED BY <1>2, <1>3, <2>1, StealKeeps DEF StealUserSessionIDs
<1>4. ASSUME NEW u \in Users, NEW o \in Orgs, StealUserSessionIDsForOrg(r, u, o)
      PROVE  Inv' /\ MarksStay
  BY <1>0, <1>2, <1>4, StealKeeps DEF StealUserSessionIDsForOrg
<1>5. ASSUME NEW u \in Users, NEW t \in Orgs \X Teams, StealUserSessionIDsForOrgAndTeam(r, u, t)
      PROVE  Inv' /\ MarksStay
  <2>1. teamToUsers' \in [Orgs \X Teams -> SUBSET Users]
    BY <1>0, <1>5 DEF StealUserSessionIDsForOrgAndTeam
  <2> QED BY <1>2, <1>5, <2>1, StealKeeps DEF StealUserSessionIDsForOrgAndTeam
<1>6. ASSUME NEW t \in Orgs \X Teams, StealSessionIDsForOrgAndTeam(r, t)
      PROVE  Inv' /\ MarksStay
  <2> DEFINE ids == [u \in Users |-> IF u \in teamToUsers[t] THEN IDsOf(u, InTeam(t)) ELSE {}]
  <2>1. teamToUsers' \in [Orgs \X Teams -> SUBSET Users]
    BY <1>0, <1>6 DEF StealSessionIDsForOrgAndTeam
  <2>2. ids \in [Users -> SUBSET SessionIDs] /\ Steal(r, ids) /\ Webhook(r)
    BY <1>1, <1>6 DEF StealSessionIDsForOrgAndTeam
  <2> HIDE DEF ids
  <2> QED BY <2>1, <2>2, StealKeeps
<1> QED BY <1>3, <1>4, <1>5, <1>6 DEF LoginWebhook

LEMMA DropStolenKeeps ==
  ASSUME Inv, NEW r \in Requests, DropStolen(r)
  PROVE  Inv' /\ MarksStay
<1> USE SessionConstants, AuthConstants
<1>1. CASE toDrop[r] = {}
  BY <1>1, GoingOnKeeps DEF DropStolen
<1>2. ASSUME NEW d \in toDrop[r], MarkOrDestroySessionByID(d),
             toDrop' = [toDrop EXCEPT ![r] = @ \ {d}],
             UNCHANGED <<pc, kind, login, indexVars>>
      PROVE  Inv' /\ MarksStay
  <2>0. /\ StoreSound /\ Covered /\ ControlOf(r) /\ pc[r] = "drop" /\ d \in SessionIDs
        /\ UNCHANGED <<session, pc, kind, login, userSessionIDs, teamToUsers>>
    BY <1>2, InvStore DEF indexVars, Inv, GithubAuthTypeOK, DropStolen, MarkOrDestroySessionByID
  <2>1. StoreSound' /\ MarksStay
    BY <1>2, <2>0, MarkOrDestroySessionByIDSound
  <2>2. /\ toDrop' \in [Requests -> SUBSET SessionIDs]
        /\ toDrop'[r] = toDrop[r] \ {d}
        /\ \A q \in Requests \ {r} : toDrop'[q] = toDrop[q]
    BY <1>2 DEF Inv, GithubAuthTypeOK
  <2>3. GithubAuthTypeOK'
    BY <2>0, <2>1, <2>2 DEF Inv, GithubAuthTypeOK, StoreSound
  <2>4. \A q \in Requests : ControlOf(q)'
    BY <2>0, <2>2 DEF Inv, ControlOf
  <2>5. Covered'
    <3> SUFFICES ASSUME NEW id \in SessionIDs, NEW u \in Users, Bears(id, u), id # d
                 PROVE  Found(id, u)'
      BY <1>2, <2>0, MarkOrDestroySessionByIDBears DEF Covered
    <3>1. Found(id, u)
      BY <2>0 DEF Covered
    <3> QED BY <2>0, <2>2, <3>1 DEF Found
  <2> QED BY <2>1, <2>3, <2>4, <2>5 DEF Inv, StoreSound
<1> QED BY <1>1, <1>2 DEF DropStolen

LEMMA AnsweredKeeps ==
  ASSUME Inv, NEW r \in Requests, Answered(r)
  PROVE  Inv' /\ MarksStay
<1> USE SessionConstants, AuthConstants
<1>0. /\ StoreSound /\ Covered /\ ControlOf(r) /\ pc[r] = "put" /\ Goto(r, "idle")
      /\ UNCHANGED <<login, toDrop, userSessionIDs, teamToUsers>>
      /\ kind' = [kind EXCEPT ![r] = "page"]
      /\ PutSessionUse(r) /\ session[r] # NoSession
  BY InvStore, Working DEF indexVars, Inv, Answered
<1>1. StoreSound' /\ MarksStay
  BY <1>0, PutSessionUseSound
<1>2. session'[r] = NoSession /\ \A q \in Requests \ {r} : session'[q] = session[q]
  BY <1>0 DEF PutSessionUse, StoreSound, SessionsTypeOK
<1>3. GithubAuthTypeOK'
  BY <1>0, <1>1 DEF Inv, GithubAuthTypeOK, StoreSound, Goto, Kinds
<1>4. \A q \in Requests : ControlOf(q)'
  <2>1. ControlOf(r)'
    BY <1>0, <1>2 DEF ControlOf, Inv, GithubAuthTypeOK, Goto
  <2> QED BY <1>0, <1>2, <2>1, OthersKeep
<1>5. Covered'
  BY <1>0, <1>2, FoundStays, PutSessionUseBears DEF Covered
<1> QED BY <1>1, <1>3, <1>4, <1>5 DEF Inv, StoreSound

LEMMA InvInit == Init => Inv
<1> SUFFICES ASSUME Init PROVE Inv
  OBVIOUS
<1> USE SessionConstants, AuthConstants DEF Init, SessionsInit
<1>1. GithubAuthTypeOK
  BY DEF GithubAuthTypeOK, SessionsTypeOK, Kinds
<1>2. \A id \in SessionIDs : ~Known(id) /\ Holders(id) = {}
  BY DEF Known, Holders
<1>3. UsesAreHolders /\ Issued /\ Covered
  BY <1>2 DEF UsesAreHolders, Issued, Covered, Bears, Live
<1>4. \A r \in Requests : ControlOf(r)
  BY DEF ControlOf
<1> QED BY <1>1, <1>3, <1>4 DEF Inv

LEMMA InvStep == Inv /\ [Next]_vars => Inv' /\ [MarksStay]_sessionVars
<1> SUFFICES ASSUME Inv, [Next]_vars PROVE Inv' /\ [MarksStay]_sessionVars
  OBVIOUS
<1>1. CASE UNCHANGED vars
  <2>1. UNCHANGED sessionVars /\ UNCHANGED <<sessions, session, issued, pc, kind, login, toDrop, userSessionIDs, teamToUsers>>
    BY <1>1 DEF vars, sessionVars, indexVars
  <2>2. Inv'
    <3>1. GithubAuthTypeOK' /\ UsesAreHolders' /\ Issued'
      BY <2>1 DEF Inv, GithubAuthTypeOK, SessionsTypeOK, UsesAreHolders, Issued, Known, Holders
    <3>2. \A r \in Requests : ControlOf(r)'
      BY <2>1 DEF Inv, ControlOf
    <3>3. Covered'
      BY <2>1 DEF Inv, Covered, Bears, Live, Known, Found
    <3> QED BY <3>1, <3>2, <3>3 DEF Inv
  <2> QED BY <2>1, <2>2
<1>2. ASSUME NEW r \in Requests, NEW k \in Kinds, NEW c \in SessionIDs \cup {NoID},
             Arrive(r, k, c)
      PROVE  Inv' /\ MarksStay
  BY <1>2, ArriveKeeps
<1>3. ASSUME NEW r \in Requests, Serve(r)
      PROVE  Inv' /\ MarksStay
  BY <1>3, AuthorizePageKeeps, AuthorizeBearerKeeps, LoginCbKeeps, DanceSavesKeeps,
     AddSessionIDKeeps, CleanupIndexKeeps, CleanupMarkKeeps, LoginWebhookKeeps,
     DropStolenKeeps, AnsweredKeeps DEF Serve
<1> QED BY <1>1, <1>2, <1>3 DEF Next

(* The inductive invariant, whatever the requests, webhooks and memberships. *)
THEOREM AlwaysInv == Spec => []Inv
BY InvInit, InvStep, PTL DEF Spec

(* Every variable of the sessions and of the handlers keeps its type.      *)
THEOREM TypesKept == Spec => []GithubAuthTypeOK
<1>1. Inv => GithubAuthTypeOK
  BY DEF Inv
<1> QED BY <1>1, AlwaysInv, PTL

(* PutSessionUse never meets a use count of zero, and no session is         *)
(* destroyed under a request or left behind marked and unused.             *)
THEOREM UsesCounted == Spec => []UsesAreHolders
<1>1. Inv => UsesAreHolders
  BY DEF Inv
<1> QED BY <1>1, AlwaysInv, PTL

(* A session that lets a user in can be found by the webhooks that end the *)
(* user's memberships.                                                     *)
THEOREM SessionsFound == Spec => []LoggedInIsIndexed
<1>1. Inv => LoggedInIsIndexed
  <2> SUFFICES ASSUME Inv, NEW id \in SessionIDs, Known(id), ~sessions[id].destroy,
                      sessions[id].values.user # NoUser
               PROVE  Found(id, sessions[id].values.user)
    BY DEF LoggedInIsIndexed, Found
  <2>1. sessions[id].values.user \in Users
    BY AuthConstants DEF Inv, GithubAuthTypeOK, SessionsTypeOK, SessionInfo, SessionValues, Known
  <2> QED BY <2>1 DEF Inv, Covered, Bears, Live
<1> QED BY <1>1, AlwaysInv, PTL

(* A session marked for destruction keeps its mark and its values until it *)
(* is gone, and its ID is not given to a session again.                    *)
THEOREM MarksKept == Spec => MarkIsFinal
<1>1. MarksStay <=>
        \A id \in SessionIDs :
          /\ Known(id) /\ sessions[id].destroy =>
               sessions'[id] = NoSession
                 \/ (sessions'[id].destroy /\ sessions'[id].values = sessions[id].values)
          /\ id \in issued /\ ~Known(id) => sessions'[id] = NoSession
  BY DEF MarksStay
<1> QED BY <1>1, AlwaysInv, InvStep, PTL DEF Spec, MarkIsFinal
=============================================================================
