---------------------------- MODULE RolloutProofs ----------------------------
(***************************************************************************)
(* Proofs about Rollout for any number of instances, any policies and any  *)
(* channel configurations.  The handlers change the table only through     *)
(* RegisterInstance, UpdateInstanceStatus and GrantUpdate, so each fact    *)
(* about the table is proved once for these three writes and for time, and *)
(* then lifted to the actions.                                             *)
(***************************************************************************)
EXTENDS Rollout, FiniteSetTheorems, TLAPS

-----------------------------------------------------------------------------
(* A table is sound when its rows have their types, their status agrees    *)
(* with update_in_progress, and no row was last seen much longer ago than  *)
(* it was granted its update: a grant follows a check-in.  So a row that   *)
(* is not lost is in sight, and one that is was granted its update about a *)
(* day ago or earlier.                                                     *)

SlackOf(r) ==
  r.grantAge # NULL =>
    /\ r.checkAge =< r.grantAge + Recent
    /\ IF r.lost THEN Validity =< r.grantAge + Recent ELSE r.checkAge < Validity

MatchesOf(r) ==
  /\ r.updateInProgress <=> r.status \in BusyStatus
  /\ r.updateInProgress => r.lastUpdateVersion # NULL /\ r.grantAge # NULL

SoundRow(r) == r \in Row /\ MatchesOf(r) /\ SlackOf(r)

Sound(t) == t = [i \in Instances |-> t[i]] /\ \A i \in Instances : SoundRow(t[i])

LEMMA Constants ==
  /\ Period \in Nat /\ Timeout \in Nat /\ Recent \in Nat /\ Validity \in Nat
  /\ MaxAge \in Nat /\ NoLimit \in Nat /\ Limit \in Nat
  /\ Period =< MaxAge /\ Timeout < MaxAge /\ Recent < MaxAge /\ Validity =< MaxAge
  /\ Recent < Validity
BY AgeAssumption, ValidityAssumption DEF AgeAssumption, ValidityAssumption

LEMMA Nulls == NULL \notin Versions /\ NULL \notin Ages /\ NULL \notin Status
BY TypeAssumption DEF TypeAssumption

LEMMA AgesNat == 0 \in Ages /\ MaxAge \in Ages /\ \A a \in Ages : a \in Nat /\ a =< MaxAge
BY Constants DEF Ages

LEMMA SoundTable == \A t : Sound(t) => t \in [Instances -> Row]
BY DEF Sound, SoundRow

LEMMA SoundUpdate ==
  ASSUME NEW t, Sound(t), NEW i \in Instances, NEW r, SoundRow(r)
  PROVE  Sound([t EXCEPT ![i] = r])
BY DEF Sound

LEMMA CheckedInSound ==
  ASSUME NEW r, SoundRow(r), NEW v \in Versions
  PROVE  SoundRow(CheckedIn(r, v))
<1>1. CheckedIn(r, v) \in Row
  BY AgesNat DEF SoundRow, CheckedIn, Row
<1>2. MatchesOf(CheckedIn(r, v))
  BY DEF SoundRow, CheckedIn, MatchesOf, Row
<1>3. SlackOf(CheckedIn(r, v))
  BY AgesNat, Constants DEF SoundRow, CheckedIn, SlackOf, Row
<1> QED BY <1>1, <1>2, <1>3 DEF SoundRow

(* A status other than UpdateGranted, given to a row that is updating if   *)
(* the status says it is.                                                  *)
LEMMA WithStatusSound ==
  ASSUME NEW r, SoundRow(r), NEW s \in Status,
         s \in IdleStatus \/ r.updateInProgress
  PROVE  SoundRow(WithStatus(r, s))
<1>1. WithStatus(r, s) \in Row
  BY DEF SoundRow, WithStatus, Row
<1>2. MatchesOf(WithStatus(r, s))
  BY DEF SoundRow, WithStatus, MatchesOf, Row, Status, BusyStatus, IdleStatus, InProgressStatus
<1>3. SlackOf(WithStatus(r, s))
  BY DEF SoundRow, WithStatus, SlackOf, Row
<1> QED BY <1>1, <1>2, <1>3 DEF SoundRow

LEMMA GrantedSound ==
  ASSUME NEW r, SoundRow(r), NEW v \in Versions, r.checkAge =< Recent
  PROVE  SoundRow(Granted(r, v))
<1>1. Granted(r, v) \in Row
  BY AgesNat DEF SoundRow, Granted, Row, Status, BusyStatus
<1>2. MatchesOf(Granted(r, v))
  BY Nulls, AgesNat DEF SoundRow, Granted, MatchesOf, Row, BusyStatus
<1>3. SlackOf(Granted(r, v))
  <2>1. /\ Granted(r, v).grantAge = 0 /\ Granted(r, v).checkAge = r.checkAge
        /\ Granted(r, v).lost = FALSE /\ r.checkAge \in Nat
    BY AgesNat DEF SoundRow, Granted, Row
  <2> QED BY <2>1, Constants DEF SlackOf
<1> QED BY <1>1, <1>2, <1>3 DEF SoundRow

LEMMA AgedSlack ==
  ASSUME NEW r \in Row, SlackOf(r)
  PROVE  SlackOf(Aged(r))
<1> SUFFICES ASSUME r.grantAge # NULL PROVE SlackOf(Aged(r))
  BY DEF SlackOf, Aged, Row
<1>1. /\ r.grantAge \in Nat /\ r.grantAge =< MaxAge /\ r.checkAge \in Nat
      /\ r.checkAge =< MaxAge
  BY AgesNat DEF Row
<1> DEFINE g == Older(r.grantAge)
           c == Older(r.checkAge)
<1>2. /\ g = IF r.grantAge < MaxAge THEN r.grantAge + 1 ELSE r.grantAge
      /\ c = IF r.checkAge < MaxAge THEN r.checkAge + 1 ELSE r.checkAge
  BY DEF Older
<1>3. /\ Aged(r).grantAge = g /\ Aged(r).checkAge = c
      /\ r.lost \/ c >= Validity => Aged(r).lost
      /\ ~r.lost /\ ~(c >= Validity) => ~Aged(r).lost
  BY DEF Aged, Row
<1>4. r.lost \in BOOLEAN /\ Aged(r).lost \in BOOLEAN
  BY DEF Row, Aged
<1> HIDE DEF g, c
<1>5. c =< g + Recent
  BY <1>1, <1>2, Constants DEF SlackOf
<1>6. r.lost => Validity =< g + Recent
  BY <1>1, <1>2, Constants DEF SlackOf
<1>7. g \in Nat /\ c \in Nat
  BY <1>1, <1>2
<1>8. CASE r.lost
  BY <1>3, <1>5, <1>6, <1>8 DEF SlackOf
<1>9. CASE ~r.lost
  <2>1. CASE c >= Validity
    BY <1>3, <1>5, <1>7, <2>1, Constants DEF SlackOf
  <2>2. CASE ~(c >= Validity)
    BY <1>3, <1>5, <1>7, <1>9, <2>2, Constants DEF SlackOf
  <2> QED BY <2>1, <2>2
<1> QED BY <1>8, <1>9

LEMMA AgedSound ==
  ASSUME NEW r, SoundRow(r)
  PROVE  SoundRow(Aged(r))
<1>0. \A a \in Ages : Older(a) \in Ages /\ a =< Older(a) /\ Older(a) # NULL
  BY Constants, Nulls DEF Ages, Older
<1>1. Aged(r) \in Row
  BY <1>0 DEF SoundRow, Aged, Row
<1>2. MatchesOf(Aged(r))
  BY <1>0 DEF SoundRow, Aged, MatchesOf, Row
<1>3. SlackOf(Aged(r))
  BY AgedSlack DEF SoundRow
<1> QED BY <1>1, <1>2, <1>3 DEF SoundRow

-----------------------------------------------------------------------------
(* The three writes keep a table sound.                                    *)

LEMMA RegisterInstanceSound ==
  ASSUME NEW t, Sound(t), NEW i \in Instances, NEW v \in Versions
  PROVE  LET u == RegisterInstance(t, i, v)
         IN  Sound(u) /\ u[i].checkAge =< Recent
<1> DEFINE u == RegisterInstance(t, i, v)
<1>1. SoundRow(t[i]) /\ t[i] \in Row /\ t[i].checkAge \in Nat
  BY AgesNat DEF Sound, SoundRow, Row
<1>2. CASE t[i].checkAge > Recent \/ t[i].version # v
  <2>1. u = [t EXCEPT ![i] = CheckedIn(t[i], v)]
    BY <1>2 DEF RegisterInstance
  <2>2. Sound(u)
    <3>1. SoundRow(CheckedIn(t[i], v))
      BY <1>1, CheckedInSound
    <3>2. Sound([t EXCEPT ![i] = CheckedIn(t[i], v)])
      BY <3>1, SoundUpdate
    <3> QED BY <2>1, <3>2
  <2>3. u[i] = CheckedIn(t[i], v)
    BY <2>1 DEF Sound
  <2>4. u[i].checkAge = 0
    BY <1>1, <2>3 DEF CheckedIn, Row
  <2> QED BY <2>2, <2>4, Constants
<1>3. CASE ~(t[i].checkAge > Recent \/ t[i].version # v)
  <2>1. u = t
    BY <1>3 DEF RegisterInstance
  <2> QED BY <2>1, <1>1, <1>3, Constants
<1> QED BY <1>2, <1>3

LEMMA UpdateInstanceStatusSound ==
  ASSUME NEW t, Sound(t), NEW i \in Instances, NEW s \in Status,
         s \in IdleStatus \/ t[i].updateInProgress
  PROVE  Sound(UpdateInstanceStatus(t, i, s))
<1>1. SoundRow(t[i])
  BY DEF Sound
<1> QED BY <1>1, WithStatusSound, SoundUpdate DEF UpdateInstanceStatus

LEMMA GrantUpdateSound ==
  ASSUME NEW t, Sound(t), NEW i \in Instances, NEW v \in Versions,
         t[i].checkAge =< Recent
  PROVE  Sound(GrantUpdate(t, i, v))
<1>1. SoundRow(t[i])
  BY DEF Sound
<1> QED BY <1>1, GrantedSound, SoundUpdate DEF GrantUpdate

-----------------------------------------------------------------------------
(* The writes an update check makes, in the order it makes them.           *)

SoundState ==
  /\ Sound(rows)
  /\ policy \in Policies
  /\ channel \in ChannelConfigs
  /\ brake \in BOOLEAN
  /\ rolloutInProgress \in BOOLEAN

UpdateCheck(i, v) ==
  \/ i \notin Syncers /\ GetUpdatePackage(i, v)
  \/ i \in Syncers /\ GetUpdatePackagesForSyncer(i, v)

(* After RegisterInstance a check writes nothing more, ends the instance's *)
(* update or holds it back, or grants one that the policy allows.          *)
CheckOutcome(t, i) ==
  \/ rows' = t
  \/ \E s \in {"Complete", "OnHold"} : rows' = UpdateInstanceStatus(t, i, s)
  \/ /\ \E w \in Versions : rows' = GrantUpdate(t, i, w)
     /\ t[i].status \notin InProgressStatus
     /\ MayGrant(t)
     /\ rolloutInProgress' = TRUE

LEMMA PolicyOutcome ==
  ASSUME NEW t, NEW i \in Instances, NEW v, NEW w \in Versions, NEW blocked,
         DecideUpdate(t, i, v, w, blocked)
  PROVE  /\ CheckOutcome(t, i)
         /\ brake' \in {brake, TRUE} /\ rolloutInProgress' \in {rolloutInProgress, TRUE}
BY DEF DecideUpdate, EnforceRolloutPolicy, CheckOutcome

LEMMA UnseenOutcome ==
  ASSUME NEW t, NEW i \in Instances, NEW v, NEW blocked, CheckUnseen(t, i, v, blocked)
  PROVE  /\ CheckOutcome(t, i)
         /\ brake' \in {brake, TRUE} /\ rolloutInProgress' \in {rolloutInProgress, TRUE}
BY DEF CheckUnseen, CheckOutcome

LEMMA CheckWrites ==
  ASSUME SoundState, NEW i \in Instances, NEW v \in Versions, UpdateCheck(i, v)
  PROVE  /\ CheckOutcome(RegisterInstance(rows, i, v), i)
         /\ brake' \in {brake, TRUE} /\ rolloutInProgress' \in {rolloutInProgress, TRUE}
         /\ UNCHANGED <<policy, channel>>
<1> DEFINE t == RegisterInstance(rows, i, v)
<1> HIDE DEF t
<1>1. channel.target # NULL => channel.target \in Versions
  BY TypeAssumption DEF TypeAssumption, SoundState, Channel
<1>2. CASE GetUpdatePackage(i, v)
  <2>1. CASE RefuseCheck(t, i)
    BY <2>1, <1>2 DEF RefuseCheck, CheckOutcome, t, GetUpdatePackage
  <2>2. CASE AnswerGranted(t, i, v)
    BY <2>2, <1>2 DEF AnswerGranted, CheckOutcome, t, GetUpdatePackage
  <2>3. CASE \E w \in Versions : DecideUpdate(t, i, v, w, NextIsBlacklisted(v))
    BY <2>3, <1>2, PolicyOutcome DEF t, GetUpdatePackage
  <2>4. CASE CheckUnseen(t, i, v, NextIsBlacklisted(v))
    BY <2>4, <1>2, UnseenOutcome DEF t, GetUpdatePackage
  <2> QED BY <2>1, <2>2, <2>3, <2>4, <1>2 DEF t, GetUpdatePackage
<1>3. CASE GetUpdatePackagesForSyncer(i, v)
  <2>1. CASE RefuseCheck(t, i)
    BY <2>1, <1>3 DEF RefuseCheck, CheckOutcome, t, GetUpdatePackagesForSyncer
  <2>2. CASE DecideUpdate(t, i, v, channel.target, TargetIsBlacklisted)
    <3>1. channel.target \in Versions
      BY <1>1, <2>2 DEF DecideUpdate
    <3> QED BY <2>2, <3>1, <1>3, PolicyOutcome DEF t, GetUpdatePackagesForSyncer
  <2>3. CASE CheckUnseen(t, i, v, TargetIsBlacklisted)
    BY <2>3, <1>3, UnseenOutcome DEF t, GetUpdatePackagesForSyncer
  <2> QED BY <2>1, <2>2, <2>3, <1>3 DEF t, GetUpdatePackagesForSyncer
<1> QED BY <1>2, <1>3 DEF UpdateCheck, t

LEMMA CheckSound ==
  ASSUME SoundState, NEW i \in Instances, NEW v \in Versions, UpdateCheck(i, v)
  PROVE  SoundState'
<1> DEFINE t == RegisterInstance(rows, i, v)
<1> HIDE DEF t
<1>1. Sound(t) /\ t[i].checkAge =< Recent
  BY RegisterInstanceSound DEF SoundState, t
<1>2. CheckOutcome(t, i) /\ brake' \in BOOLEAN /\ rolloutInProgress' \in BOOLEAN
      /\ UNCHANGED <<policy, channel>>
  BY CheckWrites DEF t, SoundState
<1>3. Sound(rows')
  <2>1. {"Complete", "OnHold"} \subseteq IdleStatus \cap Status
    BY DEF IdleStatus, Status
  <2>2. ASSUME NEW s \in {"Complete", "OnHold"}
        PROVE  Sound(UpdateInstanceStatus(t, i, s))
    BY <1>1, <2>1, UpdateInstanceStatusSound
  <2>3. ASSUME NEW w \in Versions
        PROVE  Sound(GrantUpdate(t, i, w))
    BY <1>1, GrantUpdateSound
  <2> QED BY <1>1, <1>2, <2>2, <2>3 DEF CheckOutcome
<1> QED BY <1>2, <1>3 DEF SoundState

-----------------------------------------------------------------------------
(* Every step keeps the state sound.                                       *)

LEMMA EventSound ==
  ASSUME SoundState, NEW i \in Instances, RegisterEvent(i)
  PROVE  SoundState'
<1>1. rows[i].updateInProgress /\ UNCHANGED <<policy, channel>>
  BY DEF RegisterEvent
<1>2. ASSUME NEW s \in Status
      PROVE  Sound(UpdateInstanceStatus(rows, i, s))
  BY <1>1, UpdateInstanceStatusSound DEF SoundState
<1>3. {"Undefined", "Complete", "Error"} \cup InProgressStatus \subseteq Status
  BY DEF Status, IdleStatus, BusyStatus
<1>4. /\ \E s \in Status : rows' = UpdateInstanceStatus(rows, i, s)
      /\ brake' \in BOOLEAN /\ rolloutInProgress' \in BOOLEAN
  <2>1. CASE IgnoreFlatcarEvent(i)
    BY <2>1, <1>3 DEF IgnoreFlatcarEvent, SoundState
  <2>2. CASE \E s \in InProgressStatus : UpdateProgressed(i, s)
    BY <2>2, <1>3 DEF UpdateProgressed, SoundState
  <2>3. CASE UpdateCompleted(i)
    BY <2>3, <1>3 DEF UpdateCompleted, SoundState
  <2>4. CASE UpdateFailed(i)
    BY <2>4, <1>3 DEF UpdateFailed, SoundState
  <2> QED BY <2>1, <2>2, <2>3, <2>4 DEF RegisterEvent
<1> QED BY <1>1, <1>2, <1>4 DEF SoundState

LEMMA TickSound ==
  ASSUME SoundState, Tick
  PROVE  SoundState'
<1>1. \A i \in Instances : SoundRow(Aged(rows[i]))
  BY AgedSound DEF SoundState, Sound
<1>2. rows' = [i \in Instances |-> Aged(rows[i])]
  BY DEF Tick
<1>3. Sound(rows')
  BY <1>1, <1>2 DEF Sound
<1> QED BY <1>3 DEF SoundState, Tick

LEMMA InitSound == Init => SoundState
<1> SUFFICES ASSUME Init PROVE SoundState
  OBVIOUS
<1>1. NoRow \in Row
  BY AgesNat DEF NoRow, Row
<1>2. MatchesOf(NoRow) /\ SlackOf(NoRow)
  BY Nulls DEF NoRow, MatchesOf, SlackOf, BusyStatus, Status
<1>3. Sound(rows)
  BY <1>1, <1>2 DEF Init, Sound, SoundRow
<1> QED BY <1>3 DEF Init, SoundState

LEMMA NextSound == SoundState /\ [Next]_vars => SoundState'
<1> SUFFICES ASSUME SoundState, [Next]_vars PROVE SoundState'
  OBVIOUS
<1>1. ASSUME NEW i \in Instances, NEW v \in Versions, UpdateCheck(i, v)
      PROVE  SoundState'
  BY <1>1, CheckSound
<1>2. ASSUME NEW i \in Instances, NEW v \in Versions, Ping(i, v)
      PROVE  SoundState'
  BY <1>2, RegisterInstanceSound DEF Ping, SoundState
<1>3. ASSUME NEW i \in Instances, RegisterEvent(i)
      PROVE  SoundState'
  BY <1>3, EventSound
<1>4. CASE \E p \in Policies : UpdateGroup(p)
  BY <1>4 DEF UpdateGroup, SoundState
<1>5. CASE ClearUpdatesEnabledOverride
  BY <1>5 DEF ClearUpdatesEnabledOverride, SoundState
<1>6. CASE \E c \in ChannelConfigs : ChangeChannel(c)
  BY <1>6 DEF ChangeChannel, SoundState
<1>7. CASE Tick
  BY <1>7, TickSound
<1>8. CASE UNCHANGED vars
  BY <1>8 DEF vars, SoundState
<1>9. Syncers \subseteq Instances
  BY TypeAssumption DEF TypeAssumption
<1> QED BY <1>1, <1>2, <1>3, <1>4, <1>5, <1>6, <1>7, <1>8, <1>9 DEF Next, UpdateCheck

LEMMA AlwaysSound == Spec => []SoundState
BY InitSound, NextSound, PTL DEF Spec

(* Every variable keeps its type, whatever requests arrive.                *)
THEOREM TypeCorrect == Spec => []TypeOK
<1>1. SoundState => TypeOK
  BY SoundTable DEF SoundState, TypeOK
<1> QED BY <1>1, AlwaysSound, PTL

(* Whenever a handler runs, update_in_progress is true exactly in the      *)
(* states in which an update check is refused or answered with the update  *)
(* already granted: no instance is locked out of both checks and events.   *)
THEOREM NoLockOut == Spec => []InProgressMatchesStatus
<1>1. SoundState => InProgressMatchesStatus
  BY DEF SoundState, Sound, SoundRow, MatchesOf, InProgressMatchesStatus, StatusMatches
<1> QED BY <1>1, AlwaysSound, PTL

-----------------------------------------------------------------------------
(* The limits.  The statistics miss no update in flight: unless it is lost *)
(* its row is in sight.                                                    *)

Dated(t) == \A i \in Instances : t[i] \in Row /\ SlackOf(t[i])

LEMMA StatisticsSeeAll ==
  ASSUME NEW t, Dated(t)
  PROVE  /\ InFlight(t) \subseteq UpdatesInProgress(t)
         /\ RecentlyGranted(t) \subseteq GrantedInLastPeriod(t)
<1>1. ASSUME NEW i \in Instances, t[i].grantAge # NULL, ~t[i].lost
      PROVE  i \in Seen(t)
  BY <1>1 DEF Dated, SlackOf, Seen
<1>2. InFlight(t) \subseteq UpdatesInProgress(t)
  BY <1>1 DEF InFlight, UpdatesInProgress
<1>3. RecentlyGranted(t) \subseteq GrantedInLastPeriod(t)
  BY <1>1 DEF RecentlyGranted, GrantedInLastPeriod
<1> QED BY <1>2, <1>3

LEMMA RegisterInstanceSets ==
  ASSUME NEW t, Sound(t), NEW i \in Instances, NEW v \in Versions
  PROVE  LET u == RegisterInstance(t, i, v)
         IN  /\ InFlight(u) = InFlight(t) /\ RecentlyGranted(u) = RecentlyGranted(t)
             /\ u[i].updateInProgress = t[i].updateInProgress
<1> DEFINE u == RegisterInstance(t, i, v)
<1>1. ASSUME NEW j \in Instances
      PROVE  /\ u[j].grantAge = t[j].grantAge /\ u[j].lost = t[j].lost
             /\ u[j].updateInProgress = t[j].updateInProgress
  BY DEF Sound, SoundRow, RegisterInstance, CheckedIn, Row
<1> QED BY <1>1 DEF InFlight, RecentlyGranted

LEMMA UpdateInstanceStatusSets ==
  ASSUME NEW t, Sound(t), NEW i \in Instances, NEW s
  PROVE  LET u == UpdateInstanceStatus(t, i, s)
         IN  InFlight(u) \subseteq InFlight(t) /\ RecentlyGranted(u) = RecentlyGranted(t)
<1> DEFINE u == UpdateInstanceStatus(t, i, s)
<1>1. ASSUME NEW j \in Instances
      PROVE  /\ u[j].grantAge = t[j].grantAge /\ u[j].lost = t[j].lost
             /\ u[j].updateInProgress => t[j].updateInProgress
  BY DEF Sound, SoundRow, UpdateInstanceStatus, WithStatus, Row
<1> QED BY <1>1 DEF InFlight, RecentlyGranted

LEMMA GrantUpdateSets ==
  ASSUME NEW t, Sound(t), NEW i \in Instances, NEW v \in Versions,
         t[i].status \notin InProgressStatus
  PROVE  LET u == GrantUpdate(t, i, v)
         IN  \/ u = t
             \/ /\ i \notin InFlight(t)
                /\ InFlight(u) = InFlight(t) \cup {i}
                /\ RecentlyGranted(u) \subseteq RecentlyGranted(t) \cup {i}
<1> DEFINE u == GrantUpdate(t, i, v)
<1>1. CASE t[i].status = "UpdateGranted"
  BY <1>1 DEF GrantUpdate
<1>2. CASE t[i].status # "UpdateGranted"
  <2>1. ~t[i].updateInProgress
    BY <1>2 DEF Sound, SoundRow, MatchesOf, BusyStatus
  <2>2. u[i].updateInProgress /\ u[i].grantAge = 0 /\ ~u[i].lost
    BY <1>2 DEF Sound, SoundRow, GrantUpdate, Granted, Row
  <2>3. ASSUME NEW j \in Instances, j # i
        PROVE  u[j] = t[j]
    BY <1>2, <2>3 DEF GrantUpdate, Sound
  <2>4. 0 # NULL /\ 0 =< Timeout
    BY Nulls, AgesNat, Constants
  <2> HIDE DEF u
  <2>5. InFlight(u) = InFlight(t) \cup {i} /\ i \notin InFlight(t)
    BY <2>1, <2>2, <2>3, <2>4 DEF InFlight
  <2>6. RecentlyGranted(u) \subseteq RecentlyGranted(t) \cup {i}
    BY <2>3 DEF RecentlyGranted
  <2> QED BY <2>5, <2>6 DEF u
<1> QED BY <1>1, <1>2

LEMMA TickSets ==
  ASSUME SoundState, Tick
  PROVE  /\ InFlight(rows') \subseteq InFlight(rows)
         /\ RecentlyGranted(rows') \subseteq RecentlyGranted(rows)
<1>1. ASSUME NEW i \in Instances
      PROVE  /\ rows'[i].updateInProgress = rows[i].updateInProgress
             /\ rows[i].lost => rows'[i].lost
             /\ rows'[i].grantAge # NULL =>
                  /\ rows[i].grantAge # NULL
                  /\ rows[i].grantAge \in Nat /\ rows'[i].grantAge \in Nat
                  /\ rows[i].grantAge =< rows'[i].grantAge
  <2>1. rows[i] \in Row
    BY DEF SoundState, Sound, SoundRow
  <2>2. rows'[i] = Aged(rows[i])
    BY DEF Tick
  <2>3. \A a \in Ages : Older(a) \in Nat /\ a \in Nat /\ a =< Older(a)
    BY AgesNat, Constants DEF Older
  <2> QED BY <2>1, <2>2, <2>3, AgesNat DEF Aged, Row
<1> QED BY <1>1, Constants DEF InFlight, RecentlyGranted

LEMMA FiniteInstances ==
  ASSUME NEW S \in SUBSET Instances
  PROVE  IsFiniteSet(S) /\ Cardinality(S) \in Nat
<1>1. IsFiniteSet(S)
  BY FiniteAssumption, FS_Subset DEF FiniteAssumption
<1> QED BY <1>1, FS_CardinalityType

(* A check that may grant finds a slot free under both limits.             *)
LEMMA GrantRoom ==
  ASSUME NEW t, Dated(t), policy \in Policies, RateLimited, MayGrant(t)
  PROVE  Cardinality(InFlight(t)) < Limit /\ Cardinality(RecentlyGranted(t)) < Limit
<1>1. policy.maxUpdates \in Nat /\ policy.maxUpdates =< Limit /\ 1 =< Limit /\ Limit < NoLimit
  BY TypeAssumption DEF TypeAssumption, Policy, RateLimited
<1>2. ~LimitReached(t)
  BY <1>1, Constants DEF MayGrant, Unlimited
<1>3. EffectiveMaxUpdates(t) \in Nat /\ EffectiveMaxUpdates(t) =< Limit
  BY <1>1, Constants DEF EffectiveMaxUpdates
<1>4. InFlight(t) \subseteq Instances /\ RecentlyGranted(t) \subseteq Instances
  BY DEF InFlight, RecentlyGranted
<1>5. UpdatesInProgress(t) \subseteq Instances /\ GrantedInLastPeriod(t) \subseteq Instances
  BY DEF UpdatesInProgress, GrantedInLastPeriod, Seen
<1>6. /\ Cardinality(InFlight(t)) \in Nat /\ Cardinality(RecentlyGranted(t)) \in Nat
      /\ IsFiniteSet(UpdatesInProgress(t)) /\ Cardinality(UpdatesInProgress(t)) \in Nat
      /\ IsFiniteSet(GrantedInLastPeriod(t)) /\ Cardinality(GrantedInLastPeriod(t)) \in Nat
  BY <1>4, <1>5, FiniteInstances
<1>7. /\ Cardinality(InFlight(t)) =< Cardinality(UpdatesInProgress(t))
      /\ Cardinality(RecentlyGranted(t)) =< Cardinality(GrantedInLastPeriod(t))
  BY <1>6, StatisticsSeeAll, FS_Subset
<1>8. /\ ~(Cardinality(GrantedInLastPeriod(t)) >= EffectiveMaxUpdates(t))
      /\ ~(Cardinality(UpdatesInProgress(t)) >= EffectiveMaxUpdates(t))
  BY <1>2 DEF LimitReached
<1> QED BY <1>3, <1>6, <1>7, <1>8, Constants

(* What a step does to the two sets the limits speak of.                   *)
NobodyAdded ==
  /\ InFlight(rows') \subseteq InFlight(rows)
  /\ RecentlyGranted(rows') \subseteq RecentlyGranted(rows)

OneAdded(i) ==
  /\ i \notin InFlight(rows)
  /\ InFlight(rows') = InFlight(rows) \cup {i}
  /\ RecentlyGranted(rows') \subseteq RecentlyGranted(rows) \cup {i}
  /\ RateLimited => /\ Cardinality(InFlight(rows)) < Limit
                    /\ Cardinality(RecentlyGranted(rows)) < Limit

LEMMA CheckSets ==
  ASSUME SoundState, NEW i \in Instances, NEW v \in Versions, UpdateCheck(i, v)
  PROVE  NobodyAdded \/ (OneAdded(i) /\ rolloutInProgress' = TRUE)
<1> DEFINE t == RegisterInstance(rows, i, v)
<1> HIDE DEF t
<1>1. Sound(t) /\ InFlight(t) = InFlight(rows) /\ RecentlyGranted(t) = RecentlyGranted(rows)
  BY RegisterInstanceSound, RegisterInstanceSets DEF SoundState, t
<1>2. CheckOutcome(t, i)
  BY CheckWrites DEF t
<1>3. CASE rows' = t
  BY <1>1, <1>3 DEF NobodyAdded
<1>4. CASE \E s \in {"Complete", "OnHold"} : rows' = UpdateInstanceStatus(t, i, s)
  BY <1>1, <1>4, UpdateInstanceStatusSets DEF NobodyAdded
<1>5. ASSUME NEW w \in Versions, rows' = GrantUpdate(t, i, w),
             t[i].status \notin InProgressStatus, MayGrant(t), rolloutInProgress' = TRUE
      PROVE  NobodyAdded \/ (OneAdded(i) /\ rolloutInProgress' = TRUE)
  <2>1. RateLimited => /\ Cardinality(InFlight(rows)) < Limit
                       /\ Cardinality(RecentlyGranted(rows)) < Limit
    BY <1>1, <1>5, GrantRoom DEF SoundState, Sound, SoundRow, Dated
  <2> QED BY <1>1, <1>5, <2>1, GrantUpdateSets DEF NobodyAdded, OneAdded
<1> QED BY <1>2, <1>3, <1>4, <1>5 DEF CheckOutcome

LEMMA NextSets ==
  ASSUME SoundState, [Next]_vars
  PROVE  NobodyAdded \/ \E i \in Instances : OneAdded(i) /\ rolloutInProgress' = TRUE
<1>1. ASSUME NEW i \in Instances, NEW v \in Versions, UpdateCheck(i, v)
      PROVE  NobodyAdded \/ (OneAdded(i) /\ rolloutInProgress' = TRUE)
  BY <1>1, CheckSets
<1>2. ASSUME NEW i \in Instances, NEW v \in Versions, Ping(i, v)
      PROVE  NobodyAdded
  BY <1>2, RegisterInstanceSets DEF Ping, SoundState, NobodyAdded
<1>3. ASSUME NEW i \in Instances, RegisterEvent(i)
      PROVE  NobodyAdded
  <2>1. \E s : rows' = UpdateInstanceStatus(rows, i, s)
    BY <1>3 DEF RegisterEvent, IgnoreFlatcarEvent, UpdateProgressed, UpdateCompleted, UpdateFailed
  <2> QED BY <2>1, UpdateInstanceStatusSets DEF SoundState, NobodyAdded
<1>4. CASE Tick
  BY <1>4, TickSets DEF NobodyAdded
<1>5. CASE rows' = rows
  BY <1>5 DEF NobodyAdded
<1>6. Syncers \subseteq Instances
  BY TypeAssumption DEF TypeAssumption
<1> QED BY <1>1, <1>2, <1>3, <1>4, <1>5, <1>6
        DEF Next, UpdateCheck, UpdateGroup, ClearUpdatesEnabledOverride, ChangeChannel, vars

LEMMA BoundGrows ==
  ASSUME NEW S \in SUBSET Instances, NEW T \in SUBSET Instances, NEW i \in Instances,
         Cardinality(S) =< Limit,
         T \subseteq S \/ (T \subseteq S \cup {i} /\ Cardinality(S) < Limit)
  PROVE  Cardinality(T) =< Limit
<1>1. /\ Cardinality(S) \in Nat /\ IsFiniteSet(S) /\ Cardinality(T) \in Nat
      /\ Cardinality(S \cup {i}) \in Nat /\ IsFiniteSet(S \cup {i})
  BY FiniteInstances
<1>2. Cardinality(S \cup {i}) =< Cardinality(S) + 1
  BY <1>1, FS_AddElement
<1>3. T \subseteq S => Cardinality(T) =< Cardinality(S)
  BY <1>1, FS_Subset
<1>4. T \subseteq S \cup {i} => Cardinality(T) =< Cardinality(S \cup {i})
  BY <1>1, FS_Subset
<1> QED BY <1>1, <1>2, <1>3, <1>4, Constants

LEMMA InitSets == Init => InFlight(rows) = {} /\ RecentlyGranted(rows) = {}
BY DEF Init, NoRow, InFlight, RecentlyGranted

Bounds ==
  /\ Cardinality(InFlight(rows)) =< Limit
  /\ Cardinality(RecentlyGranted(rows)) =< Limit

LEMMA BoundsHold == ASSUME RateLimited PROVE Spec => []Bounds
<1>1. Init => Bounds
  BY InitSets, FS_EmptySet, Constants DEF Bounds
<1>2. SoundState /\ Bounds /\ [Next]_vars => Bounds'
  <2> SUFFICES ASSUME SoundState, Bounds, [Next]_vars PROVE Bounds'
    OBVIOUS
  <2>1. /\ InFlight(rows) \subseteq Instances /\ RecentlyGranted(rows) \subseteq Instances
        /\ InFlight(rows') \subseteq Instances /\ RecentlyGranted(rows') \subseteq Instances
    BY DEF InFlight, RecentlyGranted
  <2>2. CASE NobodyAdded
    <3>1. CASE Instances = {}
      BY <2>1, <3>1, FS_EmptySet, Constants DEF Bounds
    <3>2. CASE Instances # {}
      BY <2>1, <2>2, <3>2, BoundGrows DEF Bounds, NobodyAdded
    <3> QED BY <3>1, <3>2
  <2>3. ASSUME NEW i \in Instances, OneAdded(i) PROVE Bounds'
    BY <2>1, <2>3, BoundGrows DEF Bounds, OneAdded
  <2> QED BY <2>2, <2>3, NextSets
<1> QED BY <1>1, <1>2, AlwaysSound, PTL DEF Spec

(* A group whose policies are all limited never has more updates running   *)
(* at once than the largest limit, however many instances check in and     *)
(* whatever its timeout: updates that time out are no longer counted, and  *)
(* those of machines that were not seen for a day since their grant.       *)
THEOREM ParallelBound == Spec => []ParallelUpdatesBounded
<1>1. CASE RateLimited
  BY <1>1, BoundsHold, PTL DEF Bounds, ParallelUpdatesBounded
<1>2. CASE ~RateLimited
  BY <1>2, PTL DEF ParallelUpdatesBounded
<1> QED BY <1>1, <1>2

(* Nor are more instances than that granted an update within one period,   *)
(* machines left out that were not seen for a day since.                   *)
THEOREM PeriodBound == Spec => []GrantsPerPeriodBounded
<1>1. CASE RateLimited
  BY <1>1, BoundsHold, PTL DEF Bounds, GrantsPerPeriodBounded
<1>2. CASE ~RateLimited
  BY <1>2, PTL DEF GrantsPerPeriodBounded
<1> QED BY <1>1, <1>2

(* With a timeout that ends within the day for which the statistics        *)
(* remember a machine, silence makes no difference: the limit is one on    *)
(* all updates that have not timed out, those of silent machines included. *)
THEOREM EveryUpdateCounted ==
  ASSUME RateLimited, Timeout + Recent < Validity
  PROVE  Spec => [](Cardinality({i \in Instances :
                       /\ rows[i].updateInProgress
                       /\ rows[i].grantAge # NULL /\ rows[i].grantAge =< Timeout}) =< Limit)
<1> DEFINE Unexpired == {i \in Instances :
                       /\ rows[i].updateInProgress
                       /\ rows[i].grantAge # NULL /\ rows[i].grantAge =< Timeout}
<1>1. ASSUME SoundState, Bounds PROVE Cardinality(Unexpired) =< Limit
  <2>1. ASSUME NEW i \in Instances, rows[i].grantAge # NULL, rows[i].grantAge =< Timeout
        PROVE  ~rows[i].lost
    <3>1. SlackOf(rows[i]) /\ rows[i].grantAge \in Nat
      BY <1>1, <2>1, AgesNat DEF SoundState, Sound, SoundRow, Row
    <3> QED BY <2>1, <3>1, Constants DEF SlackOf
  <2>2. Unexpired = InFlight(rows)
    BY <2>1 DEF InFlight
  <2> QED BY <1>1, <2>2 DEF Bounds
<1> QED BY <1>1, AlwaysSound, BoundsHold, PTL

LEMMA SameCardinality == \A S : Lease!Cardinality(S) = Cardinality(S)
BY DEF Lease!Cardinality, Cardinality, Lease!IsFiniteSet, IsFiniteSet

(* The rollout engine implements the pool of leases: every step that puts  *)
(* an update in flight takes a free slot, every other step at most gives   *)
(* slots back.  A machine's slot lapses with its update's timeout, or when *)
(* the machine has not been seen for a day.                                *)
THEOREM ImplementsLease == ASSUME RateLimited PROVE Spec => LeaseSpec
<1>1. Init => Lease!Init
  BY InitSets DEF Lease!Init
<1>2. SoundState /\ [Next]_vars => [Lease!Next]_(InFlight(rows))
  <2> SUFFICES ASSUME SoundState, [Next]_vars PROVE [Lease!Next]_(InFlight(rows))
    OBVIOUS
  <2>0. InFlight(rows)' = InFlight(rows')
    BY DEF InFlight
  <2>1. CASE NobodyAdded
    BY <2>0, <2>1 DEF NobodyAdded, Lease!Next, Lease!Release
  <2>2. ASSUME NEW i \in Instances, OneAdded(i) PROVE Lease!Acquire(i)
    BY <2>0, <2>2, SameCardinality DEF OneAdded, Lease!Acquire
  <2> QED BY <2>1, <2>2, NextSets DEF Lease!Next
<1> QED BY <1>1, <1>2, AlwaysSound, PTL DEF Spec, LeaseSpec, Lease!Spec

-----------------------------------------------------------------------------
(* The rollout flag.                                                       *)

(* The flag goes down on a completed update only when every instance seen  *)
(* has succeeded, and then none is in flight.                              *)
LEMMA FinishedMeansNoneInFlight ==
  ASSUME NEW t, Sound(t), UpdatesToCurrentVersionSucceeded(t) = Seen(t)
  PROVE  InFlight(t) = {}
<1>1. InFlight(t) \subseteq Seen(t)
  BY StatisticsSeeAll DEF UpdatesInProgress, Sound, SoundRow, Dated
<1>2. \A i \in Seen(t) : ~t[i].updateInProgress
  BY DEF UpdatesToCurrentVersionSucceeded, UpdatesToCurrentVersionAttempted
<1> QED BY <1>1, <1>2 DEF InFlight

(* Unless the service ends rollouts whose first update fails, a group with *)
(* an update in flight shows a rollout in progress.  The flag may be down  *)
(* for updates that have timed out and for machines not seen for a day.    *)
THEOREM RolloutFlag == Spec => []RolloutFlagCoversInFlight
<1>1. Init => RolloutFlagCoversInFlight
  BY InitSets DEF RolloutFlagCoversInFlight
<1>2. SoundState /\ RolloutFlagCoversInFlight /\ [Next]_vars => RolloutFlagCoversInFlight'
  <2> SUFFICES ASSUME SoundState, RolloutFlagCoversInFlight, [Next]_vars,
                      ~DisableUpdatesOnFailedRollout
               PROVE  InFlight(rows') = {} \/ rolloutInProgress'
    BY DEF RolloutFlagCoversInFlight
  <2>1. ASSUME NEW i \in Instances, RegisterEvent(i)
        PROVE  rolloutInProgress' = rolloutInProgress \/ InFlight(rows') = {}
    <3>1. CASE UpdateCompleted(i)
      <4> DEFINE t == UpdateInstanceStatus(rows, i, "Complete")
      <4>1. Sound(t)
        BY UpdateInstanceStatusSound DEF SoundState, Status, IdleStatus
      <4>2. rows' = t /\ rolloutInProgress' =
                          (rolloutInProgress /\ UpdatesToCurrentVersionSucceeded(t) # Seen(t))
        BY <3>1 DEF UpdateCompleted
      <4> HIDE DEF t
      <4>3. CASE UpdatesToCurrentVersionSucceeded(t) = Seen(t)
        BY <4>1, <4>2, <4>3, FinishedMeansNoneInFlight
      <4> QED BY <4>2, <4>3 DEF SoundState
    <3>2. CASE UpdateFailed(i)
      BY <3>2 DEF UpdateFailed, FirstAttemptFailed, SoundState
    <3>3. CASE IgnoreFlatcarEvent(i) \/ \E s \in InProgressStatus : UpdateProgressed(i, s)
      BY <3>3 DEF IgnoreFlatcarEvent, UpdateProgressed
    <3> QED BY <2>1, <3>1, <3>2, <3>3 DEF RegisterEvent
  <2>2. ASSUME NEW i \in Instances, NEW v \in Versions, UpdateCheck(i, v)
        PROVE  rolloutInProgress' \in {rolloutInProgress, TRUE}
    BY <2>2, CheckWrites
  <2>3. rolloutInProgress' \in {rolloutInProgress, TRUE} \/ InFlight(rows') = {}
    <3>1. Syncers \subseteq Instances
      BY TypeAssumption DEF TypeAssumption
    <3> QED BY <2>1, <2>2, <3>1 DEF Next, UpdateCheck, Ping, UpdateGroup,
               ClearUpdatesEnabledOverride, ChangeChannel, Tick, vars
  <2> QED BY <2>3, NextSets DEF RolloutFlagCoversInFlight, NobodyAdded
<1> QED BY <1>1, <1>2, AlwaysSound, PTL DEF Spec

-----------------------------------------------------------------------------
(* What a grant is.                                                        *)

(* An instance is granted an update by its own check, under the policy.    *)
LEMMA GrantFromOwnCheck ==
  ASSUME SoundState, [Next]_vars, NEW i \in Instances, NewGrant(i)
  PROVE  \E v \in Versions :
           LET t == RegisterInstance(rows, i, v)
           IN  /\ UpdateCheck(i, v) /\ MayGrant(t)
               /\ \E w \in Versions : rows' = GrantUpdate(t, i, w)
<1> DEFINE t(j, v) == RegisterInstance(rows, j, v)
<1>0. ASSUME NEW j \in Instances, NEW v \in Versions
      PROVE  Sound(t(j, v)) /\ t(j, v)[i].status = rows[i].status
  <2>1. Sound(t(j, v))
    BY RegisterInstanceSound DEF SoundState
  <2> QED BY <2>1 DEF SoundState, Sound, SoundRow, RegisterInstance, CheckedIn, Row
<1> HIDE DEF t
<1>1. rows'[i].status = "UpdateGranted" /\ rows[i].status # "UpdateGranted"
  BY DEF NewGrant
<1>2. ASSUME NEW j \in Instances, NEW u, Sound(u), NEW s \in Status \ {"UpdateGranted"},
             rows' = UpdateInstanceStatus(u, j, s), u[i].status = rows[i].status
      PROVE  FALSE
  BY <1>1, <1>2 DEF UpdateInstanceStatus, WithStatus, Sound, SoundRow, Row
<1>3. ASSUME NEW j \in Instances, NEW u, Sound(u), NEW w \in Versions, j # i,
             rows' = GrantUpdate(u, j, w), u[i].status = rows[i].status
      PROVE  FALSE
  BY <1>1, <1>3 DEF GrantUpdate, Sound
<1>4. {"OnHold", "Complete", "Undefined", "Error"} \cup InProgressStatus \subseteq Status \ {"UpdateGranted"}
  BY DEF Status, IdleStatus, BusyStatus, InProgressStatus
<1>5. ASSUME NEW j \in Instances, NEW v \in Versions, UpdateCheck(j, v)
      PROVE  /\ j = i /\ MayGrant(t(j, v))
             /\ \E w \in Versions : rows' = GrantUpdate(t(j, v), j, w)
  <2>1. CheckOutcome(t(j, v), j)
    BY <1>5, CheckWrites DEF t
  <2> QED BY <1>0, <1>1, <1>2, <1>3, <1>4, <2>1 DEF CheckOutcome
<1>6. ASSUME NEW j \in Instances, NEW v \in Versions, Ping(j, v) PROVE FALSE
  BY <1>0, <1>1, <1>6 DEF Ping, t
<1>7. ASSUME NEW j \in Instances, RegisterEvent(j) PROVE FALSE
  <2>1. \E s \in Status \ {"UpdateGranted"} : rows' = UpdateInstanceStatus(rows, j, s)
    BY <1>7, <1>4 DEF RegisterEvent, IgnoreFlatcarEvent, UpdateProgressed, UpdateCompleted, UpdateFailed
  <2> QED BY <2>1, <1>2 DEF SoundState
<1>8. ~Tick
  <2>1. rows[i] \in Row
    BY DEF SoundState, Sound, SoundRow
  <2>2. Aged(rows[i]).status = rows[i].status
    BY <2>1 DEF Aged, Row
  <2>3. Tick => rows'[i] = Aged(rows[i])
    BY DEF Tick
  <2> QED BY <2>2, <2>3, <1>1
<1>9. rows' # rows /\ Syncers \subseteq Instances
  BY <1>1, TypeAssumption DEF TypeAssumption
<1>10. \E j \in Instances, v \in Versions : UpdateCheck(j, v)
  BY <1>6, <1>7, <1>8, <1>9
     DEF Next, UpdateCheck, UpdateGroup, ClearUpdatesEnabledOverride, ChangeChannel, vars
<1> QED BY <1>5, <1>10 DEF t

(* An instance that is no syncer is granted the next version after the     *)
(* one it reports.                                                         *)
LEMMA GrantIsNextVersion ==
  ASSUME SoundState, [Next]_vars, NEW i \in Instances \ Syncers, NewGrant(i)
  PROVE  \E v \in Versions, w \in Versions :
           /\ rows'[i].version = v /\ rows'[i].lastUpdateVersion = w
           /\ channel.target # NULL /\ v < channel.target
           /\ IsNextVersion(w, v)
<1>1. PICK v \in Versions : UpdateCheck(i, v)
  BY GrantFromOwnCheck
<1> DEFINE t == RegisterInstance(rows, i, v)
<1>2. /\ Sound(t) /\ t[i].status = rows[i].status /\ t[i].version = v
  <2>1. Sound(t)
    BY RegisterInstanceSound DEF SoundState
  <2> QED BY <2>1 DEF SoundState, Sound, SoundRow, RegisterInstance, CheckedIn, Row
<1>3. GetUpdatePackage(i, v)
  BY <1>1 DEF UpdateCheck
<1>4. rows'[i].status = "UpdateGranted" /\ rows[i].status # "UpdateGranted"
  BY DEF NewGrant
<1>5. PICK w \in Versions :
        IsNextVersion(w, v) /\ DecideUpdate(t, i, v, w, NextIsBlacklisted(v))
  <2>1. /\ ~CheckUnseen(t, i, v, NextIsBlacklisted(v))
        /\ ~RefuseCheck(t, i) /\ ~AnswerGranted(t, i, v)
    BY <1>2, <1>4 DEF CheckUnseen, RefuseCheck, AnswerGranted
  <2> QED BY <2>1, <1>3 DEF GetUpdatePackage
<1> HIDE DEF t
<1>6. rows' = GrantUpdate(t, i, w) /\ channel.target # NULL /\ v < channel.target
  <2>0. t[i] \in Row /\ t = [k \in Instances |-> t[k]]
    BY <1>2 DEF Sound, SoundRow
  <2>1. rows' # t
    BY <1>2, <1>4
  <2>2. WithStatus(t[i], "OnHold").status = "OnHold"
    BY <2>0 DEF WithStatus, Row
  <2>3. rows' # UpdateInstanceStatus(t, i, "OnHold")
    BY <2>0, <2>1, <2>2, <1>4 DEF UpdateInstanceStatus
  <2> QED BY <1>5, <2>1, <2>3 DEF DecideUpdate, EnforceRolloutPolicy
<1>7. rows'[i] = Granted(t[i], w)
  BY <1>2, <1>4, <1>6 DEF GrantUpdate, Sound
<1>8. rows'[i].version = v /\ rows'[i].lastUpdateVersion = w
  BY <1>2, <1>7 DEF Granted, Sound, SoundRow, Row
<1> QED BY <1>5, <1>6, <1>8

(* A machine is never granted a version at or below its own, above the     *)
(* channel's package, or past a floor, whatever the channel holds.         *)
THEOREM FloorByFloor == Spec => GrantsStepByFloors
<1>1. ASSUME SoundState, [Next]_vars, NEW i \in Instances \ Syncers, NewGrant(i)
      PROVE  StepsByFloors(i)
  <2>1. PICK v \in Versions, w \in Versions :
           /\ rows'[i].version = v /\ rows'[i].lastUpdateVersion = w
           /\ channel.target # NULL /\ v < channel.target
           /\ IsNextVersion(w, v)
    BY <1>1, GrantIsNextVersion
  <2>2. /\ channel.target \in Nat /\ channel.floors \subseteq Nat
        /\ v \in Nat /\ w \in Nat
    BY <1>1, <2>1, TypeAssumption DEF TypeAssumption, SoundState, Channel
  <2>3. v < w /\ w =< channel.target /\ \A f \in channel.floors : ~(v < f /\ f < w)
    BY <2>1, <2>2 DEF IsNextVersion, RequiredFloors
  <2> QED BY <2>1, <2>3 DEF StepsByFloors
<1>2. SoundState /\ [Next]_vars
        => [\A i \in Instances \ Syncers : NewGrant(i) => StepsByFloors(i)]_vars
  BY <1>1
<1> QED BY <1>2, AlwaysSound, PTL DEF Spec, GrantsStepByFloors

-----------------------------------------------------------------------------
(* Safe mode.                                                              *)

(* In safe mode the first instance to try the channel's package is alone:  *)
(* no other instance the server has seen within a day is updating.         *)
THEOREM SafeModeFirst == Spec => SafeModeFirstAlone
<1>1. ASSUME SoundState, [Next]_vars, NEW i \in Instances, FirstInSafeMode(i),
             NEW j \in Seen(rows) \ {i}, rows[j].updateInProgress
      PROVE  FALSE
  <2>1. PICK v \in Versions : MayGrant(RegisterInstance(rows, i, v))
    BY <1>1, GrantFromOwnCheck DEF FirstInSafeMode
  <2> DEFINE t == RegisterInstance(rows, i, v)
  <2>2. Sound(t)
    BY <1>1, RegisterInstanceSound DEF SoundState
  <2>3. /\ \A k \in Instances \ {i} : t[k] = rows[k]
        /\ t[i].lastUpdateVersion = rows[i].lastUpdateVersion
    BY <1>1 DEF RegisterInstance, CheckedIn, SoundState, Sound, SoundRow, Row
  <2>4. j \in Instances /\ j # i /\ j \in Seen(rows)
    BY <1>1 DEF Seen
  <2> HIDE DEF t
  <2>5. UpdatesToCurrentVersionAttempted(t) = {}
    <3>1. ASSUME NEW k \in UpdatesToCurrentVersionAttempted(t), k # i PROVE FALSE
      BY <1>1, <2>3, <3>1 DEF UpdatesToCurrentVersionAttempted, FirstInSafeMode, Seen
    <3>2. i \notin UpdatesToCurrentVersionAttempted(t)
      BY <1>1, <2>3 DEF UpdatesToCurrentVersionAttempted, FirstInSafeMode
    <3> QED BY <3>1, <3>2
  <2>6. /\ policy.safeMode
        /\ EffectiveMaxUpdates(t) = 1
    BY <1>1, <2>5 DEF EffectiveMaxUpdates, FirstInSafeMode
  <2>7. /\ ~(Cardinality(UpdatesInProgress(t)) >= 1)
        /\ ~(Cardinality(UpdatesTimedOut(t)) >= 1)
    BY <2>1, <2>6 DEF MayGrant, Unlimited, LimitReached, TooManyTimedOut, t
  <2>8. UpdatesInProgress(t) \subseteq Instances /\ UpdatesTimedOut(t) \subseteq Instances
    BY DEF UpdatesInProgress, UpdatesTimedOut, Seen
  <2>9. UpdatesInProgress(t) = {} /\ UpdatesTimedOut(t) = {}
    BY <2>7, <2>8, FiniteInstances, FS_EmptySet
  <2>10. t[j].updateInProgress /\ j \in Seen(t)
    BY <1>1, <2>3, <2>4 DEF Seen
  <2>11. t[j].grantAge # NULL /\ t[j].grantAge \in Nat
    BY <2>2, <2>4, <2>10, AgesNat DEF Sound, SoundRow, MatchesOf, Row
  <2>12. j \in UpdatesInProgress(t) \/ j \in UpdatesTimedOut(t)
    BY <2>10, <2>11, Constants DEF UpdatesInProgress, UpdatesTimedOut
  <2> QED BY <2>9, <2>12
<1>2. SoundState /\ [Next]_vars
        => [\A i \in Instances :
              FirstInSafeMode(i) => \A j \in Seen(rows) \ {i} : ~rows[j].updateInProgress]_vars
  BY <1>1
<1> QED BY <1>2, AlwaysSound, PTL DEF Spec, SafeModeFirstAlone
=============================================================================
