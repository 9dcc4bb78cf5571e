------------------------------- MODULE Rollout -------------------------------
(***************************************************************************)
(* The rollout engine of one Nebraska group (backend/pkg/api/runtime):     *)
(* update checks, the policy that grants or withholds an update, and the   *)
(* events by which instances report progress.  Every handler is one        *)
(* action; RolloutRace splits the handlers at their database statements.   *)
(*                                                                         *)
(* Time is kept as ages, not as a clock: how long ago an instance last     *)
(* checked in and how long ago it was granted its update.  An age stops    *)
(* growing at MaxAge, beyond every threshold the queries compare it with.  *)
(*                                                                         *)
(* A version is a natural number, ordered as its semantic version is.      *)
(***************************************************************************)
EXTENDS Integers, FiniteSets

CONSTANTS
  Instances,        \* machines that ask this group for updates
  Syncers,          \* those that are Nebraska syncers (they take floors and target at once)
  Versions,         \* versions a package or a machine can have
  Policies,         \* the policies an administrator gives the group
  ChannelConfigs,   \* what the administrator's requests leave in the channel
  FlatcarApp,       \* TRUE: the application is Flatcar (its updater's quirk is handled)
  DisableUpdatesOnFailedRollout,  \* configuration of the runtime service
  Period,           \* policy_period_interval
  Timeout,          \* policy_update_timeout
  Recent,           \* RegisterInstance's 5 minutes
  Validity,         \* validityInterval, 1 day: rows last seen before it are not read
  MaxAge,           \* ages saturate here
  NoLimit,          \* maxParallelUpdates: from here on there is no rate limit
  Limit,            \* the largest limit of any policy (for the properties)
  NULL              \* SQL's NULL

VARIABLES
  rows,             \* table instance_application, one row per instance
  policy,           \* the group's row: the administrator's policy
  channel,          \* the group's channel: its package, floors and blacklist
  brake,            \* group_local.policy_updates_enabled_override is false (else NULL)
  rolloutInProgress \* group_local.rollout_in_progress

vars == <<rows, policy, channel, brake, rolloutInProgress>>

Ages == 0 .. MaxAge

InProgressStatus == {"Downloading", "Downloaded", "Installed"}
BusyStatus == InProgressStatus \cup {"UpdateGranted"}
IdleStatus == {"Undefined", "Error", "Complete", "OnHold"}
Status == BusyStatus \cup IdleStatus

Policy == [updatesEnabled : BOOLEAN, safeMode : BOOLEAN,
           officeHours : BOOLEAN, maxUpdates : Nat]

Channel == [target : Versions \cup {NULL}, floors : SUBSET Versions,
            blacklist : SUBSET Versions]

Row == [version : Versions \cup {NULL},            \* NULL: no such row yet
        status : Status \cup {NULL},
        lastUpdateVersion : Versions \cup {NULL},
        grantAge : Ages \cup {NULL},               \* now - last_update_granted_ts
        updateInProgress : BOOLEAN,
        checkAge : Ages,                           \* now - last_check_for_updates
        lost : BOOLEAN]  \* history: since its grant the row has gone unseen for Validity

ASSUME TypeAssumption ==
  /\ Versions \subseteq Nat
  /\ Syncers \subseteq Instances
  /\ Policies \subseteq Policy
  /\ ChannelConfigs \subseteq Channel
  /\ FlatcarApp \in BOOLEAN
  /\ DisableUpdatesOnFailedRollout \in BOOLEAN
  /\ NULL \notin Versions /\ NULL \notin Ages /\ NULL \notin Status

ASSUME FiniteAssumption == IsFiniteSet(Instances)

(* The age at which counting stops lies beyond every threshold.            *)
ASSUME AgeAssumption ==
  /\ {Period, Timeout, Recent, Validity, MaxAge, NoLimit, Limit} \subseteq Nat
  /\ Period =< MaxAge /\ Timeout < MaxAge /\ Recent < MaxAge /\ Validity =< MaxAge

(* Both are constants of the code.  Nothing relates Timeout and Period to   *)
(* Validity: the group's dialog takes a number and a unit for each, days    *)
(* among the units, and starts from a timeout of 1 day.                     *)
ASSUME ValidityAssumption == Recent < Validity

-----------------------------------------------------------------------------
(* The statistics query, over a table t.                                   *)

Seen(t) == {i \in Instances : t[i].checkAge < Validity}

GrantedInLastPeriod(t) ==
  {i \in Seen(t) : t[i].grantAge # NULL /\ t[i].grantAge < Period}

UpdatesInProgress(t) ==
  {i \in Seen(t) : /\ t[i].updateInProgress
                   /\ t[i].grantAge # NULL /\ t[i].grantAge =< Timeout}

UpdatesTimedOut(t) ==
  {i \in Seen(t) : /\ t[i].updateInProgress
                   /\ t[i].grantAge # NULL /\ t[i].grantAge > Timeout}

UpdatesToCurrentVersionAttempted(t) ==
  {i \in Seen(t) : /\ ~t[i].updateInProgress
                   /\ channel.target # NULL
                   /\ t[i].lastUpdateVersion = channel.target}

UpdatesToCurrentVersionSucceeded(t) ==
  {i \in UpdatesToCurrentVersionAttempted(t) : t[i].version = t[i].lastUpdateVersion}

-----------------------------------------------------------------------------
(* Writes to the table.                                                    *)

(* RegisterInstance: nothing is written for a machine that checked in      *)
(* recently and still runs the same version.                               *)
CheckedIn(r, v) == [r EXCEPT !.version = v, !.checkAge = 0]

RegisterInstance(t, i, v) ==
  IF t[i].checkAge > Recent \/ t[i].version # v
    THEN [t EXCEPT ![i] = CheckedIn(t[i], v)]
    ELSE t

(* Mutants of WithStatus: it forgets that OnHold ends an update, or takes a *)
(* finished download for the end.                                           *)
WithStatusHeld(r, s) ==
  [r EXCEPT !.status = s,
            !.updateInProgress = r.updateInProgress /\ s \notin IdleStatus \ {"OnHold"},
            !.version = IF s = "Complete" THEN r.lastUpdateVersion ELSE r.version]

WithStatusDownloaded(r, s) ==
  [r EXCEPT !.status = s,
            !.updateInProgress = r.updateInProgress /\ s = "Downloading",
            !.version = IF s = "Complete" THEN r.lastUpdateVersion ELSE r.version]

(* updateInstanceStatus and updateInstanceObjStatus.  A row that already   *)
(* has the status is left alone; Complete takes the version that was       *)
(* granted as the version installed.                                       *)
WithStatus(r, s) ==
  [r EXCEPT
    !.status = s,
    !.updateInProgress = r.updateInProgress /\ s \notin IdleStatus,
    !.version = IF s = "Complete" /\ r.lastUpdateVersion # NULL
                  THEN r.lastUpdateVersion ELSE r.version]

UpdateInstanceStatus(t, i, s) ==
  IF t[i].status = s THEN t ELSE [t EXCEPT ![i] = WithStatus(t[i], s)]

Granted(r, v) ==
  [r EXCEPT !.status = "UpdateGranted", !.lastUpdateVersion = v,
            !.grantAge = 0, !.updateInProgress = TRUE, !.lost = FALSE]

GrantUpdate(t, i, v) ==
  IF t[i].status = "UpdateGranted" THEN t ELSE [t EXCEPT ![i] = Granted(t[i], v)]

-----------------------------------------------------------------------------
(* The packages between a machine's version and the channel's package.     *)

(* Mutant of RequiredFloors: a machine at a floor still has it ahead.      *)
FloorsNotBehind(v) == {f \in channel.floors : v =< f /\ f =< channel.target}

RequiredFloors(v) == {f \in channel.floors : v < f /\ f =< channel.target}

(* w is the version of packages[0] of getPackagesWithFloorsForUpdate: the  *)
(* lowest floor still ahead, or the channel's package.                     *)
IsNextVersion(w, v) ==
  IF RequiredFloors(v) = {} THEN w = channel.target
  ELSE w \in RequiredFloors(v) /\ \A f \in RequiredFloors(v) : w =< f

(* Only the channel's own package is read with its blacklist; a floor      *)
(* comes from a query that leaves it empty, the package itself included    *)
(* when it is a floor.                                                     *)
NextIsBlacklisted(v) ==
  RequiredFloors(v) = {} /\ channel.target \in channel.blacklist

TargetIsBlacklisted ==
  channel.target \in channel.blacklist \ channel.floors

-----------------------------------------------------------------------------
(* enforceRolloutPolicy.                                                   *)

EffectiveUpdatesEnabled == policy.updatesEnabled /\ ~brake

Unlimited == policy.maxUpdates >= NoLimit /\ ~policy.safeMode

(* Mutant of EffectiveMaxUpdates: safe mode does not go one at a time.      *)
NominalMaxUpdates(t) == policy.maxUpdates

EffectiveMaxUpdates(t) ==
  IF policy.safeMode /\ UpdatesToCurrentVersionAttempted(t) = {}
    THEN 1 ELSE policy.maxUpdates

(* Mutants of LimitReached: off by one; one of its two counts forgotten.    *)
LimitPassed(t) ==
  \/ Cardinality(GrantedInLastPeriod(t)) > EffectiveMaxUpdates(t)
  \/ Cardinality(UpdatesInProgress(t)) > EffectiveMaxUpdates(t)

PeriodLimitReached(t) == Cardinality(GrantedInLastPeriod(t)) >= EffectiveMaxUpdates(t)

ParallelLimitReached(t) == Cardinality(UpdatesInProgress(t)) >= EffectiveMaxUpdates(t)

LimitReached(t) ==
  \/ Cardinality(GrantedInLastPeriod(t)) >= EffectiveMaxUpdates(t)
  \/ Cardinality(UpdatesInProgress(t)) >= EffectiveMaxUpdates(t)

TooManyTimedOut(t) ==
  policy.safeMode /\ Cardinality(UpdatesTimedOut(t)) >= EffectiveMaxUpdates(t)

MayGrant(t) == Unlimited \/ (~LimitReached(t) /\ ~TooManyTimedOut(t))

(* The policy's four outcomes for instance i, which would be granted       *)
(* version v.  The hour of the day is not modelled: a group that updates   *)
(* in office hours only may be outside them at any check.                  *)
EnforceRolloutPolicy(t, i, v) ==
  \/ /\ ~EffectiveUpdatesEnabled \/ policy.officeHours
     /\ rows' = t
     /\ UNCHANGED <<brake, rolloutInProgress>>
  \/ /\ EffectiveUpdatesEnabled /\ ~Unlimited /\ LimitReached(t)
     /\ rows' = UpdateInstanceStatus(t, i, "OnHold")
     /\ UNCHANGED <<brake, rolloutInProgress>>
  \/ /\ EffectiveUpdatesEnabled /\ ~Unlimited
     /\ ~LimitReached(t) /\ TooManyTimedOut(t)
     /\ brake' = TRUE
     /\ rows' = UpdateInstanceStatus(t, i, "OnHold")
     /\ UNCHANGED rolloutInProgress
  \/ /\ EffectiveUpdatesEnabled /\ MayGrant(t)
     /\ rows' = GrantUpdate(t, i, v)
     /\ rolloutInProgress' = TRUE
     /\ UNCHANGED brake

-----------------------------------------------------------------------------
(* The update check: t is the table after RegisterInstance.                *)

RefuseCheck(t, i) ==
  /\ t[i].status \in InProgressStatus \/ channel.target = NULL
  /\ rows' = t
  /\ UNCHANGED <<brake, rolloutInProgress>>

(* An instance that was granted an update asks again.                      *)
GrantIsOver(granted, v) ==
  \/ channel.target \in channel.blacklist
  \/ granted = NULL
  \/ v >= granted

AnswerGranted(t, i, v) ==
  /\ t[i].status = "UpdateGranted" /\ channel.target # NULL
  /\ rows' = IF GrantIsOver(t[i].lastUpdateVersion, v)
               THEN UpdateInstanceStatus(t, i, "Complete") ELSE t
  /\ UNCHANGED <<brake, rolloutInProgress>>

DecideUpdate(t, i, v, granted, blacklisted) ==
  /\ t[i].status \notin InProgressStatus /\ channel.target # NULL
  /\ \/ /\ v >= channel.target \/ blacklisted
        /\ rows' = t
        /\ UNCHANGED <<brake, rolloutInProgress>>
     \/ /\ v < channel.target /\ ~blacklisted
        /\ EnforceRolloutPolicy(t, i, granted)

(* GetInstance reads an empty application from a row last seen a day ago,  *)
(* and RegisterInstance hands on what it read before its write, unless it  *)
(* wrote the machine's own record too (a new machine, another address or   *)
(* alias) and so read again.  A check that is handed no application sees   *)
(* neither status nor grant.  It runs the policy, and what it would write  *)
(* to the row then fails for want of an application ID.                    *)
TripsBrake(t, v, blacklisted) ==
  /\ channel.target # NULL /\ v < channel.target /\ ~blacklisted
  /\ EffectiveUpdatesEnabled /\ ~Unlimited
  /\ ~LimitReached(t) /\ TooManyTimedOut(t)

CheckUnseen(t, i, v, blacklisted) ==
  /\ i \notin Seen(rows)
  /\ rows' = t
  /\ \/ /\ ~TripsBrake(t, v, blacklisted) \/ policy.officeHours
        /\ UNCHANGED brake
     \/ TripsBrake(t, v, blacklisted) /\ brake' = TRUE
  /\ UNCHANGED rolloutInProgress

(* Mutant of GetUpdatePackage: the target is granted, the floor is given.   *)
GetUpdatePackageOfTarget(i, v) ==
  LET t == RegisterInstance(rows, i, v) IN
  /\ \/ CheckUnseen(t, i, v, NextIsBlacklisted(v))
     \/ RefuseCheck(t, i)
     \/ AnswerGranted(t, i, v)
     \/ /\ t[i].status # "UpdateGranted"
        /\ DecideUpdate(t, i, v, channel.target, NextIsBlacklisted(v))
  /\ UNCHANGED <<policy, channel>>

GetUpdatePackage(i, v) ==
  LET t == RegisterInstance(rows, i, v) IN
  /\ \/ CheckUnseen(t, i, v, NextIsBlacklisted(v))
     \/ RefuseCheck(t, i)
     \/ AnswerGranted(t, i, v)
     \/ /\ t[i].status # "UpdateGranted"
        /\ \E w \in Versions :
             IsNextVersion(w, v) /\ DecideUpdate(t, i, v, w, NextIsBlacklisted(v))
  /\ UNCHANGED <<policy, channel>>

(* Mutant of GetUpdatePackagesForSyncer: a syncer that asks again is taken to *)
(* be downloading what it was granted.                                     *)
GetUpdatePackagesForSyncerOnce(i, v) ==
  LET t == RegisterInstance(rows, i, v) IN
  /\ \/ CheckUnseen(t, i, v, TargetIsBlacklisted)
     \/ RefuseCheck(t, i)
     \/ /\ t[i].status = "UpdateGranted"
        /\ rows' = UpdateInstanceStatus(t, i, "Downloading")
        /\ UNCHANGED <<brake, rolloutInProgress>>
     \/ t[i].status # "UpdateGranted" /\ DecideUpdate(t, i, v, channel.target, TargetIsBlacklisted)
  /\ UNCHANGED <<policy, channel>>

(* A syncer is granted the channel's package, whatever floors come with    *)
(* it; a grant it already has is checked against the policy again.         *)
GetUpdatePackagesForSyncer(i, v) ==
  LET t == RegisterInstance(rows, i, v) IN
  /\ \/ CheckUnseen(t, i, v, TargetIsBlacklisted)
     \/ RefuseCheck(t, i)
     \/ DecideUpdate(t, i, v, channel.target, TargetIsBlacklisted)
  /\ UNCHANGED <<policy, channel>>

Ping(i, v) ==
  /\ rows' = RegisterInstance(rows, i, v)
  /\ UNCHANGED <<policy, channel, brake, rolloutInProgress>>

-----------------------------------------------------------------------------
(* RegisterEvent, and triggerEventConsequences for the event types that    *)
(* have any.  The other types leave the state as it is.  Events too read   *)
(* their row through GetInstance: a machine unseen for a day is refused.   *)

(* Flatcar's updater reports a completed update after every boot.          *)
IgnoreFlatcarEvent(i) ==
  /\ FlatcarApp
  /\ rows' = UpdateInstanceStatus(rows, i, "Undefined")
  /\ UNCHANGED <<brake, rolloutInProgress>>

UpdateProgressed(i, s) ==
  /\ rows' = UpdateInstanceStatus(rows, i, s)
  /\ UNCHANGED <<brake, rolloutInProgress>>

(* Mutant of UpdateCompleted: the rollout is over when every attempt has    *)
(* succeeded so far.                                                        *)
UpdateCompletedSoFar(i) ==
  LET t == UpdateInstanceStatus(rows, i, "Complete") IN
  /\ rows' = t
  /\ rolloutInProgress' =
       (rolloutInProgress
          /\ UpdatesToCurrentVersionSucceeded(t) # UpdatesToCurrentVersionAttempted(t))
  /\ UNCHANGED brake

UpdateCompleted(i) ==
  LET t == UpdateInstanceStatus(rows, i, "Complete") IN
  /\ rows' = t
  /\ rolloutInProgress' =
       (rolloutInProgress /\ UpdatesToCurrentVersionSucceeded(t) # Seen(t))
  /\ UNCHANGED brake

(* The first attempt at the channel's package failed.                      *)
FirstAttemptFailed(t) ==
  /\ DisableUpdatesOnFailedRollout
  /\ Cardinality(UpdatesToCurrentVersionAttempted(t)) = 1

UpdateFailed(i) ==
  LET t == UpdateInstanceStatus(rows, i, "Error") IN
  /\ rows' = t
  /\ brake' = (brake \/ FirstAttemptFailed(t))
  /\ rolloutInProgress' = (rolloutInProgress /\ ~FirstAttemptFailed(t))

RegisterEvent(i) ==
  /\ i \in Seen(rows) /\ rows[i].updateInProgress
  /\ \/ IgnoreFlatcarEvent(i)
     \/ \E s \in InProgressStatus : UpdateProgressed(i, s)
     \/ UpdateCompleted(i)
     \/ UpdateFailed(i)
  /\ UNCHANGED <<policy, channel>>

-----------------------------------------------------------------------------
(* The administrator, and time.                                            *)

(* Mutant of UpdateGroup: the update leaves a column out.                   *)
UpdateGroupButEnabled(p) ==
  /\ policy' = [p EXCEPT !.updatesEnabled = policy.updatesEnabled]
  /\ UNCHANGED <<rows, channel, brake, rolloutInProgress>>

UpdateGroup(p) ==
  /\ policy' = p
  /\ UNCHANGED <<rows, channel, brake, rolloutInProgress>>

ClearUpdatesEnabledOverride ==
  /\ brake' = FALSE
  /\ UNCHANGED <<rows, policy, channel, rolloutInProgress>>

(* Any committed change of the channel, its floors or its packages'        *)
(* blacklists; module Catalog has the requests one by one.                 *)
ChangeChannel(c) ==
  /\ channel' = c
  /\ UNCHANGED <<rows, policy, brake, rolloutInProgress>>

Older(a) == IF a < MaxAge THEN a + 1 ELSE a

Aged(r) ==
  [r EXCEPT !.checkAge = Older(r.checkAge),
            !.grantAge = IF r.grantAge = NULL THEN NULL ELSE Older(r.grantAge),
            !.lost = r.lost \/ (r.grantAge # NULL /\ Older(r.checkAge) >= Validity)]

Tick ==
  /\ rows' = [i \in Instances |-> Aged(rows[i])]
  /\ UNCHANGED <<policy, channel, brake, rolloutInProgress>>

-----------------------------------------------------------------------------

NoRow == [version |-> NULL, status |-> NULL, lastUpdateVersion |-> NULL,
          grantAge |-> NULL, updateInProgress |-> FALSE, checkAge |-> MaxAge,
          lost |-> FALSE]

Init ==
  /\ rows = [i \in Instances |-> NoRow]
  /\ policy \in Policies
  /\ channel \in ChannelConfigs
  /\ brake = FALSE
  /\ rolloutInProgress = FALSE

Next ==
  \/ \E i \in Instances \ Syncers, v \in Versions : GetUpdatePackage(i, v)
  \/ \E i \in Syncers, v \in Versions : GetUpdatePackagesForSyncer(i, v)
  \/ \E i \in Instances, v \in Versions : Ping(i, v)
  \/ \E i \in Instances : RegisterEvent(i)
  \/ \E p \in Policies : UpdateGroup(p)
  \/ ClearUpdatesEnabledOverride
  \/ \E c \in ChannelConfigs : ChangeChannel(c)
  \/ Tick

Spec == Init /\ [][Next]_vars

-----------------------------------------------------------------------------
(* Properties.                                                             *)

TypeOK ==
  /\ rows \in [Instances -> Row]
  /\ policy \in Policies
  /\ channel \in ChannelConfigs
  /\ brake \in BOOLEAN
  /\ rolloutInProgress \in BOOLEAN

(* An instance whose checks are refused because an update is under way can *)
(* still report events, and one whose events are refused can still be      *)
(* granted an update: update_in_progress is false exactly in the states    *)
(* in which an update will be granted (RegisterEvent relies on it).        *)
StatusMatches(t) ==
  \A i \in Instances :
    /\ t[i].updateInProgress <=> t[i].status \in BusyStatus
    /\ t[i].updateInProgress => t[i].lastUpdateVersion # NULL /\ t[i].grantAge # NULL

InProgressMatchesStatus == StatusMatches(rows)

(* Updates the group still holds to be under way: they have not timed out, *)
(* and their machines have been seen at least once a day since the grant.  *)
(* A machine that is silent for longer gives its slot up, as one that      *)
(* times out does; that it may come back to the update is counted neither  *)
(* here nor, while it is silent, by the code.                              *)
InFlight(t) ==
  {i \in Instances : /\ t[i].updateInProgress /\ ~t[i].lost
                     /\ t[i].grantAge # NULL /\ t[i].grantAge =< Timeout}

(* Instances granted an update in the last period, likewise.               *)
RecentlyGranted(t) ==
  {i \in Instances : t[i].grantAge # NULL /\ t[i].grantAge < Period /\ ~t[i].lost}

RateLimited ==
  /\ 1 =< Limit /\ Limit < NoLimit
  /\ \A p \in Policies : p.maxUpdates =< Limit

(* No more updates run at once than the group's limit, those left out that *)
(* timed out or whose machines fell silent, even if they are seen again.   *)
ParallelUpdatesBounded == RateLimited => Cardinality(InFlight(rows)) =< Limit

(* No more instances than the limit are granted an update in one period,   *)
(* those left out that fell silent since.                                  *)
GrantsPerPeriodBounded == RateLimited => Cardinality(RecentlyGranted(rows)) =< Limit

(* While an update is in flight the group shows a rollout in progress,     *)
(* unless failed rollouts end it early.                                    *)
RolloutFlagCoversInFlight ==
  DisableUpdatesOnFailedRollout \/ InFlight(rows) = {} \/ rolloutInProgress

(* The updates in flight are leases on a pool of Limit slots: one instance *)
(* at a time takes a slot while one is free; the others are given back     *)
(* when an update ends and lapse when it times out or its machine has not  *)
(* been seen for a day.                                                    *)
Lease == INSTANCE UpdateLease WITH Holders <- Instances, Slots <- Limit,
                                   held <- InFlight(rows)

LeaseSpec == Lease!Spec

NewGrant(i) == rows'[i].status = "UpdateGranted" /\ rows[i].status # "UpdateGranted"

StepsByFloors(i) ==
  LET from == rows'[i].version
      to == rows'[i].lastUpdateVersion
  IN  /\ from < to /\ to =< channel.target
      /\ \A f \in channel.floors : ~(from < f /\ f < to)

(* A machine is granted a version above the one it runs, not above the     *)
(* channel's package, and past no floor.                                   *)
GrantsStepByFloors ==
  [][\A i \in Instances \ Syncers : NewGrant(i) => StepsByFloors(i)]_vars

FirstInSafeMode(i) ==
  /\ NewGrant(i) /\ policy.safeMode
  /\ rows[i].lastUpdateVersion # channel.target
  /\ UpdatesToCurrentVersionAttempted(rows) = {}

(* In safe mode, until somebody has tried the channel's package, an update *)
(* is granted only when no other instance the server has seen lately is    *)
(* updating, timed out or not.                                             *)
SafeModeFirstAlone ==
  [][\A i \in Instances :
       FirstInSafeMode(i) => \A j \in Seen(rows) \ {i} : ~rows[j].updateInProgress]_vars
=============================================================================
