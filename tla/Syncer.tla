------------------------------- MODULE Syncer -------------------------------
(***************************************************************************)
(* A Nebraska that mirrors one channel of another (backend/pkg/syncer),    *)
(* composed with the rollout engine of the upstream group it polls.  A     *)
(* poll is a request to upstream, then statements of the mirror's own      *)
(* database, package by package, and the channel last; any of them can     *)
(* fail, which ends the poll, and the process can be restarted between     *)
(* any two.  What a restart loses is the machine ID and the version the    *)
(* syncer reports.                                                         *)
(*                                                                         *)
(* A response lists the packages by rising version, so a set of versions   *)
(* stands for the list.  Upstream's administrator is at work meanwhile;    *)
(* the mirror's only before the start: foreign are packages added by hand  *)
(* whose content is not upstream's.                                        *)
(***************************************************************************)
EXTENDS Rollout

CONSTANTS
  Base,        \* the version reported for a channel that has no package, 766.0.0
  MaxFloors,   \* the most floors upstream sends at once
  ForeignSets  \* what foreign may be

ASSUME SyncerAssumption ==
  /\ Base \in Versions /\ Syncers # {}
  /\ MaxFloors \in Nat \ {0}
  /\ ForeignSets \subseteq SUBSET Versions

VARIABLES
  mirror,      \* the mirror's database: its packages, the channel's floors and package
  syncer,      \* the syncer's memory
  foreign,     \* packages of the mirror that do not match upstream's
  oldUpstream  \* TRUE: upstream does not mark the target of its responses

syncerVars == <<vars, mirror, syncer, foreign, oldUpstream>>

Mirror == [packages : SUBSET Versions, floors : SUBSET Versions,
           target : Versions \cup {NULL}]

Memory == [machineID : Syncers, version : Versions,
           step : {"idle", "store", "mark", "channel"},
           todo : SUBSET Versions,            \* manifests still to be processed
           floors : SUBSET Versions,          \* those marked is_floor
           goal : Versions \cup {NULL},       \* targetVersion
           multi : BOOLEAN]                   \* the response had several manifests

Idle(s) == [s EXCEPT !.step = "idle", !.todo = {}, !.floors = {},
                     !.goal = NULL, !.multi = FALSE]

Known == IF mirror.target = NULL THEN Base ELSE mirror.target

-----------------------------------------------------------------------------
(* The poll: what upstream answers and what the syncer makes of it.        *)

FloorsSent(v) ==
  {f \in RequiredFloors(v) : Cardinality({g \in RequiredFloors(v) : g =< f}) =< MaxFloors}

(* prepareMultiManifestUpdateCheck: a package may be both.                 *)
Manifests(v) ==
  {[version |-> w, isFloor |-> w \in FloorsSent(v),
    isTarget |-> w = channel.target /\ ~oldUpstream] :
     w \in FloorsSent(v) \cup {channel.target}}

VersionsOf(manifests) == {m.version : m \in manifests}

(* The target is the manifest marked as such, or else the last that is no  *)
(* floor; there may be none.                                               *)
TargetOf(manifests) ==
  LET marked == VersionsOf({m \in manifests : m.isTarget})
      others == VersionsOf({m \in manifests : ~m.isFloor})
      last(vs) == CHOOSE v \in vs : \A w \in vs : w =< v
  IN  IF marked # {} THEN last(marked) ELSE IF others # {} THEN last(others) ELSE NULL

(* Mutant of Received: a channel's package is no floor of it.              *)
ReceivedTargetNoFloor(s) ==
  LET manifests == Manifests(s.version)
      multi == Cardinality(manifests) > 1
      target == IF multi THEN TargetOf(manifests) ELSE channel.target
  IN  [s EXCEPT !.step = "store", !.todo = VersionsOf(manifests), !.multi = multi,
                !.floors = VersionsOf({m \in manifests : m.isFloor}) \ {target},
                !.goal = target]

(* A single manifest is the target, whatever its marks.                    *)
Received(s) ==
  LET manifests == Manifests(s.version)
      multi == Cardinality(manifests) > 1
  IN  [s EXCEPT !.step = "store", !.todo = VersionsOf(manifests), !.multi = multi,
                !.floors = IF multi THEN VersionsOf({m \in manifests : m.isFloor}) ELSE {},
                !.goal = IF multi THEN TargetOf(manifests) ELSE channel.target]

(* Upstream answers with packages when it has granted the target, now or   *)
(* by an earlier poll of a grant that the policy would still give.         *)
Offered ==
  LET t == RegisterInstance(rows, syncer.machineID, syncer.version) IN
  /\ channel.target # NULL /\ syncer.version < channel.target
  /\ ~TargetIsBlacklisted /\ EffectiveUpdatesEnabled /\ MayGrant(t)
  /\ rows'[syncer.machineID].status = "UpdateGranted" /\ rolloutInProgress'

Poll ==
  /\ syncer.step = "idle"
  /\ GetUpdatePackagesForSyncer(syncer.machineID, syncer.version)
  /\ UNCHANGED <<mirror, foreign, oldUpstream>>

PollOffered == Poll /\ Offered /\ syncer' = Received(syncer)

(* No update, or no answer.                                                *)
PollInVain == Poll /\ UNCHANGED syncer

-----------------------------------------------------------------------------
(* Processing the manifests.                                               *)

Lowest(v) == v \in syncer.todo /\ \A w \in syncer.todo : v =< w

ProcessedManifest(v) ==
  [syncer EXCEPT !.todo = @ \ {v},
                 !.step = IF syncer.todo = {v} THEN "channel" ELSE "store"]

(* Mutant of Verified: only the target's content is looked at.             *)
VerifiedTarget(v) == ~syncer.multi \/ v # syncer.goal \/ v \notin foreign

(* verifyPackageIntegrity, of a package that exists.                       *)
Verified(v) == ~syncer.multi \/ v \notin foreign

(* Mutant of StorePackage: a floor is marked before its package exists.    *)
MarkWithoutPackage(v) ==
  /\ syncer.step = "store" /\ Lowest(v) /\ Verified(v)
  /\ IF v \in syncer.floors
       THEN /\ syncer' = [syncer EXCEPT !.step = "mark"]
            /\ UNCHANGED mirror
       ELSE /\ syncer' = ProcessedManifest(v)
            /\ mirror' = [mirror EXCEPT !.packages = @ \cup {v}]
  /\ UNCHANGED <<vars, foreign, oldUpstream>>

(* getOrCreatePackage.                                                     *)
StorePackage(v) ==
  /\ syncer.step = "store" /\ Lowest(v) /\ Verified(v)
  /\ mirror' = [mirror EXCEPT !.packages = @ \cup {v}]
  /\ syncer' = IF v \in syncer.floors THEN [syncer EXCEPT !.step = "mark"]
               ELSE ProcessedManifest(v)
  /\ UNCHANGED <<vars, foreign, oldUpstream>>

MarkPackageAsFloor(v) ==
  /\ syncer.step = "mark" /\ Lowest(v)
  /\ mirror' = [mirror EXCEPT !.floors = @ \cup {v}]
  /\ syncer' = ProcessedManifest(v)
  /\ UNCHANGED <<vars, foreign, oldUpstream>>

(* The channel gets its package, then the syncer takes note.  If every     *)
(* manifest was a floor, neither changes.                                  *)
UpdateChannelToPackage ==
  /\ syncer.step = "channel"
  /\ IF syncer.goal = NULL
       THEN syncer' = Idle(syncer) /\ UNCHANGED mirror
       ELSE /\ mirror' = [mirror EXCEPT !.target = syncer.goal]
            /\ syncer' = Idle([syncer EXCEPT !.version = syncer.goal])
  /\ UNCHANGED <<vars, foreign, oldUpstream>>

(* A statement is carried out and its answer lost: the syncer takes it for *)
(* failed.                                                                 *)
StepUnanswered ==
  /\ \/ /\ syncer.step = "store"
        /\ \E v \in Versions : Lowest(v) /\ mirror' = [mirror EXCEPT !.packages = @ \cup {v}]
     \/ /\ syncer.step = "mark"
        /\ \E v \in Versions : Lowest(v) /\ mirror' = [mirror EXCEPT !.floors = @ \cup {v}]
     \/ /\ syncer.step = "channel" /\ syncer.goal # NULL
        /\ mirror' = [mirror EXCEPT !.target = syncer.goal]
  /\ syncer' = Idle(syncer)
  /\ UNCHANGED <<vars, foreign, oldUpstream>>

(* Mutant of StepFails: the version is noted before the channel has it.    *)
StepFailsLate ==
  /\ syncer.step # "idle"
  /\ syncer' = Idle([syncer EXCEPT !.version = IF syncer.step = "channel" /\ syncer.goal # NULL
                                                 THEN syncer.goal ELSE syncer.version])
  /\ UNCHANGED <<vars, mirror, foreign, oldUpstream>>

(* A download or a statement fails, or a package does not match: the rest  *)
(* of the poll is not run.                                                 *)
StepFails ==
  /\ syncer.step # "idle"
  /\ syncer' = Idle(syncer)
  /\ UNCHANGED <<vars, mirror, foreign, oldUpstream>>

(* initialize: a machine ID never used before, and the version the         *)
(* mirror's channel has.                                                   *)
Restart ==
  /\ \E m \in Syncers \ {syncer.machineID} :
       /\ rows[m].version = NULL
       /\ syncer' = Idle([syncer EXCEPT !.machineID = m, !.version = Known])
  /\ UNCHANGED <<vars, mirror, foreign, oldUpstream>>

-----------------------------------------------------------------------------

SyncerInit ==
  /\ Init
  /\ foreign \in ForeignSets
  /\ oldUpstream \in BOOLEAN
  /\ mirror = [packages |-> foreign, floors |-> {}, target |-> NULL]
  /\ syncer = [machineID |-> CHOOSE m \in Syncers : TRUE, version |-> Base, step |-> "idle",
               todo |-> {}, floors |-> {}, goal |-> NULL, multi |-> FALSE]

ProcessUpdate ==
  \/ \E v \in Versions : StorePackage(v) \/ MarkPackageAsFloor(v)
  \/ UpdateChannelToPackage
  \/ StepFails \/ StepUnanswered

Upstream ==
  /\ \/ \E c \in ChannelConfigs : ChangeChannel(c)
     \/ \E p \in Policies : UpdateGroup(p)
     \/ ClearUpdatesEnabledOverride
     \/ Tick
  /\ UNCHANGED <<mirror, syncer, foreign, oldUpstream>>

SyncerNext == PollOffered \/ PollInVain \/ ProcessUpdate \/ Restart \/ Upstream

SyncerSpec == SyncerInit /\ [][SyncerNext]_syncerVars

(* Upstream has seen the syncer within a day, unless it is at its packages. *)
InSight == syncer.step = "idle" => syncer.machineID \in Seen(rows)

(* The ticker polls for ever, and what is tried again at every poll        *)
(* succeeds at last, but never by a poll that upstream takes for a         *)
(* machine's first in a day; time passes upstream.                         *)
SyncerFairness ==
  /\ SF_syncerVars(InSight /\ PollOffered)
  /\ \A v \in Versions \ {Base} :
       SF_syncerVars(StorePackage(v)) /\ SF_syncerVars(MarkPackageAsFloor(v))
  /\ SF_syncerVars(UpdateChannelToPackage)
  /\ WF_syncerVars(Tick /\ UNCHANGED <<mirror, syncer, foreign, oldUpstream>>)

FairSyncerSpec == SyncerSpec /\ SyncerFairness

-----------------------------------------------------------------------------
(* Properties.                                                             *)

(* What refers to a package of the mirror refers to one that exists.       *)
SyncerTypeOK ==
  /\ TypeOK
  /\ mirror \in Mirror
  /\ mirror.floors \cup ({mirror.target} \ {NULL}) \cup foreign \subseteq mirror.packages
  /\ syncer \in Memory
  /\ foreign \in ForeignSets /\ oldUpstream \in BOOLEAN

(* The mirror's channel points at a package only once every floor on the   *)
(* way to it is marked, so that the mirror's machines go through them too; *)
(* whatever failed, and however often the process was restarted.  It is    *)
(* said of an upstream whose floors stay the same.                         *)
FloorsReachMirror ==
  \A f \in channel.floors : Base < f /\ f =< Known => f \in mirror.floors

(* What the syncer reports to upstream is what the mirror serves, or older *)
(* where it was not told: it never asks past a version its channel has.    *)
TracksMirror == syncer.version =< Known

(* No package becomes a floor unless its content is upstream's.            *)
FloorsVerified == mirror.floors \cap foreign = {}

(* Nothing at upstream or in the mirror's packages keeps target t away.    *)
Available(t) ==
  /\ channel.target = t /\ ~TargetIsBlacklisted
  /\ EffectiveUpdatesEnabled /\ ~policy.safeMode /\ policy.maxUpdates > 0
  /\ foreign = {}
  /\ ~oldUpstream \/ t \notin channel.floors

(* A mirror that polls at least once a day gets to the package its         *)
(* upstream settles on, although polls fail and grants of lost answers and *)
(* lost machine IDs take up room.                                          *)
MirrorCatchesUp ==
  \A t \in {c.target : c \in ChannelConfigs} \ {NULL} :
    <>[](Available(t) /\ InSight) => <>[](Known >= t)
=============================================================================
