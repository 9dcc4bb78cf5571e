---------------------------- MODULE SyncerProofs ----------------------------
(***************************************************************************)
(* Proofs about Syncer and Hosting for any versions, channels, policies    *)
(* and packages added by hand.  Upstream's part needs nothing new: to the  *)
(* rollout engine a poll is the update check of one more instance.         *)
(***************************************************************************)
EXTENDS Hosting, RolloutProofs

(* What the syncer remembers of a response agrees with what it has done:   *)
(* the package that the channel will get is in the mirror or still to be   *)
(* processed, and newer than what the syncer reports.                      *)
Following ==
  /\ syncer.step = "idle" => syncer.goal = NULL /\ syncer.floors = {}
  /\ syncer.step = "channel" => syncer.todo = {}
  /\ syncer.floors # {} => syncer.multi
  /\ syncer.goal # NULL =>
       /\ syncer.version < syncer.goal
       /\ syncer.goal \in syncer.todo \cup mirror.packages
  /\ syncer.step = "mark" => \A v \in syncer.todo : Lowest(v) => v \in mirror.packages \ foreign

MirrorInv ==
  /\ SoundState /\ SyncerTypeOK
  /\ Following /\ TracksMirror /\ FloorsVerified

-----------------------------------------------------------------------------
(* A response.                                                             *)

LEMMA ChannelFields ==
  ASSUME TypeOK
  PROVE  channel.target \in Versions \cup {NULL} /\ channel.floors \subseteq Versions
BY TypeAssumption DEF TypeOK, TypeAssumption, Channel

LEMMA VersionsAreNumbers == Versions \subseteq Nat /\ Base \in Versions /\ NULL \notin Versions
BY TypeAssumption, SyncerAssumption DEF TypeAssumption, SyncerAssumption

LEMMA ManifestSets ==
  ASSUME NEW v
  PROVE  /\ VersionsOf(Manifests(v)) = FloorsSent(v) \cup {channel.target}
         /\ VersionsOf({m \in Manifests(v) : m.isFloor}) = FloorsSent(v)
         /\ VersionsOf({m \in Manifests(v) : m.isTarget}) \subseteq {channel.target}
         /\ VersionsOf({m \in Manifests(v) : ~m.isFloor}) \subseteq {channel.target}
         /\ channel.target \notin FloorsSent(v) =>
              channel.target \in VersionsOf({m \in Manifests(v) : ~m.isFloor})
<1> DEFINE manifest(w) == [version |-> w, isFloor |-> w \in FloorsSent(v),
                           isTarget |-> w = channel.target /\ ~oldUpstream]
<1>1. Manifests(v) = {manifest(w) : w \in FloorsSent(v) \cup {channel.target}}
  BY DEF Manifests
<1>2. \A w : /\ manifest(w).version = w
             /\ manifest(w).isFloor <=> w \in FloorsSent(v)
             /\ manifest(w).isTarget <=> (w = channel.target /\ ~oldUpstream)
  OBVIOUS
<1> HIDE DEF manifest
<1> QED BY <1>1, <1>2 DEF VersionsOf

LEMMA TargetFound ==
  ASSUME TypeOK, channel.target # NULL, NEW v
  PROVE  TargetOf(Manifests(v)) \in {channel.target, NULL}
<1>1. channel.target \in Nat
  BY ChannelFields, VersionsAreNumbers
<1>2. (CHOOSE w \in {channel.target} : \A x \in {channel.target} : x =< w) = channel.target
  BY <1>1
<1> DEFINE marked == VersionsOf({m \in Manifests(v) : m.isTarget})
           others == VersionsOf({m \in Manifests(v) : ~m.isFloor})
           last(vs) == CHOOSE w \in vs : \A x \in vs : x =< w
<1>3. TargetOf(Manifests(v)) =
        IF marked # {} THEN last(marked) ELSE IF others # {} THEN last(others) ELSE NULL
  BY DEF TargetOf
<1>4. marked \subseteq {channel.target} /\ others \subseteq {channel.target}
  BY ManifestSets
<1>5. last({channel.target}) = channel.target
  BY <1>2
<1> HIDE DEF marked, others, last
<1>6. marked # {} => marked = {channel.target}
  BY <1>4
<1>7. others # {} => others = {channel.target}
  BY <1>4
<1> QED BY <1>3, <1>5, <1>6, <1>7

LEMMA MemoryUpdate ==
  ASSUME NEW s \in Memory, NEW todo \in SUBSET Versions, NEW floors \in SUBSET Versions,
         NEW goal \in Versions \cup {NULL}, NEW multi \in BOOLEAN
  PROVE  [s EXCEPT !.step = "store", !.todo = todo, !.multi = multi, !.floors = floors,
                   !.goal = goal] \in Memory
BY DEF Memory

LEMMA ReceivedFields ==
  ASSUME NEW s \in Memory
  PROVE  /\ Received(s).machineID = s.machineID /\ Received(s).version = s.version
         /\ Received(s).step = "store"
         /\ Received(s).todo = VersionsOf(Manifests(s.version))
         /\ Received(s).multi = (Cardinality(Manifests(s.version)) > 1)
         /\ Received(s).floors = IF Received(s).multi
              THEN VersionsOf({m \in Manifests(s.version) : m.isFloor}) ELSE {}
         /\ Received(s).goal = IF Received(s).multi
              THEN TargetOf(Manifests(s.version)) ELSE channel.target
         /\ DOMAIN Received(s) = DOMAIN s
<1>1. Received(s).multi = (Cardinality(Manifests(s.version)) > 1)
  BY DEF Received, Memory
<1> QED BY <1>1 DEF Received, Memory

LEMMA ReceivedOK ==
  ASSUME TypeOK, syncer \in Memory, Offered
  PROVE  LET r == Received(syncer) IN
         /\ r \in Memory /\ r.machineID = syncer.machineID /\ r.version = syncer.version
         /\ r.step = "store"
         /\ r.goal # NULL => r.version < r.goal /\ r.goal \in r.todo
         /\ r.floors # {} => r.multi
<1> DEFINE r == Received(syncer)
           ms == Manifests(syncer.version)
<1>1. /\ channel.target \in Versions /\ channel.target # NULL
      /\ syncer.version < channel.target /\ channel.floors \subseteq Versions
  BY ChannelFields DEF Offered
<1>2. FloorsSent(syncer.version) \subseteq Versions
  BY <1>1 DEF FloorsSent, RequiredFloors
<1>3. /\ r.machineID = syncer.machineID /\ r.version = syncer.version /\ r.step = "store"
      /\ r.todo = VersionsOf(ms) /\ r.multi = (Cardinality(ms) > 1)
      /\ r.floors = IF r.multi THEN VersionsOf({m \in ms : m.isFloor}) ELSE {}
      /\ r.goal = IF r.multi THEN TargetOf(ms) ELSE channel.target
  BY ReceivedFields
<1>4. r = [syncer EXCEPT !.step = "store", !.todo = VersionsOf(ms),
                         !.multi = Cardinality(ms) > 1,
                         !.floors = IF Cardinality(ms) > 1
                                      THEN VersionsOf({m \in ms : m.isFloor}) ELSE {},
                         !.goal = IF Cardinality(ms) > 1 THEN TargetOf(ms) ELSE channel.target]
  BY DEF Received
<1>5. /\ VersionsOf(ms) = FloorsSent(syncer.version) \cup {channel.target}
      /\ VersionsOf({m \in ms : m.isFloor}) = FloorsSent(syncer.version)
  BY ManifestSets
<1>6. TargetOf(ms) \in {channel.target, NULL}
  BY <1>1, TargetFound
<1> HIDE DEF r, ms
<1>7. r.todo \subseteq Versions /\ channel.target \in r.todo
  BY <1>1, <1>2, <1>3, <1>5
<1>8. r.floors \subseteq Versions /\ (r.floors # {} => r.multi)
  BY <1>2, <1>3, <1>5
<1>9. r.goal \in {channel.target, NULL} /\ r.multi \in BOOLEAN
  BY <1>3, <1>6
<1>10. r \in Memory
  <2>1. r = [syncer EXCEPT !.step = "store", !.todo = r.todo, !.multi = r.multi,
                           !.floors = r.floors, !.goal = r.goal]
    BY <1>3, <1>4, Zenon
  <2>2. r.goal \in Versions \cup {NULL}
    BY <1>1, <1>9
  <2>3. [syncer EXCEPT !.step = "store", !.todo = r.todo, !.multi = r.multi,
                       !.floors = r.floors, !.goal = r.goal] \in Memory
    BY <1>7, <1>8, <1>9, <2>2, MemoryUpdate
  <2> QED BY <2>1, <2>3, Zenon
<1>11. r = Received(syncer)
  BY DEF r
<1> QED BY <1>1, <1>3, <1>7, <1>8, <1>9, <1>10, <1>11

LEMMA IdleFields ==
  ASSUME NEW s \in Memory
  PROVE  /\ Idle(s) \in Memory
         /\ Idle(s).machineID = s.machineID /\ Idle(s).version = s.version
         /\ Idle(s).step = "idle" /\ Idle(s).goal = NULL
         /\ Idle(s).todo = {} /\ Idle(s).floors = {}
BY DEF Idle, Memory

LEMMA ProcessedFields ==
  ASSUME syncer \in Memory, NEW v \in syncer.todo
  PROVE  LET r == ProcessedManifest(v) IN
         /\ r \in Memory /\ r.version = syncer.version /\ r.goal = syncer.goal
         /\ r.floors = syncer.floors /\ r.multi = syncer.multi
         /\ r.todo = syncer.todo \ {v} /\ r.step \in {"store", "channel"}
         /\ r.step = "channel" => r.todo = {}
BY DEF ProcessedManifest, Memory

LEMMA LowestIsOne ==
  ASSUME syncer \in Memory, NEW v, NEW w, Lowest(v), Lowest(w)
  PROVE  v = w
<1>1. syncer.todo \subseteq Nat
  BY VersionsAreNumbers DEF Memory
<1> QED BY <1>1 DEF Lowest

(* To upstream's rollout engine every step of the mirror is one of its own *)
(* or nothing at all.                                                      *)
LEMMA PollIsCheck ==
  ASSUME SyncerTypeOK, Poll
  PROVE  Next
BY DEF SyncerTypeOK, Memory, Poll, Next

LEMMA SyncerRollsOut ==
  SyncerTypeOK /\ [SyncerNext]_syncerVars => [Next]_vars
<1> SUFFICES ASSUME SyncerTypeOK, [SyncerNext]_syncerVars PROVE [Next]_vars
  OBVIOUS
<1>1. CASE PollOffered \/ PollInVain
  BY <1>1, PollIsCheck DEF PollOffered, PollInVain
<1>2. CASE ProcessUpdate \/ Restart
  BY <1>2 DEF ProcessUpdate, StorePackage, MarkPackageAsFloor, UpdateChannelToPackage,
              StepFails, StepUnanswered, Restart
<1>3. CASE Upstream
  BY <1>3 DEF Upstream, Next
<1>4. CASE UNCHANGED syncerVars
  BY <1>4 DEF syncerVars
<1> QED BY <1>1, <1>2, <1>3, <1>4 DEF SyncerNext

-----------------------------------------------------------------------------
(* The steps.                                                              *)

LEMMA MirrorUnchanged ==
  ASSUME MirrorInv, SoundState', UNCHANGED <<mirror, foreign, oldUpstream>>,
         syncer' \in Memory, syncer'.version =< Known, Following'
  PROVE  MirrorInv'
<1>1. TypeOK'
  BY SoundTable DEF SoundState, TypeOK
<1>2. SyncerTypeOK'
  BY <1>1 DEF MirrorInv, SyncerTypeOK
<1>3. TracksMirror' /\ FloorsVerified'
  BY DEF MirrorInv, TracksMirror, FloorsVerified, Known
<1> QED BY <1>2, <1>3 DEF MirrorInv

LEMMA PollOfferedKeeps ==
  ASSUME MirrorInv, SoundState', PollOffered
  PROVE  MirrorInv'
<1>1. /\ TypeOK /\ syncer \in Memory /\ Offered
      /\ syncer' = Received(syncer)
      /\ UNCHANGED <<mirror, foreign, oldUpstream>>
      /\ syncer.version =< Known
  BY DEF MirrorInv, SyncerTypeOK, PollOffered, Poll, TracksMirror
<1>2. Following'
  BY <1>1, ReceivedOK DEF Following
<1> QED BY <1>1, <1>2, ReceivedOK, MirrorUnchanged

LEMMA FailedKeeps ==
  ASSUME MirrorInv, SoundState', StepFails
  PROVE  MirrorInv'
<1>1. /\ syncer \in Memory /\ syncer' = Idle(syncer)
      /\ UNCHANGED <<mirror, foreign, oldUpstream>> /\ syncer.version =< Known
  BY DEF MirrorInv, SyncerTypeOK, StepFails, TracksMirror
<1>2. Following'
  BY <1>1, IdleFields DEF Following
<1> QED BY <1>1, <1>2, IdleFields, MirrorUnchanged

LEMMA KnownIsVersion ==
  ASSUME mirror \in Mirror
  PROVE  Known \in Versions
BY VersionsAreNumbers DEF Known, Mirror

LEMMA RestartKeeps ==
  ASSUME MirrorInv, SoundState', Restart
  PROVE  MirrorInv'
<1>1. /\ syncer \in Memory /\ Known \in Versions
      /\ UNCHANGED <<mirror, foreign, oldUpstream>>
  BY KnownIsVersion DEF MirrorInv, SyncerTypeOK, Restart
<1>2. PICK m \in Syncers : syncer' = Idle([syncer EXCEPT !.machineID = m, !.version = Known])
  BY DEF Restart
<1>3. /\ [syncer EXCEPT !.machineID = m, !.version = Known] \in Memory
      /\ [syncer EXCEPT !.machineID = m, !.version = Known].version = Known
  BY <1>1 DEF Memory
<1>4. syncer' \in Memory /\ syncer'.version = Known /\ Following'
  BY <1>2, <1>3, IdleFields DEF Following
<1>5. Known =< Known
  BY <1>1, VersionsAreNumbers
<1> QED BY <1>1, <1>4, <1>5, MirrorUnchanged

LEMMA MirrorFields ==
  ASSUME mirror \in Mirror, NEW v \in Versions
  PROVE  /\ LET m == [mirror EXCEPT !.packages = mirror.packages \cup {v}] IN
            /\ m \in Mirror /\ m.packages = mirror.packages \cup {v}
            /\ m.floors = mirror.floors /\ m.target = mirror.target
         /\ LET m == [mirror EXCEPT !.floors = mirror.floors \cup {v}] IN
            /\ m \in Mirror /\ m.packages = mirror.packages
            /\ m.floors = mirror.floors \cup {v} /\ m.target = mirror.target
         /\ LET m == [mirror EXCEPT !.target = v] IN
            /\ m \in Mirror /\ m.packages = mirror.packages
            /\ m.floors = mirror.floors /\ m.target = v
BY DEF Mirror

LEMMA StorePackageKeeps ==
  ASSUME MirrorInv, SoundState', NEW v \in Versions, StorePackage(v)
  PROVE  MirrorInv'
<1>1. /\ syncer \in Memory /\ mirror \in Mirror
      /\ mirror.floors \cup ({mirror.target} \ {NULL}) \cup foreign \subseteq mirror.packages
      /\ syncer.version =< Known /\ Following /\ mirror.floors \cap foreign = {}
      /\ foreign \in ForeignSets /\ oldUpstream \in BOOLEAN
  BY DEF MirrorInv, SyncerTypeOK, TracksMirror, FloorsVerified
<1>2. /\ Lowest(v) /\ v \in syncer.todo /\ Verified(v) /\ syncer.step = "store"
      /\ mirror' = [mirror EXCEPT !.packages = mirror.packages \cup {v}]
      /\ syncer' = IF v \in syncer.floors THEN [syncer EXCEPT !.step = "mark"]
                   ELSE ProcessedManifest(v)
      /\ foreign' = foreign /\ oldUpstream' = oldUpstream
  BY DEF StorePackage, Lowest
<1>3. /\ mirror' \in Mirror /\ mirror'.packages = mirror.packages \cup {v}
      /\ mirror'.floors = mirror.floors /\ mirror'.target = mirror.target
  BY <1>1, <1>2, MirrorFields
<1>4. syncer' \in Memory /\ syncer'.version = syncer.version /\ Following'
  <2>1. CASE v \in syncer.floors
    <3>1. /\ syncer' \in Memory /\ syncer'.version = syncer.version
          /\ syncer'.goal = syncer.goal /\ syncer'.floors = syncer.floors
          /\ syncer'.multi = syncer.multi /\ syncer'.todo = syncer.todo
          /\ syncer'.step = "mark"
      BY <1>1, <1>2, <2>1 DEF Memory
    <3>2. v \notin foreign
      BY <1>1, <1>2, <2>1 DEF Following, Verified
    <3>3. \A w : Lowest(w)' => w = v
      BY <1>1, <1>2, <3>1, LowestIsOne DEF Lowest
    <3> QED BY <1>1, <1>2, <1>3, <3>1, <3>2, <3>3 DEF Following
  <2>2. CASE v \notin syncer.floors
    BY <1>1, <1>2, <1>3, <2>2, ProcessedFields DEF Following
  <2> QED BY <2>1, <2>2
<1>5. TypeOK'
  BY SoundTable DEF SoundState, TypeOK
<1>6. SyncerTypeOK'
  BY <1>1, <1>2, <1>3, <1>4, <1>5 DEF SyncerTypeOK
<1>7. TracksMirror' /\ FloorsVerified'
  BY <1>1, <1>2, <1>3, <1>4 DEF TracksMirror, Known, FloorsVerified
<1> QED BY <1>4, <1>6, <1>7 DEF MirrorInv

LEMMA MarkPackageKeeps ==
  ASSUME MirrorInv, SoundState', NEW v \in Versions, MarkPackageAsFloor(v)
  PROVE  MirrorInv'
<1>1. /\ syncer \in Memory /\ mirror \in Mirror
      /\ mirror.floors \cup ({mirror.target} \ {NULL}) \cup foreign \subseteq mirror.packages
      /\ syncer.version =< Known /\ Following /\ mirror.floors \cap foreign = {}
      /\ foreign \in ForeignSets /\ oldUpstream \in BOOLEAN
  BY DEF MirrorInv, SyncerTypeOK, TracksMirror, FloorsVerified
<1>2. /\ Lowest(v) /\ v \in syncer.todo /\ syncer.step = "mark"
      /\ mirror' = [mirror EXCEPT !.floors = mirror.floors \cup {v}]
      /\ syncer' = ProcessedManifest(v)
      /\ foreign' = foreign /\ oldUpstream' = oldUpstream
  BY DEF MarkPackageAsFloor, Lowest
<1>3. /\ mirror' \in Mirror /\ mirror'.packages = mirror.packages
      /\ mirror'.floors = mirror.floors \cup {v} /\ mirror'.target = mirror.target
  BY <1>1, <1>2, MirrorFields
<1>4. v \in mirror.packages \ foreign
  BY <1>1, <1>2 DEF Following
<1>5. syncer' \in Memory /\ syncer'.version = syncer.version /\ Following'
  BY <1>1, <1>2, <1>3, <1>4, ProcessedFields DEF Following
<1>6. TypeOK'
  BY SoundTable DEF SoundState, TypeOK
<1>7. SyncerTypeOK'
  BY <1>1, <1>2, <1>3, <1>4, <1>5, <1>6 DEF SyncerTypeOK
<1>8. TracksMirror' /\ FloorsVerified'
  BY <1>1, <1>2, <1>3, <1>4, <1>5 DEF TracksMirror, Known, FloorsVerified
<1> QED BY <1>5, <1>7, <1>8 DEF MirrorInv

(* The channel gets a package of the mirror that is newer than what the    *)
(* syncer reported, whether or not the syncer takes note.                  *)
LEMMA ChannelWritten ==
  ASSUME MirrorInv, SoundState', syncer.goal # NULL,
         mirror' = [mirror EXCEPT !.target = syncer.goal], syncer.todo = {},
         UNCHANGED <<foreign, oldUpstream>>,
         syncer' \in Memory, syncer'.version \in {syncer.version, syncer.goal}, Following'
  PROVE  MirrorInv'
<1>1. /\ syncer \in Memory /\ mirror \in Mirror
      /\ mirror.floors \cup ({mirror.target} \ {NULL}) \cup foreign \subseteq mirror.packages
      /\ Following /\ mirror.floors \cap foreign = {}
      /\ foreign \in ForeignSets /\ oldUpstream \in BOOLEAN
  BY DEF MirrorInv, SyncerTypeOK, FloorsVerified
<1>2. /\ syncer.goal \in Versions /\ syncer.goal \in mirror.packages
      /\ syncer.version < syncer.goal /\ syncer.version \in Versions
  BY <1>1 DEF Following, Memory
<1>3. /\ mirror' \in Mirror /\ mirror'.packages = mirror.packages
      /\ mirror'.floors = mirror.floors /\ mirror'.target = syncer.goal
  BY <1>1, <1>2, MirrorFields
<1>4. TypeOK'
  BY SoundTable DEF SoundState, TypeOK
<1>5. SyncerTypeOK'
  BY <1>1, <1>2, <1>3, <1>4 DEF SyncerTypeOK
<1>6. TracksMirror'
  <2>1. syncer.version =< syncer.goal /\ syncer.goal =< syncer.goal
    BY <1>2, VersionsAreNumbers
  <2>2. Known' = syncer.goal
    BY <1>3 DEF Known
  <2> QED BY <2>1, <2>2 DEF TracksMirror
<1>7. FloorsVerified'
  BY <1>1, <1>3 DEF FloorsVerified
<1> QED BY <1>5, <1>6, <1>7 DEF MirrorInv

LEMMA UpdateChannelKeeps ==
  ASSUME MirrorInv, SoundState', UpdateChannelToPackage
  PROVE  MirrorInv'
<1>1. /\ syncer \in Memory /\ Following /\ syncer.version =< Known
      /\ syncer.step = "channel" /\ syncer.todo = {}
      /\ UNCHANGED <<foreign, oldUpstream>>
  BY DEF MirrorInv, SyncerTypeOK, TracksMirror, UpdateChannelToPackage, Following
<1>2. CASE syncer.goal = NULL
  <2>1. syncer' = Idle(syncer) /\ mirror' = mirror
    BY <1>2 DEF UpdateChannelToPackage
  <2>2. Following'
    BY <1>1, <2>1, IdleFields DEF Following
  <2> QED BY <1>1, <2>1, <2>2, IdleFields, MirrorUnchanged
<1>3. CASE syncer.goal # NULL
  <2>1. /\ mirror' = [mirror EXCEPT !.target = syncer.goal]
        /\ syncer' = Idle([syncer EXCEPT !.version = syncer.goal])
    BY <1>3 DEF UpdateChannelToPackage
  <2>2. /\ [syncer EXCEPT !.version = syncer.goal] \in Memory
        /\ [syncer EXCEPT !.version = syncer.goal].version = syncer.goal
    BY <1>1, <1>3 DEF Memory
  <2>3. syncer' \in Memory /\ syncer'.version = syncer.goal /\ Following'
    BY <2>1, <2>2, IdleFields DEF Following
  <2> QED BY <1>1, <1>3, <2>1, <2>3, ChannelWritten
<1> QED BY <1>2, <1>3

LEMMA UnansweredKeeps ==
  ASSUME MirrorInv, SoundState', StepUnanswered
  PROVE  MirrorInv'
<1>1. /\ syncer \in Memory /\ mirror \in Mirror
      /\ mirror.floors \cup ({mirror.target} \ {NULL}) \cup foreign \subseteq mirror.packages
      /\ syncer.version =< Known /\ Following /\ mirror.floors \cap foreign = {}
      /\ foreign \in ForeignSets /\ oldUpstream \in BOOLEAN
  BY DEF MirrorInv, SyncerTypeOK, TracksMirror, FloorsVerified
<1>2. syncer' = Idle(syncer) /\ foreign' = foreign /\ oldUpstream' = oldUpstream
  BY DEF StepUnanswered
<1>3. syncer' \in Memory /\ syncer'.version = syncer.version /\ Following'
  BY <1>1, <1>2, IdleFields DEF Following
<1>4. TypeOK'
  BY SoundTable DEF SoundState, TypeOK
<1>5. CASE \E v \in Versions :
             Lowest(v) /\ mirror' = [mirror EXCEPT !.packages = mirror.packages \cup {v}]
  <2>1. PICK v \in Versions : mirror' = [mirror EXCEPT !.packages = mirror.packages \cup {v}]
    BY <1>5
  <2>2. /\ mirror' \in Mirror /\ mirror'.packages = mirror.packages \cup {v}
        /\ mirror'.floors = mirror.floors /\ mirror'.target = mirror.target
    BY <1>1, <2>1, MirrorFields
  <2>3. SyncerTypeOK'
    BY <1>1, <1>2, <1>3, <1>4, <2>2 DEF SyncerTypeOK
  <2>4. TracksMirror' /\ FloorsVerified'
    BY <1>1, <1>2, <1>3, <2>2 DEF TracksMirror, Known, FloorsVerified
  <2> QED BY <1>3, <2>3, <2>4 DEF MirrorInv
<1>6. CASE syncer.step = "mark" /\ \E v \in Versions :
             Lowest(v) /\ mirror' = [mirror EXCEPT !.floors = mirror.floors \cup {v}]
  <2>1. PICK v \in Versions :
          Lowest(v) /\ mirror' = [mirror EXCEPT !.floors = mirror.floors \cup {v}]
    BY <1>6
  <2>2. /\ mirror' \in Mirror /\ mirror'.packages = mirror.packages
        /\ mirror'.floors = mirror.floors \cup {v} /\ mirror'.target = mirror.target
    BY <1>1, <2>1, MirrorFields
  <2>3. v \in mirror.packages \ foreign
    BY <1>1, <1>6, <2>1 DEF Following, Lowest
  <2>4. SyncerTypeOK'
    BY <1>1, <1>2, <1>3, <1>4, <2>2, <2>3 DEF SyncerTypeOK
  <2>5. TracksMirror' /\ FloorsVerified'
    BY <1>1, <1>2, <1>3, <2>2, <2>3 DEF TracksMirror, Known, FloorsVerified
  <2> QED BY <1>3, <2>4, <2>5 DEF MirrorInv
<1>7. CASE /\ syncer.step = "channel" /\ syncer.goal # NULL
           /\ mirror' = [mirror EXCEPT !.target = syncer.goal]
  <2>1. syncer.todo = {}
    BY <1>1, <1>7 DEF Following
  <2> QED BY <1>2, <1>3, <1>7, <2>1, ChannelWritten
<1> QED BY <1>5, <1>6, <1>7 DEF StepUnanswered

LEMMA IdlingKeeps ==
  ASSUME MirrorInv, SoundState', UNCHANGED <<mirror, syncer, foreign, oldUpstream>>
  PROVE  MirrorInv'
<1>1. syncer' \in Memory /\ syncer'.version =< Known
  BY DEF MirrorInv, SyncerTypeOK, TracksMirror
<1>2. Following'
  BY DEF MirrorInv, Following, Lowest
<1> QED BY <1>1, <1>2, MirrorUnchanged

LEMMA MirrorInit == SyncerInit => MirrorInv
<1> SUFFICES ASSUME SyncerInit PROVE MirrorInv
  OBVIOUS
<1>1. SoundState /\ TypeOK
  BY InitSound, SoundTable DEF SyncerInit, SoundState, TypeOK
<1>2. /\ foreign \in ForeignSets /\ foreign \subseteq Versions /\ oldUpstream \in BOOLEAN
      /\ mirror = [packages |-> foreign, floors |-> {}, target |-> NULL]
  BY SyncerAssumption DEF SyncerInit, SyncerAssumption
<1>3. (CHOOSE m \in Syncers : TRUE) \in Syncers
  BY SyncerAssumption DEF SyncerAssumption
<1>4. /\ syncer \in Memory /\ syncer.version = Base /\ syncer.step = "idle"
      /\ syncer.goal = NULL /\ syncer.floors = {}
  BY <1>3, VersionsAreNumbers DEF SyncerInit, Memory
<1>5. Known = Base /\ Base =< Base
  BY <1>2, VersionsAreNumbers DEF Known
<1>6. SyncerTypeOK
  BY <1>1, <1>2, <1>4 DEF SyncerTypeOK, Mirror
<1>7. Following
  BY <1>4 DEF Following
<1> QED BY <1>1, <1>2, <1>4, <1>5, <1>6, <1>7 DEF MirrorInv, TracksMirror, FloorsVerified

LEMMA MirrorStep == MirrorInv /\ [SyncerNext]_syncerVars => MirrorInv'
<1> SUFFICES ASSUME MirrorInv, [SyncerNext]_syncerVars PROVE MirrorInv'
  OBVIOUS
<1>1. SoundState'
  BY SyncerRollsOut, NextSound DEF MirrorInv
<1>2. CASE PollOffered
  BY <1>1, <1>2, PollOfferedKeeps
<1>3. CASE PollInVain
  BY <1>1, <1>3, IdlingKeeps DEF PollInVain, Poll
<1>4. CASE ProcessUpdate
  BY <1>1, <1>4, StorePackageKeeps, MarkPackageKeeps, UpdateChannelKeeps, FailedKeeps,
     UnansweredKeeps DEF ProcessUpdate
<1>5. CASE Restart
  BY <1>1, <1>5, RestartKeeps
<1>6. CASE Upstream
  BY <1>1, <1>6, IdlingKeeps DEF Upstream
<1>7. CASE UNCHANGED syncerVars
  BY <1>1, <1>7, IdlingKeeps DEF syncerVars
<1> QED BY <1>2, <1>3, <1>4, <1>5, <1>6, <1>7 DEF SyncerNext

LEMMA AlwaysMirrorInv == SyncerSpec => []MirrorInv
BY MirrorInit, MirrorStep, PTL DEF SyncerSpec

(* Every floor and every channel of the mirror refers to a package that it *)
(* has, through lost answers, failures and restarts (syncer.go).           *)
THEOREM MirrorTypes == SyncerSpec => []SyncerTypeOK
<1>1. MirrorInv => SyncerTypeOK
  BY DEF MirrorInv
<1> QED BY <1>1, AlwaysMirrorInv, PTL

(* The syncer never reports a version above the one its channel has.       *)
THEOREM NeverAheadOfMirror == SyncerSpec => []TracksMirror
<1>1. MirrorInv => TracksMirror
  BY DEF MirrorInv
<1> QED BY <1>1, AlwaysMirrorInv, PTL

(* A package whose content is not upstream's is never marked as a floor:   *)
(* a floor comes with a second manifest, and then every package is looked  *)
(* at (verifyPackageIntegrity).                                            *)
THEOREM OnlyVerifiedFloors == SyncerSpec => []FloorsVerified
<1>1. MirrorInv => FloorsVerified
  BY DEF MirrorInv
<1> QED BY <1>1, AlwaysMirrorInv, PTL

(* Upstream with a mirror polling it is the rollout engine: what is proved *)
(* of Rollout holds of it whatever the mirror does.                        *)
THEOREM UpstreamIsRollout == SyncerSpec => Spec
<1>1. SyncerInit => Init
  BY DEF SyncerInit
<1>2. MirrorInv /\ [SyncerNext]_syncerVars => [Next]_vars
  BY SyncerRollsOut DEF MirrorInv
<1> QED BY <1>1, <1>2, AlwaysMirrorInv, PTL DEF SyncerSpec, Spec

-----------------------------------------------------------------------------
(* Floors reach the mirror, if upstream's floors stay the same, are few    *)
(* enough to be sent at once, and a release that is a floor itself has     *)
(* another floor between it and any release before it.  Without the last,  *)
(* a response of one manifest can bring a floor that is not marked.        *)

Targets == {c.target : c \in ChannelConfigs} \ {NULL}

SteadyFloors == \A c, d \in ChannelConfigs : c.floors = d.floors

FewFloors ==
  \A c \in ChannelConfigs : IsFiniteSet(c.floors) /\ Cardinality(c.floors) =< MaxFloors

NoLoneFloor ==
  \A c \in ChannelConfigs, v \in Targets \cup {Base} :
    c.target \in c.floors /\ v < c.target => \E f \in c.floors : v < f /\ f < c.target

(* The floors between what the syncer reports and what the channel will    *)
(* get are marked, or still to be processed as floors.                     *)
Owed ==
  \A f \in channel.floors :
    syncer.goal # NULL /\ syncer.version < f /\ f =< syncer.goal =>
      f \in mirror.floors \cup (syncer.todo \cap syncer.floors)

Settled ==
  /\ syncer.version \in Targets \cup {Base} /\ Known \in Targets \cup {Base}
  /\ syncer.goal \in Targets \cup {NULL}
  /\ Owed

FloorInv == MirrorInv /\ Settled /\ FloorsReachMirror

LEMMA AllFloorsSent ==
  ASSUME TypeOK, FewFloors, NEW v
  PROVE  FloorsSent(v) = RequiredFloors(v) /\ IsFiniteSet(FloorsSent(v))
<1>1. /\ IsFiniteSet(channel.floors) /\ Cardinality(channel.floors) =< MaxFloors
      /\ Cardinality(channel.floors) \in Nat /\ MaxFloors \in Nat
  BY FS_CardinalityType, SyncerAssumption DEF TypeOK, FewFloors, SyncerAssumption
<1>2. \A S \in SUBSET channel.floors :
        IsFiniteSet(S) /\ Cardinality(S) \in Nat /\ Cardinality(S) =< Cardinality(channel.floors)
  BY <1>1, FS_Subset, FS_CardinalityType
<1>3. \A f : {g \in RequiredFloors(v) : g =< f} \in SUBSET channel.floors
  BY DEF RequiredFloors
<1>4. \A f : Cardinality({g \in RequiredFloors(v) : g =< f}) =< MaxFloors
  BY <1>1, <1>2, <1>3
<1>5. FloorsSent(v) = RequiredFloors(v)
  BY <1>4 DEF FloorsSent
<1>6. RequiredFloors(v) \in SUBSET channel.floors
  BY DEF RequiredFloors
<1> QED BY <1>2, <1>5, <1>6

LEMMA TwoMeansMore ==
  ASSUME NEW S, IsFiniteSet(S), NEW x \in S, NEW y \in S, x # y
  PROVE  Cardinality(S) > 1
<1>1. IsFiniteSet({x}) /\ Cardinality({x}) = 1
  BY FS_Singleton
<1>2. {x} \cup {y} = {x, y} /\ y \notin {x}
  OBVIOUS
<1>3. IsFiniteSet({x, y}) /\ Cardinality({x, y}) = 2
  BY <1>1, <1>2, FS_AddElement
<1>4. Cardinality({x, y}) =< Cardinality(S) /\ Cardinality(S) \in Nat
  BY FS_Subset, FS_CardinalityType
<1> QED BY <1>3, <1>4

LEMMA FiniteManifests ==
  ASSUME NEW v, IsFiniteSet(FloorsSent(v))
  PROVE  IsFiniteSet(Manifests(v))
<1> DEFINE sent == FloorsSent(v) \cup {channel.target}
           f == [w \in sent |-> [version |-> w, isFloor |-> w \in FloorsSent(v),
                                 isTarget |-> w = channel.target /\ ~oldUpstream]]
<1>1. IsFiniteSet(sent)
  BY FS_AddElement
<1>2. Manifests(v) = {f[w] : w \in sent}
  BY DEF Manifests
<1> HIDE DEF f, sent
<1>3. f = [w \in sent |-> f[w]]
  BY DEF f
<1>4. f \in Surjection(sent, Manifests(v))
  BY <1>2, <1>3 DEF Surjection
<1> QED BY <1>1, <1>4, FS_Surjection

(* A floor ahead of the version that is not the channel's package makes    *)
(* the response one of several manifests.                                  *)
LEMMA FloorMakesMulti ==
  ASSUME TypeOK, FewFloors, NEW v, NEW f \in RequiredFloors(v), f # channel.target
  PROVE  Cardinality(Manifests(v)) > 1
<1>1. FloorsSent(v) = RequiredFloors(v) /\ IsFiniteSet(Manifests(v))
  BY AllFloorsSent, FiniteManifests
<1> DEFINE manifest(w) == [version |-> w, isFloor |-> w \in FloorsSent(v),
                           isTarget |-> w = channel.target /\ ~oldUpstream]
<1>2. Manifests(v) = {manifest(w) : w \in FloorsSent(v) \cup {channel.target}}
  BY DEF Manifests
<1>3. manifest(f).version = f /\ manifest(channel.target).version = channel.target
  OBVIOUS
<1> HIDE DEF manifest
<1>4. manifest(f) \in Manifests(v) /\ manifest(channel.target) \in Manifests(v)
  BY <1>1, <1>2
<1>5. manifest(f) # manifest(channel.target)
  BY <1>3
<1> QED BY <1>1, <1>4, <1>5, TwoMeansMore

(* What a response leaves to do covers all floors on the way to its goal.  *)
LEMMA ReceivedOwes ==
  ASSUME FloorInv, FewFloors, NoLoneFloor, Offered
  PROVE  LET r == Received(syncer) IN
         /\ r.goal \in Targets \cup {NULL}
         /\ \A f \in channel.floors :
              r.goal # NULL /\ r.version < f /\ f =< r.goal => f \in r.todo \cap r.floors
<1> DEFINE r == Received(syncer)
           ms == Manifests(syncer.version)
<1>1. /\ TypeOK /\ syncer \in Memory /\ channel \in ChannelConfigs
      /\ channel.target \in Versions /\ channel.target # NULL
      /\ syncer.version < channel.target /\ channel.floors \subseteq Versions
      /\ syncer.version \in Versions /\ syncer.version \in Targets \cup {Base}
  BY ChannelFields DEF Offered, FloorInv, MirrorInv, SyncerTypeOK, TypeOK, Settled, Memory
<1>2. channel.target \in Targets
  BY <1>1 DEF Targets
<1>3. /\ r.version = syncer.version /\ r.todo = VersionsOf(ms)
      /\ r.multi = (Cardinality(ms) > 1)
      /\ r.floors = IF r.multi THEN VersionsOf({m \in ms : m.isFloor}) ELSE {}
      /\ r.goal = IF r.multi THEN TargetOf(ms) ELSE channel.target
  BY <1>1, ReceivedFields
<1>4. /\ VersionsOf(ms) = FloorsSent(syncer.version) \cup {channel.target}
      /\ VersionsOf({m \in ms : m.isFloor}) = FloorsSent(syncer.version)
      /\ FloorsSent(syncer.version) = RequiredFloors(syncer.version)
  BY <1>1, ManifestSets, AllFloorsSent
<1>5. TargetOf(ms) \in {channel.target, NULL}
  BY <1>1, TargetFound
<1> HIDE DEF r, ms
<1>6. r.goal \in {channel.target, NULL}
  BY <1>3, <1>5
<1>7. ASSUME NEW f \in channel.floors, syncer.version < f, f =< channel.target
      PROVE  f \in r.todo \cap r.floors
  <2>1. f \in RequiredFloors(syncer.version)
    BY <1>7 DEF RequiredFloors
  <2>2. \E g \in RequiredFloors(syncer.version) : g # channel.target
    <3>1. CASE f # channel.target
      BY <2>1, <3>1
    <3>2. CASE f = channel.target
      <4>1. PICK g \in channel.floors : syncer.version < g /\ g < channel.target
        BY <1>1, <1>7, <3>2 DEF NoLoneFloor
      <4>2. g \in Nat /\ channel.target \in Nat
        BY <1>1, VersionsAreNumbers
      <4>3. g =< channel.target /\ g # channel.target
        BY <4>1, <4>2
      <4> QED BY <4>1, <4>3 DEF RequiredFloors
    <3> QED BY <3>1, <3>2
  <2>3. r.multi
    BY <1>1, <1>3, <2>2, FloorMakesMulti DEF ms
  <2> QED BY <1>3, <1>4, <2>1, <2>3
<1>8. r = Received(syncer)
  BY DEF r
<1> QED BY <1>2, <1>3, <1>6, <1>7, <1>8

(* Floors below what the channel gets are marked, when all of the response *)
(* but the channel has been processed.                                     *)
LEMMA GoalIsReady ==
  ASSUME FloorInv, syncer.todo = {}, syncer.goal # NULL
  PROVE  \A f \in channel.floors : Base < f /\ f =< syncer.goal => f \in mirror.floors
<1> SUFFICES ASSUME NEW f \in channel.floors, Base < f, f =< syncer.goal
             PROVE  f \in mirror.floors
  OBVIOUS
<1>1. /\ TypeOK /\ f \in Nat /\ syncer.version \in Nat /\ Known \in Nat
      /\ syncer.version =< Known
  BY ChannelFields, KnownIsVersion, VersionsAreNumbers
     DEF FloorInv, MirrorInv, SyncerTypeOK, Memory, TracksMirror
<1>2. CASE syncer.version < f
  BY <1>2 DEF FloorInv, Settled, Owed
<1>3. CASE f =< syncer.version
  <2>1. f =< Known
    BY <1>1, <1>3
  <2> QED BY <2>1 DEF FloorInv, FloorsReachMirror
<1> QED BY <1>1, <1>2, <1>3

(* Steps that leave the mirror's channel alone and forget or keep what was *)
(* received.                                                               *)
LEMMA ChannelKept ==
  ASSUME FloorInv, channel'.floors = channel.floors, mirror'.target = mirror.target,
         mirror.floors \subseteq mirror'.floors,
         syncer'.version \in {syncer.version, Known},
         syncer'.goal \in Targets \cup {NULL}, Owed'
  PROVE  Settled' /\ FloorsReachMirror'
<1>1. Known' = Known
  BY DEF Known
<1>2. Settled'
  BY <1>1 DEF FloorInv, Settled
<1>3. FloorsReachMirror'
  BY <1>1 DEF FloorInv, FloorsReachMirror
<1> QED BY <1>2, <1>3

LEMMA NothingOwed ==
  ASSUME syncer'.goal = NULL
  PROVE  Owed'
BY DEF Owed

LEMMA FloorsWhenChannelWritten ==
  ASSUME FloorInv, UNCHANGED channel, syncer.todo = {}, syncer.goal # NULL,
         mirror' = [mirror EXCEPT !.target = syncer.goal],
         syncer'.version \in {syncer.version, syncer.goal}, syncer'.goal = NULL
  PROVE  Settled' /\ FloorsReachMirror'
<1>1. /\ mirror \in Mirror /\ syncer.goal \in Versions
      /\ syncer.goal \in Targets /\ syncer.version \in Targets \cup {Base}
  BY DEF FloorInv, MirrorInv, SyncerTypeOK, Settled, Memory
<1>2. mirror'.floors = mirror.floors /\ mirror'.target = syncer.goal
  BY <1>1, MirrorFields
<1>3. Known' = syncer.goal
  BY <1>2 DEF Known
<1>4. Settled'
  BY <1>1, <1>3, NothingOwed DEF Settled
<1>5. FloorsReachMirror'
  BY <1>2, <1>3, GoalIsReady DEF FloorsReachMirror
<1> QED BY <1>4, <1>5

LEMMA FloorsWhenProcessed ==
  ASSUME FloorInv, ProcessUpdate
  PROVE  Settled' /\ FloorsReachMirror'
<1>1. /\ syncer \in Memory /\ mirror \in Mirror /\ Following /\ channel' = channel
      /\ syncer.goal \in Targets \cup {NULL} /\ Owed
  BY DEF FloorInv, MirrorInv, SyncerTypeOK, Settled, ProcessUpdate, StorePackage,
         MarkPackageAsFloor, UpdateChannelToPackage, StepFails, StepUnanswered, vars
<1>2. ASSUME NEW v \in Versions, StorePackage(v)
      PROVE  Settled' /\ FloorsReachMirror'
  <2>1. /\ v \in syncer.todo
        /\ mirror' = [mirror EXCEPT !.packages = mirror.packages \cup {v}]
        /\ syncer' = IF v \in syncer.floors THEN [syncer EXCEPT !.step = "mark"]
                     ELSE ProcessedManifest(v)
    BY <1>2 DEF StorePackage, Lowest
  <2>2. mirror'.floors = mirror.floors /\ mirror'.target = mirror.target
    BY <1>1, <2>1, MirrorFields
  <2>3. /\ syncer'.version = syncer.version /\ syncer'.goal = syncer.goal
        /\ syncer'.todo \cap syncer'.floors = syncer.todo \cap syncer.floors
    <3>1. CASE v \in syncer.floors
      BY <1>1, <2>1, <3>1 DEF Memory
    <3>2. CASE v \notin syncer.floors
      BY <1>1, <2>1, <3>2, ProcessedFields
    <3> QED BY <3>1, <3>2
  <2>4. Owed'
    BY <1>1, <2>2, <2>3 DEF Owed
  <2> QED BY <1>1, <2>2, <2>3, <2>4, ChannelKept
<1>3. ASSUME NEW v \in Versions, MarkPackageAsFloor(v)
      PROVE  Settled' /\ FloorsReachMirror'
  <2>1. /\ v \in syncer.todo
        /\ mirror' = [mirror EXCEPT !.floors = mirror.floors \cup {v}]
        /\ syncer' = ProcessedManifest(v)
    BY <1>3 DEF MarkPackageAsFloor, Lowest
  <2>2. mirror'.floors = mirror.floors \cup {v} /\ mirror'.target = mirror.target
    BY <1>1, <2>1, MirrorFields
  <2>3. /\ syncer'.version = syncer.version /\ syncer'.goal = syncer.goal
        /\ syncer'.todo = syncer.todo \ {v} /\ syncer'.floors = syncer.floors
    BY <1>1, <2>1, ProcessedFields
  <2>4. Owed'
    BY <1>1, <2>2, <2>3 DEF Owed
  <2> QED BY <1>1, <2>2, <2>3, <2>4, ChannelKept
<1>4. CASE UpdateChannelToPackage
  <2>1. syncer.todo = {}
    BY <1>1, <1>4 DEF UpdateChannelToPackage, Following
  <2>2. CASE syncer.goal = NULL
    <3>1. mirror' = mirror /\ syncer'.version = syncer.version /\ syncer'.goal = NULL
      BY <1>1, <1>4, <2>2, IdleFields DEF UpdateChannelToPackage
    <3> QED BY <1>1, <3>1, NothingOwed, ChannelKept
  <2>3. CASE syncer.goal # NULL
    <3>1. /\ mirror' = [mirror EXCEPT !.target = syncer.goal]
          /\ syncer' = Idle([syncer EXCEPT !.version = syncer.goal])
      BY <1>4, <2>3 DEF UpdateChannelToPackage
    <3>2. /\ [syncer EXCEPT !.version = syncer.goal] \in Memory
          /\ [syncer EXCEPT !.version = syncer.goal].version = syncer.goal
      BY <1>1, <2>3 DEF Memory
    <3>3. syncer'.version = syncer.goal /\ syncer'.goal = NULL
      BY <3>1, <3>2, IdleFields
    <3> QED BY <1>1, <2>1, <2>3, <3>1, <3>3, FloorsWhenChannelWritten
  <2> QED BY <2>2, <2>3
<1>5. ASSUME syncer' = Idle(syncer)
      PROVE  syncer'.version = syncer.version /\ syncer'.goal = NULL
  BY <1>1, <1>5, IdleFields
<1>6. CASE StepFails
  <2>1. mirror' = mirror /\ syncer' = Idle(syncer)
    BY <1>6 DEF StepFails
  <2> QED BY <1>1, <1>5, <2>1, NothingOwed, ChannelKept
<1>7. CASE StepUnanswered
  <2>1. syncer' = Idle(syncer)
    BY <1>7 DEF StepUnanswered
  <2>2. \/ \E v \in Versions : mirror' = [mirror EXCEPT !.packages = mirror.packages \cup {v}]
        \/ \E v \in Versions : mirror' = [mirror EXCEPT !.floors = mirror.floors \cup {v}]
        \/ /\ syncer.step = "channel" /\ syncer.goal # NULL
           /\ mirror' = [mirror EXCEPT !.target = syncer.goal]
    BY <1>7 DEF StepUnanswered
  <2>3. CASE \/ \E v \in Versions : mirror' = [mirror EXCEPT !.packages = mirror.packages \cup {v}]
             \/ \E v \in Versions : mirror' = [mirror EXCEPT !.floors = mirror.floors \cup {v}]
    <3>1. mirror'.target = mirror.target /\ mirror.floors \subseteq mirror'.floors
      BY <1>1, <2>3, MirrorFields
    <3> QED BY <1>1, <1>5, <2>1, <3>1, NothingOwed, ChannelKept
  <2>4. CASE /\ syncer.step = "channel" /\ syncer.goal # NULL
             /\ mirror' = [mirror EXCEPT !.target = syncer.goal]
    <3>1. syncer.todo = {}
      BY <1>1, <2>4 DEF Following
    <3> QED BY <1>1, <1>5, <2>1, <2>4, <3>1, FloorsWhenChannelWritten
  <2> QED BY <2>2, <2>3, <2>4
<1> QED BY <1>2, <1>3, <1>4, <1>6, <1>7 DEF ProcessUpdate

LEMMA FloorStep ==
  ASSUME SteadyFloors, FewFloors, NoLoneFloor
  PROVE  FloorInv /\ [SyncerNext]_syncerVars => FloorInv'
<1> SUFFICES ASSUME FloorInv, [SyncerNext]_syncerVars PROVE FloorInv'
  OBVIOUS
<1>1. MirrorInv'
  BY MirrorStep DEF FloorInv
<1>2. channel'.floors = channel.floors
  BY <1>1 DEF FloorInv, MirrorInv, SyncerTypeOK, TypeOK, SteadyFloors
<1>3. /\ syncer \in Memory /\ syncer.goal \in Targets \cup {NULL} /\ Owed
      /\ syncer.step = "idle" => syncer.goal = NULL
  BY DEF FloorInv, MirrorInv, SyncerTypeOK, Settled, Following
<1>4. ASSUME UNCHANGED <<mirror, syncer>>
      PROVE  Settled' /\ FloorsReachMirror'
  <2>1. Owed'
    BY <1>2, <1>3, <1>4 DEF Owed
  <2> QED BY <1>2, <1>3, <1>4, <2>1, ChannelKept
<1>5. CASE PollOffered
  <2>1. Offered /\ syncer' = Received(syncer) /\ mirror' = mirror /\ channel' = channel
    BY <1>5 DEF PollOffered, Poll, GetUpdatePackagesForSyncer
  <2>2. syncer'.version = syncer.version
    BY <1>3, <2>1, ReceivedFields
  <2>3. syncer'.goal \in Targets \cup {NULL} /\ Owed'
    BY <2>1, ReceivedOwes DEF Owed
  <2> QED BY <1>1, <2>1, <2>2, <2>3, ChannelKept DEF FloorInv
<1>6. CASE PollInVain \/ Upstream \/ UNCHANGED syncerVars
  <2>1. UNCHANGED <<mirror, syncer>>
    BY <1>6 DEF PollInVain, Poll, Upstream, syncerVars
  <2> QED BY <1>1, <1>4, <2>1 DEF FloorInv
<1>7. CASE ProcessUpdate
  BY <1>1, <1>7, FloorsWhenProcessed DEF FloorInv
<1>8. CASE Restart
  <2>1. PICK m \in Syncers : syncer' = Idle([syncer EXCEPT !.machineID = m, !.version = Known])
    BY <1>8 DEF Restart
  <2>2. Known \in Versions
    BY KnownIsVersion DEF FloorInv, MirrorInv, SyncerTypeOK
  <2>3. /\ [syncer EXCEPT !.machineID = m, !.version = Known] \in Memory
        /\ [syncer EXCEPT !.machineID = m, !.version = Known].version = Known
    BY <1>3, <2>2 DEF Memory
  <2>4. syncer'.version = Known /\ syncer'.goal = NULL /\ mirror' = mirror
    BY <1>8, <2>1, <2>3, IdleFields DEF Restart
  <2> QED BY <1>1, <1>2, <2>4, NothingOwed, ChannelKept DEF FloorInv
<1> QED BY <1>5, <1>6, <1>7, <1>8 DEF SyncerNext

LEMMA FloorInit == SyncerInit => FloorInv
<1> SUFFICES ASSUME SyncerInit PROVE FloorInv
  OBVIOUS
<1>1. MirrorInv
  BY MirrorInit
<1>2. syncer.version = Base /\ syncer.goal = NULL /\ Known = Base
  BY DEF SyncerInit, Known
<1>3. Settled
  BY <1>2 DEF Settled, Owed
<1>4. FloorsReachMirror
  <2>1. \A f \in channel.floors : f \in Nat
    BY <1>1, ChannelFields, VersionsAreNumbers DEF MirrorInv, SyncerTypeOK
  <2>2. Base \in Nat
    BY VersionsAreNumbers
  <2> QED BY <1>2, <2>1, <2>2 DEF FloorsReachMirror
<1> QED BY <1>1, <1>3, <1>4 DEF FloorInv

(* The mirror's channel never gets past a floor that the mirror has not    *)
(* marked, whatever fails and however often the syncer restarts            *)
(* (processMultiManifestUpdate: floors first, the channel last).           *)
THEOREM FloorsReach ==
  ASSUME SteadyFloors, FewFloors, NoLoneFloor
  PROVE  SyncerSpec => []FloorsReachMirror
<1>1. SyncerInit => FloorInv
  BY FloorInit
<1>2. FloorInv /\ [SyncerNext]_syncerVars => FloorInv'
  BY FloorStep
<1>3. FloorInv => FloorsReachMirror
  BY DEF FloorInv
<1> QED BY <1>1, <1>2, <1>3, PTL DEF SyncerSpec

-----------------------------------------------------------------------------
(* A mirror that hosts the payloads does to the database what a mirror     *)
(* does that hosts none.                                                   *)

LEMMA HostingStepIsSyncers == [HostingNext]_hostingVars => [SyncerNext]_syncerVars
<1> SUFFICES ASSUME [HostingNext]_hostingVars PROVE [SyncerNext]_syncerVars
  OBVIOUS
<1>1. CASE (PollOffered \/ PollInVain \/ Upstream) /\ UNCHANGED disk
  BY <1>1 DEF SyncerNext
<1>2. CASE \E v \in Versions :
             PackageExists(v) \/ AddPackageWithMetadata(v) \/ MarkPackageAsFloor(v)
  BY <1>2 DEF PackageExists, AddPackageWithMetadata, ProcessUpdate, SyncerNext
<1>3. CASE \E v \in Versions : ProcessExtraFiles(v) \/ DownloadPackagePayload(v)
  BY <1>3 DEF ProcessExtraFiles, DownloadPackagePayload
<1>4. CASE UpdateChannelToPackage \/ HostingFails \/ HostingUnanswered
  BY <1>4 DEF HostingFails, HostingUnanswered, ProcessUpdate, SyncerNext
<1>5. CASE HostingRestart
  BY <1>5 DEF HostingRestart, SyncerNext
<1>6. CASE UNCHANGED hostingVars
  BY <1>6 DEF hostingVars
<1> QED BY <1>1, <1>2, <1>3, <1>4, <1>5, <1>6 DEF HostingNext

(* Hosting implements Syncer, step by step: what is proved of a mirror     *)
(* holds of one that hosts payloads.                                       *)
THEOREM HostingImplementsSyncer == HostingSpec => SyncerSpec
<1>1. HostingInit => SyncerInit
  BY DEF HostingInit
<1> QED BY <1>1, HostingStepIsSyncers, PTL DEF HostingSpec, SyncerSpec

(* While a package is being created its files are there up to the step     *)
(* reached and, but for a restart, not beyond it; if the package exists    *)
(* nevertheless, then an answer about it was lost or it is not upstream's. *)
CreatingFiles ==
  \A v \in Versions :
    Lowest(v) /\ creating # "nothing" =>
      /\ v \in mirror.packages => v \in foreign \cup doubted
      /\ creating = "payload" => /\ <<v, "extraFiles">> \in files
                                 /\ \/ restarted \/ v \in mirror.packages
                                    \/ <<v, "payload">> \notin files
      /\ creating = "row" => FilesOf(v) \subseteq files

DiskTypes ==
  /\ files \subseteq Versions \X {"extraFiles", "payload"}
  /\ creating \in {"nothing", "payload", "row"}
  /\ creating # "nothing" => syncer.step = "store"

HostingInv == MirrorInv /\ DiskTypes /\ CreatingFiles /\ FilesFollowPackages

LEMMA HostingMemory ==
  ASSUME HostingInv
  PROVE  syncer \in Memory /\ mirror \in Mirror
BY DEF HostingInv, MirrorInv, SyncerTypeOK

LEMMA FilesAre ==
  \A v, S : FilesOf(v) \subseteq S <=> <<v, "extraFiles">> \in S /\ <<v, "payload">> \in S
<1> SUFFICES ASSUME NEW v, NEW S
             PROVE  FilesOf(v) \subseteq S <=> <<v, "extraFiles">> \in S /\ <<v, "payload">> \in S
  OBVIOUS
<1>1. <<v, "extraFiles">> \in FilesOf(v) /\ <<v, "payload">> \in FilesOf(v)
  BY DEF FilesOf
<1>2. \A f \in FilesOf(v) : f = <<v, "extraFiles">> \/ f = <<v, "payload">>
  <2> SUFFICES ASSUME NEW f \in {v} \X {"extraFiles", "payload"}
               PROVE  f = <<v, "extraFiles">> \/ f = <<v, "payload">>
    BY DEF FilesOf
  <2>1. PICK w \in {v}, k \in {"extraFiles", "payload"} : f = <<w, k>>
    OBVIOUS
  <2> QED BY <2>1
<1> QED BY <1>1, <1>2

LEMMA DiskFile ==
  ASSUME HostingInv, NEW f \in files
  PROVE  f[1] \in Versions /\ f \in FilesOf(f[1])
BY DEF HostingInv, DiskTypes, FilesOf

(* Nothing of a package is being created: only what is on disk and in the  *)
(* database counts.                                                        *)
LEMMA DiskAtRest ==
  ASSUME HostingInv, MirrorInv', creating = "nothing", creating' = "nothing",
         UNCHANGED <<files, doubted, foreign>>, restarted \/ restarted' = restarted,
         restarted => restarted', mirror'.packages = mirror.packages
  PROVE  HostingInv'
<1>1. DiskTypes' /\ CreatingFiles'
  BY DEF HostingInv, DiskTypes, CreatingFiles
<1>2. FilesFollowPackages'
  BY DEF HostingInv, FilesFollowPackages
<1> QED BY <1>1, <1>2 DEF HostingInv

LEMMA HostingOthers ==
  ASSUME HostingInv, MirrorInv', UNCHANGED <<disk, syncer, mirror, foreign>>
  PROVE  HostingInv'
BY DEF HostingInv, DiskTypes, CreatingFiles, FilesFollowPackages, disk, Lowest

LEMMA PackageExistsKeeps ==
  ASSUME HostingInv, MirrorInv', NEW v \in Versions, PackageExists(v)
  PROVE  HostingInv'
<1>1. /\ creating = "nothing" /\ UNCHANGED <<files, creating, doubted, restarted, foreign>>
      /\ v \in mirror.packages /\ mirror' = [mirror EXCEPT !.packages = mirror.packages \cup {v}]
  BY DEF PackageExists, StorePackage, disk
<1>2. mirror'.packages = mirror.packages
  BY <1>1, HostingMemory, MirrorFields
<1> QED BY <1>1, <1>2, DiskAtRest

LEMMA ProcessExtraFilesKeeps ==
  ASSUME HostingInv, MirrorInv', NEW v \in Versions, ProcessExtraFiles(v)
  PROVE  HostingInv'
<1>1. /\ creating = "nothing" /\ syncer.step = "store" /\ Lowest(v)
      /\ doubted' = IF v \in mirror.packages THEN doubted \cup {v} ELSE doubted
      /\ files' = files \cup {<<v, "extraFiles">>}
      /\ creating' = "payload"
      /\ UNCHANGED <<syncer, mirror, foreign, restarted>>
  BY DEF ProcessExtraFiles, syncerVars
<1>2. \A w \in Versions : Lowest(w)' => w = v
  BY <1>1, HostingMemory, LowestIsOne DEF Lowest
<1>3. Lowest(v)'
  BY <1>1 DEF Lowest
<1>4. DiskTypes'
  <2>1. files' \subseteq Versions \X {"extraFiles", "payload"}
    BY <1>1 DEF HostingInv, DiskTypes
  <2> QED BY <1>1, <2>1 DEF DiskTypes
<1>5. CreatingFiles'
  <2>1. v \in mirror.packages => v \in doubted'
    BY <1>1
  <2>2. restarted \/ v \in mirror.packages \/ <<v, "payload">> \notin files'
    BY <1>1 DEF HostingInv, FilesFollowPackages
  <2>3. v \in mirror'.packages => v \in foreign' \cup doubted'
    BY <1>1, <2>1
  <2>4. <<v, "extraFiles">> \in files' /\ creating' # "row"
    BY <1>1
  <2>5. restarted' \/ v \in mirror'.packages \/ <<v, "payload">> \notin files'
    BY <1>1, <2>2
  <2> QED BY <1>2, <2>3, <2>4, <2>5 DEF CreatingFiles
<1>6. FilesFollowPackages'
  <2>1. \A w \in mirror'.packages \ (foreign' \cup doubted') : FilesOf(w)' \subseteq files'
    BY <1>1 DEF HostingInv, FilesFollowPackages, FilesOf
  <2>2. \A f \in files' : f \in files \/ f[1] = v
    BY <1>1
  <2>3. restarted' \/ \A f \in files' :
          f[1] \in mirror'.packages \/ (creating' # "nothing" /\ Lowest(f[1])')
    <3>1. restarted \/ \A f \in files : f[1] \in mirror.packages
      BY <1>1 DEF HostingInv, FilesFollowPackages
    <3> QED BY <1>1, <1>3, <2>2, <3>1
  <2> QED BY <2>1, <2>3 DEF FilesFollowPackages
<1> QED BY <1>4, <1>5, <1>6 DEF HostingInv

LEMMA DownloadPackagePayloadKeeps ==
  ASSUME HostingInv, MirrorInv', NEW v \in Versions, DownloadPackagePayload(v)
  PROVE  HostingInv'
<1>1. /\ creating = "payload" /\ Lowest(v)
      /\ files' = files \cup {<<v, "payload">>} /\ creating' = "row"
      /\ UNCHANGED <<syncer, mirror, foreign, doubted, restarted>>
  BY DEF DownloadPackagePayload, syncerVars
<1>2. \A w \in Versions : Lowest(w)' => w = v
  BY <1>1, HostingMemory, LowestIsOne DEF Lowest
<1>3. Lowest(v)'
  BY <1>1 DEF Lowest
<1>4. DiskTypes'
  <2>1. files' \subseteq Versions \X {"extraFiles", "payload"}
    BY <1>1 DEF HostingInv, DiskTypes
  <2>2. syncer.step = "store"
    BY <1>1 DEF HostingInv, DiskTypes
  <2> QED BY <1>1, <2>1, <2>2 DEF DiskTypes
<1>5. CreatingFiles'
  <2>1. <<v, "extraFiles">> \in files /\ (v \in mirror.packages => v \in foreign \cup doubted)
    BY <1>1 DEF HostingInv, CreatingFiles
  <2>2. FilesOf(v) \subseteq files'
    BY <1>1, <2>1, FilesAre
  <2> QED BY <1>1, <1>2, <2>1, <2>2 DEF CreatingFiles, FilesOf
<1>6. FilesFollowPackages'
  <2>1. \A w \in mirror'.packages \ (foreign' \cup doubted') : FilesOf(w)' \subseteq files'
    BY <1>1 DEF HostingInv, FilesFollowPackages, FilesOf
  <2>2. \A w : Lowest(w)' <=> Lowest(w)
    BY <1>1 DEF Lowest
  <2>3. restarted' \/ \A f \in files' :
          f[1] \in mirror'.packages \/ (creating' # "nothing" /\ Lowest(f[1])')
    BY <1>1, <1>3, <2>2 DEF HostingInv, FilesFollowPackages
  <2> QED BY <2>1, <2>3 DEF FilesFollowPackages
<1> QED BY <1>4, <1>5, <1>6 DEF HostingInv

LEMMA AddPackageWithMetadataKeeps ==
  ASSUME HostingInv, MirrorInv', NEW v \in Versions, AddPackageWithMetadata(v)
  PROVE  HostingInv'
<1>1. /\ creating = "row" /\ creating' = "nothing" /\ v \notin mirror.packages /\ Lowest(v)
      /\ mirror' = [mirror EXCEPT !.packages = mirror.packages \cup {v}]
      /\ UNCHANGED <<files, doubted, restarted, foreign>>
  BY DEF AddPackageWithMetadata, StorePackage
<1>2. mirror'.packages = mirror.packages \cup {v}
  BY <1>1, HostingMemory, MirrorFields
<1>3. DiskTypes' /\ CreatingFiles'
  BY <1>1 DEF HostingInv, DiskTypes, CreatingFiles
<1>4. FilesFollowPackages'
  <2>1. FilesOf(v) \subseteq files
    BY <1>1 DEF HostingInv, CreatingFiles
  <2>2. \A w \in mirror'.packages \ (foreign' \cup doubted') : FilesOf(w)' \subseteq files'
    BY <1>1, <1>2, <2>1 DEF HostingInv, FilesFollowPackages, FilesOf
  <2>3. restarted \/ \A f \in files : f[1] \in mirror.packages \/ f[1] = v
    <3>1. \A f \in files : f[1] \in Versions
      BY DEF HostingInv, DiskTypes
    <3>2. \A w \in Versions : Lowest(w) => w = v
      BY <1>1, HostingMemory, LowestIsOne
    <3> QED BY <3>1, <3>2 DEF HostingInv, FilesFollowPackages
  <2> QED BY <1>1, <1>2, <2>2, <2>3 DEF FilesFollowPackages
<1> QED BY <1>3, <1>4 DEF HostingInv

(* The cleaning up takes away what this attempt has brought, and nothing   *)
(* of a package that is there, unless an answer about it was lost.         *)
LEMMA CleanedUp ==
  ASSUME HostingInv, MirrorInv', NEW v \in Versions, Lowest(v), creating # "nothing",
         CleanupDownloadedFiles(v), creating' = "nothing",
         UNCHANGED <<foreign, restarted>>, doubted \subseteq doubted',
         mirror.packages \subseteq mirror'.packages,
         mirror'.packages \ doubted' \subseteq mirror.packages
  PROVE  HostingInv'
<1>1. /\ v \in mirror.packages => v \in foreign \cup doubted
      /\ creating = "payload" =>
           restarted \/ v \in mirror.packages \/ <<v, "payload">> \notin files
  BY DEF HostingInv, CreatingFiles
<1>2. creating = "payload" \/ creating = "row"
  BY DEF HostingInv, DiskTypes
<1>3. files' = files \ (IF creating = "row" THEN FilesOf(v) ELSE {<<v, "extraFiles">>})
  BY DEF CleanupDownloadedFiles
<1>4. \A f \in files \ files' : f \in FilesOf(v)
  BY <1>3, FilesAre
<1>5. DiskTypes' /\ CreatingFiles'
  BY <1>3 DEF HostingInv, DiskTypes, CreatingFiles
<1>6. ASSUME NEW w \in mirror'.packages \ (foreign' \cup doubted')
      PROVE  FilesOf(w) \subseteq files'
  <2>1. w \in mirror.packages \ (foreign \cup doubted) /\ w # v
    BY <1>1
  <2>2. FilesOf(w) \subseteq files
    BY <2>1 DEF HostingInv, FilesFollowPackages
  <2>3. \A f \in FilesOf(w) : f \notin FilesOf(v)
    BY <2>1 DEF FilesOf
  <2> QED BY <1>4, <2>2, <2>3
<1>7. ASSUME ~restarted, NEW f \in files'
      PROVE  f[1] \in mirror'.packages
  <2>1. f \in files /\ f[1] \in Versions /\ f \in FilesOf(f[1])
    BY <1>3, DiskFile
  <2>2. CASE f[1] \in mirror.packages
    BY <2>2
  <2>3. CASE Lowest(f[1]) /\ f[1] \notin mirror.packages
    <3>1. f[1] = v
      BY <2>3, HostingMemory, LowestIsOne
    <3>2. f = <<v, "extraFiles">> \/ f = <<v, "payload">>
      BY <2>1, <3>1 DEF FilesOf
    <3>3. CASE creating = "row"
      BY <1>3, <2>1, <3>1, <3>3
    <3>4. CASE creating = "payload"
      <4>1. f = <<v, "payload">>
        BY <1>3, <3>2, <3>4
      <4> QED BY <1>1, <1>7, <2>1, <2>3, <3>1, <3>4, <4>1
    <3> QED BY <1>2, <3>3, <3>4
  <2> QED BY <1>7, <2>1, <2>2, <2>3 DEF HostingInv, FilesFollowPackages
<1>8. FilesFollowPackages'
  <2>1. \A w : FilesOf(w)' = FilesOf(w)
    BY DEF FilesOf
  <2> QED BY <1>6, <1>7, <2>1 DEF FilesFollowPackages, FilesOf
<1> QED BY <1>5, <1>8 DEF HostingInv

LEMMA HostingFailsKeeps ==
  ASSUME HostingInv, MirrorInv', HostingFails
  PROVE  HostingInv'
<1>1. creating' = "nothing" /\ UNCHANGED <<mirror, foreign, doubted, restarted>>
  BY DEF HostingFails, StepFails
<1>2. CASE creating = "nothing"
  BY <1>1, <1>2, DiskAtRest DEF HostingFails
<1>3. CASE creating # "nothing"
  <2>1. PICK v \in Versions : Lowest(v) /\ CleanupDownloadedFiles(v)
    BY <1>3 DEF HostingFails
  <2> QED BY <1>1, <1>3, <2>1, CleanedUp
<1> QED BY <1>2, <1>3

LEMMA HostingUnansweredKeeps ==
  ASSUME HostingInv, MirrorInv', HostingUnanswered
  PROVE  HostingInv'
<1>1. creating' = "nothing" /\ UNCHANGED <<foreign, restarted>>
  BY DEF HostingUnanswered, StepUnanswered
<1>2. CASE syncer.step # "store"
  <2>1. creating = "nothing" /\ UNCHANGED <<files, doubted>>
    BY <1>2 DEF HostingInv, DiskTypes, HostingUnanswered
  <2>2. \/ \E v \in Versions : mirror' = [mirror EXCEPT !.floors = mirror.floors \cup {v}]
        \/ mirror' = [mirror EXCEPT !.target = syncer.goal]
    BY <1>2 DEF HostingUnanswered, StepUnanswered
  <2>3. mirror'.packages = mirror.packages
    BY <2>2, HostingMemory DEF Mirror
  <2> QED BY <1>1, <2>1, <2>3, DiskAtRest
<1>3. CASE syncer.step = "store"
  <2>1. PICK v \in Versions \ mirror.packages :
          Lowest(v) /\ CleanupDownloadedFiles(v) /\ doubted' = doubted \cup {v}
    BY <1>3 DEF HostingUnanswered
  <2>2. creating = "row"
    BY <1>3 DEF HostingUnanswered
  <2>3. PICK w \in Versions :
          Lowest(w) /\ mirror' = [mirror EXCEPT !.packages = mirror.packages \cup {w}]
    BY <1>3 DEF HostingUnanswered, StepUnanswered
  <2>4. w = v
    BY <2>1, <2>3, HostingMemory, LowestIsOne
  <2>5. mirror'.packages = mirror.packages \cup {v}
    BY <2>3, <2>4, HostingMemory, MirrorFields
  <2> QED BY <1>1, <2>1, <2>2, <2>5, CleanedUp
<1> QED BY <1>2, <1>3

LEMMA HostingInitInv == HostingInit => HostingInv
<1> SUFFICES ASSUME HostingInit PROVE HostingInv
  OBVIOUS
<1>1. MirrorInv
  BY MirrorInit DEF HostingInit
<1>2. files = {} /\ creating = "nothing" /\ mirror.packages = foreign
  BY DEF HostingInit, SyncerInit
<1> QED BY <1>1, <1>2 DEF HostingInv, DiskTypes, CreatingFiles, FilesFollowPackages

LEMMA HostingStep == HostingInv /\ [HostingNext]_hostingVars => HostingInv'
<1> SUFFICES ASSUME HostingInv, [HostingNext]_hostingVars PROVE HostingInv'
  OBVIOUS
<1>1. MirrorInv'
  BY HostingStepIsSyncers, MirrorStep DEF HostingInv
<1>2. ASSUME UNCHANGED disk, UNCHANGED foreign, mirror'.packages = mirror.packages,
             syncer.step # "store"
      PROVE  HostingInv'
  <2>1. creating = "nothing"
    BY <1>2 DEF HostingInv, DiskTypes
  <2> QED BY <1>1, <1>2, <2>1, DiskAtRest DEF disk
<1>3. CASE (PollOffered \/ PollInVain) /\ UNCHANGED disk
  BY <1>2, <1>3 DEF PollOffered, PollInVain, Poll
<1>4. CASE Upstream /\ UNCHANGED disk
  BY <1>1, <1>4, HostingOthers DEF Upstream
<1>5. ASSUME NEW v \in Versions, MarkPackageAsFloor(v), UNCHANGED disk
      PROVE  HostingInv'
  <2>1. mirror'.packages = mirror.packages
    BY <1>5, HostingMemory, MirrorFields DEF MarkPackageAsFloor
  <2> QED BY <1>2, <1>5, <2>1 DEF MarkPackageAsFloor
<1>6. CASE UpdateChannelToPackage /\ UNCHANGED disk
  <2>1. mirror' = mirror \/ mirror' = [mirror EXCEPT !.target = syncer.goal]
    BY <1>6 DEF UpdateChannelToPackage
  <2>2. mirror'.packages = mirror.packages
    BY <2>1, HostingMemory DEF Mirror
  <2> QED BY <1>2, <1>6, <2>2 DEF UpdateChannelToPackage
<1>7. CASE HostingRestart
  <2>1. /\ creating' = "nothing" /\ restarted' = TRUE
        /\ UNCHANGED <<files, doubted, mirror, foreign>>
    BY <1>7 DEF HostingRestart, Restart
  <2> QED BY <1>1, <2>1
          DEF HostingInv, DiskTypes, CreatingFiles, FilesFollowPackages, FilesOf
<1>8. CASE UNCHANGED hostingVars
  BY <1>1, <1>8, HostingOthers DEF hostingVars, syncerVars
<1> QED BY <1>1, <1>3, <1>4, <1>5, <1>6, <1>7, <1>8, PackageExistsKeeps, ProcessExtraFilesKeeps,
           DownloadPackagePayloadKeeps, AddPackageWithMetadataKeeps, HostingFailsKeeps,
           HostingUnansweredKeeps DEF HostingNext

(* A stored package has its files and files have their package, whatever   *)
(* fails, but for lost answers and restarts (HostFlatcarPackages).         *)
THEOREM FilesKept == HostingSpec => []FilesFollowPackages
<1>1. HostingInv => FilesFollowPackages
  BY DEF HostingInv
<1> QED BY <1>1, HostingInitInv, HostingStep, PTL DEF HostingSpec
=============================================================================
