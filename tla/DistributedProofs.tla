------------------------- MODULE DistributedProofs -------------------------
(***************************************************************************)
(* Proofs about Distributed for any number of nodes, clients, groups,      *)
(* tracks, machines and changes.                                           *)
(***************************************************************************)
EXTENDS Distributed, SequenceTheorems, TLAPS

(* A map that a scan at the control node has made and that is not stored   *)
(* yet is as right as the one that is: the lock keeps the announcement of  *)
(* a change from coming between the scan and the store.                    *)
PendingMapsAreRight ==
  \A c \in Clients :
    request[c].at = "publish" /\ request[c].node = Hub => IsRight(Hub, request[c].map)

(* Groups are edited at the control node only, and a dialog shows the      *)
(* administrator's switch.                                                 *)
DialogOf(r) ==
  r.at \in {"edit", "save"} => r.node = Hub /\ r.shown = r.was

(* Before its initial copy an edge is sent nothing and has no groups, and  *)
(* so no machines.                                                         *)
NothingBeforeCopy ==
  \A e \in Edges \ subscribed :
    feed[e] = <<>> /\ \A g \in Groups : groups[e][g] = NoRow

Inv ==
  /\ DistributedTypeOK
  /\ LocalRowsFollowGroups
  /\ ServingMapIsCurrent
  /\ PendingMapsAreRight
  /\ \A c \in Clients : DialogOf(request[c])
  /\ NothingBeforeCopy

-----------------------------------------------------------------------------
LEMMA Constants ==
  /\ NoRow \notin Row /\ NoRow # TRUE /\ NoRow # FALSE
  /\ NoGroup \notin Groups /\ NoMap \notin GroupMap
  /\ Hub \in Nodes /\ MaxChanges \in Nat /\ Hub \notin Edges /\ Edges \subseteq Nodes
BY GroupCacheAssumption, DistributedAssumption
   DEF GroupCacheAssumption, DistributedAssumption, Edges

LEMMA RequestFields ==
  ASSUME NEW r \in Request \cup {Idle}
  PROVE  /\ r.at = "publish" => r.node \in Nodes /\ r.track \in Tracks /\ r.map \in GroupMap
         /\ r.at = "register" => r.node \in Nodes /\ r.group \in Groups
         /\ r.at \in {"edit", "save", "announce"} => r.node \in Nodes /\ r.group \in Groups
         /\ r.at \in {"edit", "save"} => r.was \in BOOLEAN /\ r.shown \in BOOLEAN
         /\ r.at = "save" => r.row \in Row
BY DEF Request, Idle

LEMMA RequestGoes ==
  ASSUME request \in [Clients -> Request \cup {Idle}],
         NEW c \in Clients, NEW to \in Request \cup {Idle}, Goes(c, to)
  PROVE  /\ request' \in [Clients -> Request \cup {Idle}]
         /\ request'[c] = to /\ \A d \in Clients \ {c} : request'[d] = request[d]
BY DEF Goes

(* A lookup ends in a registration or in none.                             *)
LEMMA FoundRequest ==
  ASSUME NEW n \in Nodes, NEW g \in Groups \cup {NoGroup}
  PROVE  Found(n, g) \in Request \cup {Idle} /\ Found(n, g).at \in {"register", "idle"}
<1>1. CASE g = NoGroup
  BY <1>1 DEF Found, Idle
<1>2. CASE g # NoGroup
  BY <1>2 DEF Found, Request
<1> QED BY <1>1, <1>2

LEMMA MapsOf ==
  ASSUME NEW map \in GroupMap, NEW t \in Tracks
  PROVE  map.of[t] \in Groups \cup {NoGroup}
BY DEF GroupMap

-----------------------------------------------------------------------------
(* Maps: a scan is right when it is made, and a map stays right as long as *)
(* the groups that change are among those whose change is not announced.   *)

LEMMA ScansAreRight ==
  ASSUME NEW n \in Nodes, NEW map \in Scans(n)
  PROVE  map \in GroupMap /\ IsRight(n, map)
<1>1. \A t \in Tracks : OfTrack(n, t) \subseteq Groups
  BY DEF OfTrack
<1>2. ASSUME NEW m \in [Tracks -> Groups \cup {NoGroup}],
             \A t \in Tracks : IF OfTrack(n, t) = {} THEN m[t] = NoGroup
                                                     ELSE m[t] \in OfTrack(n, t),
             map = [of |-> m, read |-> TRUE]
      PROVE  map \in GroupMap /\ IsRight(n, map)
  <2>1. map \in GroupMap /\ map.of = m
    BY <1>2 DEF GroupMap
  <2>2. ASSUME NEW t \in Tracks
        PROVE  IF m[t] = NoGroup THEN OfTrack(n, t) = {} ELSE m[t] \in OfTrack(n, t)
    BY <1>1, <1>2, Constants
  <2> QED BY <2>1, <2>2 DEF IsRight
<1>3. CASE map = [of |-> [t \in Tracks |-> NoGroup], read |-> FALSE]
  BY <1>3 DEF GroupMap, IsRight
<1> QED BY <1>2, <1>3 DEF Scans

LEMMA RightStays ==
  ASSUME NEW n \in Nodes, Unannounced(n) \subseteq Unannounced(n)',
         \A g \in Groups : groups'[n][g] = groups[n][g] \/ g \in Unannounced(n)',
         NEW map, IsRight(n, map)
  PROVE  IsRight(n, map)'
<1>1. ASSUME NEW t \in Tracks
      PROVE  /\ OfTrack(n, t) \subseteq OfTrack(n, t)' \cup Unannounced(n)'
             /\ OfTrack(n, t)' \subseteq OfTrack(n, t) \cup Unannounced(n)'
  BY DEF OfTrack
<1> QED BY <1>1 DEF IsRight

(* Only the request that announces a change makes it announced.            *)
LEMMA UnannouncedStays ==
  ASSUME NEW c \in Clients, request[c].at # "announce",
         \A d \in Clients \ {c} : request'[d] = request[d], NEW n
  PROVE  Unannounced(n) \subseteq Unannounced(n)'
BY DEF Unannounced

-----------------------------------------------------------------------------
(* What a save may not do to the administrator's switch.                   *)
SwitchKept ==
  \A c \in Clients :
    LET r == request[c]
        was == groups[r.node][r.group]
        is == groups'[r.node][r.group]
    IN /\ r.at = "save" /\ r.row.enabled = r.shown
       /\ request'[c] # r /\ was # NoRow /\ is # NoRow /\ was.enabled = r.was
       => is.enabled = was.enabled

(* A request goes on without a change to a group: what it may go on to.    *)
LEMMA GoingKeeps ==
  ASSUME Inv, NEW c \in Clients, NEW to \in Request \cup {Idle}, Goes(c, to),
         request[c].at # "announce", to.at # "publish" \/ to.node # Hub \/ IsRight(Hub, to.map),
         DialogOf(to),
         cachedGroups' \in [Nodes -> GroupMap \cup {NoMap}],
         \/ cachedGroups'[Hub] = cachedGroups[Hub]
         \/ IsRight(Hub, cachedGroups'[Hub]),
         member' \in [Nodes -> [Instances -> Groups \cup {NoGroup}]],
         \A n \in Nodes, i \in Instances :
           member'[n][i] # NoGroup => groups[n][member'[n][i]] # NoRow,
         UNCHANGED <<groups, brake, subscribed, feed, changes>>
  PROVE  Inv' /\ SwitchKept
<1> USE Constants
<1>1. /\ request' \in [Clients -> Request \cup {Idle}]
      /\ request'[c] = to /\ \A d \in Clients \ {c} : request'[d] = request[d]
  BY RequestGoes DEF Inv, DistributedTypeOK, GroupCacheTypeOK
<1>2. DistributedTypeOK'
  BY <1>1 DEF Inv, DistributedTypeOK, GroupCacheTypeOK
<1>3. LocalRowsFollowGroups' /\ NothingBeforeCopy'
  BY DEF Inv, LocalRowsFollowGroups, NothingBeforeCopy
<1>4. \A map : IsRight(Hub, map) => IsRight(Hub, map)'
  BY <1>1, UnannouncedStays, RightStays
<1>5. ServingMapIsCurrent'
  BY <1>4 DEF Inv, ServingMapIsCurrent, MapIsCurrent
<1>6. PendingMapsAreRight'
  BY <1>1, <1>4 DEF Inv, PendingMapsAreRight
<1>7. \A d \in Clients : DialogOf(request[d])'
  BY <1>1 DEF Inv, DialogOf
<1>8. SwitchKept
  BY DEF SwitchKept
<1> QED BY <1>2, <1>3, <1>5, <1>6, <1>7, <1>8 DEF Inv

LEMMA CacheKeeps ==
  ASSUME Inv, Cache
  PROVE  Inv' /\ SwitchKept
<1> USE Constants
<1>0. /\ UNCHANGED <<brake, member, subscribed, feed, changes>>
      /\ request \in [Clients -> Request \cup {Idle}]
      /\ cachedGroups \in [Nodes -> GroupMap \cup {NoMap}]
      /\ member' \in [Nodes -> [Instances -> Groups \cup {NoGroup}]]
      /\ \A n \in Nodes, i \in Instances :
           member'[n][i] # NoGroup => groups[n][member'[n][i]] # NoRow
  BY DEF Cache, localVars, Inv, DistributedTypeOK, GroupCacheTypeOK, LocalRowsFollowGroups
<1>1. ASSUME NEW c \in Clients, NEW n \in Nodes, NEW t \in Tracks, LookUp(c, n, t)
      PROVE  Inv' /\ SwitchKept
  <2> DEFINE to == Found(n, cachedGroups[n].of[t])
  <2>1. cachedGroups[n] \in GroupMap
    BY <1>0, <1>1 DEF LookUp
  <2>2. to \in Request \cup {Idle} /\ to.at \in {"register", "idle"}
    BY <2>1, MapsOf, FoundRequest
  <2>3. Goes(c, to) /\ request[c].at # "announce" /\ UNCHANGED <<groups, cachedGroups>>
    BY <1>1 DEF LookUp, Idle
  <2> HIDE DEF to
  <2> QED BY <1>0, <2>2, <2>3, GoingKeeps DEF DialogOf
<1>2. ASSUME NEW c \in Clients, NEW n \in Nodes, NEW t \in Tracks, Scan(c, n, t)
      PROVE  Inv' /\ SwitchKept
  <2>1. PICK map \in Scans(n) : Goes(c, [at |-> "publish", node |-> n, track |-> t, map |-> map])
    BY <1>2 DEF Scan
  <2> DEFINE to == [at |-> "publish", node |-> n, track |-> t, map |-> map]
  <2>2. to \in Request /\ IsRight(n, map)
    BY ScansAreRight DEF Request
  <2>3. to.at = "publish" /\ to.node = n /\ to.map = map /\ Goes(c, to)
    BY <2>1
  <2>4. request[c].at # "announce" /\ UNCHANGED <<groups, cachedGroups>>
    BY <1>2 DEF Scan, Idle
  <2> HIDE DEF to
  <2> QED BY <1>0, <2>2, <2>3, <2>4, GoingKeeps DEF DialogOf
<1>3. ASSUME NEW c \in Clients, Publish(c)
      PROVE  Inv' /\ SwitchKept
  <2> DEFINE to == Found(request[c].node, request[c].map.of[request[c].track])
  <2>1. request[c] \in Request \cup {Idle} /\ request[c].at = "publish"
    BY <1>0, <1>3 DEF Publish
  <2>2. request[c].node \in Nodes /\ request[c].track \in Tracks /\ request[c].map \in GroupMap
    BY <2>1, RequestFields
  <2>3. to \in Request \cup {Idle} /\ to.at \in {"register", "idle"}
    BY <2>2, MapsOf, FoundRequest
  <2>4. Goes(c, to) /\ groups' = groups
        /\ cachedGroups' = [cachedGroups EXCEPT ![request[c].node] = request[c].map]
    BY <1>3 DEF Publish
  <2>5. /\ cachedGroups' \in [Nodes -> GroupMap \cup {NoMap}]
        /\ \/ cachedGroups'[Hub] = cachedGroups[Hub]
           \/ IsRight(Hub, cachedGroups'[Hub])
    BY <1>0, <2>1, <2>2, <2>4 DEF Inv, PendingMapsAreRight
  <2> HIDE DEF to
  <2> QED BY <1>0, <2>1, <2>3, <2>4, <2>5, GoingKeeps DEF DialogOf
<1>4. ASSUME NEW c \in Clients, UpdateCachedGroups(c)
      PROVE  Inv' /\ SwitchKept
  <2>1. /\ request[c].at = "announce" /\ ~Filling(request[c].node)
        /\ cachedGroups' = [cachedGroups EXCEPT ![request[c].node] = NoMap]
        /\ Goes(c, Idle) /\ groups' = groups
    BY <1>4 DEF UpdateCachedGroups
  <2>2. /\ request' \in [Clients -> Request \cup {Idle}]
        /\ request'[c] = Idle /\ \A d \in Clients \ {c} : request'[d] = request[d]
    BY <1>0, <2>1, RequestGoes
  <2>3. request[c].node \in Nodes
    BY <1>0, <2>1, RequestFields
  <2>4. DistributedTypeOK'
    BY <1>0, <2>1, <2>2 DEF Inv, DistributedTypeOK, GroupCacheTypeOK
  <2>5. LocalRowsFollowGroups' /\ NothingBeforeCopy' /\ SwitchKept
    BY <1>0, <2>1 DEF Inv, LocalRowsFollowGroups, NothingBeforeCopy, SwitchKept
  <2>6. ServingMapIsCurrent' /\ PendingMapsAreRight'
    <3>1. CASE request[c].node = Hub
      <4>1. cachedGroups'[Hub] = NoMap
        BY <1>0, <2>1, <3>1
      <4>2. \A d \in Clients : ~(request'[d].at = "publish" /\ request'[d].node = Hub)
        BY <2>1, <2>2, <3>1 DEF Filling, Idle
      <4> QED BY <4>1, <4>2 DEF ServingMapIsCurrent, MapIsCurrent, PendingMapsAreRight
    <3>2. CASE request[c].node # Hub
      <4>1. cachedGroups'[Hub] = cachedGroups[Hub] /\ Unannounced(Hub) \subseteq Unannounced(Hub)'
        BY <1>0, <2>1, <2>2, <3>2 DEF Unannounced
      <4>2. \A map : IsRight(Hub, map) => IsRight(Hub, map)'
        BY <2>1, <4>1, RightStays
      <4> QED BY <2>2, <4>1, <4>2
              DEF Inv, ServingMapIsCurrent, MapIsCurrent, PendingMapsAreRight, Idle
    <3> QED BY <3>1, <3>2
  <2>7. \A d \in Clients : DialogOf(request[d])'
    BY <2>2 DEF Inv, DialogOf, Idle
  <2> QED BY <2>4, <2>5, <2>6, <2>7 DEF Inv
<1> QED BY <1>1, <1>2, <1>3, <1>4 DEF Cache

LEMMA RestartKeeps ==
  ASSUME Inv, NEW n \in Nodes, Restart(n), UNCHANGED <<localVars, changes>>
  PROVE  Inv' /\ SwitchKept
<1> USE Constants
<1>0. /\ UNCHANGED <<groups, brake, member, subscribed, feed, changes>>
      /\ cachedGroups' = [cachedGroups EXCEPT ![n] = NoMap]
      /\ request' = [c \in Clients |->
           IF request[c].node = n /\ request[c].at # "edit" THEN Idle ELSE request[c]]
      /\ request \in [Clients -> Request \cup {Idle}]
      /\ cachedGroups \in [Nodes -> GroupMap \cup {NoMap}]
  BY DEF Restart, localVars, Inv, DistributedTypeOK, GroupCacheTypeOK
<1>1. \A c \in Clients : request'[c] \in {Idle, request[c]}
                         /\ (request[c].node # n => request'[c] = request[c])
                         /\ (request'[c].node = n => request'[c].at \in {"idle", "edit"})
  BY <1>0 DEF Idle
<1>2. DistributedTypeOK'
  BY <1>0 DEF Inv, DistributedTypeOK, GroupCacheTypeOK
<1>3. LocalRowsFollowGroups' /\ NothingBeforeCopy' /\ SwitchKept
  BY <1>0 DEF Inv, LocalRowsFollowGroups, NothingBeforeCopy, SwitchKept
<1>4. ServingMapIsCurrent' /\ PendingMapsAreRight'
  <2>1. CASE n = Hub
    <3>1. cachedGroups'[Hub] = NoMap
      BY <1>0, <2>1
    <3> QED BY <1>1, <2>1, <3>1 DEF ServingMapIsCurrent, MapIsCurrent, PendingMapsAreRight
  <2>2. CASE n # Hub
    <3>1. cachedGroups'[Hub] = cachedGroups[Hub] /\ Unannounced(Hub) \subseteq Unannounced(Hub)'
      BY <1>0, <1>1, <2>2 DEF Unannounced
    <3>2. \A map : IsRight(Hub, map) => IsRight(Hub, map)'
      BY <1>0, <3>1, RightStays
    <3> QED BY <1>1, <3>1, <3>2
            DEF Inv, ServingMapIsCurrent, MapIsCurrent, PendingMapsAreRight, Idle
  <2> QED BY <2>1, <2>2
<1>5. \A c \in Clients : DialogOf(request[c])'
  BY <1>1 DEF Inv, DialogOf, Idle
<1> QED BY <1>2, <1>3, <1>4, <1>5 DEF Inv

-----------------------------------------------------------------------------
(* The triggers keep the local rows and the machines in step with groups.  *)

LEMMA LocalRowsFollow ==
  ASSUME NEW rows \in [Groups -> Row \cup {NoRow}],
         NEW overrides \in [Groups -> BOOLEAN \cup {NoRow}]
  PROVE  /\ LocalRows(rows, overrides) \in [Groups -> BOOLEAN \cup {NoRow}]
         /\ \A g \in Groups : rows[g] = NoRow <=> LocalRows(rows, overrides)[g] = NoRow
BY Constants DEF LocalRows

LEMMA MembersFollow ==
  ASSUME NEW rows \in [Groups -> Row \cup {NoRow}],
         NEW members \in [Instances -> Groups \cup {NoGroup}]
  PROVE  /\ Members(rows, members) \in [Instances -> Groups \cup {NoGroup}]
         /\ \A i \in Instances : Members(rows, members)[i] # NoGroup =>
              rows[Members(rows, members)[i]] # NoRow
BY Constants DEF Members

(* A statement at the control node, with what it brings about.             *)
LEMMA CommitKeeps ==
  ASSUME Inv, NEW c \in Clients, NEW g \in Groups, NEW row \in Row \cup {NoRow},
         request[c].at # "announce", groups' = [groups EXCEPT ![Hub][g] = row],
         Goes(c, Announcing(Hub, g)), Commit(g), changes < MaxChanges,
         UNCHANGED cachedGroups
  PROVE  Inv'
<1> USE Constants
<1>0. /\ request \in [Clients -> Request \cup {Idle}]
      /\ groups \in [Nodes -> [Groups -> Row \cup {NoRow}]]
      /\ brake \in [Nodes -> [Groups -> BOOLEAN \cup {NoRow}]]
      /\ member \in [Nodes -> [Instances -> Groups \cup {NoGroup}]]
      /\ feed \in [Edges -> Seq(Change)] /\ subscribed' = subscribed
  BY DEF Inv, DistributedTypeOK, GroupCacheTypeOK, Commit
<1> DEFINE to == Announcing(Hub, g)
<1>1. to \in Request /\ to.at = "announce" /\ to.node = Hub /\ to.group = g
  BY DEF Announcing, Request
<1> HIDE DEF to
<1>2. /\ request' \in [Clients -> Request \cup {Idle}]
      /\ request'[c] = to /\ \A d \in Clients \ {c} : request'[d] = request[d]
  BY <1>0, <1>1, RequestGoes DEF to
<1>3. /\ groups' \in [Nodes -> [Groups -> Row \cup {NoRow}]]
      /\ \A n \in Nodes \ {Hub} : groups'[n] = groups[n]
      /\ \A h \in Groups \ {g} : groups'[Hub][h] = groups[Hub][h]
      /\ groups'[Hub] \in [Groups -> Row \cup {NoRow}] /\ groups'[Hub][g] = row
  BY <1>0
<1>4. /\ brake' = [brake EXCEPT ![Hub] = LocalRows(groups'[Hub], brake[Hub])]
      /\ member' = [member EXCEPT ![Hub] = Members(groups'[Hub], member[Hub])]
  BY DEF Commit
<1>5. /\ brake' \in [Nodes -> [Groups -> BOOLEAN \cup {NoRow}]]
      /\ brake'[Hub] = LocalRows(groups'[Hub], brake[Hub])
      /\ \A n \in Nodes \ {Hub} : brake'[n] = brake[n]
  BY <1>0, <1>3, <1>4, LocalRowsFollow
<1>6. /\ member' \in [Nodes -> [Instances -> Groups \cup {NoGroup}]]
      /\ member'[Hub] = Members(groups'[Hub], member[Hub])
      /\ \A n \in Nodes \ {Hub} : member'[n] = member[n]
  BY <1>0, <1>3, <1>4, MembersFollow
<1>7. feed' \in [Edges -> Seq(Change)]
  <2>1. [group |-> g, row |-> groups'[Hub][g]] \in Change
    BY <1>3 DEF Change
  <2>2. \A e \in Edges : Append(feed[e], [group |-> g, row |-> groups'[Hub][g]]) \in Seq(Change)
    BY <1>0, <2>1
  <2> QED BY <1>0, <2>2 DEF Commit
<1>8. changes' \in 0..MaxChanges
  BY DEF Inv, DistributedTypeOK, Commit
<1>9. DistributedTypeOK'
  BY <1>0, <1>2, <1>3, <1>5, <1>6, <1>7, <1>8 DEF Inv, DistributedTypeOK, GroupCacheTypeOK
<1>10. LocalRowsFollowGroups'
  <2> SUFFICES ASSUME NEW n \in Nodes
               PROVE  /\ \A h \in Groups : groups'[n][h] = NoRow <=> brake'[n][h] = NoRow
                      /\ \A i \in Instances :
                           member'[n][i] # NoGroup => groups'[n][member'[n][i]] # NoRow
    BY DEF LocalRowsFollowGroups
  <2>1. CASE n = Hub
    <3>1. /\ brake[Hub] \in [Groups -> BOOLEAN \cup {NoRow}]
          /\ member[Hub] \in [Instances -> Groups \cup {NoGroup}]
      BY <1>0
    <3>2. \A h \in Groups :
            groups'[Hub][h] = NoRow <=> LocalRows(groups'[Hub], brake[Hub])[h] = NoRow
      BY <1>3, <3>1, LocalRowsFollow
    <3>3. \A i \in Instances : Members(groups'[Hub], member[Hub])[i] # NoGroup =>
            groups'[Hub][Members(groups'[Hub], member[Hub])[i]] # NoRow
      <4>1. groups'[Hub] \in [Groups -> Row \cup {NoRow}]
        BY <1>3
      <4> QED BY <3>1, <4>1, MembersFollow
    <3>4. \A h \in Groups : groups'[Hub][h] = NoRow <=> brake'[Hub][h] = NoRow
      BY <1>5, <3>2
    <3>5. \A i \in Instances : member'[Hub][i] # NoGroup => groups'[Hub][member'[Hub][i]] # NoRow
      BY <1>6, <3>3
    <3> QED BY <2>1, <3>4, <3>5
  <2>2. CASE n # Hub
    <3>1. groups'[n] = groups[n] /\ brake'[n] = brake[n] /\ member'[n] = member[n]
      BY <1>3, <1>5, <1>6, <2>2
    <3>2. /\ \A h \in Groups : groups[n][h] = NoRow <=> brake[n][h] = NoRow
          /\ \A i \in Instances : member[n][i] # NoGroup => groups[n][member[n][i]] # NoRow
      BY DEF Inv, LocalRowsFollowGroups
    <3> QED BY <3>1, <3>2
  <2> QED BY <2>1, <2>2
<1>11. \A map : IsRight(Hub, map) => IsRight(Hub, map)'
  <2>1. Unannounced(Hub) \subseteq Unannounced(Hub)'
    BY <1>2, UnannouncedStays
  <2>2. g \in Unannounced(Hub)'
    BY <1>1, <1>2 DEF Unannounced
  <2> QED BY <1>3, <2>1, <2>2, RightStays
<1>12. ServingMapIsCurrent' /\ PendingMapsAreRight'
  BY <1>1, <1>2, <1>11 DEF Inv, ServingMapIsCurrent, MapIsCurrent, PendingMapsAreRight
<1>13. \A d \in Clients : DialogOf(request[d])'
  BY <1>1, <1>2 DEF Inv, DialogOf
<1>14. NothingBeforeCopy'
  BY <1>0, <1>3 DEF Inv, NothingBeforeCopy, Commit
<1> QED BY <1>9, <1>10, <1>12, <1>13, <1>14 DEF Inv

-----------------------------------------------------------------------------
LEMMA AdministratorsKeep ==
  ASSUME Inv, Administrators
  PROVE  Inv' /\ SwitchKept
<1> USE Constants
<1>0. /\ request \in [Clients -> Request \cup {Idle}]
      /\ groups \in [Nodes -> [Groups -> Row \cup {NoRow}]]
      /\ cachedGroups \in [Nodes -> GroupMap \cup {NoMap}]
      /\ brake \in [Nodes -> [Groups -> BOOLEAN \cup {NoRow}]]
      /\ member \in [Nodes -> [Instances -> Groups \cup {NoGroup}]]
      /\ \A n \in Nodes, i \in Instances :
           member[n][i] # NoGroup => groups[n][member[n][i]] # NoRow
  BY DEF Inv, DistributedTypeOK, GroupCacheTypeOK, LocalRowsFollowGroups
<1>1. ASSUME NEW c \in Clients, NEW g \in Groups, OpenDialog(c, g)
      PROVE  Inv' /\ SwitchKept
  <2> DEFINE to == [at |-> "edit", node |-> Hub, group |-> g,
                    was |-> groups[Hub][g].enabled, shown |-> Presented(Hub, g)]
  <2>1. groups[Hub][g] \in Row /\ groups[Hub][g].enabled \in BOOLEAN
    BY <1>0, <1>1 DEF OpenDialog, Row
  <2>2. to \in Request /\ to.at = "edit" /\ to.node = Hub /\ to.shown = to.was
    BY <2>1 DEF Request, Presented
  <2>3. Goes(c, to) /\ request[c].at # "announce"
        /\ UNCHANGED <<groups, cachedGroups, brake, member, subscribed, feed, changes>>
    BY <1>1 DEF OpenDialog, Idle, localVars
  <2> HIDE DEF to
  <2> QED BY <1>0, <2>2, <2>3, GoingKeeps DEF DialogOf
<1>2. ASSUME NEW c \in Clients, NEW row \in Row, SaveDialog(c, row)
      PROVE  Inv' /\ SwitchKept
  <2> DEFINE r == request[c]
             saving == [at |-> "save", node |-> Hub, group |-> r.group,
                        was |-> r.was, shown |-> r.shown, row |-> row]
             to == IF groups[Hub][r.group] = NoRow THEN Idle ELSE saving
  <2>1. r \in Request \cup {Idle} /\ r.at = "edit" /\ DialogOf(r)
    BY <1>0, <1>2 DEF SaveDialog, Inv
  <2>2. r.group \in Groups /\ r.was \in BOOLEAN /\ r.shown \in BOOLEAN /\ r.shown = r.was
    BY <2>1, RequestFields DEF DialogOf
  <2>3. saving \in Request /\ saving.at = "save" /\ saving.node = Hub /\ saving.shown = saving.was
    BY <2>2 DEF Request
  <2>4. Goes(c, to) /\ UNCHANGED <<groups, cachedGroups, brake, member, subscribed, feed, changes>>
    BY <1>2 DEF SaveDialog, localVars
  <2> HIDE DEF saving
  <2>5. to \in Request \cup {Idle} /\ to.at # "publish" /\ DialogOf(to)
    BY <2>3 DEF DialogOf, Idle
  <2> HIDE DEF to
  <2>6. request[c].at # "announce"
    BY <2>1
  <2> QED BY <1>0, <2>4, <2>5, <2>6, GoingKeeps
<1>3. ASSUME NEW c \in Clients, NEW g \in Groups, NEW row \in Row, AdminAdds(c, g, row)
      PROVE  Inv' /\ SwitchKept
  <2>1. /\ request[c] = Idle /\ groups' = [groups EXCEPT ![Hub][g] = row]
        /\ Goes(c, Announcing(Hub, g)) /\ Commit(g) /\ changes < MaxChanges
        /\ UNCHANGED cachedGroups
    BY <1>3 DEF AdminAdds, AddGroup
  <2>2. Inv'
    <3>1. request[c].at # "announce"
      BY <2>1 DEF Idle
    <3> QED BY <2>1, <3>1, CommitKeeps
  <2>3. \A d \in Clients : request[d].at = "save" => request'[d] = request[d]
    BY <1>0, <2>1 DEF Goes, Idle
  <2> QED BY <2>2, <2>3 DEF SwitchKept
<1>4. ASSUME NEW c \in Clients, NEW g \in Groups, AdminDeletes(c, g)
      PROVE  Inv' /\ SwitchKept
  <2>1. /\ request[c] = Idle /\ groups' = [groups EXCEPT ![Hub][g] = NoRow]
        /\ Goes(c, Announcing(Hub, g)) /\ Commit(g) /\ changes < MaxChanges
        /\ UNCHANGED cachedGroups
    BY <1>4 DEF AdminDeletes, DeleteGroup
  <2>2. Inv'
    <3>1. request[c].at # "announce"
      BY <2>1 DEF Idle
    <3> QED BY <2>1, <3>1, CommitKeeps
  <2>3. \A d \in Clients : request[d].at = "save" => request'[d] = request[d]
    BY <1>0, <2>1 DEF Goes, Idle
  <2> QED BY <2>2, <2>3 DEF SwitchKept
<1>5. ASSUME NEW c \in Clients, AdminSaves(c)
      PROVE  Inv' /\ SwitchKept
  <2> DEFINE r == request[c]
  <2>1. r \in Request \cup {Idle} /\ r.at = "save" /\ DialogOf(r)
    BY <1>0, <1>5 DEF AdminSaves, UpdateGroup, Inv
  <2>2. r.node = Hub /\ r.shown = r.was /\ r.group \in Groups /\ r.row \in Row
    BY <2>1, RequestFields DEF DialogOf
  <2>3. CASE groups[Hub][r.group] = NoRow
    <3>1. Goes(c, Idle)
          /\ UNCHANGED <<groups, cachedGroups, brake, member, subscribed, feed, changes>>
      BY <1>5, <2>2, <2>3 DEF AdminSaves, UpdateGroup, localVars
    <3> QED BY <1>0, <2>1, <3>1, GoingKeeps DEF DialogOf, Idle
  <2>4. CASE groups[Hub][r.group] # NoRow
    <3>1. /\ groups' = [groups EXCEPT ![Hub][r.group] = r.row]
          /\ Goes(c, Announcing(Hub, r.group)) /\ Commit(r.group) /\ changes < MaxChanges
          /\ UNCHANGED cachedGroups
      BY <1>5, <2>2, <2>4 DEF AdminSaves, UpdateGroup
    <3>2. Inv'
      BY <2>1, <2>2, <3>1, CommitKeeps
    <3>3. \A d \in Clients \ {c} : request'[d] = request[d]
      BY <1>0, <3>1 DEF Goes
    <3>4. groups'[r.node][r.group] = r.row
      BY <1>0, <2>2, <3>1
    <3> QED BY <2>2, <3>2, <3>3, <3>4 DEF SwitchKept
  <2> QED BY <2>3, <2>4
<1>6. ASSUME NEW n \in Nodes, NEW g \in Groups, ClearUpdatesEnabledOverride(n, g)
      PROVE  Inv' /\ SwitchKept
  <2>1. /\ brake[n][g] = TRUE /\ brake' = [brake EXCEPT ![n][g] = FALSE]
        /\ UNCHANGED <<groups, cachedGroups, request, member, subscribed, feed, changes>>
    BY <1>6 DEF ClearUpdatesEnabledOverride, cacheVars
  <2>2. /\ brake' \in [Nodes -> [Groups -> BOOLEAN \cup {NoRow}]]
        /\ \A m \in Nodes, h \in Groups : brake'[m][h] = NoRow <=> brake[m][h] = NoRow
    BY <1>0, <2>1
  <2>3. DistributedTypeOK' /\ LocalRowsFollowGroups'
    <3>1. DistributedTypeOK'
      BY <2>1, <2>2 DEF Inv, DistributedTypeOK, GroupCacheTypeOK
    <3>2. LocalRowsFollowGroups'
      <4>1. groups' = groups /\ member' = member
        BY <2>1
      <4>2. LocalRowsFollowGroups
        BY DEF Inv
      <4> QED BY <2>2, <4>1, <4>2 DEF LocalRowsFollowGroups
    <3> QED BY <3>1, <3>2
  <2>4. ServingMapIsCurrent' /\ PendingMapsAreRight'
    BY <2>1 DEF Inv, ServingMapIsCurrent, PendingMapsAreRight, MapIsCurrent, IsRight,
                OfTrack, Unannounced
  <2>5. (\A c \in Clients : DialogOf(request[c])') /\ NothingBeforeCopy' /\ SwitchKept
    BY <2>1 DEF Inv, DialogOf, NothingBeforeCopy, SwitchKept
  <2> QED BY <2>3, <2>4, <2>5 DEF Inv
<1> QED BY <1>1, <1>2, <1>3, <1>4, <1>5, <1>6 DEF Administrators

LEMMA MachinesKeep ==
  ASSUME Inv, Machines
  PROVE  Inv' /\ SwitchKept
<1> USE Constants
<1>0. /\ request \in [Clients -> Request \cup {Idle}]
      /\ brake \in [Nodes -> [Groups -> BOOLEAN \cup {NoRow}]]
      /\ member \in [Nodes -> [Instances -> Groups \cup {NoGroup}]]
      /\ cachedGroups \in [Nodes -> GroupMap \cup {NoMap}]
      /\ \A n \in Nodes, i \in Instances :
           member[n][i] # NoGroup => groups[n][member[n][i]] # NoRow
  BY DEF Inv, DistributedTypeOK, GroupCacheTypeOK, LocalRowsFollowGroups
<1>1. ASSUME NEW c \in Clients, NEW i \in Instances, RegisterInstance(c, i)
      PROVE  Inv' /\ SwitchKept
  <2> DEFINE r == request[c]
  <2>1. /\ r \in Request \cup {Idle} /\ r.at = "register" /\ Goes(c, Idle)
        /\ UNCHANGED <<groups, cachedGroups, brake, subscribed, feed, changes>>
        /\ member' = IF groups[r.node][r.group] = NoRow THEN member
                     ELSE [member EXCEPT ![r.node][i] = r.group]
    BY <1>0, <1>1 DEF RegisterInstance
  <2>2. r.node \in Nodes /\ r.group \in Groups
    BY <2>1, RequestFields
  <2>3. /\ member' \in [Nodes -> [Instances -> Groups \cup {NoGroup}]]
        /\ \A n \in Nodes, j \in Instances :
             member'[n][j] # NoGroup => groups[n][member'[n][j]] # NoRow
    <3>1. CASE groups[r.node][r.group] = NoRow
      BY <1>0, <2>1, <3>1
    <3>2. CASE groups[r.node][r.group] # NoRow
      BY <1>0, <2>1, <2>2, <3>2
    <3> QED BY <3>1, <3>2
  <2> QED BY <1>0, <2>1, <2>3, GoingKeeps DEF DialogOf, Idle
<1>2. ASSUME NEW n \in Nodes, NEW g \in Groups, disableUpdates(n, g)
      PROVE  Inv' /\ SwitchKept
  <2>1. /\ brake[n][g] = FALSE /\ brake' = [brake EXCEPT ![n][g] = TRUE]
        /\ UNCHANGED <<groups, cachedGroups, request, member, subscribed, feed, changes>>
    BY <1>2 DEF disableUpdates, cacheVars
  <2>2. /\ brake' \in [Nodes -> [Groups -> BOOLEAN \cup {NoRow}]]
        /\ \A m \in Nodes, h \in Groups : brake'[m][h] = NoRow <=> brake[m][h] = NoRow
    BY <1>0, <2>1
  <2>3. DistributedTypeOK' /\ LocalRowsFollowGroups'
    <3>1. DistributedTypeOK'
      BY <2>1, <2>2 DEF Inv, DistributedTypeOK, GroupCacheTypeOK
    <3>2. LocalRowsFollowGroups'
      <4>1. groups' = groups /\ member' = member
        BY <2>1
      <4>2. LocalRowsFollowGroups
        BY DEF Inv
      <4> QED BY <2>2, <4>1, <4>2 DEF LocalRowsFollowGroups
    <3> QED BY <3>1, <3>2
  <2>4. ServingMapIsCurrent' /\ PendingMapsAreRight'
    BY <2>1 DEF Inv, ServingMapIsCurrent, PendingMapsAreRight, MapIsCurrent, IsRight,
                OfTrack, Unannounced
  <2>5. (\A c \in Clients : DialogOf(request[c])') /\ NothingBeforeCopy' /\ SwitchKept
    BY <2>1 DEF Inv, DialogOf, NothingBeforeCopy, SwitchKept
  <2> QED BY <2>3, <2>4, <2>5 DEF Inv
<1> QED BY <1>1, <1>2 DEF Machines

LEMMA ReplicationKeeps ==
  ASSUME Inv, Replication
  PROVE  Inv' /\ SwitchKept
<1> USE Constants
<1>1. SUFFICES ASSUME NEW e \in Edges, Subscribe(e) \/ Apply(e)
               PROVE  Inv' /\ SwitchKept
  BY DEF Replication
<1>2. e \in Nodes /\ e # Hub
  OBVIOUS
<1>3. /\ groups \in [Nodes -> [Groups -> Row \cup {NoRow}]]
      /\ brake \in [Nodes -> [Groups -> BOOLEAN \cup {NoRow}]]
      /\ member \in [Nodes -> [Instances -> Groups \cup {NoGroup}]]
      /\ feed \in [Edges -> Seq(Change)] /\ subscribed \subseteq Edges
      /\ UNCHANGED <<cachedGroups, request, changes>>
  <2>1. UNCHANGED <<cachedGroups, request, changes>>
    BY <1>1 DEF Subscribe, Apply
  <2> QED BY <2>1 DEF Inv, DistributedTypeOK, GroupCacheTypeOK
<1>4. PICK rows \in [Groups -> Row \cup {NoRow}] :
        /\ groups' = [groups EXCEPT ![e] = rows]
        /\ brake' = [brake EXCEPT ![e] = LocalRows(groups'[e], @)]
  <2>1. CASE Subscribe(e)
    BY <1>3, <2>1 DEF Subscribe
  <2>2. CASE Apply(e)
    <3>1. Head(feed[e]) \in Change
      BY <1>3, <2>2 DEF Apply
    <3>2. [groups[e] EXCEPT ![Head(feed[e]).group] = Head(feed[e]).row]
            \in [Groups -> Row \cup {NoRow}]
      BY <1>2, <1>3, <3>1 DEF Change
    <3>3. groups' = [groups EXCEPT ![e] =
                       [groups[e] EXCEPT ![Head(feed[e]).group] = Head(feed[e]).row]]
      BY <1>2, <1>3, <2>2 DEF Apply
    <3> QED BY <2>2, <3>2, <3>3 DEF Apply
  <2> QED BY <1>1, <2>1, <2>2
<1>5. /\ groups' \in [Nodes -> [Groups -> Row \cup {NoRow}]] /\ groups'[e] = rows
      /\ \A n \in Nodes \ {e} : groups'[n] = groups[n]
  BY <1>2, <1>3, <1>4
<1>6. /\ brake' \in [Nodes -> [Groups -> BOOLEAN \cup {NoRow}]]
      /\ brake'[e] = LocalRows(rows, brake[e])
      /\ \A n \in Nodes \ {e} : brake'[n] = brake[n]
  BY <1>2, <1>3, <1>4, <1>5, LocalRowsFollow
<1>7. /\ member' \in [Nodes -> [Instances -> Groups \cup {NoGroup}]]
      /\ \A i \in Instances : member'[e][i] # NoGroup => rows[member'[e][i]] # NoRow
      /\ \A n \in Nodes \ {e} : member'[n] = member[n]
  <2>1. CASE Subscribe(e)
    <3>1. member' = member /\ \A g \in Groups : groups[e][g] = NoRow
      BY <2>1 DEF Subscribe, Inv, NothingBeforeCopy
    <3>2. \A i \in Instances : member[e][i] = NoGroup
      BY <1>2, <1>3, <3>1 DEF Inv, LocalRowsFollowGroups
    <3> QED BY <1>3, <3>1, <3>2
  <2>2. CASE Apply(e)
    <3>1. member' = [member EXCEPT ![e] = Members(rows, member[e])]
      BY <1>5, <2>2 DEF Apply
    <3>2. member[e] \in [Instances -> Groups \cup {NoGroup}]
      BY <1>2, <1>3
    <3>3. member'[e] = Members(rows, member[e])
      BY <1>2, <1>3, <3>1
    <3> QED BY <1>2, <1>3, <3>1, <3>2, <3>3, MembersFollow
  <2> QED BY <1>1, <2>1, <2>2
<1>8. feed' \in [Edges -> Seq(Change)] /\ subscribed' \subseteq Edges /\ NothingBeforeCopy'
  <2>1. CASE Subscribe(e)
    BY <1>3, <1>5, <2>1 DEF Subscribe, Inv, NothingBeforeCopy
  <2>2. CASE Apply(e)
    <3>1. e \in subscribed
      BY <2>2 DEF Apply, Inv, NothingBeforeCopy
    <3>2. feed[e] \in Seq(Change) /\ feed[e] # <<>> /\ Tail(feed[e]) \in Seq(Change)
      BY <1>3, <2>2 DEF Apply
    <3>3. feed' = [feed EXCEPT ![e] = Tail(feed[e])] /\ subscribed' = subscribed
      BY <2>2 DEF Apply
    <3> QED BY <1>3, <1>5, <3>1, <3>2, <3>3 DEF Inv, NothingBeforeCopy
  <2> QED BY <1>1, <2>1, <2>2
<1>9. DistributedTypeOK'
  BY <1>3, <1>5, <1>6, <1>7, <1>8 DEF Inv, DistributedTypeOK, GroupCacheTypeOK
<1>10. LocalRowsFollowGroups'
  <2> SUFFICES ASSUME NEW n \in Nodes
               PROVE  /\ \A h \in Groups : groups'[n][h] = NoRow <=> brake'[n][h] = NoRow
                      /\ \A i \in Instances :
                           member'[n][i] # NoGroup => groups'[n][member'[n][i]] # NoRow
    BY DEF LocalRowsFollowGroups
  <2>1. CASE n = e
    <3>1. \A h \in Groups : groups'[e][h] = NoRow <=> brake'[e][h] = NoRow
      <4>1. brake[e] \in [Groups -> BOOLEAN \cup {NoRow}]
        BY <1>2, <1>3
      <4>2. \A h \in Groups : rows[h] = NoRow <=> LocalRows(rows, brake[e])[h] = NoRow
        BY <4>1, LocalRowsFollow
      <4> QED BY <1>5, <1>6, <4>2
    <3> QED BY <1>5, <1>7, <2>1, <3>1
  <2>2. CASE n # e
    <3>1. groups'[n] = groups[n] /\ brake'[n] = brake[n] /\ member'[n] = member[n]
      BY <1>5, <1>6, <1>7, <2>2
    <3>2. /\ \A h \in Groups : groups[n][h] = NoRow <=> brake[n][h] = NoRow
          /\ \A i \in Instances : member[n][i] # NoGroup => groups[n][member[n][i]] # NoRow
      BY DEF Inv, LocalRowsFollowGroups
    <3> QED BY <3>1, <3>2
  <2> QED BY <2>1, <2>2
<1>11. ServingMapIsCurrent' /\ PendingMapsAreRight'
  <2>1. groups'[Hub] = groups[Hub]
    BY <1>2, <1>5
  <2>2. Unannounced(Hub)' = Unannounced(Hub)
    BY <1>3 DEF Unannounced
  <2>3. \A map : IsRight(Hub, map) => IsRight(Hub, map)'
    BY <2>1, <2>2, RightStays
  <2> QED BY <1>3, <2>3 DEF Inv, ServingMapIsCurrent, MapIsCurrent, PendingMapsAreRight
<1>12. (\A c \in Clients : DialogOf(request[c])') /\ SwitchKept
  BY <1>3 DEF Inv, DialogOf, SwitchKept
<1> QED BY <1>8, <1>9, <1>10, <1>11, <1>12 DEF Inv

-----------------------------------------------------------------------------
LEMMA InvInit == Init => Inv
<1> SUFFICES ASSUME Init PROVE Inv
  OBVIOUS
<1> USE Constants DEF Init, CacheInit
<1>1. DistributedTypeOK
  BY DEF DistributedTypeOK, GroupCacheTypeOK
<1>2. LocalRowsFollowGroups /\ NothingBeforeCopy /\ ServingMapIsCurrent
  BY DEF LocalRowsFollowGroups, NothingBeforeCopy, ServingMapIsCurrent, MapIsCurrent
<1>3. PendingMapsAreRight /\ \A c \in Clients : DialogOf(request[c])
  BY DEF PendingMapsAreRight, DialogOf, Idle
<1> QED BY <1>1, <1>2, <1>3 DEF Inv

LEMMA InvStep == Inv /\ [Next]_vars => Inv' /\ [SwitchKept]_vars
<1> SUFFICES ASSUME Inv, [Next]_vars PROVE Inv' /\ [SwitchKept]_vars
  OBVIOUS
<1>1. CASE Next
  BY <1>1, CacheKeeps, RestartKeeps, MachinesKeep, AdministratorsKeep, ReplicationKeeps
     DEF Next, Restarts
<1>2. CASE UNCHANGED vars
  <2>1. UNCHANGED <<groups, cachedGroups, request, brake, member, subscribed, feed, changes>>
    BY <1>2 DEF vars, cacheVars, localVars
  <2>2. DistributedTypeOK' /\ LocalRowsFollowGroups' /\ NothingBeforeCopy'
    BY <2>1 DEF Inv, DistributedTypeOK, GroupCacheTypeOK, LocalRowsFollowGroups, NothingBeforeCopy
  <2>3. ServingMapIsCurrent' /\ PendingMapsAreRight' /\ \A c \in Clients : DialogOf(request[c])'
    BY <2>1 DEF Inv, ServingMapIsCurrent, PendingMapsAreRight, MapIsCurrent, IsRight,
                OfTrack, Unannounced, DialogOf
  <2> QED BY <1>2, <2>2, <2>3 DEF Inv
<1> QED BY <1>1, <1>2

(* The inductive invariant.                                                *)
THEOREM AlwaysInv == Spec => []Inv
BY InvInit, InvStep, PTL DEF Spec

(* Every variable of the nodes keeps its type.                             *)
THEOREM TypesKept == Spec => []DistributedTypeOK
<1>1. Inv => DistributedTypeOK
  BY DEF Inv
<1> QED BY <1>1, AlwaysInv, PTL

(* On every node the triggers keep group_local and the machines' groups in *)
(* step with the replicated groups.                                        *)
THEOREM LocalRowsKept == Spec => []LocalRowsFollowGroups
<1>1. Inv => LocalRowsFollowGroups
  BY DEF Inv
<1> QED BY <1>1, AlwaysInv, PTL

(* The control node's map of tracks leaves out or misplaces only groups    *)
(* whose change is about to be announced.                                  *)
THEOREM ServingMapKept == Spec => []ServingMapIsCurrent
<1>1. Inv => ServingMapIsCurrent
  BY DEF Inv
<1> QED BY <1>1, AlwaysInv, PTL

(* A brake that the control node tripped for itself never gets into the    *)
(* switch that is replicated.                                              *)
THEOREM SwitchIsAdministrators == Spec => BrakeStaysLocal
<1>1. SwitchKept <=>
        \A c \in Clients :
          LET r == request[c]
              was == groups[r.node][r.group]
              is == groups'[r.node][r.group]
          IN /\ r.at = "save" /\ r.row.enabled = r.shown
             /\ request'[c] # r /\ was # NoRow /\ is # NoRow /\ was.enabled = r.was
             => is.enabled = was.enabled
  BY DEF SwitchKept
<1> QED BY <1>1, AlwaysInv, InvStep, PTL DEF Spec, BrakeStaysLocal
=============================================================================
