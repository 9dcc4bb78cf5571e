----------------------------- MODULE GroupCache -----------------------------
(***************************************************************************)
(* A machine names its group by a track.  Each node keeps a map from       *)
(* tracks to groups, made from the whole table groups when there is none,  *)
(* and dropped when an administrator's request has changed a group.        *)
(* Administrators' requests and lookups overlap; the map has a lock.       *)
(***************************************************************************)
EXTENDS Integers, FiniteSets

CONSTANTS Nodes,    \* server processes, each with a database of its own
          Clients,  \* requests that can be in progress at a time
          Groups, Tracks,
          NoRow, NoGroup, NoMap, NoNode

\* The columns that matter here.  All groups are of one application and have a
\* channel of one architecture.
Row == [track : Tracks, enabled : BOOLEAN]

\* A map, and whether the table could be read when it was made.
GroupMap == [of : [Tracks -> Groups \cup {NoGroup}], read : BOOLEAN]

Request ==
  [at : {"publish"}, node : Nodes, track : Tracks, map : GroupMap]
    \cup [at : {"register"}, node : Nodes, group : Groups]
    \cup [at : {"edit"}, node : Nodes, group : Groups, was : BOOLEAN, shown : BOOLEAN]
    \cup [at : {"save"}, node : Nodes, group : Groups, was : BOOLEAN, shown : BOOLEAN, row : Row]
    \cup [at : {"announce"}, node : Nodes, group : Groups]
Idle == [at |-> "idle", node |-> NoNode]

ASSUME GroupCacheAssumption ==
  /\ NoRow \notin Row \cup BOOLEAN
  /\ NoGroup \notin Groups
  /\ NoMap \notin GroupMap

VARIABLES groups,        \* table groups of each node
          cachedGroups,  \* the map of each node, or NoMap
          request        \* what each request in progress is about to do

cacheVars == <<groups, cachedGroups, request>>

GroupCacheTypeOK ==
  /\ groups \in [Nodes -> [Groups -> Row \cup {NoRow}]]
  /\ cachedGroups \in [Nodes -> GroupMap \cup {NoMap}]
  /\ request \in [Clients -> Request \cup {Idle}]

CacheInit ==
  /\ groups = [n \in Nodes |-> [g \in Groups |-> NoRow]]
  /\ cachedGroups = [n \in Nodes |-> NoMap]
  /\ request = [c \in Clients |-> Idle]

Goes(c, to) == request' = [request EXCEPT ![c] = to]

OfTrack(n, t) == {g \in Groups : groups[n][g] # NoRow /\ groups[n][g].track = t}

\* The maps a scan of the table can end in: of several groups with one track
\* the last one met stays, and the rows come in no particular order.  When
\* the scan fails the map stays empty, and is kept all the same.
Scans(n) ==
  {[of |-> m, read |-> TRUE] : m \in
     {m \in [Tracks -> Groups \cup {NoGroup}] :
        \A t \in Tracks : IF OfTrack(n, t) = {} THEN m[t] = NoGroup
                                                ELSE m[t] \in OfTrack(n, t)}}
    \cup {[of |-> [t \in Tracks |-> NoGroup], read |-> FALSE]}

\* The request that holds the lock of the node's map, if any.
Filling(n) == \E c \in Clients : request[c].at = "publish" /\ request[c].node = n

\* Mutant of Found: the lookup of an unknown track does not fail.
FoundAnyway(n, group) == [at |-> "register", node |-> n, group |-> group]

Found(n, group) ==
  IF group = NoGroup THEN Idle ELSE [at |-> "register", node |-> n, group |-> group]

\* A lookup when there is a map.
LookUp(c, n, t) ==
  /\ request[c] = Idle
  /\ cachedGroups[n] # NoMap /\ ~Filling(n)
  /\ Goes(c, Found(n, cachedGroups[n].of[t]))
  /\ UNCHANGED <<groups, cachedGroups>>

\* A lookup when there is none: the table is read under the lock ...
Scan(c, n, t) ==
  /\ request[c] = Idle
  /\ cachedGroups[n] = NoMap /\ ~Filling(n)
  /\ \E map \in Scans(n) :
       Goes(c, [at |-> "publish", node |-> n, track |-> t, map |-> map])
  /\ UNCHANGED <<groups, cachedGroups>>

\* ... and the map stored.
Publish(c) ==
  /\ request[c].at = "publish"
  /\ cachedGroups' = [cachedGroups EXCEPT ![request[c].node] = request[c].map]
  /\ Goes(c, Found(request[c].node, request[c].map.of[request[c].track]))
  /\ UNCHANGED groups

----------------------------------------------------------------------------
\* Administrators' requests change a row and announce the change.

Announcing(n, g) == [at |-> "announce", node |-> n, group |-> g]

AddGroup(c, n, g, row) ==
  /\ request[c] = Idle
  /\ groups[n][g] = NoRow
  /\ groups' = [groups EXCEPT ![n][g] = row]
  /\ Goes(c, Announcing(n, g))
  /\ UNCHANGED cachedGroups

\* UpdateGroup after its reads; a row deleted meanwhile is not found.
UpdateGroup(c) ==
  LET r == request[c] IN
  /\ r.at = "save"
  /\ IF groups[r.node][r.group] = NoRow
     THEN UNCHANGED groups /\ Goes(c, Idle)
     ELSE /\ groups' = [groups EXCEPT ![r.node][r.group] = r.row]
          /\ Goes(c, Announcing(r.node, r.group))
  /\ UNCHANGED cachedGroups

DeleteGroup(c, n, g) ==
  /\ request[c] = Idle
  /\ groups[n][g] # NoRow
  /\ groups' = [groups EXCEPT ![n][g] = NoRow]
  /\ Goes(c, Announcing(n, g))
  /\ UNCHANGED cachedGroups

\* Mutant of UpdateCachedGroups: it does not wait for a scan to end.
UpdateCachedGroupsAtOnce(c) ==
  LET r == request[c] IN
  /\ r.at = "announce"
  /\ cachedGroups' = [cachedGroups EXCEPT ![r.node] = NoMap]
  /\ Goes(c, Idle)
  /\ UNCHANGED groups

UpdateCachedGroups(c) ==
  LET r == request[c] IN
  /\ r.at = "announce" /\ ~Filling(r.node)
  /\ cachedGroups' = [cachedGroups EXCEPT ![r.node] = NoMap]
  /\ Goes(c, Idle)
  /\ UNCHANGED groups

\* The process stops and starts again; a dialog stays open in its browser.
Restart(n) ==
  /\ cachedGroups' = [cachedGroups EXCEPT ![n] = NoMap]
  /\ request' = [c \in Clients |->
       IF request[c].node = n /\ request[c].at # "edit" THEN Idle ELSE request[c]]
  /\ UNCHANGED groups

----------------------------------------------------------------------------
\* Groups changed at a node by requests that have yet to announce it.
Unannounced(n) ==
  {g \in Groups : \E c \in Clients :
     request[c].at = "announce" /\ request[c].node = n /\ request[c].group = g}

\* A map is right when it has each track's group, up to unannounced changes
\* and to which of several groups with one track it has.
IsRight(n, map) ==
  \A t \in Tracks :
    IF map.of[t] = NoGroup
    THEN map.read => OfTrack(n, t) \subseteq Unannounced(n)
    ELSE map.of[t] \in OfTrack(n, t) \cup Unannounced(n)

MapIsCurrent(n) == cachedGroups[n] # NoMap => IsRight(n, cachedGroups[n])
=============================================================================
