---------------------------- MODULE Distributed -----------------------------
(***************************************************************************)
(* Control and edge nodes.  Administrators change groups at the control    *)
(* node; PostgreSQL replicates the table to the edges, change by change.   *)
(* What a node finds out while it serves machines stays in its own         *)
(* database: group_local with the safe-mode brake, and the machines'       *)
(* groups.  Triggers keep those in step with the replicated groups.        *)
(***************************************************************************)
EXTENDS GroupCache, Sequences

CONSTANTS Hub,        \* the node in mode control; the others are in mode edge
          Instances,
          MaxChanges  \* bound: changes that administrators make

ASSUME DistributedAssumption == Hub \in Nodes /\ MaxChanges \in Nat

VARIABLES brake,      \* group_local: override of policy_updates_enabled, by node
          member,     \* the group of each machine that a node has seen
          subscribed, \* edges whose initial copy is done
          feed,       \* changes under way to each edge
          changes

localVars == <<brake, member, subscribed, feed>>
vars == <<cacheVars, localVars, changes>>

Edges == Nodes \ {Hub}

Change == [group : Groups, row : Row \cup {NoRow}]

DistributedTypeOK ==
  /\ GroupCacheTypeOK
  /\ brake \in [Nodes -> [Groups -> BOOLEAN \cup {NoRow}]]
  /\ member \in [Nodes -> [Instances -> Groups \cup {NoGroup}]]
  /\ subscribed \subseteq Edges
  /\ feed \in [Edges -> Seq(Change)]
  /\ changes \in 0..MaxChanges

Init ==
  /\ CacheInit
  /\ brake = [n \in Nodes |-> [g \in Groups |-> NoRow]]
  /\ member = [n \in Nodes |-> [i \in Instances |-> NoGroup]]
  /\ subscribed = {}
  /\ feed = [e \in Edges |-> <<>>]
  /\ changes = 0

----------------------------------------------------------------------------
\* The database.  brake has FALSE for a group whose updates go by the
\* administrator's switch and TRUE for one whose brake was tripped.

\* Mutant of Members: machines are left to the foreign key, which is no part of
\* what is replicated.
MembersKept(rows, members) == members

\* Trigger groups_create_group_local, and the cascade of a group's deletion;
\* the machines of a deleted group are left without one.
LocalRows(rows, overrides) ==
  [g \in Groups |-> IF rows[g] = NoRow THEN NoRow
                    ELSE IF overrides[g] = NoRow THEN FALSE ELSE overrides[g]]
Members(rows, members) ==
  [i \in Instances |-> IF members[i] # NoGroup /\ rows[members[i]] = NoRow
                       THEN NoGroup ELSE members[i]]

\* What an administrator's statement brings about in the control node's
\* database.
Commit(g) ==
  /\ brake' = [brake EXCEPT ![Hub] = LocalRows(groups'[Hub], @)]
  /\ member' = [member EXCEPT ![Hub] = Members(groups'[Hub], @)]
  /\ feed' = [e \in Edges |-> IF e \in subscribed
                             THEN Append(feed[e], [group |-> g, row |-> groups'[Hub][g]])
                             ELSE feed[e]]
  /\ changes' = changes + 1
  /\ UNCHANGED subscribed

\* The subscription's initial copy; the trigger is ENABLE ALWAYS.
Subscribe(e) ==
  /\ e \in Edges \ subscribed
  /\ groups' = [groups EXCEPT ![e] = groups[Hub]]
  /\ brake' = [brake EXCEPT ![e] = LocalRows(groups'[e], @)]
  /\ subscribed' = subscribed \cup {e}
  /\ UNCHANGED <<cachedGroups, request, member, feed, changes>>

\* The next change reaches an edge.  Foreign keys do nothing there: the
\* triggers ENABLE REPLICA of migration 0024 do what a cascade would.
Apply(e) ==
  /\ feed[e] # <<>>
  /\ groups' = [groups EXCEPT ![e][Head(feed[e]).group] = Head(feed[e]).row]
  /\ feed' = [feed EXCEPT ![e] = Tail(@)]
  /\ brake' = [brake EXCEPT ![e] = LocalRows(groups'[e], @)]
  /\ member' = [member EXCEPT ![e] = Members(groups'[e], @)]
  /\ UNCHANGED <<cachedGroups, request, subscribed, changes>>

----------------------------------------------------------------------------
\* Machines.

\* The machine is registered in the group that was looked up, if it is there.
RegisterInstance(c, i) ==
  LET r == request[c] IN
  /\ r.at = "register"
  /\ member' = IF groups[r.node][r.group] = NoRow THEN member
               ELSE [member EXCEPT ![r.node][i] = r.group]
  /\ Goes(c, Idle)
  /\ UNCHANGED <<groups, cachedGroups, brake, subscribed, feed, changes>>

\* Safe mode trips the brake of a group with machines.
disableUpdates(n, g) ==
  /\ \E i \in Instances : member[n][i] = g
  /\ brake[n][g] = FALSE
  /\ brake' = [brake EXCEPT ![n][g] = TRUE]
  /\ UNCHANGED <<cacheVars, member, subscribed, feed, changes>>

----------------------------------------------------------------------------
\* Administrators.

\* Mutant of Presented: the effective policy is shown, as groupsQuery has it.
PresentedEffective(n, g) == groups[n][g].enabled /\ ~brake[n][g]

\* A distributed node shows the administrator's switch, not the effective
\* policy.
Presented(n, g) == groups[n][g].enabled

\* The dialog shows a group ...
OpenDialog(c, g) ==
  /\ request[c] = Idle
  /\ groups[Hub][g] # NoRow
  /\ Goes(c, [at |-> "edit", node |-> Hub, group |-> g,
              was |-> groups[Hub][g].enabled, shown |-> Presented(Hub, g)])
  /\ UNCHANGED <<groups, cachedGroups, localVars, changes>>

\* ... and is saved with the switch and the track as they were or changed.
\* The handler reads the group before it updates it.
SaveDialog(c, row) ==
  LET r == request[c] IN
  /\ r.at = "edit"
  /\ Goes(c, IF groups[Hub][r.group] = NoRow THEN Idle
             ELSE [at |-> "save", node |-> Hub, group |-> r.group,
                   was |-> r.was, shown |-> r.shown, row |-> row])
  /\ UNCHANGED <<groups, cachedGroups, localVars, changes>>

\* The statements that change the table, with what they bring about.
AdminAdds(c, g, row) == changes < MaxChanges /\ AddGroup(c, Hub, g, row) /\ Commit(g)
AdminDeletes(c, g) == changes < MaxChanges /\ DeleteGroup(c, Hub, g) /\ Commit(g)
AdminSaves(c) ==
  /\ UpdateGroup(c)
  /\ IF groups[Hub][request[c].group] = NoRow
     THEN UNCHANGED <<localVars, changes>>
     ELSE changes < MaxChanges /\ Commit(request[c].group)

\* DELETE .../updates_override, on any node.
ClearUpdatesEnabledOverride(n, g) ==
  /\ brake[n][g] = TRUE
  /\ brake' = [brake EXCEPT ![n][g] = FALSE]
  /\ UNCHANGED <<cacheVars, member, subscribed, feed, changes>>

----------------------------------------------------------------------------
Cache == /\ \E c \in Clients : \/ \E n \in Nodes, t \in Tracks : LookUp(c, n, t) \/ Scan(c, n, t)
                            \/ Publish(c)
                            \/ UpdateCachedGroups(c)
         /\ UNCHANGED <<localVars, changes>>
Restarts == (\E n \in Nodes : Restart(n)) /\ UNCHANGED <<localVars, changes>>

Machines ==
  \/ \E c \in Clients, i \in Instances : RegisterInstance(c, i)
  \/ \E n \in Nodes, g \in Groups : disableUpdates(n, g)

Administrators ==
  \/ \E c \in Clients, g \in Groups : OpenDialog(c, g) \/ AdminDeletes(c, g)
  \/ \E c \in Clients, g \in Groups, row \in Row : AdminAdds(c, g, row)
  \/ \E c \in Clients, row \in Row : SaveDialog(c, row)
  \/ \E c \in Clients : AdminSaves(c)
  \/ \E n \in Nodes, g \in Groups : ClearUpdatesEnabledOverride(n, g)

Replication == \E e \in Edges : Subscribe(e) \/ Apply(e)

Next == Cache \/ Restarts \/ Machines \/ Administrators \/ Replication
Spec == Init /\ [][Next]_vars

----------------------------------------------------------------------------
\* On every node a group has its row of group_local as long as it exists, as
\* the inner join of groupsQuery takes for granted, and no machine belongs to
\* a group that is gone, whichever came first, the machine's request or the
\* group's deletion.
LocalRowsFollowGroups ==
  \A n \in Nodes :
    /\ \A g \in Groups : groups[n][g] = NoRow <=> brake[n][g] = NoRow
    /\ \A i \in Instances : member[n][i] # NoGroup => groups[n][member[n][i]] # NoRow

\* On the control node the map that machines are served from leaves out or
\* misplaces only groups whose change is about to be announced, however scans
\* and changes overlap.
ServingMapIsCurrent == MapIsCurrent(Hub)

\* A brake that the control node tripped for itself never gets into the
\* switch that is replicated: saving a dialog with the switch left as it was
\* shown changes nothing about it, unless it had been changed meanwhile.
BrakeStaysLocal ==
  [][\A c \in Clients :
       LET r == request[c]
           was == groups[r.node][r.group]
           is == groups'[r.node][r.group]
       IN /\ r.at = "save" /\ r.row.enabled = r.shown
          /\ request'[c] # r /\ was # NoRow /\ is # NoRow /\ was.enabled = r.was
          => is.enabled = was.enabled]_vars
=============================================================================
