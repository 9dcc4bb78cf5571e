------------------------------ MODULE Timeline ------------------------------
(***************************************************************************)
(* GetGroupVersionCountTimeline of api/internal/dbreads/groups.go: how many *)
(* instances of a group ran each version at points of the recent past.  It *)
(* is put together from three queries that run side by side, each with a   *)
(* snapshot of the database and a now() of its own, while instances check  *)
(* in, are granted updates, complete them and move to other groups.        *)
(*                                                                         *)
(* A version is named by the completed update that brought it.  No two     *)
(* things happen at one instant: events have odd times, queries even ones. *)
(***************************************************************************)
EXTENDS Integers, FiniteSets, Sequences, Functions

CONSTANTS Instances,    \* numbers, for their order in the queries
          Movers,       \* bound: those of them that are ever in another group
          Group, Other, \* the group of the chart; any other, of any application
          Duration,     \* the time the chart is about
          Interval,     \* between two of its points
          DeadInstance, \* deadInstanceTimeSpan
          Lifespan,     \* CachedGroupVersionCountLifespan
          PastTimes,    \* when things may have happened before the model starts
          MaxTime,      \* bound
          Unknown       \* nothing yet; the version of an instance never updated

ASSUME TimelineAssumption ==
  /\ Instances \subseteq Nat /\ IsFiniteSet(Instances) /\ Movers \subseteq Instances
  /\ {Duration, DeadInstance, MaxTime} \subseteq Nat /\ Interval \in Nat \ {0}
  /\ Duration % 2 = 0 /\ Duration % Interval = 0
  /\ Duration < DeadInstance
  /\ PastTimes \subseteq Int /\ IsFiniteSet(PastTimes)
  /\ \A t \in PastTimes : t < 0 /\ t % 2 = 1
  /\ Unknown \notin Int

VARIABLES now,
          rows,     \* table instance_application
          history,  \* instance_status_history: each instance's completed updates
          queries,  \* the chart's three queries: not run yet, or their results
          chart,    \* what was made of them, or Unknown
          cached,   \* when the chart in the cache was put there, or Unknown
          touched   \* history: instances with a write since the chart was begun

tables == <<rows, history>>
vars == <<now, tables, queries, chart, cached, touched>>

Times == PastTimes \cup 0..MaxTime

\* since: last_update_granted_ts, or created_ts as long as there is none.
Row == [group : {Group, Other}, since : Times, checked : Times]
Completed == [at : Times, group : {Group, Other}]

\* One instance counted at a point: by which query, and for which version.
Count == [inst : Instances, version : Times \cup {Unknown}, by : 1..3]

Points(t) == {t - Duration + k * Interval : k \in 0..(Duration \div Interval)}

TimelineTypeOK ==
  /\ now \in 0..MaxTime
  /\ rows \in [Instances -> Row \cup {Unknown}]
  /\ \A i \in Instances : history[i] \subseteq Completed
  /\ \A q \in 1..3 : queries[q] # Unknown => queries[q].asOf \in 0..now
  /\ chart # Unknown => /\ DOMAIN chart = Points(queries[1].asOf)
                        /\ \A t \in DOMAIN chart : chart[t] \subseteq Count
  /\ cached \in 0..now \cup {Unknown}
  /\ touched \subseteq Instances

\* Tables as they can be: the last grant is later than all completed updates
\* but the last, and was made at a check.  Bound: two completed updates.
GroupsOf(i) == IF i \in Movers THEN {Group, Other} ELSE {Group}
PastHistories(i) ==
  {h \in SUBSET [at : PastTimes, group : GroupsOf(i)] :
     /\ Cardinality(h) =< 2
     /\ \A c, d \in h : c.at = d.at => c = d}
Past(i) ==
  {[row |-> Unknown, history |-> {}]} \cup
  {p \in [row : [group : GroupsOf(i), since : PastTimes, checked : PastTimes],
          history : PastHistories(i)] :
     /\ p.row.since =< p.row.checked
     /\ \A c, d \in p.history : c.at < d.at => c.at < p.row.since}

Init ==
  /\ now = 0
  /\ \E past \in {f \in [Instances -> UNION {Past(i) : i \in Instances}] :
                   \A i \in Instances : f[i] \in Past(i)} :
       /\ rows = [i \in Instances |-> past[i].row]
       /\ history = [i \in Instances |-> past[i].history]
  /\ queries = [q \in 1..3 |-> Unknown]
  /\ chart = Unknown
  /\ cached = Unknown
  /\ touched = {}

Tick ==
  /\ now < MaxTime
  /\ now' = now + 1
  /\ UNCHANGED <<tables, queries, chart, cached, touched>>

----------------------------------------------------------------------------
\* What happens to instances, at odd times and at most once to each.  A check
\* that brings a grant has renewed the row's last check; one that renewed
\* nothing, minutes after the last, is no step.

Quiet(i) == now % 2 = 1 /\ i \notin touched

Writes(i) == touched' = touched \cup {i} /\ UNCHANGED <<now, queries, chart, cached>>

RegisterInstance(i, group) ==
  /\ Quiet(i)
  /\ rows' = [rows EXCEPT ![i] =
       [group |-> group, checked |-> now,
        since |-> IF rows[i] = Unknown THEN now ELSE rows[i].since]]
  /\ UNCHANGED history
  /\ Writes(i)

GrantUpdate(i) ==
  /\ Quiet(i)
  /\ rows[i] # Unknown
  /\ rows' = [rows EXCEPT ![i].since = now, ![i].checked = now]
  /\ UNCHANGED history
  /\ Writes(i)

CompleteUpdate(i) ==
  /\ Quiet(i)
  /\ rows[i] # Unknown
  /\ \A c \in history[i] : c.at < rows[i].since
  /\ history' = [history EXCEPT ![i] = @ \cup {[at |-> now, group |-> rows[i].group]}]
  /\ UNCHANGED rows
  /\ Writes(i)

----------------------------------------------------------------------------
\* The chart.

Fresh == IF cached = Unknown THEN FALSE ELSE now - cached < Lifespan

\* There is no chart in the cache, or it is too old.  A chart that nothing has
\* been done for is not begun once more.
Begin ==
  /\ now % 2 = 0 /\ ~Fresh
  /\ chart # Unknown \/ touched # {}
  /\ queries' = [q \in 1..3 |-> Unknown]
  /\ chart' = Unknown
  /\ touched' = {}
  /\ UNCHANGED <<now, tables, cached>>

Within(t, span) == t >= now - span

\* Rows of the group's instances that were seen within the chart's time.
Active == {i \in Instances : rows[i] # Unknown /\ rows[i].group = Group
                             /\ Within(rows[i].checked, Duration)}

Updated(i, group, span) == {c \in history[i] : c.group \in group /\ Within(c.at, span)}

\* Query 1: instances without a completed update in the group.
InstancesWithoutStatus ==
  {[inst |-> i, since |-> rows[i].since] :
     i \in {j \in Active : Updated(j, {Group}, DeadInstance) = {}}}

\* Query 2: completed updates in the chart's time, by instance, latest first.
InstanceWithStatusHistoryInInterval ==
  UNION {{[inst |-> i, at |-> c.at] : c \in Updated(i, {Group}, Duration)} : i \in Active}

Before(c, d) == c.inst < d.inst \/ (c.inst = d.inst /\ c.at > d.at)

InOrder(found) ==
  {s \in Bijection(1..Cardinality(found), found) :
     \A j, k \in DOMAIN s : j < k => Before(s[j], s[k])}

\* Query 3: the last completed update of the others, whatever group it was in.
InstancesWithoutStatusInInterval ==
  LET older(i) == Updated(i, {Group, Other}, DeadInstance) IN
  {[inst |-> i, at |-> CHOOSE at \in {c.at : c \in older(i)} :
                         \A c \in older(i) : c.at =< at] :
     i \in {j \in Active : older(j) # {} /\ Updated(j, {Group, Other}, Duration) = {}}}

Answers(q) ==
  CASE q = 1 -> {InstancesWithoutStatus}
    [] q = 2 -> InOrder(InstanceWithStatusHistoryInInterval)
    [] q = 3 -> {InstancesWithoutStatusInInterval}

RunQuery(q) ==
  /\ now % 2 = 0
  /\ queries[q] = Unknown
  /\ \E found \in Answers(q) :
       queries' = [queries EXCEPT ![q] = [asOf |-> now, found |-> found]]
  /\ UNCHANGED <<now, tables, chart, cached, touched>>

\* updateVersionTimeline: the instance has the version at the points after from
\* and before to.
WithVersion(timeline, i, from, to) ==
  [t \in DOMAIN timeline |->
     IF from < t /\ t < to THEN timeline[t] \cup {[inst |-> i, version |-> from, by |-> 2]}
                           ELSE timeline[t]]

\* Mutant of AddUpdate: the next instance starts where the last one ended.
AddUpdateUnreset(acc, c) ==
  LET latest == IF acc.prev = Unknown THEN now + 1 ELSE acc.latest IN
  IF \E t \in DOMAIN acc.timeline : c.at > t
  THEN [timeline |-> WithVersion(acc.timeline, c.inst, c.at, latest),
        prev |-> c.inst, latest |-> c.at]
  ELSE [acc EXCEPT !.prev = c.inst, !.latest = latest]

\* Mutant of AddUpdate: an earlier version is counted up to the present.
AddUpdateToEnd(acc, c) ==
  [acc EXCEPT !.timeline = WithVersion(acc.timeline, c.inst, c.at, now + 1)]

\* The loop over Query 2: an update counts up to the instance's next one, or
\* to the server's present, which is later than all queries.
AddUpdate(acc, c) ==
  LET latest == IF acc.prev # c.inst THEN now + 1 ELSE acc.latest IN
  IF \E t \in DOMAIN acc.timeline : c.at > t
  THEN [timeline |-> WithVersion(acc.timeline, c.inst, c.at, latest),
        prev |-> c.inst, latest |-> c.at]
  ELSE [acc EXCEPT !.prev = c.inst, !.latest = latest]

Loop(timeline, found) ==
  LET acc[k \in 0..Len(found)] ==
        IF k = 0 THEN [timeline |-> timeline, prev |-> Unknown, latest |-> now + 1]
                 ELSE AddUpdate(acc[k - 1], found[k])
  IN acc[Len(found)].timeline

\* The results are put together.
NeverUpdated ==
  [t \in Points(queries[1].asOf) |->
     {[inst |-> r.inst, version |-> Unknown, by |-> 1] :
        r \in {s \in queries[1].found : s.since =< t}}]

LastUpdated == {[inst |-> r.inst, version |-> r.at, by |-> 3] : r \in queries[3].found}

PutTogether ==
  /\ chart = Unknown
  /\ \A q \in 1..3 : queries[q] # Unknown
  /\ LET timeline == Loop(NeverUpdated, queries[2].found)
     IN chart' = [t \in DOMAIN timeline |-> timeline[t] \cup LastUpdated]
  /\ UNCHANGED <<now, tables, queries, cached, touched>>

\* Mutant of Store: the time until which the chart is good is kept instead.
StoreUntil ==
  /\ chart # Unknown /\ ~Fresh
  /\ cached' = now + Lifespan
  /\ UNCHANGED <<now, tables, queries, chart, touched>>

\* A goroutine puts the chart into the cache after the answer.
Store ==
  /\ chart # Unknown /\ ~Fresh
  /\ cached' = now
  /\ UNCHANGED <<now, tables, queries, chart, touched>>

Next ==
  \/ Tick
  \/ \E i \in Instances : \/ \E g \in GroupsOf(i) : RegisterInstance(i, g)
                         \/ GrantUpdate(i) \/ CompleteUpdate(i)
  \/ Begin \/ (\E q \in 1..3 : RunQuery(q)) \/ PutTogether \/ Store

Spec == Init /\ [][Next]_vars

----------------------------------------------------------------------------
\* Instances that the queries saw in the same state: nothing was written of
\* them meanwhile, and none of their times passed a query's threshold between
\* the first query and the last.  Nor have they ever been in another group.
AsOf == {queries[q].asOf : q \in 1..3}
TimesOf(i) ==
  (IF rows[i] = Unknown THEN {} ELSE {rows[i].checked}) \cup {c.at : c \in history[i]}

Settled ==
  {i \in Instances \ touched :
     /\ rows[i] # Unknown => rows[i].group = Group
     /\ \A c \in history[i] : c.group = Group
     /\ \A s, t \in AsOf, x \in TimesOf(i), span \in {Duration, DeadInstance} :
          x >= s - span <=> x >= t - span}

CountsOf(i, t) == {c \in chart[t] : c.inst = i}
Newest == queries[1].asOf

\* At its last point the chart has every instance of the group that was seen
\* within its time, whichever of the three queries it is found by, and no
\* other: the queries overlap nowhere and leave no gap.
NewestCountIsExact ==
  chart # Unknown =>
    \A i \in Settled :
      Cardinality(CountsOf(i, Newest)) =
        IF rows[i] # Unknown /\ rows[i].checked >= Newest - Duration THEN 1 ELSE 0

\* At no point an instance has two versions, and the one it has is that of
\* its last completed update before that point, if it has completed any
\* that the queries go back to.
CountsAreOfTheirTime ==
  chart # Unknown =>
    \A i \in Settled, t \in DOMAIN chart :
      /\ Cardinality(CountsOf(i, t)) =< 1
      /\ \A c \in CountsOf(i, t), d \in history[i] :
           d.at < t /\ d.at >= Newest - DeadInstance =>
             c.version # Unknown /\ c.version >= d.at
=============================================================================
