-------------------------- MODULE RolloutRaceProofs --------------------------
(***************************************************************************)
(* Proofs about RolloutRace: what survives when the handlers interleave.   *)
(* The status no longer agrees with update_in_progress, so the rows' own   *)
(* invariant is weaker than in RolloutProofs; what the statistics need of  *)
(* a row, that its last check-in is not much older than its grant, holds   *)
(* because no request lasts longer than a tick.                            *)
(***************************************************************************)
EXTENDS RolloutRace, RolloutProofs

LooseRow(r) ==
  /\ r \in Row /\ SlackOf(r)
  /\ r.updateInProgress => r.status \in BusyStatus /\ r.grantAge # NULL

Loose(t) == t = [i \in Instances |-> t[i]] /\ \A i \in Instances : LooseRow(t[i])

LEMMA LooseTable == \A t : Loose(t) => t \in [Instances -> Row] /\ Dated(t)
BY DEF Loose, LooseRow, Dated

(* r may replace a row q: it is well-formed, and joins neither the updates *)
(* in flight nor those recently granted.                                   *)
Harmless(r, q) ==
  /\ LooseRow(r)
  /\ r.grantAge = q.grantAge /\ r.lost = q.lost
  /\ r.updateInProgress => q.updateInProgress

LEMMA CheckedInHarmless ==
  ASSUME NEW r, LooseRow(r), NEW v \in Versions
  PROVE  Harmless(CheckedIn(r, v), r) /\ CheckedIn(r, v).checkAge = 0
<1>1. CheckedIn(r, v) \in Row
  BY AgesNat DEF LooseRow, CheckedIn, Row
<1>2. /\ CheckedIn(r, v).checkAge = 0 /\ CheckedIn(r, v).grantAge = r.grantAge
      /\ CheckedIn(r, v).updateInProgress = r.updateInProgress
      /\ CheckedIn(r, v).status = r.status /\ CheckedIn(r, v).lost = r.lost
  BY DEF LooseRow, CheckedIn, Row
<1>3. SlackOf(CheckedIn(r, v))
  <2>1. r.grantAge # NULL => r.grantAge \in Nat
    BY AgesNat DEF LooseRow, Row
  <2> QED BY <1>2, <2>1, Constants DEF LooseRow, SlackOf
<1> QED BY <1>1, <1>2, <1>3 DEF Harmless, LooseRow

LEMMA WithStatusHarmless ==
  ASSUME NEW r, LooseRow(r), NEW s \in Status
  PROVE  Harmless(WithStatus(r, s), r) /\ WithStatus(r, s).checkAge = r.checkAge
<1>1. WithStatus(r, s) \in Row
  BY DEF LooseRow, WithStatus, Row
<1>2. /\ WithStatus(r, s).checkAge = r.checkAge /\ WithStatus(r, s).grantAge = r.grantAge
      /\ WithStatus(r, s).updateInProgress => r.updateInProgress /\ s \in BusyStatus
      /\ WithStatus(r, s).status = s /\ WithStatus(r, s).lost = r.lost
  BY DEF LooseRow, WithStatus, Row, Status
<1> QED BY <1>1, <1>2 DEF Harmless, LooseRow, SlackOf

LEMMA GrantedLoose ==
  ASSUME NEW r, LooseRow(r), NEW v \in Versions, r.checkAge =< Recent
  PROVE  LooseRow(Granted(r, v)) /\ Granted(r, v).checkAge = r.checkAge
<1>1. Granted(r, v) \in Row
  BY AgesNat DEF LooseRow, Granted, Row, Status, BusyStatus
<1>2. /\ Granted(r, v).checkAge = r.checkAge /\ Granted(r, v).grantAge = 0
      /\ Granted(r, v).status \in BusyStatus /\ ~Granted(r, v).lost
  BY DEF LooseRow, Granted, Row, BusyStatus
<1>3. 0 # NULL
  BY Nulls, AgesNat
<1>4. r.checkAge \in Nat
  BY AgesNat DEF LooseRow, Row
<1>5. SlackOf(Granted(r, v))
  BY <1>2, <1>4, Constants DEF SlackOf
<1> QED BY <1>1, <1>2, <1>3, <1>5 DEF LooseRow

LEMMA AgedLoose ==
  ASSUME NEW r, LooseRow(r)
  PROVE  LooseRow(Aged(r))
<1>0. \A a \in Ages : Older(a) \in Ages /\ a =< Older(a) /\ Older(a) # NULL
  BY Constants, Nulls DEF Ages, Older
<1>1. Aged(r) \in Row
  BY <1>0 DEF LooseRow, Aged, Row
<1>2. SlackOf(Aged(r))
  BY AgedSlack DEF LooseRow
<1> QED BY <1>0, <1>1, <1>2 DEF LooseRow, Aged, Row

-----------------------------------------------------------------------------
(* The invariant.  A check's instance has checked in since the last tick.  *)

RequestOK(w) ==
  req[w] # NULL =>
    /\ req[w] \in Request
    /\ req[w].step \in CheckSteps => rows[req[w].inst].checkAge =< Recent
    /\ req[w].step \in {"readGroup", "count", "grant"} => req[w].version \in Versions
    /\ req[w].step = "writeStatus" => req[w].status \in Status

RaceState ==
  /\ Loose(rows)
  /\ policy \in Policies /\ channel \in ChannelConfigs
  /\ brake \in BOOLEAN /\ rolloutInProgress \in BOOLEAN
  /\ req = [w \in Workers |-> req[w]]
  /\ \A w \in Workers : RequestOK(w)

(* What a step does to the table: it replaces at most one row, by one that *)
(* was seen no longer ago.                                                 *)
RowsKept(i, r) ==
  /\ rows' = [rows EXCEPT ![i] = r]
  /\ LooseRow(r)
  /\ r.checkAge =< Recent \/ r.checkAge = rows[i].checkAge


(* One request of worker w has moved on, or ended, and one row at most has *)
(* changed.                                                                *)
LEMMA RequestsKept ==
  ASSUME RaceState, NEW w \in Workers, NEW x, req' = [req EXCEPT ![w] = x],
         UNCHANGED rows \/ \E i \in Instances : \E r : RowsKept(i, r),
         x # NULL =>
           /\ x \in Request
           /\ x.step \in CheckSteps => rows'[x.inst].checkAge =< Recent
           /\ x.step \in {"readGroup", "count", "grant"} => x.version \in Versions
           /\ x.step = "writeStatus" => x.status \in Status
  PROVE  /\ Loose(rows')
         /\ req' = [u \in Workers |-> req'[u]]
         /\ \A u \in Workers : RequestOK(u)'
<1>1. Loose(rows') /\ \A i \in Instances :
         rows[i].checkAge =< Recent => rows'[i].checkAge =< Recent
  BY DEF RaceState, Loose, RowsKept
<1>2. req' = [u \in Workers |-> req'[u]]
  BY DEF RaceState
<1>3. req'[w] = x /\ \A u \in Workers \ {w} : req'[u] = req[u]
  BY DEF RaceState
<1>4. ASSUME NEW u \in Workers PROVE RequestOK(u)'
  <2>1. CASE u = w
    BY <1>3, <2>1 DEF RequestOK
  <2>2. CASE u # w
    <3>1. req'[u] = req[u] /\ RequestOK(u)
      BY <1>3, <2>2 DEF RaceState
    <3>2. req[u] # NULL => req[u].inst \in Instances
      BY <3>1 DEF RequestOK, Request
    <3> QED BY <1>1, <3>1, <3>2 DEF RequestOK
  <2> QED BY <2>1, <2>2
<1> QED BY <1>1, <1>2, <1>4

-----------------------------------------------------------------------------
(* Every step keeps the invariant.                                         *)

LEMMA RaceInitState == RaceInit => RaceState
<1> SUFFICES ASSUME RaceInit PROVE RaceState
  OBVIOUS
<1>1. SoundState
  BY InitSound DEF RaceInit
<1>2. Loose(rows)
  BY <1>1 DEF SoundState, Sound, SoundRow, MatchesOf, Loose, LooseRow
<1> QED BY <1>1, <1>2 DEF RaceInit, SoundState, RaceState, RequestOK

(* What the table holds of a worker's instance.                            *)
LEMMA RowOf ==
  ASSUME RaceState, NEW i \in Instances
  PROVE  LooseRow(rows[i]) /\ rows[i] \in Row /\ rows = [j \in Instances |-> rows[j]]
BY DEF RaceState, Loose, LooseRow

LEMMA RequestOf ==
  ASSUME RaceState, NEW w \in Workers, req[w] # NULL
  PROVE  /\ req[w] \in Request /\ RequestOK(w)
         /\ req[w].inst \in Instances /\ LooseRow(rows[req[w].inst])
BY RowOf DEF RaceState, RequestOK, Request

LEMMA RegisterKept ==
  ASSUME RaceState, NEW i \in Instances, NEW v \in Versions,
         rows' = RegisterInstance(rows, i, v)
  PROVE  /\ UNCHANGED rows \/ \E r : RowsKept(i, r) /\ Harmless(r, rows[i])
         /\ rows'[i] \in Row /\ rows'[i].checkAge =< Recent
<1>1. LooseRow(rows[i]) /\ rows[i] \in Row /\ rows = [j \in Instances |-> rows[j]]
  BY RowOf
<1>2. rows[i].checkAge \in Nat
  BY <1>1, AgesNat DEF Row
<1>3. CASE rows[i].checkAge > Recent \/ rows[i].version # v
  <2> DEFINE r == CheckedIn(rows[i], v)
  <2>1. Harmless(r, rows[i]) /\ r.checkAge = 0 /\ LooseRow(r)
    BY <1>1, CheckedInHarmless DEF Harmless
  <2>2. rows' = [rows EXCEPT ![i] = r]
    BY <1>3 DEF RegisterInstance
  <2> HIDE DEF r
  <2>3. RowsKept(i, r) /\ Harmless(r, rows[i])
    BY <2>1, <2>2, Constants DEF RowsKept
  <2>4. rows'[i] = r
    BY <1>1, <2>2
  <2> QED BY <2>1, <2>3, <2>4, Constants DEF LooseRow
<1>4. CASE ~(rows[i].checkAge > Recent \/ rows[i].version # v)
  BY <1>1, <1>2, <1>4, Constants DEF RegisterInstance
<1> QED BY <1>3, <1>4

LEMMA StatusKept ==
  ASSUME RaceState, NEW i \in Instances, NEW s \in Status,
         \/ rows' = UpdateInstanceStatus(rows, i, s)
         \/ rows' = [rows EXCEPT ![i] = WithStatus(rows[i], s)]
  PROVE  UNCHANGED rows \/ \E r : RowsKept(i, r) /\ Harmless(r, rows[i])
<1>1. LooseRow(rows[i])
  BY RowOf
<1> DEFINE r == WithStatus(rows[i], s)
<1>2. UNCHANGED rows \/ rows' = [rows EXCEPT ![i] = r]
  BY DEF UpdateInstanceStatus
<1>3. Harmless(r, rows[i]) /\ r.checkAge = rows[i].checkAge /\ LooseRow(r)
  BY <1>1, WithStatusHarmless DEF Harmless
<1> HIDE DEF r
<1> QED BY <1>2, <1>3 DEF RowsKept

LEMMA GrantKept ==
  ASSUME RaceState, NEW w \in Workers, Grant(w)
  PROVE  UNCHANGED rows \/ \E r : RowsKept(req[w].inst, r)
<1>1. /\ LooseRow(rows[req[w].inst]) /\ req[w].version \in Versions
      /\ rows[req[w].inst].checkAge =< Recent
  BY RequestOf DEF Grant, At, RequestOK, CheckSteps
<1>2. LooseRow(Granted(rows[req[w].inst], req[w].version))
      /\ Granted(rows[req[w].inst], req[w].version).checkAge = rows[req[w].inst].checkAge
  BY <1>1, GrantedLoose
<1> QED BY <1>2 DEF Grant, RowsKept

(* A request that moves on keeps all its fields but the step.              *)
LEMMA MovedOn ==
  ASSUME NEW r \in Request, NEW s \in CheckSteps \cup EventSteps
  PROVE  LET x == [r EXCEPT !.step = s]
         IN  /\ x \in Request /\ x.step = s /\ x.inst = r.inst
             /\ x.version = r.version /\ x.status = r.status
BY DEF Request

(* What worker w may be doing next, when x is its next request.            *)
NextRequest(w, x) ==
  /\ req' = [req EXCEPT ![w] = x]
  /\ x # NULL =>
       /\ x \in Request
       /\ x.step \in CheckSteps => rows'[x.inst].checkAge =< Recent
       /\ x.step \in {"readGroup", "count", "grant"} => x.version \in Versions
       /\ x.step = "writeStatus" => x.status \in Status

RowsMove == UNCHANGED rows \/ \E i \in Instances : \E r : RowsKept(i, r)

LEMMA FreshStays ==
  ASSUME RaceState, RowsMove, NEW w \in Workers, req[w] # NULL, req[w].step \in CheckSteps
  PROVE  rows'[req[w].inst].checkAge =< Recent
<1>1. rows[req[w].inst].checkAge =< Recent /\ req[w].inst \in Instances
  BY RequestOf DEF RequestOK
<1> QED BY <1>1, RowOf DEF RowsMove, RowsKept

LEMMA FinishNext ==
  ASSUME NEW w \in Workers, Finish(w)
  PROVE  NextRequest(w, NULL)
BY DEF Finish, Enter, NextRequest

(* GoTo keeps the request sound when it stays a check, or an event.        *)
LEMMA GoToNext ==
  ASSUME RaceState, RowsMove, NEW w \in Workers, req[w] # NULL,
         NEW s \in CheckSteps \cup EventSteps, GoTo(w, s),
         s \in CheckSteps => req[w].step \in CheckSteps,
         s = "grant" => req[w].step = "count",
         s \notin {"readGroup", "count", "writeStatus"}
  PROVE  NextRequest(w, [req[w] EXCEPT !.step = s])
<1> DEFINE x == [req[w] EXCEPT !.step = s]
<1>1. req[w] \in Request /\ RequestOK(w)
  BY RequestOf
<1>2. /\ x \in Request /\ x.step = s /\ x.inst = req[w].inst /\ x.version = req[w].version
  BY <1>1, MovedOn
<1>3. req' = [req EXCEPT ![w] = x]
  BY DEF GoTo, Enter
<1> HIDE DEF x
<1>4. s \in CheckSteps => rows'[x.inst].checkAge =< Recent
  BY <1>2, FreshStays
<1>5. s = "grant" => x.version \in Versions
  BY <1>1, <1>2 DEF RequestOK
<1> QED BY <1>2, <1>3, <1>4, <1>5 DEF NextRequest, x

(* What a check goes on with, the row or an empty one, starts a request.   *)
LEMMA GoOnNext ==
  ASSUME RaceState, NEW w \in Workers, NEW i \in Instances, NEW v \in Versions,
         NEW r \in Row, NEW known \in BOOLEAN,
         req[w] = NULL, rows'[i].checkAge =< Recent, GoOnWith(w, i, v, r, known)
  PROVE  \E x : NextRequest(w, x) /\ (x = NULL \/ x.step # "grant")
<1> DEFINE x == [step |-> "readGroup", inst |-> i, known |-> known, version |-> v,
                 status |-> r.status, granted |-> r.lastUpdateVersion, flag |-> FALSE]
<1>1. CASE r.status \in InProgressStatus
  <2>1. req' = [req EXCEPT ![w] = NULL]
    BY <1>1 DEF GoOnWith, RaceState
  <2> QED BY <2>1 DEF NextRequest
<1>2. CASE r.status \notin InProgressStatus
  <2>1. req' = [req EXCEPT ![w] = x]
    BY <1>2 DEF GoOnWith, Enter
  <2>2. x \in Request /\ x.step = "readGroup" /\ x.inst = i /\ x.version = v
    BY DEF Request, Row, CheckSteps
  <2> HIDE DEF x
  <2>3. NextRequest(w, x)
    BY <2>1, <2>2 DEF NextRequest
  <2> QED BY <2>2, <2>3
<1> QED BY <1>1, <1>2

LEMMA BeginCheckNext ==
  ASSUME RaceState, NEW w \in Workers, NEW i \in Instances, NEW v \in Versions,
         BeginCheck(w, i, v)
  PROVE  /\ UNCHANGED rows \/ \E r : RowsKept(i, r) /\ Harmless(r, rows[i])
         /\ RowsMove
         /\ \E x : NextRequest(w, x) /\ (x = NULL \/ x.step # "grant")
<1> DEFINE t == RegisterInstance(rows, i, v)
<1>0. rows' = t /\ req[w] = NULL
  BY DEF BeginCheck
<1>1. /\ UNCHANGED rows \/ \E r : RowsKept(i, r) /\ Harmless(r, rows[i])
      /\ rows'[i] \in Row /\ rows'[i].checkAge =< Recent
  BY <1>0, RegisterKept
<1>2. NoRow \in Row
  BY AgesNat DEF NoRow, Row
<1>3. \E r \in Row, known \in BOOLEAN : GoOnWith(w, i, v, r, known)
  BY <1>0, <1>1, <1>2 DEF BeginCheck
<1> QED BY <1>0, <1>1, <1>3, GoOnNext DEF RowsMove

LEMMA BeginEventNext ==
  ASSUME RaceState, NEW w \in Workers, NEW i \in Instances, NEW s \in EventStatus,
         BeginEvent(w, i, s)
  PROVE  RowsMove /\ \E x : NextRequest(w, x)
<1> DEFINE x == [step |-> "writeStatus", inst |-> i, known |-> TRUE, version |-> NULL,
                 status |-> s, granted |-> NULL, flag |-> FALSE]
<1>1. s \in Status
  BY DEF EventStatus, Outcomes, Status, BusyStatus, IdleStatus
<1>2. x \in Request /\ x.step = "writeStatus" /\ x.status = s
  BY <1>1 DEF Request, EventSteps
<1>3. req' = [req EXCEPT ![w] = x] /\ rows' = rows
  BY DEF BeginEvent, Enter, vars
<1> HIDE DEF x
<1>4. NextRequest(w, x)
  BY <1>1, <1>2, <1>3 DEF NextRequest, CheckSteps
<1> QED BY <1>3, <1>4 DEF RowsMove

LEMMA ReadGroupNext ==
  ASSUME RaceState, NEW w \in Workers, ReadGroup(w)
  PROVE  RowsMove /\ \E x : NextRequest(w, x)
<1>1. rows' = rows /\ req[w] # NULL /\ req[w].step = "readGroup"
  BY DEF ReadGroup, At, vars
<1>2. PICK g \in Versions :
        Enter(w, [req[w] EXCEPT !.step = IF Unlimited THEN "grant" ELSE "count",
                                !.version = g, !.flag = rolloutInProgress])
  BY DEF ReadGroup
<1> DEFINE s == IF Unlimited THEN "grant" ELSE "count"
           x == [req[w] EXCEPT !.step = s, !.version = g, !.flag = rolloutInProgress]
<1>3. s \in {"grant", "count"}
  OBVIOUS
<1>4. req[w] \in Request /\ RequestOK(w) /\ rolloutInProgress \in BOOLEAN
  BY <1>1, RequestOf DEF RaceState
<1>5. req' = [req EXCEPT ![w] = x]
  BY <1>2 DEF Enter
<1> HIDE DEF s
<1>6. x \in Request /\ x.step = s /\ x.version = g /\ x.inst = req[w].inst
  BY <1>3, <1>4 DEF Request, CheckSteps
<1> HIDE DEF x
<1>7. NextRequest(w, x)
  BY <1>1, <1>3, <1>4, <1>5, <1>6 DEF NextRequest, RequestOK, CheckSteps
<1> QED BY <1>1, <1>7 DEF RowsMove

(* The steps that leave the table alone, and those that write one row.     *)
LEMMA QuietStepNext ==
  ASSUME RaceState, NEW w \in Workers,
         \/ RefuseUpdate(w) \/ Count(w) \/ RaiseFlag(w) \/ SeeOutcome(w)
         \/ DisableUpdates(w) \/ ClearFlag(w) \/ Crash(w) \/ GrantFails(w)
  PROVE  rows' = rows /\ \E x : NextRequest(w, x)
<1>0. rows' = rows
  BY DEF RefuseUpdate, Count, RaiseFlag, SeeOutcome, DisableUpdates, ClearFlag, Crash,
         GrantFails, vars
<1>1. RowsMove
  BY <1>0 DEF RowsMove
<1>2. CASE RefuseUpdate(w) \/ RaiseFlag(w) \/ ClearFlag(w) \/ Crash(w) \/ GrantFails(w)
  BY <1>2, <1>0, FinishNext DEF RefuseUpdate, RaiseFlag, ClearFlag, Crash, GrantFails
<1>3. CASE Count(w)
  <2>1. req[w] # NULL /\ req[w].step = "count"
    BY <1>3 DEF Count, At
  <2>2. PICK s \in {"hold", "holdTrip", "grant"} : GoTo(w, s)
    BY <1>3 DEF Count
  <2> QED BY <1>0, <1>1, <2>1, <2>2, GoToNext DEF CheckSteps
<1>4. CASE SeeOutcome(w)
  <2>1. req[w] # NULL /\ req[w].step = "outcome"
    BY <1>4 DEF SeeOutcome, At
  <2>2. CASE Finish(w)
    BY <1>0, <2>2, FinishNext
  <2>3. ASSUME NEW s \in {"clearFlag", "trip"}, GoTo(w, s) PROVE \E x : NextRequest(w, x)
    BY <1>1, <2>1, <2>3, GoToNext DEF CheckSteps, EventSteps
  <2> QED BY <1>0, <1>4, <2>2, <2>3 DEF SeeOutcome
<1>5. CASE DisableUpdates(w)
  <2>1. CASE At(w, "holdTrip") /\ GoTo(w, "hold")
    BY <1>0, <1>1, <2>1, GoToNext DEF At, CheckSteps, EventSteps
  <2>2. CASE At(w, "trip") /\ GoTo(w, "clearFlag")
    BY <1>0, <1>1, <2>2, GoToNext DEF At, CheckSteps, EventSteps
  <2> QED BY <1>5, <2>1, <2>2 DEF DisableUpdates
<1> QED BY <1>2, <1>3, <1>4, <1>5

(* The writers of a status other than a grant.                             *)
StatusStep(w) == AnswerAgain(w) \/ Hold(w) \/ WriteStatus(w)

LEMMA StatusStepRows ==
  ASSUME RaceState, NEW w \in Workers, StatusStep(w)
  PROVE  /\ req[w] # NULL
         /\ UNCHANGED rows \/ \E r : RowsKept(req[w].inst, r) /\ Harmless(r, rows[req[w].inst])
<1>0. req[w] # NULL
  BY DEF StatusStep, AnswerAgain, Hold, WriteStatus, At
<1>1. req[w].inst \in Instances /\ RequestOK(w) /\ req[w] \in Request
  BY <1>0, RequestOf
<1>2. {"Complete", "OnHold"} \subseteq Status
  BY DEF Status, IdleStatus
<1>3. CASE AnswerAgain(w)
  BY <1>0, <1>1, <1>2, <1>3, StatusKept DEF AnswerAgain
<1>4. CASE Hold(w)
  <2>1. UNCHANGED rows \/ rows' = UpdateInstanceStatus(rows, req[w].inst, "OnHold")
    BY <1>4 DEF Hold
  <2> QED BY <1>0, <1>1, <1>2, <2>1, StatusKept
<1>5. CASE WriteStatus(w)
  <2>1. req[w].status \in Status
    BY <1>0, <1>1, <1>5 DEF WriteStatus, At, RequestOK
  <2> QED BY <1>0, <1>1, <1>5, <2>1, StatusKept DEF WriteStatus
<1> QED BY <1>3, <1>4, <1>5 DEF StatusStep

LEMMA WritingStepNext ==
  ASSUME RaceState, NEW w \in Workers, StatusStep(w) \/ Grant(w)
  PROVE  RowsMove /\ \E x : NextRequest(w, x)
<1>0. req[w] # NULL
  BY DEF StatusStep, AnswerAgain, Hold, WriteStatus, Grant, At
<1>1. RowsMove
  <2>1. req[w].inst \in Instances
    BY <1>0, RequestOf
  <2> QED BY <2>1, StatusStepRows, GrantKept DEF RowsMove
<1>2. CASE Finish(w)
  BY <1>1, <1>2, FinishNext
<1>3. CASE WriteStatus(w) /\ GoTo(w, "outcome")
  BY <1>0, <1>1, <1>3, GoToNext DEF CheckSteps, EventSteps
<1>4. CASE Grant(w) /\ GoTo(w, "raiseFlag")
  BY <1>0, <1>1, <1>4, GoToNext DEF Grant, At, CheckSteps, EventSteps
<1> QED BY <1>1, <1>2, <1>3, <1>4 DEF StatusStep, AnswerAgain, Hold, WriteStatus, Grant

LEMMA RaceTickState ==
  ASSUME RaceState, RaceTick
  PROVE  RaceState'
<1>1. rows' = [i \in Instances |-> Aged(rows[i])] /\ UNCHANGED req
      /\ UNCHANGED <<policy, channel, brake, rolloutInProgress>>
      /\ \A w \in Workers : req[w] = NULL
  BY DEF RaceTick, Tick
<1>2. Loose(rows')
  BY <1>1, AgedLoose DEF RaceState, Loose
<1> QED BY <1>1, <1>2 DEF RaceState, RequestOK

LEMMA RaceNextState == RaceState /\ [RaceNext]_raceVars => RaceState'
<1> SUFFICES ASSUME RaceState, [RaceNext]_raceVars PROVE RaceState'
  OBVIOUS
<1>1. ASSUME NEW w \in Workers, RowsMove, \E x : NextRequest(w, x),
             UNCHANGED <<policy, channel>>, brake' \in BOOLEAN,
             rolloutInProgress' \in BOOLEAN
      PROVE  RaceState'
  BY <1>1, RequestsKept DEF NextRequest, RowsMove, RaceState
<1>3. ASSUME NEW w \in Workers, NEW i \in Instances, NEW v \in Versions, BeginCheck(w, i, v)
      PROVE  RaceState'
  <2>1. RowsMove /\ \E x : NextRequest(w, x)
    BY <1>3, BeginCheckNext
  <2> QED BY <1>1, <1>3, <2>1 DEF BeginCheck, RaceState
<1>4. ASSUME NEW w \in Workers, NEW i \in Instances, NEW s \in EventStatus, BeginEvent(w, i, s)
      PROVE  RaceState'
  <2>1. RowsMove /\ \E x : NextRequest(w, x)
    BY <1>4, BeginEventNext
  <2> QED BY <1>1, <1>4, <2>1 DEF BeginEvent, RaceState, vars
<1>5. ASSUME NEW w \in Workers, Step(w) PROVE RaceState'
  <2>1. RowsMove /\ \E x : NextRequest(w, x)
    BY <1>5, ReadGroupNext, QuietStepNext, WritingStepNext DEF Step, StatusStep, RowsMove
  <2>2. UNCHANGED <<policy, channel>> /\ brake' \in BOOLEAN /\ rolloutInProgress' \in BOOLEAN
    BY <1>5 DEF Step, AnswerAgain, RefuseUpdate, ReadGroup, Count, Hold, Grant, RaiseFlag,
       WriteStatus, SeeOutcome, DisableUpdates, ClearFlag, Crash, GrantFails, RaceState, vars
  <2> QED BY <1>1, <2>1, <2>2
<1>6. CASE RaceTick
  BY <1>6, RaceTickState
<1>7. CASE UNCHANGED raceVars
  BY <1>7 DEF raceVars, vars, RaceState, RequestOK
<1> QED BY <1>3, <1>4, <1>5, <1>6, <1>7 DEF RaceNext

LEMMA RaceAlways == RaceSpec => []RaceState
BY RaceInitState, RaceNextState, PTL DEF RaceSpec

(* Every variable keeps its type, however requests interleave.             *)
THEOREM RaceTypeCorrect == RaceSpec => []RaceTypeOK
<1>1. RaceState => RaceTypeOK
  BY LooseTable DEF RaceState, RaceTypeOK, TypeOK, RequestOK
<1> QED BY <1>1, RaceAlways, PTL

(* An instance that may report events is in no state in which it would be  *)
(* granted another update.                                                 *)
THEOREM RaceUpdatingIsBusy == RaceSpec => []UpdatingIsBusy
<1>1. RaceState => UpdatingIsBusy
  BY DEF RaceState, Loose, LooseRow, UpdatingIsBusy
<1> QED BY <1>1, RaceAlways, PTL

-----------------------------------------------------------------------------
(* The overshoot.  Counting opens at most one pending grant per worker,    *)
(* and only below the limit; granting turns a pending grant into an update *)
(* in flight; no other step adds to either.                                *)

LEMMA FiniteWorkers ==
  ASSUME NEW P \in SUBSET Workers
  PROVE  /\ IsFiniteSet(P) /\ Cardinality(P) \in Nat
         /\ Cardinality(Workers) \in Nat /\ Cardinality(P) =< Cardinality(Workers)
<1>1. IsFiniteSet(Workers)
  BY RaceAssumption DEF RaceAssumption
<1> QED BY <1>1, FS_Subset, FS_CardinalityType

LEMMA SumBounded ==
  ASSUME NEW S \in SUBSET Instances, NEW T \in SUBSET Instances,
         NEW P \in SUBSET Workers, NEW Q \in SUBSET Workers,
         Cardinality(S) + Cardinality(P) =< Limit + Cardinality(Workers) - 1,
         \/ T \subseteq S /\ Q \subseteq P
         \/ T = S /\ Cardinality(S) < Limit
         \/ \E i \in Instances, w \in P : T \subseteq S \cup {i} /\ Q \subseteq P \ {w}
  PROVE  Cardinality(T) + Cardinality(Q) =< Limit + Cardinality(Workers) - 1
<1>1. /\ Cardinality(S) \in Nat /\ IsFiniteSet(S) /\ Cardinality(T) \in Nat
      /\ Cardinality(P) \in Nat /\ IsFiniteSet(P) /\ Cardinality(Q) \in Nat
      /\ Cardinality(Workers) \in Nat /\ Cardinality(Q) =< Cardinality(Workers)
  BY FiniteInstances, FiniteWorkers
<1>2. CASE T \subseteq S /\ Q \subseteq P
  <2>1. Cardinality(T) =< Cardinality(S) /\ Cardinality(Q) =< Cardinality(P)
    BY <1>1, <1>2, FS_Subset
  <2> QED BY <1>1, <2>1, Constants
<1>3. CASE T = S /\ Cardinality(S) < Limit
  BY <1>1, <1>3, Constants
<1>4. ASSUME NEW i \in Instances, NEW w \in P, T \subseteq S \cup {i}, Q \subseteq P \ {w}
      PROVE  Cardinality(T) + Cardinality(Q) =< Limit + Cardinality(Workers) - 1
  <2>1. IsFiniteSet(S \cup {i}) /\ Cardinality(S \cup {i}) =< Cardinality(S) + 1
        /\ Cardinality(S \cup {i}) \in Nat
    <3>1. IsFiniteSet(S \cup {i})
          /\ Cardinality(S \cup {i}) = IF i \in S THEN Cardinality(S) ELSE Cardinality(S) + 1
      BY <1>1, FS_AddElement
    <3> QED BY <1>1, <3>1
  <2>2. IsFiniteSet(P \ {w}) /\ Cardinality(P \ {w}) = Cardinality(P) - 1
    BY <1>1, FS_RemoveElement
  <2>3. Cardinality(T) =< Cardinality(S \cup {i}) /\ Cardinality(Q) =< Cardinality(P \ {w})
    BY <1>4, <2>1, <2>2, FS_Subset
  <2> QED BY <1>1, <2>1, <2>2, <2>3, Constants
<1> QED BY <1>2, <1>3, <1>4

LEMMA HarmlessAddsNobody ==
  ASSUME RaceState, NEW i \in Instances, NEW r, RowsKept(i, r), Harmless(r, rows[i])
  PROVE  NobodyAdded
<1>1. \A j \in Instances : /\ rows'[j].grantAge = rows[j].grantAge
                           /\ rows'[j].lost = rows[j].lost
                           /\ rows'[j].updateInProgress => rows[j].updateInProgress
  BY RowOf DEF RowsKept, Harmless
<1> QED BY <1>1 DEF NobodyAdded, InFlight, RecentlyGranted

LEMMA RowKeptAddsOne ==
  ASSUME RaceState, NEW i \in Instances, NEW r, RowsKept(i, r)
  PROVE  /\ InFlight(rows') \subseteq InFlight(rows) \cup {i}
         /\ RecentlyGranted(rows') \subseteq RecentlyGranted(rows) \cup {i}
<1>1. \A j \in Instances : j # i => rows'[j] = rows[j]
  BY RowOf DEF RowsKept
<1> QED BY <1>1 DEF InFlight, RecentlyGranted

LEMMA StutterAddsNobody == UNCHANGED rows => NobodyAdded
BY DEF NobodyAdded

(* Only the step of a worker itself makes its grant pending.               *)
LEMMA PendingMoves ==
  ASSUME RaceState, NEW w \in Workers, NEW x, req' = [req EXCEPT ![w] = x]
  PROVE  /\ Pending' \subseteq Pending \cup {w}
         /\ (x = NULL \/ x.step # "grant") => Pending' \subseteq Pending \ {w}
<1>1. req'[w] = x /\ \A u \in Workers \ {w} : req'[u] = req[u]
  BY DEF RaceState
<1> QED BY <1>1 DEF Pending, At

RaceCalm == NobodyAdded /\ Pending' \subseteq Pending

Counted == rows' = rows /\ MayGrant(rows)

Spent ==
  \E i \in Instances, w \in Pending :
    /\ InFlight(rows') \subseteq InFlight(rows) \cup {i}
    /\ RecentlyGranted(rows') \subseteq RecentlyGranted(rows) \cup {i}
    /\ Pending' \subseteq Pending \ {w}

LEMMA RaceTickSets ==
  ASSUME RaceState, RaceTick
  PROVE  RaceCalm
<1>1. ASSUME NEW i \in Instances
      PROVE  /\ rows'[i].updateInProgress = rows[i].updateInProgress
             /\ rows[i].lost => rows'[i].lost
             /\ rows'[i].grantAge # NULL =>
                  /\ rows[i].grantAge # NULL
                  /\ rows[i].grantAge \in Nat /\ rows'[i].grantAge \in Nat
                  /\ rows[i].grantAge =< rows'[i].grantAge
  <2>1. rows[i] \in Row
    BY RowOf
  <2>2. rows'[i] = Aged(rows[i])
    BY DEF RaceTick, Tick
  <2>3. \A a \in Ages : Older(a) \in Nat /\ a \in Nat /\ a =< Older(a)
    BY AgesNat, Constants DEF Older
  <2> QED BY <2>1, <2>2, <2>3, AgesNat DEF Aged, Row
<1>2. NobodyAdded
  BY <1>1, Constants DEF NobodyAdded, InFlight, RecentlyGranted
<1> QED BY <1>2 DEF RaceTick, RaceCalm, Pending, At

LEMMA RaceStepSets ==
  ASSUME RaceState, RateLimited, [RaceNext]_raceVars
  PROVE  RaceCalm \/ Counted \/ Spent
<1>0. ASSUME NEW w \in Workers, NobodyAdded, NEW x, req' = [req EXCEPT ![w] = x],
             x = NULL \/ x.step # "grant"
      PROVE  RaceCalm
  BY <1>0, PendingMoves DEF RaceCalm
<1>1. ASSUME NEW w \in Workers, NobodyAdded, Finish(w)
      PROVE  RaceCalm
  BY <1>0, <1>1 DEF Finish, Enter
<1>2. ASSUME NEW w \in Workers, NobodyAdded, req[w] # NULL,
             NEW s \in (CheckSteps \cup EventSteps) \ {"grant"}, GoTo(w, s)
      PROVE  RaceCalm
  <2> DEFINE x == [req[w] EXCEPT !.step = s]
  <2>1. x.step # "grant"
    BY <1>2, RequestOf, MovedOn
  <2>2. req' = [req EXCEPT ![w] = x]
    BY <1>2 DEF GoTo, Enter
  <2> HIDE DEF x
  <2> QED BY <1>0, <1>2, <2>1, <2>2
<1>3. ASSUME NEW w \in Workers, NEW i \in Instances, NEW v \in Versions, BeginCheck(w, i, v)
      PROVE  RaceCalm
  <2>1. NobodyAdded
    BY <1>3, BeginCheckNext, HarmlessAddsNobody, StutterAddsNobody
  <2>2. PICK x : NextRequest(w, x) /\ (x = NULL \/ x.step # "grant")
    BY <1>3, BeginCheckNext
  <2> QED BY <1>0, <2>1, <2>2 DEF NextRequest
<1>4. ASSUME NEW w \in Workers, NEW i \in Instances, NEW s \in EventStatus, BeginEvent(w, i, s)
      PROVE  RaceCalm
  <2> DEFINE x == [step |-> "writeStatus", inst |-> i, known |-> TRUE, version |-> NULL,
                   status |-> s, granted |-> NULL, flag |-> FALSE]
  <2>1. req' = [req EXCEPT ![w] = x] /\ x.step # "grant" /\ rows' = rows
    BY <1>4 DEF BeginEvent, Enter, vars
  <2> HIDE DEF x
  <2> QED BY <1>0, <2>1, StutterAddsNobody
<1>5. ASSUME NEW w \in Workers, StatusStep(w)
      PROVE  RaceCalm
  <2>1. NobodyAdded /\ req[w] # NULL
    BY <1>5, StatusStepRows, HarmlessAddsNobody, StutterAddsNobody, RequestOf
  <2>2. Finish(w) \/ GoTo(w, "outcome")
    BY <1>5 DEF StatusStep, AnswerAgain, Hold, WriteStatus
  <2> QED BY <1>1, <1>2, <2>1, <2>2 DEF EventSteps
<1>6. ASSUME NEW w \in Workers, RefuseUpdate(w) \/ RaiseFlag(w) \/ SeeOutcome(w)
                                 \/ DisableUpdates(w) \/ ClearFlag(w) \/ Crash(w)
                                 \/ GrantFails(w)
      PROVE  RaceCalm
  <2>1. NobodyAdded
    BY <1>6, QuietStepNext, StutterAddsNobody
  <2>2. Finish(w) \/ \E s \in {"clearFlag", "trip", "hold"} : GoTo(w, s)
    BY <1>6 DEF RefuseUpdate, RaiseFlag, SeeOutcome, DisableUpdates, ClearFlag, Crash,
                GrantFails
  <2>3. req[w] # NULL
    BY <1>6 DEF RefuseUpdate, RaiseFlag, SeeOutcome, DisableUpdates, ClearFlag, Crash,
                GrantFails, At
  <2> QED BY <1>1, <1>2, <2>1, <2>2, <2>3 DEF CheckSteps, EventSteps
<1>7. ASSUME NEW w \in Workers, ReadGroup(w)
      PROVE  RaceCalm
  <2>1. rows' = rows /\ req[w] # NULL /\ req[w] \in Request
    BY <1>7, RequestOf DEF ReadGroup, At, vars
  <2>2. ~Unlimited
    BY Constants, TypeAssumption DEF Unlimited, RateLimited, RaceState, TypeAssumption, Policy
  <2>3. PICK g \in Versions :
          req' = [req EXCEPT ![w] = [req[w] EXCEPT !.step = "count", !.version = g,
                                                   !.flag = rolloutInProgress]]
    BY <1>7, <2>2 DEF ReadGroup, Enter
  <2> DEFINE x == [req[w] EXCEPT !.step = "count", !.version = g, !.flag = rolloutInProgress]
  <2>4. x.step # "grant"
    BY <2>1 DEF Request
  <2>5. req' = [req EXCEPT ![w] = x]
    BY <2>3
  <2> HIDE DEF x
  <2> QED BY <1>0, <2>1, <2>4, <2>5, StutterAddsNobody
<1>8. ASSUME NEW w \in Workers, Count(w)
      PROVE  RaceCalm \/ Counted
  <2>1. rows' = rows /\ req[w] # NULL
    BY <1>8 DEF Count, At, vars
  <2>2. CASE GoTo(w, "hold") \/ GoTo(w, "holdTrip")
    BY <1>2, <2>1, <2>2, StutterAddsNobody DEF CheckSteps
  <2>3. CASE ~LimitReached(rows) /\ ~TooManyTimedOut(rows)
    BY <2>1, <2>3 DEF Counted, MayGrant
  <2> QED BY <1>8, <2>2, <2>3 DEF Count
<1>9. ASSUME NEW w \in Workers, Grant(w)
      PROVE  Spent
  <2>1. req[w] # NULL /\ w \in Pending /\ req[w].inst \in Instances
    BY <1>9, RequestOf DEF Grant, At, Pending
  <2>2. /\ InFlight(rows') \subseteq InFlight(rows) \cup {req[w].inst}
        /\ RecentlyGranted(rows') \subseteq RecentlyGranted(rows) \cup {req[w].inst}
    BY <1>9, <2>1, GrantKept, RowKeptAddsOne, StutterAddsNobody DEF NobodyAdded
  <2>3. Pending' \subseteq Pending \ {w}
    <3>1. CASE Finish(w)
      BY <3>1, PendingMoves DEF Finish, Enter
    <3>2. CASE GoTo(w, "raiseFlag")
      <4> DEFINE x == [req[w] EXCEPT !.step = "raiseFlag"]
      <4>1. req' = [req EXCEPT ![w] = x]
        BY <3>2 DEF GoTo, Enter
      <4>2. x.step # "grant"
        BY <2>1, RequestOf, MovedOn DEF CheckSteps
      <4> HIDE DEF x
      <4> QED BY <4>1, <4>2, PendingMoves
    <3> QED BY <1>9, <3>1, <3>2 DEF Grant
  <2> QED BY <2>1, <2>2, <2>3 DEF Spent
<1>10. CASE RaceTick
  BY <1>10, RaceTickSets
<1>11. CASE UNCHANGED raceVars
  BY <1>11, StutterAddsNobody DEF raceVars, vars, RaceCalm, Pending, At
<1> QED BY <1>3, <1>4, <1>5, <1>6, <1>7, <1>8, <1>9, <1>10, <1>11 DEF RaceNext, Step, StatusStep

Overshoot ==
  /\ Cardinality(InFlight(rows)) + Cardinality(Pending) =< Limit + Cardinality(Workers) - 1
  /\ Cardinality(RecentlyGranted(rows)) + Cardinality(Pending)
       =< Limit + Cardinality(Workers) - 1

LEMMA OvershootHolds == ASSUME RateLimited PROVE RaceSpec => []Overshoot
<1>0. /\ InFlight(rows) \subseteq Instances /\ RecentlyGranted(rows) \subseteq Instances
      /\ InFlight(rows') \subseteq Instances /\ RecentlyGranted(rows') \subseteq Instances
      /\ Pending \subseteq Workers /\ Pending' \subseteq Workers
  BY DEF InFlight, RecentlyGranted, Pending
<1>1. RaceInit => Overshoot
  <2> SUFFICES ASSUME RaceInit PROVE Overshoot
    OBVIOUS
  <2>1. InFlight(rows) = {} /\ RecentlyGranted(rows) = {} /\ Pending = {}
    BY InitSets DEF RaceInit, Pending, At
  <2>2. Cardinality({}) = 0
    BY FS_EmptySet
  <2>3. Cardinality(Workers) \in Nat /\ Cardinality(Workers) # 0 /\ 1 =< Limit
    BY RaceAssumption, FS_EmptySet, FS_CardinalityType DEF RaceAssumption, RateLimited
  <2> QED BY <2>1, <2>2, <2>3, Constants DEF Overshoot
<1>2. RaceState /\ Overshoot /\ [RaceNext]_raceVars => Overshoot'
  <2> SUFFICES ASSUME RaceState, Overshoot, [RaceNext]_raceVars PROVE Overshoot'
    OBVIOUS
  <2>1. CASE RaceCalm
    BY <1>0, <2>1, SumBounded DEF RaceCalm, NobodyAdded, Overshoot
  <2>2. CASE Counted
    <3>1. Cardinality(InFlight(rows)) < Limit /\ Cardinality(RecentlyGranted(rows)) < Limit
      BY <2>2, GrantRoom, LooseTable DEF Counted, RaceState
    <3> QED BY <1>0, <2>2, <3>1, SumBounded DEF Counted, Overshoot
  <2>3. CASE Spent
    BY <1>0, <2>3, SumBounded DEF Spent, Overshoot
  <2> QED BY <2>1, <2>2, <2>3, RaceStepSets
<1> QED BY <1>1, <1>2, RaceAlways, PTL DEF RaceSpec

(* However many requests race, at most one update per concurrent request,  *)
(* less one, runs beyond the group's limit, of those that have not timed   *)
(* out and whose machines were seen at least once a day since the grant.   *)
THEOREM OvershootOfFlight == RaceSpec => []OvershootBounded
<1>1. CASE RateLimited
  BY <1>1, OvershootHolds, PTL DEF Overshoot, OvershootBounded
<1>2. CASE ~RateLimited
  BY <1>2, PTL DEF OvershootBounded
<1> QED BY <1>1, <1>2

(* Nor are more than that granted beyond the limit within one period,      *)
(* machines left out that were not seen for a day since their grant.       *)
THEOREM OvershootOfPeriod == RaceSpec => []PeriodOvershootBounded
<1>1. CASE RateLimited
  BY <1>1, OvershootHolds, PTL DEF Overshoot, PeriodOvershootBounded
<1>2. CASE ~RateLimited
  BY <1>2, PTL DEF PeriodOvershootBounded
<1> QED BY <1>1, <1>2
=============================================================================
