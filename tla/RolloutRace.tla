----------------------------- MODULE RolloutRace -----------------------------
(***************************************************************************)
(* The handlers of Rollout split where they touch the database.  Nebraska  *)
(* serves each request in a goroutine of its own and uses no transaction   *)
(* or lock across these statements, so requests for the same group, and    *)
(* retried requests of the same machine, interleave between them.          *)
(*                                                                         *)
(* The administrator stands still here (Rollout has changing policies and  *)
(* channels), so a group is read in one step.  updateInstanceStatus's read *)
(* and its write are one step: the read only saves a write of the status   *)
(* the row already has.                                                    *)
(***************************************************************************)
EXTENDS Rollout

CONSTANTS Workers,   \* the requests in progress at a time
          Crashes    \* TRUE: the server may die in any request

ASSUME RaceAssumption ==
  IsFiniteSet(Workers) /\ Workers # {} /\ Crashes \in BOOLEAN

VARIABLE req  \* what each worker is doing, NULL when it is free

raceVars == <<vars, req>>

CheckSteps == {"readGroup", "count", "holdTrip", "hold", "grant", "raiseFlag"}
EventSteps == {"writeStatus", "outcome", "trip", "clearFlag"}

Outcomes == {"Complete", "Error"}

(* Mutant of EventStatus: an event type has a status no query knows.        *)
EventStatusUnknown == {"Downloading", "Downloaded", "Installing", "Complete", "Error"}

EventStatus ==
  InProgressStatus \cup Outcomes \cup (IF FlatcarApp THEN {"Undefined"} ELSE {})

Request ==
  [step : CheckSteps \cup EventSteps,
   inst : Instances,
   known : BOOLEAN,                 \* the row was handed on by RegisterInstance
   version : Versions \cup {NULL},  \* the version reported, then the one to grant
   status : Status \cup {NULL},     \* a check: as read with the instance; an event: to write
   granted : Versions \cup {NULL},  \* last_update_version, as read with the instance
   flag : BOOLEAN]                  \* rollout_in_progress, as read with the group

At(w, step) == req[w] # NULL /\ req[w].step = step

Enter(w, r) == req' = [req EXCEPT ![w] = r]

GoTo(w, step) == Enter(w, [req[w] EXCEPT !.step = step])

Finish(w) == Enter(w, NULL)

-----------------------------------------------------------------------------
(* The update check of either kind.                                        *)

(* The check goes on with what RegisterInstance hands on: the row, or of a  *)
(* machine unseen for a day an empty one (see CheckUnseen).                *)
GoOnWith(w, i, v, r, known) ==
  IF r.status \in InProgressStatus THEN UNCHANGED req
  ELSE Enter(w, [step |-> "readGroup", inst |-> i, known |-> known, version |-> v,
                 status |-> r.status, granted |-> r.lastUpdateVersion, flag |-> FALSE])

BeginCheck(w, i, v) ==
  LET t == RegisterInstance(rows, i, v) IN
  /\ req[w] = NULL
  /\ rows' = t
  /\ \/ GoOnWith(w, i, v, t[i], TRUE)
     \/ i \notin Seen(rows) /\ GoOnWith(w, i, v, NoRow, FALSE)
  /\ UNCHANGED <<policy, channel, brake, rolloutInProgress>>

AsksAgain(r) == r.status = "UpdateGranted" /\ r.inst \notin Syncers

(* The grant's end is written whatever has become of the row meanwhile.    *)
AnswerAgain(w) ==
  LET r == req[w] IN
  /\ At(w, "readGroup") /\ channel.target # NULL /\ AsksAgain(r)
  /\ Finish(w)
  /\ IF GrantIsOver(r.granted, r.version)
       THEN rows' = [rows EXCEPT ![r.inst] = WithStatus(rows[r.inst], "Complete")]
       ELSE UNCHANGED rows
  /\ UNCHANGED <<policy, channel, brake, rolloutInProgress>>

Blacklisted(r) ==
  IF r.inst \in Syncers THEN TargetIsBlacklisted ELSE NextIsBlacklisted(r.version)

RefuseUpdate(w) ==
  /\ At(w, "readGroup")
  /\ \/ channel.target = NULL
     \/ /\ ~AsksAgain(req[w])
        /\ \/ req[w].version >= channel.target \/ Blacklisted(req[w])
           \/ ~EffectiveUpdatesEnabled \/ policy.officeHours
  /\ Finish(w)
  /\ UNCHANGED vars

ReadGroup(w) ==
  LET r == req[w] IN
  /\ At(w, "readGroup") /\ channel.target # NULL /\ ~AsksAgain(r)
  /\ r.version < channel.target /\ ~Blacklisted(r) /\ EffectiveUpdatesEnabled
  /\ \E g \in Versions :
       /\ IF r.inst \in Syncers THEN g = channel.target ELSE IsNextVersion(g, r.version)
       /\ Enter(w, [r EXCEPT !.step = IF Unlimited THEN "grant" ELSE "count",
                             !.version = g, !.flag = rolloutInProgress])
  /\ UNCHANGED vars

Count(w) ==
  /\ At(w, "count")
  /\ \/ LimitReached(rows) /\ GoTo(w, "hold")
     \/ ~LimitReached(rows) /\ TooManyTimedOut(rows) /\ GoTo(w, "holdTrip")
     \/ ~LimitReached(rows) /\ ~TooManyTimedOut(rows) /\ GoTo(w, "grant")
  /\ UNCHANGED vars

Hold(w) ==
  /\ At(w, "hold")
  /\ rows' = IF req[w].known THEN UpdateInstanceStatus(rows, req[w].inst, "OnHold") ELSE rows
  /\ Finish(w)
  /\ UNCHANGED <<policy, channel, brake, rolloutInProgress>>

(* Without the row grantUpdate fails, and the check with it.               *)
GrantFails(w) ==
  /\ At(w, "grant") /\ ~req[w].known
  /\ Finish(w)
  /\ UNCHANGED vars

(* grantUpdate compares with the status read at the start of the check.    *)
Grant(w) ==
  LET r == req[w] IN
  /\ At(w, "grant") /\ r.known
  /\ rows' = IF r.status = "UpdateGranted" THEN rows
             ELSE [rows EXCEPT ![r.inst] = Granted(rows[r.inst], r.version)]
  /\ IF r.flag THEN Finish(w) ELSE GoTo(w, "raiseFlag")
  /\ UNCHANGED <<policy, channel, brake, rolloutInProgress>>

RaiseFlag(w) ==
  /\ At(w, "raiseFlag")
  /\ rolloutInProgress' = TRUE
  /\ Finish(w)
  /\ UNCHANGED <<rows, policy, channel, brake>>

-----------------------------------------------------------------------------
(* The event.                                                              *)

BeginEvent(w, i, s) ==
  /\ req[w] = NULL
  /\ i \in Seen(rows) /\ rows[i].updateInProgress
  /\ Enter(w, [step |-> "writeStatus", inst |-> i, known |-> TRUE, version |-> NULL,
               status |-> s, granted |-> NULL, flag |-> FALSE])
  /\ UNCHANGED vars

WriteStatus(w) ==
  LET s == req[w].status IN
  /\ At(w, "writeStatus")
  /\ rows' = UpdateInstanceStatus(rows, req[w].inst, s)
  /\ IF s = "Complete" \/ (s = "Error" /\ DisableUpdatesOnFailedRollout)
       THEN GoTo(w, "outcome") ELSE Finish(w)
  /\ UNCHANGED <<policy, channel, brake, rolloutInProgress>>

SeeOutcome(w) ==
  /\ At(w, "outcome")
  /\ IF req[w].status = "Complete"
       THEN IF UpdatesToCurrentVersionSucceeded(rows) = Seen(rows)
              THEN GoTo(w, "clearFlag") ELSE Finish(w)
       ELSE IF FirstAttemptFailed(rows) THEN GoTo(w, "trip") ELSE Finish(w)
  /\ UNCHANGED vars

(* disableUpdates, called by a check and by an event.                      *)
DisableUpdates(w) ==
  /\ \/ At(w, "holdTrip") /\ GoTo(w, "hold")
     \/ At(w, "trip") /\ GoTo(w, "clearFlag")
  /\ brake' = TRUE
  /\ UNCHANGED <<rows, policy, channel, rolloutInProgress>>

ClearFlag(w) ==
  /\ At(w, "clearFlag")
  /\ rolloutInProgress' = FALSE
  /\ Finish(w)
  /\ UNCHANGED <<rows, policy, channel, brake>>

-----------------------------------------------------------------------------

(* The server dies, or a statement fails, and the rest of the request is   *)
(* not run.                                                                *)
Crash(w) ==
  /\ Crashes
  /\ req[w] # NULL
  /\ Finish(w)
  /\ UNCHANGED vars

(* The ages are counted in units longer than a request takes.              *)
RaceTick ==
  /\ \A w \in Workers : req[w] = NULL
  /\ Tick
  /\ UNCHANGED req

RaceInit == Init /\ req = [w \in Workers |-> NULL]

Step(w) ==
  \/ AnswerAgain(w) \/ RefuseUpdate(w) \/ ReadGroup(w) \/ Count(w) \/ Hold(w)
  \/ Grant(w) \/ GrantFails(w) \/ RaiseFlag(w)
  \/ WriteStatus(w) \/ SeeOutcome(w) \/ DisableUpdates(w) \/ ClearFlag(w)
  \/ Crash(w)

RaceNext ==
  \/ \E w \in Workers, i \in Instances, v \in Versions : BeginCheck(w, i, v)
  \/ \E w \in Workers, i \in Instances, s \in EventStatus : BeginEvent(w, i, s)
  \/ \E w \in Workers : Step(w)
  \/ RaceTick

RaceSpec == RaceInit /\ [][RaceNext]_raceVars

-----------------------------------------------------------------------------
(* Properties.                                                             *)

RaceTypeOK ==
  /\ TypeOK
  /\ req \in [Workers -> Request \cup {NULL}]

(* Checks that have counted and found room, and have not yet granted.      *)
Pending == {w \in Workers : At(w, "grant")}

(* Racing checks overshoot the limits, each by at most one update: with n  *)
(* requests at a time, no more than n - 1 updates beyond the limit run at  *)
(* once or are granted in a period, counting the grants still to be made.  *)
OvershootBounded ==
  RateLimited =>
    Cardinality(InFlight(rows)) + Cardinality(Pending) =< Limit + Cardinality(Workers) - 1

(* The same of the instances granted an update in the last period.         *)
PeriodOvershootBounded ==
  RateLimited =>
    Cardinality(RecentlyGranted(rows)) + Cardinality(Pending)
      =< Limit + Cardinality(Workers) - 1

(* However requests race, an instance that may report events is in a       *)
(* state in which it is not granted another update.                        *)
UpdatingIsBusy ==
  \A i \in Instances : rows[i].updateInProgress => rows[i].status \in BusyStatus
=============================================================================
