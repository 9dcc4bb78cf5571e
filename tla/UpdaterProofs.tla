--------------------------- MODULE UpdaterProofs ---------------------------
(***************************************************************************)
(* Proofs about Updater for any number of machines and whatever is lost.   *)
(* To the server the machines are the rollout engine's instances: a        *)
(* request or an event of theirs is one that Rollout allows.               *)
(***************************************************************************)
EXTENDS Updater, RolloutProofs

Progress == {"DownloadFinished", "InstallationFinished", "UpdateComplete", "Error"}

OffersVersion == \A i \in Instances : updater[i].step # "idle" => updater[i].offer # NULL

TryInv == SoundState /\ UpdaterTypeOK /\ OffersVersion /\ CountedWhileUpdating

-----------------------------------------------------------------------------
(* What a request does to the table.                                       *)

LEMMA CheckIsNext ==
  ASSUME NEW i \in Instances, NEW v \in Versions, GetUpdatePackage(i, v)
  PROVE  Next /\ UpdateCheck(i, v)
BY UpdaterAssumption DEF UpdaterAssumption, Next, UpdateCheck

(* The server has seen the machine within a day and takes it to be at an   *)
(* update: its events have consequences.                                   *)
IsHeard(i) == i \in Seen(rows) /\ rows[i].updateInProgress

LEMMA HearsIsNext ==
  ASSUME NEW i \in Instances, NEW progress \in Progress, Hears(i, progress)
  PROVE  [Next]_vars
<1>1. CASE ~IsHeard(i)
  BY <1>1 DEF Hears, IsHeard
<1>2. CASE IsHeard(i)
  <2>1. /\ EventOf(i, progress) /\ UNCHANGED <<policy, channel>>
        /\ i \in Seen(rows) /\ rows[i].updateInProgress
    BY <1>2 DEF Hears, IsHeard
  <2>2. "Downloaded" \in InProgressStatus
    BY DEF InProgressStatus
  <2>3. CASE progress = "DownloadFinished"
    BY <2>1, <2>2, <2>3 DEF EventOf, RegisterEvent, Next
  <2>4. CASE progress = "InstallationFinished"
    BY <2>1, <2>4 DEF EventOf, vars
  <2>5. CASE progress = "UpdateComplete"
    BY <2>1, <2>5 DEF EventOf, Completion, RegisterEvent, Next, vars
  <2>6. CASE progress = "Error"
    BY <2>1, <2>6 DEF EventOf, RegisterEvent, Next
  <2> QED BY <2>3, <2>4, <2>5, <2>6 DEF Progress
<1> QED BY <1>1, <1>2

(* A check touches its own machine's row; when the machine's update is     *)
(* granted after it, it was granted before, or now as the next version     *)
(* after the one reported.                                                 *)
LEMMA CheckRow ==
  ASSUME SoundState, NEW i \in Instances, NEW v \in Versions, GetUpdatePackage(i, v)
  PROVE  /\ \A j \in Instances \ {i} : rows'[j] = rows[j]
         /\ channel' = channel
         /\ rows'[i].status = "UpdateGranted" =>
              \/ /\ rows[i].status = "UpdateGranted"
                 /\ rows'[i].lastUpdateVersion = rows[i].lastUpdateVersion
              \/ IsNextVersion(rows'[i].lastUpdateVersion, v)
<1> DEFINE t == RegisterInstance(rows, i, v)
<1>1. /\ Sound(t) /\ t[i].version = v /\ t[i].status = rows[i].status
      /\ t[i].lastUpdateVersion = rows[i].lastUpdateVersion
      /\ \A j \in Instances \ {i} : t[j] = rows[j]
  <2>1. Sound(t)
    BY RegisterInstanceSound DEF SoundState
  <2> QED BY <2>1 DEF SoundState, Sound, SoundRow, RegisterInstance, CheckedIn, Row
<1>2. UpdateCheck(i, v) /\ CheckOutcome(t, i) /\ channel' = channel
  BY CheckIsNext, CheckWrites
<1> HIDE DEF t
<1>3. \A j \in Instances \ {i} : rows'[j] = t[j]
  BY <1>1, <1>2 DEF CheckOutcome, UpdateInstanceStatus, GrantUpdate, Sound
<1>4. ASSUME rows'[i].status = "UpdateGranted"
      PROVE  /\ rows'[i].version = v
             /\ rows[i].status = "UpdateGranted" =>
                  rows'[i].lastUpdateVersion = rows[i].lastUpdateVersion
  <2>0. t[i] \in Row
    BY <1>1 DEF Sound, SoundRow
  <2>1. CASE rows' = t
    BY <1>1, <2>1
  <2>2. ASSUME NEW s \in {"Complete", "OnHold"}, rows' = UpdateInstanceStatus(t, i, s)
        PROVE  FALSE
    BY <1>1, <1>4, <2>0, <2>2 DEF UpdateInstanceStatus, WithStatus, Sound, Row
  <2>3. ASSUME NEW w \in Versions, rows' = GrantUpdate(t, i, w)
        PROVE  /\ rows'[i].version = v
               /\ rows[i].status = "UpdateGranted" =>
                    rows'[i].lastUpdateVersion = rows[i].lastUpdateVersion
    BY <1>1, <2>0, <2>3 DEF GrantUpdate, Granted, Sound, Row
  <2> QED BY <1>2, <2>1, <2>2, <2>3 DEF CheckOutcome
<1>5. NewGrant(i) => IsNextVersion(rows'[i].lastUpdateVersion, rows'[i].version)
  BY CheckIsNext, GrantIsNextVersion, UpdaterAssumption DEF UpdaterAssumption
<1> QED BY <1>1, <1>2, <1>3, <1>4, <1>5 DEF NewGrant

(* A report touches its own machine's row, and neither what was granted to *)
(* it nor, but for completions and errors, that it is updating.            *)
LEMMA HearsRow ==
  ASSUME SoundState, NEW i \in Instances, NEW progress \in Progress, Hears(i, progress)
  PROVE  /\ \A j \in Instances \ {i} : rows'[j] = rows[j]
         /\ channel' = channel
         /\ rows'[i].lastUpdateVersion = rows[i].lastUpdateVersion
         /\ rows'[i].status = "UpdateGranted" => rows[i].status = "UpdateGranted"
         /\ progress = "DownloadFinished" =>
              rows' = rows \/ rows'[i].status = "Downloaded"
         /\ progress = "InstallationFinished" => rows' = rows
<1>1. rows[i] \in Row /\ rows = [j \in Instances |-> rows[j]]
  BY DEF SoundState, Sound, SoundRow
<1>2. channel' = channel
  BY DEF Hears, vars
<1>3. progress = "InstallationFinished" => rows' = rows
  BY DEF Hears, EventOf, vars
<1>4. ASSUME NEW s \in {"Downloaded", "Complete", "Error"},
             rows' = UpdateInstanceStatus(rows, i, s)
      PROVE  /\ \A j \in Instances \ {i} : rows'[j] = rows[j]
             /\ rows'[i].lastUpdateVersion = rows[i].lastUpdateVersion
             /\ rows'[i].status = s
  BY <1>1, <1>4 DEF UpdateInstanceStatus, WithStatus, Row
<1>5. \/ rows' = rows
      \/ rows' = UpdateInstanceStatus(rows, i, "Downloaded")
      \/ /\ rows' = UpdateInstanceStatus(rows, i, "Complete")
         /\ progress = "UpdateComplete"
      \/ /\ rows' = UpdateInstanceStatus(rows, i, "Error")
         /\ progress = "Error"
  <2>1. CASE ~IsHeard(i)
    BY <2>1 DEF Hears, IsHeard, vars
  <2>2. CASE IsHeard(i) /\ progress = "DownloadFinished"
    BY <2>2 DEF Hears, IsHeard, EventOf, UpdateProgressed
  <2>3. CASE progress = "InstallationFinished"
    BY <1>3, <2>3
  <2>4. CASE IsHeard(i) /\ progress = "UpdateComplete"
    BY <2>4 DEF Hears, IsHeard, EventOf, Completion, UpdateCompleted
  <2>5. CASE IsHeard(i) /\ progress = "Error"
    BY <2>5 DEF Hears, IsHeard, EventOf, UpdateFailed
  <2> QED BY <2>1, <2>2, <2>3, <2>4, <2>5 DEF Progress
<1> QED BY <1>2, <1>3, <1>4, <1>5

-----------------------------------------------------------------------------
(* A step of TryUpdate, seen from the table and from the machine.          *)

LEMMA TryIsNext ==
  ASSUME UpdaterTypeOK, NEW i \in Instances, TryUpdate(i)
  PROVE  [Next]_vars
<1>1. updater[i].instanceVersion \in Versions
  BY DEF UpdaterTypeOK, Client
<1>2. Progress = {"DownloadFinished", "InstallationFinished", "UpdateComplete", "Error"}
  BY DEF Progress
<1>3. ASSUME NEW progress \in Progress, Hears(i, progress) \/ ReportLost(i, progress)
      PROVE  [Next]_vars
  BY <1>3, HearsIsNext DEF ReportLost
<1>4. CASE CheckOffers(i) \/ CheckInVain(i)
  BY <1>1, <1>4, CheckIsNext DEF CheckOffers, CheckInVain
<1>5. CASE Fetched(i) \/ Applied(i) \/ CompleteUpdate(i) \/ HandlerFails(i) \/ ProgressLost(i)
  BY <1>2, <1>3, <1>5
     DEF Fetched, Applied, CompleteUpdate, HandlerFails, ProgressLost, ReportProgress, ReportError
<1> QED BY <1>4, <1>5 DEF TryUpdate

LEMMA OwnRowOnly ==
  ASSUME SoundState, UpdaterTypeOK, NEW i \in Instances, TryUpdate(i)
  PROVE  /\ \A j \in Instances \ {i} : rows'[j] = rows[j] /\ updater'[j] = updater[j]
         /\ channel' = channel
<1>1. updater[i].instanceVersion \in Versions /\ updater = [j \in Instances |-> updater[j]]
  BY DEF UpdaterTypeOK, Client
<1>2. ASSUME NEW progress \in Progress, Hears(i, progress) \/ UNCHANGED vars
      PROVE  (\A j \in Instances \ {i} : rows'[j] = rows[j]) /\ channel' = channel
  BY <1>2, HearsRow DEF vars
<1>3. /\ "DownloadFinished" \in Progress /\ "InstallationFinished" \in Progress
      /\ "UpdateComplete" \in Progress /\ "Error" \in Progress
  BY DEF Progress
<1>4. CASE CheckOffers(i)
  BY <1>1, <1>4, CheckRow DEF CheckOffers
<1>5. CASE CheckInVain(i)
  BY <1>1, <1>5, CheckRow DEF CheckInVain
<1>6. CASE Fetched(i) \/ Applied(i)
  BY <1>1, <1>2, <1>3, <1>6 DEF Fetched, Applied, ReportProgress, GoOn
<1>7. CASE CompleteUpdate(i)
  BY <1>1, <1>2, <1>3, <1>7 DEF CompleteUpdate
<1>8. CASE HandlerFails(i) \/ ProgressLost(i)
  <2>1. GiveUp(i)
    BY <1>8 DEF HandlerFails, ProgressLost, ReportError, ReportLost
  <2>2. \E progress \in Progress : Hears(i, progress) \/ UNCHANGED vars
    BY <1>3, <1>8 DEF HandlerFails, ProgressLost, ReportError, ReportLost
  <2> QED BY <1>1, <1>2, <2>1, <2>2 DEF GiveUp
<1> QED BY <1>4, <1>5, <1>6, <1>7, <1>8 DEF TryUpdate

(* A machine gets on only from step to step: it has been offered a package *)
(* whose update the server has granted, or goes on with an update it has   *)
(* reported, and gives up or is done otherwise.                            *)
LEMMA OwnMachine ==
  ASSUME TryInv, SoundState', NEW i \in Instances, TryUpdate(i)
  PROVE  /\ updater' \in [Instances -> Client]
         /\ updater'[i].step # "idle" =>
              updater'[i].offer # NULL /\ rows'[i].updateInProgress
         /\ \/ /\ updater[i].step = "idle" /\ updater'[i].step = "fetch"
               /\ updater'[i].instanceVersion = updater[i].instanceVersion
               /\ Offered(i)
               /\ GetUpdatePackage(i, updater[i].instanceVersion)
               /\ IsNextVersion(updater'[i].offer, updater[i].instanceVersion)
            \/ /\ updater[i].step = "idle" /\ updater'[i] = updater[i]
               /\ GetUpdatePackage(i, updater[i].instanceVersion)
            \/ /\ updater[i].step = "fetch" /\ updater'[i].step = "apply"
               /\ updater'[i].instanceVersion = updater[i].instanceVersion
               /\ updater'[i].offer = updater[i].offer
               /\ Hears(i, "DownloadFinished")
            \/ /\ updater[i].step = "apply" /\ updater'[i].step = "complete"
               /\ updater'[i].instanceVersion = updater[i].instanceVersion
               /\ updater'[i].offer = updater[i].offer
               /\ rows' = rows
            \/ /\ updater[i].step = "complete" /\ updater'[i].step = "idle"
               /\ updater'[i].instanceVersion = updater[i].offer
               /\ Hears(i, "UpdateComplete")
            \/ /\ updater[i].step # "idle" /\ updater'[i].step = "idle"
               /\ updater'[i].instanceVersion = updater[i].instanceVersion
               /\ \E progress \in Progress : Hears(i, progress) \/ UNCHANGED vars
<1>1. /\ updater \in [Instances -> Client] /\ updater[i] \in Client /\ rows[i] \in Row
      /\ SoundState
      /\ updater[i].step # "idle" => rows[i].updateInProgress
      /\ updater[i].step # "idle" => updater[i].offer # NULL
  BY DEF TryInv, UpdaterTypeOK, OffersVersion, CountedWhileUpdating, SoundState, Sound, SoundRow
<1>2. /\ "DownloadFinished" \in Progress /\ "InstallationFinished" \in Progress
      /\ "UpdateComplete" \in Progress /\ "Error" \in Progress
  BY DEF Progress
<1>3. rows'[i].status \in BusyStatus => rows'[i].updateInProgress
  BY DEF SoundState, Sound, SoundRow, MatchesOf
<1>4. {"UpdateGranted", "Downloaded"} \subseteq BusyStatus
  BY DEF BusyStatus, InProgressStatus
<1>5. CASE CheckOffers(i)
  <2>1. PICK w \in Versions :
          /\ IsNextVersion(w, updater[i].instanceVersion)
          /\ updater' = [updater EXCEPT ![i].step = "fetch", ![i].offer = w]
    BY <1>5 DEF CheckOffers
  <2>2. /\ updater[i].step = "idle" /\ GetUpdatePackage(i, updater[i].instanceVersion)
        /\ Offered(i) /\ rows'[i].status = "UpdateGranted"
    BY <1>5 DEF CheckOffers, Offered
  <2>3. /\ updater' \in [Instances -> Client]
        /\ updater'[i].step = "fetch" /\ updater'[i].offer = w
        /\ updater'[i].instanceVersion = updater[i].instanceVersion
    BY <1>1, <2>1 DEF Client, Steps
  <2>4. w # NULL
    BY Nulls
  <2> QED BY <1>3, <1>4, <2>1, <2>2, <2>3, <2>4
<1>6. CASE CheckInVain(i)
  BY <1>1, <1>6 DEF CheckInVain
<1>7. CASE Fetched(i)
  <2>1. /\ updater[i].step = "fetch" /\ Hears(i, "DownloadFinished")
        /\ updater' = [updater EXCEPT ![i].step = "apply"]
    BY <1>7 DEF Fetched, ReportProgress, GoOn
  <2>2. /\ updater' \in [Instances -> Client]
        /\ updater'[i].step = "apply" /\ updater'[i].offer = updater[i].offer
        /\ updater'[i].instanceVersion = updater[i].instanceVersion
    BY <1>1, <2>1 DEF Client, Steps
  <2>3. rows'[i].updateInProgress
    BY <1>1, <1>2, <1>3, <1>4, <2>1, HearsRow
  <2> QED BY <1>1, <2>1, <2>2, <2>3
<1>8. CASE Applied(i)
  <2>1. /\ updater[i].step = "apply" /\ Hears(i, "InstallationFinished")
        /\ updater' = [updater EXCEPT ![i].step = "complete"]
    BY <1>8 DEF Applied, ReportProgress, GoOn
  <2>2. /\ updater' \in [Instances -> Client]
        /\ updater'[i].step = "complete" /\ updater'[i].offer = updater[i].offer
        /\ updater'[i].instanceVersion = updater[i].instanceVersion
    BY <1>1, <2>1 DEF Client, Steps
  <2>3. rows' = rows
    BY <1>1, <1>2, <2>1, HearsRow
  <2> QED BY <1>1, <2>1, <2>2, <2>3
<1>9. CASE CompleteUpdate(i)
  <2>1. /\ updater[i].step = "complete" /\ Hears(i, "UpdateComplete")
        /\ updater' = [updater EXCEPT ![i] = [step |-> "idle", offer |-> NULL,
                                              instanceVersion |-> updater[i].offer]]
    BY <1>9 DEF CompleteUpdate
  <2>2. /\ updater' \in [Instances -> Client] /\ updater'[i].step = "idle"
        /\ updater'[i].instanceVersion = updater[i].offer
    BY <1>1, <2>1 DEF Client, Steps
  <2> QED BY <2>1, <2>2
<1>10. CASE HandlerFails(i) \/ ProgressLost(i)
  <2>1. /\ updater[i].step # "idle"
        /\ updater' = [updater EXCEPT ![i].step = "idle", ![i].offer = NULL]
    BY <1>10 DEF HandlerFails, ProgressLost, ReportError, ReportLost, GiveUp
  <2>2. /\ updater' \in [Instances -> Client] /\ updater'[i].step = "idle"
        /\ updater'[i].instanceVersion = updater[i].instanceVersion
    BY <1>1, <2>1 DEF Client, Steps
  <2>3. \E progress \in Progress : Hears(i, progress) \/ UNCHANGED vars
    BY <1>2, <1>10 DEF HandlerFails, ProgressLost, ReportError, ReportLost
  <2> QED BY <2>1, <2>2, <2>3
<1> QED BY <1>5, <1>6, <1>7, <1>8, <1>9, <1>10 DEF TryUpdate

-----------------------------------------------------------------------------
LEMMA UpdaterIsRollout ==
  UpdaterTypeOK /\ [UpdaterNext]_updaterVars => [Next]_vars
<1> SUFFICES ASSUME UpdaterTypeOK, [UpdaterNext]_updaterVars PROVE [Next]_vars
  OBVIOUS
<1>1. CASE \E i \in Instances : TryUpdate(i)
  BY <1>1, TryIsNext
<1>2. CASE ServerSide
  BY <1>2 DEF ServerSide, Next
<1>3. CASE UNCHANGED updaterVars
  BY <1>3 DEF updaterVars
<1> QED BY <1>1, <1>2, <1>3 DEF UpdaterNext

(* The server's side leaves who is granted what.                           *)
LEMMA ServerSideRows ==
  ASSUME SoundState, ServerSide
  PROVE  /\ updater' = updater
         /\ \A i \in Instances :
              /\ rows'[i].updateInProgress = rows[i].updateInProgress
              /\ rows'[i].status = rows[i].status
              /\ rows'[i].lastUpdateVersion = rows[i].lastUpdateVersion
<1>1. \A i \in Instances : rows[i] \in Row
  BY DEF SoundState, Sound, SoundRow
<1>2. updater' = updater
  BY DEF ServerSide
<1>3. CASE Tick
  <2>1. \A i \in Instances : rows'[i] = Aged(rows[i])
    BY <1>3 DEF Tick
  <2>2. \A i \in Instances : /\ Aged(rows[i]).updateInProgress = rows[i].updateInProgress
                             /\ Aged(rows[i]).status = rows[i].status
                             /\ Aged(rows[i]).lastUpdateVersion = rows[i].lastUpdateVersion
    BY <1>1 DEF Aged, Row
  <2> QED BY <1>2, <2>1, <2>2
<1>4. CASE rows' = rows
  BY <1>2, <1>4
<1> QED BY <1>3, <1>4 DEF ServerSide, ChangeChannel, UpdateGroup, ClearUpdatesEnabledOverride

LEMMA TryInit == UpdaterInit => TryInv
<1> SUFFICES ASSUME UpdaterInit PROVE TryInv
  OBVIOUS
<1>1. SoundState /\ TypeOK
  BY InitSound, SoundTable DEF UpdaterInit, SoundState, TypeOK
<1>2. updater \in [Instances -> Client] /\ \A i \in Instances : updater[i].step = "idle"
  BY DEF UpdaterInit, Client, Steps
<1> QED BY <1>1, <1>2 DEF TryInv, UpdaterTypeOK, OffersVersion, CountedWhileUpdating

LEMMA TryStep == TryInv /\ [UpdaterNext]_updaterVars => TryInv'
<1> SUFFICES ASSUME TryInv, [UpdaterNext]_updaterVars PROVE TryInv'
  OBVIOUS
<1>1. SoundState'
  BY UpdaterIsRollout, NextSound DEF TryInv
<1>2. TypeOK'
  BY <1>1, SoundTable DEF SoundState, TypeOK
<1>3. CASE \E i \in Instances : TryUpdate(i)
  <2>1. PICK i \in Instances : TryUpdate(i)
    BY <1>3
  <2>2. \A j \in Instances \ {i} : rows'[j] = rows[j] /\ updater'[j] = updater[j]
    BY <2>1, OwnRowOnly DEF TryInv
  <2>3. /\ updater' \in [Instances -> Client]
        /\ updater'[i].step # "idle" =>
             updater'[i].offer # NULL /\ rows'[i].updateInProgress
    BY <1>1, <2>1, OwnMachine
  <2>4. UpdaterTypeOK'
    BY <1>2, <2>3 DEF UpdaterTypeOK
  <2> QED BY <1>1, <2>2, <2>3, <2>4 DEF TryInv, OffersVersion, CountedWhileUpdating
<1>4. CASE ServerSide
  BY <1>1, <1>2, <1>4, ServerSideRows
     DEF TryInv, UpdaterTypeOK, OffersVersion, CountedWhileUpdating
<1>5. CASE UNCHANGED updaterVars
  BY <1>1, <1>2, <1>5
     DEF updaterVars, vars, TryInv, UpdaterTypeOK, OffersVersion, CountedWhileUpdating
<1> QED BY <1>3, <1>4, <1>5 DEF UpdaterNext

LEMMA AlwaysTryInv == UpdaterSpec => []TryInv
BY TryInit, TryStep, PTL DEF UpdaterSpec

(* Machines, and the rows the server keeps of them, keep their types.      *)
THEOREM UpdaterTypes == UpdaterSpec => []UpdaterTypeOK
<1>1. TryInv => UpdaterTypeOK
  BY DEF TryInv
<1> QED BY <1>1, AlwaysTryInv, PTL

(* A machine that is fetching or applying an update is one the server      *)
(* counts, whatever requests and answers are lost: the limits proved of    *)
(* Rollout bound what machines really do (TryUpdate).                      *)
THEOREM CountedAlways == UpdaterSpec => []CountedWhileUpdating
<1>1. TryInv => CountedWhileUpdating
  BY DEF TryInv
<1> QED BY <1>1, AlwaysTryInv, PTL

(* The group that the machines talk to is the rollout engine: what is      *)
(* proved of Rollout holds of it.                                          *)
THEOREM GroupIsRollout == UpdaterSpec => Spec
<1>1. UpdaterInit => Init
  BY DEF UpdaterInit
<1>2. TryInv /\ [UpdaterNext]_updaterVars => [Next]_vars
  BY UpdaterIsRollout DEF TryInv
<1> QED BY <1>1, <1>2, AlwaysTryInv, PTL DEF UpdaterSpec, Spec

(* The two together bound what runs on the machines: a machine at its      *)
(* update holds a grant, and only the timeout, or a day in which the       *)
(* machine asked for nothing, makes room for another one while it is still *)
(* at work.                                                                *)
TimedOut(i) == rows[i].grantAge # NULL /\ rows[i].grantAge > Timeout

AtWork == {i \in Instances :
             updater[i].step # "idle" /\ ~TimedOut(i) /\ ~rows[i].lost}

MachinesBounded == RateLimited => Cardinality(AtWork) =< Limit

(* Never are more machines fetching or applying an update at once than the *)
(* group's limit, but for those that have overrun the update timeout and   *)
(* those that neither checked in nor pinged for a whole day since their    *)
(* grant (TryUpdate on the machines, enforceRolloutPolicy on the server).  *)
THEOREM MachinesWithinLimit == UpdaterSpec => []MachinesBounded
<1>1. TryInv => AtWork \subseteq InFlight(rows)
  <2> SUFFICES ASSUME TryInv, NEW i \in AtWork PROVE i \in InFlight(rows)
    OBVIOUS
  <2>1. i \in Instances /\ updater[i].step # "idle" /\ ~TimedOut(i) /\ ~rows[i].lost
    BY DEF AtWork
  <2>2. rows[i].updateInProgress
    BY <2>1 DEF TryInv, CountedWhileUpdating
  <2>3. rows[i] \in Row /\ rows[i].grantAge # NULL
    BY <2>1, <2>2 DEF TryInv, SoundState, Sound, SoundRow, MatchesOf
  <2>4. rows[i].grantAge \in Nat /\ Timeout \in Nat
    BY <2>3, AgesNat, Constants DEF Row
  <2>5. rows[i].grantAge =< Timeout
    BY <2>1, <2>3, <2>4 DEF TimedOut
  <2> QED BY <2>1, <2>2, <2>3, <2>5 DEF InFlight
<1>2. AtWork \subseteq InFlight(rows) /\ ParallelUpdatesBounded => MachinesBounded
  <2> SUFFICES ASSUME AtWork \subseteq InFlight(rows), ParallelUpdatesBounded, RateLimited
               PROVE  Cardinality(AtWork) =< Limit
    BY DEF MachinesBounded
  <2>1. InFlight(rows) \in SUBSET Instances
    BY DEF InFlight
  <2>2. IsFiniteSet(InFlight(rows)) /\ IsFiniteSet(AtWork)
    BY <2>1, FiniteAssumption, FS_Subset DEF FiniteAssumption
  <2>3. Cardinality(AtWork) =< Cardinality(InFlight(rows))
    BY <2>2, FS_Subset
  <2>4. Cardinality(InFlight(rows)) =< Limit
    BY DEF ParallelUpdatesBounded
  <2>5. Cardinality(AtWork) \in Nat /\ Cardinality(InFlight(rows)) \in Nat /\ Limit \in Nat
    BY <2>2, FS_CardinalityType, Constants
  <2> QED BY <2>3, <2>4, <2>5
<1> QED BY <1>1, <1>2, AlwaysTryInv, GroupIsRollout, ParallelBound, PTL

-----------------------------------------------------------------------------
(* Offers.  While the channel keeps its package and floors, the package a  *)
(* machine is offered is the one its grant is for: a grant that has not    *)
(* been taken up is for the next version after the one the machine runs,   *)
(* or was taken up while the server did not listen, and is over.           *)

SteadyPackages ==
  \A c, d \in ChannelConfigs : c.target = d.target /\ c.floors = d.floors

OfferOf(i) ==
  rows[i].status = "UpdateGranted" =>
    \/ IsNextVersion(rows[i].lastUpdateVersion, updater[i].instanceVersion)
    \/ /\ updater[i].step = "idle"
       /\ updater[i].instanceVersion = rows[i].lastUpdateVersion

OfferInv == TryInv /\ OfferIsGrant /\ \A i \in Instances : OfferOf(i)

LEMMA OneNextVersion ==
  ASSUME TypeOK, NEW u, NEW v, NEW w, IsNextVersion(v, u), IsNextVersion(w, u)
  PROVE  v = w
<1>1. channel.floors \subseteq Nat
  BY TypeAssumption DEF TypeAssumption, TypeOK, Channel
<1>2. RequiredFloors(u) \subseteq Nat
  BY <1>1 DEF RequiredFloors
<1> QED BY <1>2 DEF IsNextVersion

LEMMA OfferOfOwn ==
  ASSUME OfferInv, SoundState', NEW i \in Instances, TryUpdate(i)
  PROVE  /\ OfferOf(i)'
         /\ updater'[i].step # "idle" => updater'[i].offer = rows'[i].lastUpdateVersion
<1>1. /\ TryInv /\ SoundState /\ TypeOK /\ OfferOf(i) /\ channel' = channel
      /\ updater[i].step # "idle" => updater[i].offer = rows[i].lastUpdateVersion
      /\ updater[i].instanceVersion \in Versions /\ updater[i] \in Client
  BY OwnRowOnly DEF OfferInv, TryInv, UpdaterTypeOK, OfferIsGrant, Client
<1>2. \A v, w : IsNextVersion(w, v)' <=> IsNextVersion(w, v)
  BY <1>1 DEF IsNextVersion, RequiredFloors
<1>3. ASSUME GetUpdatePackage(i, updater[i].instanceVersion),
             rows'[i].status = "UpdateGranted"
      PROVE  \/ IsNextVersion(rows'[i].lastUpdateVersion, updater[i].instanceVersion)
             \/ /\ rows[i].status = "UpdateGranted"
                /\ rows'[i].lastUpdateVersion = rows[i].lastUpdateVersion
                /\ updater[i].step = "idle"
                /\ updater[i].instanceVersion = rows[i].lastUpdateVersion
  BY <1>1, <1>3, CheckRow DEF OfferOf
<1>4. /\ "DownloadFinished" \in Progress /\ "UpdateComplete" \in Progress
  BY DEF Progress
<1> DEFINE v == updater[i].instanceVersion
           o == updater'[i].offer
           g == rows'[i].lastUpdateVersion
<1>5. CASE /\ updater[i].step = "idle" /\ updater'[i].step = "fetch"
           /\ updater'[i].instanceVersion = v
           /\ Offered(i)
           /\ GetUpdatePackage(i, v)
           /\ IsNextVersion(o, v)
  <2>0. /\ rows'[i].status = "UpdateGranted"
        /\ rows[i].status = "UpdateGranted" => rows[i].lastUpdateVersion # v
    <3>1. v \in Nat
      BY <1>1, TypeAssumption DEF TypeAssumption
    <3> QED BY <1>5, <3>1 DEF Offered, GrantIsOver
  <2>1. IsNextVersion(g, v) /\ o = g
    BY <1>1, <1>3, <1>5, <2>0, OneNextVersion
  <2>2. OfferOf(i)'
    BY <1>1, <1>5, <2>1 DEF OfferOf, IsNextVersion, RequiredFloors
  <2> QED BY <2>1, <2>2
<1>6. CASE updater[i].step = "idle" /\ updater'[i] = updater[i] /\ GetUpdatePackage(i, v)
  <2>1. rows'[i].status = "UpdateGranted" => IsNextVersion(g, v) \/ v = g
    BY <1>3, <1>6
  <2> QED BY <1>1, <1>6, <2>1 DEF OfferOf, IsNextVersion, RequiredFloors
<1>7. CASE /\ updater[i].step = "fetch" /\ updater'[i].step = "apply"
           /\ updater'[i].instanceVersion = v
           /\ o = updater[i].offer
           /\ Hears(i, "DownloadFinished")
  <2>1. /\ g = rows[i].lastUpdateVersion
        /\ rows'[i].status = "UpdateGranted" => rows[i].status = "UpdateGranted"
    BY <1>1, <1>4, <1>7, HearsRow
  <2> QED BY <1>1, <1>2, <1>7, <2>1 DEF OfferOf
<1>8. CASE /\ updater[i].step = "apply" /\ updater'[i].step = "complete"
           /\ updater'[i].instanceVersion = v
           /\ o = updater[i].offer
           /\ rows' = rows
  BY <1>1, <1>2, <1>8 DEF OfferOf
<1>9. CASE /\ updater[i].step = "complete" /\ updater'[i].step = "idle"
           /\ updater'[i].instanceVersion = updater[i].offer
           /\ Hears(i, "UpdateComplete")
  <2>1. g = rows[i].lastUpdateVersion /\ updater[i].offer = rows[i].lastUpdateVersion
    BY <1>1, <1>4, <1>9, HearsRow
  <2> QED BY <1>9, <2>1 DEF OfferOf
<1>10. CASE /\ updater[i].step # "idle" /\ updater'[i].step = "idle"
            /\ updater'[i].instanceVersion = v
            /\ \E progress \in Progress : Hears(i, progress) \/ UNCHANGED vars
  <2>1. rows'[i].status = "UpdateGranted" =>
          rows[i].status = "UpdateGranted" /\ g = rows[i].lastUpdateVersion
    BY <1>1, <1>10, HearsRow DEF vars
  <2> QED BY <1>1, <1>2, <1>10, <2>1 DEF OfferOf
<1> QED BY <1>1, <1>5, <1>6, <1>7, <1>8, <1>9, <1>10, OwnMachine

LEMMA OfferStep ==
  ASSUME SteadyPackages
  PROVE  OfferInv /\ [UpdaterNext]_updaterVars => OfferInv'
<1> SUFFICES ASSUME OfferInv, [UpdaterNext]_updaterVars PROVE OfferInv'
  OBVIOUS
<1>1. TryInv' /\ SoundState'
  BY TryStep DEF OfferInv, TryInv
<1>2. channel'.target = channel.target /\ channel'.floors = channel.floors
  BY <1>1 DEF OfferInv, TryInv, SoundState, SteadyPackages
<1>3. CASE \E i \in Instances : TryUpdate(i)
  <2>1. PICK i \in Instances : TryUpdate(i)
    BY <1>3
  <2>2. \A j \in Instances \ {i} : rows'[j] = rows[j] /\ updater'[j] = updater[j]
    BY <2>1, OwnRowOnly DEF OfferInv, TryInv
  <2>3. /\ OfferOf(i)'
        /\ updater'[i].step # "idle" => updater'[i].offer = rows'[i].lastUpdateVersion
    BY <1>1, <2>1, OfferOfOwn
  <2>4. \A j \in Instances \ {i} : OfferOf(j)'
    BY <1>2, <2>2 DEF OfferInv, OfferOf, IsNextVersion, RequiredFloors
  <2>5. OfferIsGrant'
    BY <2>2, <2>3 DEF OfferInv, OfferIsGrant
  <2>6. \A j \in Instances : OfferOf(j)'
    BY <2>3, <2>4
  <2> QED BY <1>1, <2>5, <2>6 DEF OfferInv
<1>4. CASE ServerSide
  <2>1. /\ updater' = updater
        /\ \A i \in Instances :
             /\ rows'[i].status = rows[i].status
             /\ rows'[i].lastUpdateVersion = rows[i].lastUpdateVersion
    BY <1>4, ServerSideRows DEF OfferInv, TryInv
  <2>2. OfferIsGrant'
    BY <2>1 DEF OfferInv, OfferIsGrant
  <2>3. \A i \in Instances : OfferOf(i)'
    BY <1>2, <2>1 DEF OfferInv, OfferOf, IsNextVersion, RequiredFloors
  <2> QED BY <1>1, <2>2, <2>3 DEF OfferInv
<1>5. CASE UNCHANGED updaterVars
  <2>1. rows' = rows /\ updater' = updater
    BY <1>5 DEF updaterVars, vars
  <2> QED BY <1>1, <1>2, <2>1
          DEF OfferInv, OfferIsGrant, OfferOf, IsNextVersion, RequiredFloors
<1> QED BY <1>3, <1>4, <1>5 DEF UpdaterNext

LEMMA OfferInit == UpdaterInit => OfferInv
<1> SUFFICES ASSUME UpdaterInit PROVE OfferInv
  OBVIOUS
<1>1. TryInv
  BY TryInit
<1>2. \A i \in Instances : updater[i].step = "idle" /\ rows[i].status = NULL
  BY DEF UpdaterInit, Init, NoRow
<1>3. NULL # "UpdateGranted"
  BY Nulls DEF Status, BusyStatus
<1> QED BY <1>1, <1>2, <1>3 DEF OfferInv, OfferIsGrant, OfferOf

(* What a machine installs is what it was granted, as long as the          *)
(* channel's package and floors stay (GetUpdatePackage answers a machine   *)
(* that has a grant with what the channel holds now).                      *)
THEOREM OffersAreGrants ==
  ASSUME SteadyPackages
  PROVE  UpdaterSpec => []OfferIsGrant
<1>1. UpdaterInit => OfferInv
  BY OfferInit
<1>2. OfferInv /\ [UpdaterNext]_updaterVars => OfferInv'
  BY OfferStep
<1>3. OfferInv => OfferIsGrant
  BY DEF OfferInv
<1> QED BY <1>1, <1>2, <1>3, PTL DEF UpdaterSpec
=============================================================================
