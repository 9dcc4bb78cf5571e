------------------------------- MODULE Updater -------------------------------
(***************************************************************************)
(* Machines that update themselves with the client library (updater/),     *)
(* composed with the rollout engine of their group.  TryUpdate is a        *)
(* conversation: a check, then reports of progress, each a request of its  *)
(* own.  Omaha's handler answers every report with status ok, whatever     *)
(* RegisterEvent made of it, so a report fails only when the request or    *)
(* its answer is lost; TryUpdate then gives up and leaves the server as    *)
(* the request left it.  Office hours and safe mode are the group's; the   *)
(* machines here are not syncers.                                          *)
(***************************************************************************)
EXTENDS Rollout

CONSTANT Lossy    \* TRUE: requests and answers can be lost

ASSUME UpdaterAssumption == Lossy \in BOOLEAN /\ Syncers = {}

VARIABLE updater  \* per machine: where TryUpdate is, the version it runs and was offered

updaterVars == <<vars, updater>>

Steps == {"idle", "fetch", "apply", "complete"}

Client == [step : Steps, instanceVersion : Versions, offer : Versions \cup {NULL}]

GoOn(i, step) == updater' = [updater EXCEPT ![i].step = step]

GiveUp(i) == updater' = [updater EXCEPT ![i].step = "idle", ![i].offer = NULL]

-----------------------------------------------------------------------------
(* The conversation with the server.                                       *)

(* A report without a reboot is no completion for a Flatcar application.   *)
Completion(i) == IF FlatcarApp THEN UNCHANGED <<rows, brake, rolloutInProgress>>
                 ELSE UpdateCompleted(i)

(* What an event of the report means to the server.  An installation's end *)
(* is an event type it does not know.                                      *)
EventOf(i, progress) ==
  CASE progress = "DownloadFinished"     -> UpdateProgressed(i, "Downloaded")
    [] progress = "InstallationFinished" -> UNCHANGED <<rows, brake, rolloutInProgress>>
    [] progress = "UpdateComplete"       -> Completion(i)
    [] progress = "Error"                -> UpdateFailed(i)

(* The server hears the event, if it has seen the machine within a day and *)
(* holds it to be updating.                                                *)
Hears(i, progress) ==
  IF i \in Seen(rows) /\ rows[i].updateInProgress
    THEN EventOf(i, progress) /\ UNCHANGED <<policy, channel>>
    ELSE UNCHANGED vars

ReportProgress(i, progress, step) == Hears(i, progress) /\ GoOn(i, step)

(* The report's request, or the answer to it, is lost.                     *)
ReportLost(i, progress) ==
  /\ Lossy
  /\ Hears(i, progress) \/ UNCHANGED vars
  /\ GiveUp(i)

ReportError(i) ==
  \/ Hears(i, "Error") /\ GiveUp(i)
  \/ ReportLost(i, "Error")

(* The check of machine i can have been answered with a package: its       *)
(* update is granted once the check is done, by this check or by one       *)
(* before that still stands.                                               *)
Offered(i) ==
  /\ rows'[i].status = "UpdateGranted" /\ channel.target # NULL
  /\ rows[i].status = "UpdateGranted"
       => ~GrantIsOver(rows[i].lastUpdateVersion, updater[i].instanceVersion)

CheckOffers(i) ==
  /\ updater[i].step = "idle"
  /\ GetUpdatePackage(i, updater[i].instanceVersion)
  /\ Offered(i)
  /\ \E w \in Versions :
       /\ IsNextVersion(w, updater[i].instanceVersion)
       /\ updater' = [updater EXCEPT ![i].step = "fetch", ![i].offer = w]

CheckInVain(i) ==
  /\ updater[i].step = "idle"
  /\ GetUpdatePackage(i, updater[i].instanceVersion)
  /\ ~Offered(i) \/ i \notin Seen(rows) \/ Lossy
  /\ UNCHANGED updater

-----------------------------------------------------------------------------
(* TryUpdate after the check.                                              *)

(* FetchUpdate or ApplyUpdate returned an error.                           *)
HandlerFails(i) == updater[i].step \in {"fetch", "apply"} /\ ReportError(i)

Fetched(i) ==
  updater[i].step = "fetch" /\ ReportProgress(i, "DownloadFinished", "apply")

Applied(i) ==
  updater[i].step = "apply" /\ ReportProgress(i, "InstallationFinished", "complete")

(* Mutant of CompleteUpdate: the offer is forgotten before it is installed. *)
CompleteUpdateLate(i) ==
  /\ updater[i].step = "complete"
  /\ Hears(i, "UpdateComplete")
  /\ updater' = [updater EXCEPT ![i] = [step |-> "idle", offer |-> NULL,
                                        instanceVersion |-> NULL]]

CompleteUpdate(i) ==
  /\ updater[i].step = "complete"
  /\ Hears(i, "UpdateComplete")
  /\ updater' = [updater EXCEPT ![i] = [step |-> "idle", offer |-> NULL,
                                        instanceVersion |-> updater[i].offer]]

ProgressLost(i) ==
  \/ updater[i].step = "fetch" /\ ReportLost(i, "DownloadFinished")
  \/ updater[i].step = "apply" /\ ReportLost(i, "InstallationFinished")
  \/ updater[i].step = "complete" /\ ReportLost(i, "UpdateComplete")

-----------------------------------------------------------------------------

UpdaterInit ==
  /\ Init
  /\ updater \in [Instances ->
       {[step |-> "idle", instanceVersion |-> v, offer |-> NULL] : v \in Versions}]

TryUpdate(i) ==
  \/ CheckOffers(i) \/ CheckInVain(i)
  \/ Fetched(i) \/ Applied(i) \/ CompleteUpdate(i)
  \/ HandlerFails(i) \/ ProgressLost(i)

ServerSide ==
  /\ \/ \E c \in ChannelConfigs : ChangeChannel(c)
     \/ \E p \in Policies : UpdateGroup(p)
     \/ ClearUpdatesEnabledOverride
     \/ Tick
  /\ UNCHANGED updater

UpdaterNext == (\E i \in Instances : TryUpdate(i)) \/ ServerSide

UpdaterSpec == UpdaterInit /\ [][UpdaterNext]_updaterVars

(* A machine never stops asking; a handler that is run again and again     *)
(* succeeds at last, as does a machine that asks again and again while the *)
(* server has it in sight and there is room for its update; time passes.   *)
Fairness ==
  /\ \A i \in Instances :
       /\ WF_updaterVars(CheckInVain(i))
       /\ SF_updaterVars(i \in Seen(rows) /\ CheckOffers(i))
       /\ SF_updaterVars(Fetched(i))
       /\ SF_updaterVars(Applied(i))
       /\ SF_updaterVars(CompleteUpdate(i))
  /\ WF_updaterVars(Tick /\ UNCHANGED updater)

FairUpdaterSpec == UpdaterSpec /\ Fairness

-----------------------------------------------------------------------------
(* Properties.                                                             *)

UpdaterTypeOK ==
  /\ TypeOK
  /\ updater \in [Instances -> Client]

(* While a machine is at its update the server holds its update to be in   *)
(* progress: the limits on updates in flight bound what machines really do. *)
CountedWhileUpdating ==
  \A i \in Instances : updater[i].step # "idle" => rows[i].updateInProgress

(* What a machine installs is what the server granted it, by whose version *)
(* the rollout is judged.                                                  *)
OfferIsGrant ==
  \A i \in Instances :
    updater[i].step # "idle" => updater[i].offer = rows[i].lastUpdateVersion

(* The machine has given up, and the server still takes it to be updating. *)
Abandoned(i) == updater[i].step = "idle" /\ rows[i].status \in InProgressStatus

(* A machine between updates checks in at least once a day.  The first     *)
(* check after a longer silence is never granted an update (CheckUnseen),  *)
(* so a machine that asks less often than that is never updated.           *)
InSight(i) == updater[i].step = "idle" => i \in Seen(rows)

(* Whatever is lost, every machine that the server does not lose sight of  *)
(* gets to the channel's package or ends up abandoned: a machine that was  *)
(* left behind, or has gone, does not take the others' turn for good, and  *)
(* nothing else can hold one back.                                         *)
UpdatedOrAbandoned ==
  \A i \in Instances :
    <>[]InSight(i)
      => <>[](updater[i].instanceVersion >= channel.target \/ Abandoned(i))
=============================================================================
