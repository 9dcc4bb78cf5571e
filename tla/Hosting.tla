------------------------------- MODULE Hosting -------------------------------
(***************************************************************************)
(* A syncer that also hosts the payloads (HostFlatcarPackages).  Before a  *)
(* package is added to the database its extra files and its payload are    *)
(* downloaded to packagesPath, under names made of its version; when a     *)
(* later step fails they are removed again.  Disk and database know        *)
(* nothing of each other.                                                  *)
(*                                                                         *)
(* To Syncer the downloads are steps that change nothing.  Extra files are *)
(* taken for one.                                                          *)
(***************************************************************************)
EXTENDS Syncer

VARIABLES
  files,     \* what is in packagesPath
  creating,  \* what createPackage is about to do for the manifest at hand, if anything
  doubted,   \* history: packages about which an answer of the database was lost
  restarted  \* history: the process has been restarted

disk == <<files, creating, doubted, restarted>>
hostingVars == <<syncerVars, disk>>

FilesOf(v) == {v} \X {"extraFiles", "payload"}

HostingInit ==
  /\ SyncerInit
  /\ files = {} /\ creating = "nothing" /\ doubted = {} /\ restarted = FALSE

-----------------------------------------------------------------------------

PackageExists(v) ==
  /\ creating = "nothing" /\ v \in mirror.packages
  /\ StorePackage(v)
  /\ UNCHANGED disk

(* The package is not there, or the database did not answer: the code      *)
(* makes no difference.                                                    *)
ProcessExtraFiles(v) ==
  /\ creating = "nothing" /\ syncer.step = "store" /\ Lowest(v)
  /\ doubted' = IF v \in mirror.packages THEN doubted \cup {v} ELSE doubted
  /\ files' = files \cup {<<v, "extraFiles">>}
  /\ creating' = "payload"
  /\ UNCHANGED <<syncerVars, restarted>>

DownloadPackagePayload(v) ==
  /\ creating = "payload" /\ Lowest(v)
  /\ files' = files \cup {<<v, "payload">>}
  /\ creating' = "row"
  /\ UNCHANGED <<syncerVars, doubted, restarted>>

(* The database refuses a second package of one version.                   *)
AddPackageWithMetadata(v) ==
  /\ creating = "row" /\ v \notin mirror.packages
  /\ StorePackage(v)
  /\ creating' = "nothing"
  /\ UNCHANGED <<files, doubted, restarted>>

-----------------------------------------------------------------------------
(* Failures.                                                               *)

(* Mutant of CleanupDownloadedFiles: the payload is forgotten.             *)
CleanupExtraFiles(v) == files' = files \ {<<v, "extraFiles">>}

(* What this attempt has downloaded so far.                                *)
CleanupDownloadedFiles(v) ==
  files' = files \ (IF creating = "row" THEN FilesOf(v) ELSE {<<v, "extraFiles">>})

(* Mutant of HostingFails: the next manifest is gone on with.              *)
HostingSkips ==
  /\ creating # "nothing"
  /\ \E v \in Versions :
       Lowest(v) /\ syncer' = ProcessedManifest(v) /\ CleanupDownloadedFiles(v)
  /\ creating' = "nothing"
  /\ UNCHANGED <<vars, mirror, foreign, oldUpstream, doubted, restarted>>

(* A download fails, the package is refused, or a later statement fails.   *)
HostingFails ==
  /\ StepFails
  /\ IF creating = "nothing" THEN UNCHANGED files
     ELSE \E v \in Versions : Lowest(v) /\ CleanupDownloadedFiles(v)
  /\ creating' = "nothing"
  /\ UNCHANGED <<doubted, restarted>>

HostingUnanswered ==
  /\ StepUnanswered
  /\ IF syncer.step # "store" THEN UNCHANGED <<files, doubted>>
     ELSE /\ creating = "row"
          /\ \E v \in Versions \ mirror.packages :
               Lowest(v) /\ CleanupDownloadedFiles(v) /\ doubted' = doubted \cup {v}
  /\ creating' = "nothing"
  /\ UNCHANGED restarted

HostingRestart ==
  /\ Restart
  /\ creating' = "nothing" /\ restarted' = TRUE
  /\ UNCHANGED <<files, doubted>>

-----------------------------------------------------------------------------

HostingNext ==
  \/ (PollOffered \/ PollInVain \/ Upstream) /\ UNCHANGED disk
  \/ \E v \in Versions :
       \/ PackageExists(v)
       \/ ProcessExtraFiles(v) \/ DownloadPackagePayload(v) \/ AddPackageWithMetadata(v)
       \/ MarkPackageAsFloor(v) /\ UNCHANGED disk
  \/ UpdateChannelToPackage /\ UNCHANGED disk
  \/ HostingFails \/ HostingUnanswered \/ HostingRestart

HostingSpec == HostingInit /\ [][HostingNext]_hostingVars

-----------------------------------------------------------------------------
(* Properties.                                                             *)

(* Whatever fails, a package that the syncer has stored has its files, and *)
(* files that are left behind belong to a package, or to one being stored. *)
(* Two things get past the code's cleaning up: an answer of the database   *)
(* that is lost, whereupon the files of a stored package are removed, and  *)
(* a restart, which leaves behind what has been downloaded.                *)
FilesFollowPackages ==
  /\ \A v \in mirror.packages \ (foreign \cup doubted) : FilesOf(v) \subseteq files
  /\ restarted \/ \A f \in files :
       \/ f[1] \in mirror.packages
       \/ creating # "nothing" /\ Lowest(f[1])
=============================================================================
