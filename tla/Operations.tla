----------------------------- MODULE Operations -----------------------------
(***************************************************************************)
(* The scripts of ConnPool for the functions of pkg/api, for the handlers  *)
(* that call them and for the server's background jobs: which statements   *)
(* each runs, in which order, and what is held meanwhile.  Of each         *)
(* function the longest way through is taken; EndEarly leaves it anywhere. *)
(***************************************************************************)
EXTENDS ConnPool

ServerLocks == {"cachedGroupsLock", "cachedAppsIDsLock", "package row"}

----------------------------------------------------------------------------
\* api/internal/dbreads.

GetFlatcarAction == Query
GetCountQuery == Query

getExtraFiles == Query
getPackage == Query \o GetFlatcarAction \o getExtraFiles
loadPackageExtras == Query \o Query
getPackagesFromQuery == Query \o loadPackageExtras
GetPackages == getPackagesFromQuery
GetPackageByVersionAndArch == Query \o getPackage
GetChannelFloorPackages == getPackagesFromQuery
GetRequiredChannelFloors == getPackagesFromQuery
GetChannelFloorPackagesPaginated == getPackagesFromQuery
GetPackageFloorChannels == Rows(getPackage)

\* Mutant of GetChannel: the channel's row stays open while its package is read.
GetChannelOpen == Rows(getPackage)
GetChannel == Query \o getPackage
getChannelsFromQuery == Rows(getPackage)
GetChannels == getChannelsFromQuery

GetGroup == Query \o GetChannel
getGroupsFromQuery == Rows(GetChannel)
GetGroups == getGroupsFromQuery
GetGroupUpdatesStats == Query
GetGroupVersionBreakdown == Query
GetGroupOEMBreakdown == Query
GetGroupInstancesStats == GetGroup \o Query
\* One of the three goroutines that each run a statement.
GetGroupVersionCountTimeline == Query
GetGroupStatusCountTimeline == Query

\* The caches: a look under the read lock, a refill under the write lock.
GetGroupID ==
  Locked("cachedGroupsLock", <<>>) \o Locked("cachedGroupsLock", getGroupsFromQuery)

\* Mutant of UpdateCachedGroups: the unlock is missing.
UpdateCachedGroupsLocked == <<Holding(0, {"cachedGroupsLock"})>>
UpdateCachedGroups == Locked("cachedGroupsLock", <<>>)
GetAppID ==
  Locked("cachedAppsIDsLock", <<>>) \o Locked("cachedAppsIDsLock", Query)
ClearCachedAppIDs == Locked("cachedAppsIDsLock", <<>>)

getInstanceCount == GetCountQuery
GetApp == Query \o getGroupsFromQuery \o getChannelsFromQuery \o getInstanceCount
GetApps == Rows(getGroupsFromQuery \o getChannelsFromQuery \o getInstanceCount)

GetEvent == Query
GetInstance == Query \o Query
GetInstanceStatusHistory == Rows(GetEvent)
GetInstances == GetCountQuery \o Query
GetInstancesCount == GetCountQuery

GetActivityCount == GetCountQuery
GetActivity == Query
HasRecentRuntimeActivity == Query

GetInstanceStats == Query
GetInstanceStatsByTimestamp == Query
GetTeams == Query
GetTeam == Query
GetUser == Query
GetUsersInTeam == Query

calculateMetrics == Query \o Query

----------------------------------------------------------------------------
\* api/admin.

newChannelActivityEntry == Query

validatePackage == getPackage
AddChannel == validatePackage \o Query
UpdateChannel == GetChannel \o validatePackage \o Query \o newChannelActivityEntry
DeleteChannel == Query

validateChannel == GetChannel
AddGroup == validateChannel \o Query \o UpdateCachedGroups \o GetGroup
UpdateGroup == GetGroup \o validateChannel \o Query \o UpdateCachedGroups
DeleteGroup == Query \o UpdateCachedGroups

AddApp == Query \o ClearCachedAppIDs
AddAppCloning == AddApp \o GetApp \o AddChannel \o AddGroup \o ClearCachedAppIDs
UpdateApp == Query \o ClearCachedAppIDs
DeleteApp == Query \o ClearCachedAppIDs

\* A statement on the transaction's own connection: nothing further is held.
updatePackageFiles == <<Nothing>>
\* The blacklist's channels are looked at on a second connection.
checkMatchingArch == Query
AddPackage == Rows(checkMatchingArch \o updatePackageFiles)
AddPackageWithMetadata == Rows(checkMatchingArch \o updatePackageFiles)
isPackageFloorForChannel == Query
updatePackageBlacklistedChannels == GetChannel \o isPackageFloorForChannel
UpdatePackage ==
  Tx("package row", getPackage \o updatePackageBlacklistedChannels \o updatePackageFiles)
DeletePackage == Write("package row") \o Query
isPackageBlacklistedForChannel == Query
AddChannelPackageFloor == Query \o isPackageBlacklistedForChannel \o Query
RemoveChannelPackageFloor == Query

AddTeam == Query
UpdateTeam == Query
AddUser == Query
UpdateUserPassword == Query

----------------------------------------------------------------------------
\* api/runtime.

validateApplicationAndGroup == GetAppID \o GetGroup
RegisterInstance == validateApplicationAndGroup \o GetInstance \o Query \o GetInstance
updateInstanceData == Query
updateInstanceStatus == GetInstance \o updateInstanceData
newActivityEntry == Query
UpdateGroupLocal == Query
UpdateInstanceStats == Query
UpdateInstance == Query

enforceRolloutPolicy == GetGroupUpdatesStats \o UpdateGroupLocal \o updateInstanceStatus
GetUpdatePackage ==
  RegisterInstance \o GetGroup \o GetRequiredChannelFloors \o enforceRolloutPolicy
    \o updateInstanceData \o HasRecentRuntimeActivity \o newActivityEntry \o UpdateGroupLocal
GetUpdatePackagesForSyncer ==
  RegisterInstance \o GetGroup \o GetRequiredChannelFloors \o enforceRolloutPolicy
    \o updateInstanceData \o HasRecentRuntimeActivity \o newActivityEntry \o UpdateGroupLocal

triggerEventConsequences ==
  GetGroup \o updateInstanceStatus \o newActivityEntry \o GetGroupUpdatesStats
    \o UpdateGroupLocal \o UpdateGroupLocal \o newActivityEntry
RegisterEvent ==
  validateApplicationAndGroup \o GetInstance \o Query \o Query \o triggerEventConsequences

----------------------------------------------------------------------------
\* Requests, as the handlers of pkg/handler and pkg/omaha put them together.

CreateAppRequest == GetAppID \o AddAppCloning \o GetApp
UpdateAppRequest == GetAppID \o GetApp \o UpdateApp \o GetApp
DeleteAppRequest == GetAppID \o GetApp \o DeleteApp
CreateChannelRequest == GetAppID \o AddChannel \o GetChannel
UpdateChannelRequest == GetAppID \o GetChannel \o UpdateChannel \o GetChannel
DeleteChannelRequest == GetChannel \o DeleteChannel
CreateGroupRequest == GetAppID \o AddGroup \o GetGroup
UpdateGroupRequest == GetAppID \o GetGroup \o UpdateGroup \o UpdateGroupLocal \o GetGroup
DeleteGroupRequest == GetGroup \o DeleteGroup
CreatePackageRequest == GetAppID \o AddPackage \o getPackage
UpdatePackageRequest == GetAppID \o getPackage \o UpdatePackage \o getPackage
DeletePackageRequest == getPackage \o DeletePackage
SetChannelFloor == AddChannelPackageFloor
RemoveChannelFloor == RemoveChannelPackageFloor

PaginateActivity == GetAppID \o GetActivityCount \o GetActivity
PaginateApps == GetCountQuery \o GetApps
PaginateChannels == GetAppID \o GetCountQuery \o GetChannels
PaginateGroups == GetAppID \o GetCountQuery \o GetGroups
PaginatePackages == GetAppID \o GetCountQuery \o GetPackages
PaginateChannelFloors == GetCountQuery \o GetChannelFloorPackagesPaginated
GetAppRequest == GetAppID \o GetApp
GetInstanceRequest == GetAppID \o GetInstance
GetInstanceStatusHistoryRequest == GetAppID \o GetInstanceStatusHistory
GetGroupInstances == GetAppID \o GetInstances
GetGroupInstancesCount == GetAppID \o GetInstancesCount
GetPackageFloorChannelsRequest == getPackage \o GetPackageFloorChannels
GetPackageRequest == getPackage
GetChannelRequest == GetChannel
GetGroupRequest == GetGroup
ClearGroupUpdatesOverride == UpdateGroupLocal
GetGroupVersionTimeline == GetGroupVersionCountTimeline
GetGroupStatusTimeline == GetGroupStatusCountTimeline
GetGroupInstanceStats == GetGroupInstancesStats
GetGroupVersionBreakdownRequest == GetGroupVersionBreakdown
GetGroupOEMBreakdownRequest == GetGroupOEMBreakdown
UpdateInstanceRequest == UpdateInstance

\* One application's events, ping or check, and the manifest's action.
buildOmahaResponse ==
  GetAppID \o GetGroupID \o RegisterEvent \o RegisterInstance \o GetUpdatePackage
    \o GetFlatcarAction
buildOmahaSyncerResponse ==
  GetAppID \o GetGroupID \o RegisterInstance \o GetUpdatePackagesForSyncer \o GetFlatcarAction

Omaha == {buildOmahaResponse, buildOmahaSyncerResponse}

\* A syncer's start, and one channel's round.
initialize == GetApp
SyncerRound ==
  GetPackageByVersionAndArch \o AddPackageWithMetadata \o AddChannelPackageFloor
    \o GetChannel \o UpdateChannel

ServerRequests ==
  {CreateAppRequest, UpdateAppRequest, DeleteAppRequest,
   CreateChannelRequest, UpdateChannelRequest, DeleteChannelRequest,
   CreateGroupRequest, UpdateGroupRequest, DeleteGroupRequest,
   CreatePackageRequest, UpdatePackageRequest, DeletePackageRequest,
   SetChannelFloor, RemoveChannelFloor,
   PaginateActivity, PaginateApps, PaginateChannels, PaginateGroups,
   PaginatePackages, PaginateChannelFloors, GetAppRequest, GetInstanceRequest,
   GetInstanceStatusHistoryRequest, GetGroupInstances, GetGroupInstancesCount,
   GetGroupInstanceStats, GetPackageFloorChannelsRequest,
   GetGroupVersionBreakdownRequest, GetGroupOEMBreakdownRequest,
   GetGroupVersionTimeline, GetGroupStatusTimeline,
   GetPackageRequest, GetChannelRequest, GetGroupRequest, ClearGroupUpdatesOverride,
   GetChannelFloorPackages, UpdateInstanceRequest, GetInstanceStats, GetInstanceStatsByTimestamp,
   GetTeams, GetTeam, GetUser, GetUsersInTeam, AddTeam, UpdateTeam, AddUser,
   UpdateUserPassword, initialize, SyncerRound, UpdateInstanceStats, calculateMetrics} \cup Omaha

\* A request that holds nothing can be cut there: what it goes on with is as
\* good as another request's.
Episodes(script) ==
  LET pauses == {0, Len(script)} \cup {i \in DOMAIN script : script[i] = Nothing}
      Follows(i, j) == i < j /\ \A k \in pauses : k <= i \/ k >= j
  IN {SubSeq(script, ij[1] + 1, ij[2]) : ij \in {p \in pauses \X pauses : Follows(p[1], p[2])}}

ServerScripts == UNION {Episodes(script) : script \in ServerRequests}
=============================================================================
