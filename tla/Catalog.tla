------------------------------- MODULE Catalog -------------------------------
(***************************************************************************)
(* The administrator's requests about the packages and channels of one     *)
(* application (backend/pkg/api/admin): what a channel points at, which    *)
(* packages are floors of it, and which packages may not be given to it.   *)
(*                                                                         *)
(* A request that looks before it writes does so in two steps, for it does *)
(* not hold the rows it looked at.  Only UpdatePackage and AddPackage use  *)
(* a transaction; UpdatePackage's holds the package's row from its first   *)
(* statement on, and its other reads go through a connection of their own, *)
(* which sees what is committed.  All packages and channels are of one     *)
(* application and architecture.                                           *)
(***************************************************************************)
EXTENDS FiniteSets

CONSTANTS Admins,     \* requests in progress at a time
          Packages, Channels,   \* identifiers, never used twice
          NULL

Request ==
  [op : {"channel"}, channel : Channels, package : Packages \cup {NULL}]
    \cup [op : {"floor"}, channel : Channels, package : Packages]
    \cup [op : {"package"}, package : Packages, wanted : SUBSET Channels,
          old : SUBSET Channels, added : SUBSET Channels]

ASSUME CatalogAssumption ==
  NULL \notin Packages /\ NULL \notin Channels /\ NULL \notin Request

VARIABLES
  packages, channels,  \* the rows that exist
  used,                \* identifiers of rows that exist or have existed
  package,             \* channel.package_id
  floors,              \* channel_package_floors: <<channel, package>>
  blacklist,           \* package_channel_blacklist: <<channel, package>>
  request,             \* what each administrator's request is doing
  raced                \* history: a request has begun while another had not ended

rowsVars == <<packages, channels, used, package, floors, blacklist>>
catalogVars == <<rowsVars, request, raced>>

Idle(a) == request[a] = NULL

Doing(a, op) == request[a] # NULL /\ request[a].op = op

Start(a, r) ==
  /\ Idle(a)
  /\ request' = [request EXCEPT ![a] = r]
  /\ raced' = (raced \/ \E b \in Admins : ~Idle(b))

Done(a) == request' = [request EXCEPT ![a] = NULL] /\ UNCHANGED raced

BlacklistOf(p) == {c \in Channels : <<c, p>> \in blacklist}

(* Rows that a transaction of UpdatePackage holds: the package, and by the *)
(* foreign key of what it inserted, the channels.                          *)
PackageLocked(p) == \E a \in Admins : Doing(a, "package") /\ request[a].package = p

ChannelLocked(c) == \E a \in Admins : Doing(a, "package") /\ c \in request[a].added

-----------------------------------------------------------------------------
(* Requests of one statement, or of one transaction that only writes.      *)

AddPackage(a, p, blacklisted) ==
  /\ Idle(a) /\ p \notin used /\ blacklisted \subseteq channels
  /\ packages' = packages \cup {p}
  /\ used' = used \cup {p}
  /\ blacklist' = blacklist \cup (blacklisted \X {p})
  /\ UNCHANGED <<channels, package, floors, request, raced>>

(* A floor is not deleted; a channel's package is, and leaves it with none. *)
DeletePackage(a, p) ==
  /\ Idle(a) /\ p \in packages /\ ~PackageLocked(p)
  /\ \A c \in channels : <<c, p>> \notin floors
  /\ packages' = packages \ {p}
  /\ package' = [c \in Channels |-> IF package[c] = p THEN NULL ELSE package[c]]
  /\ blacklist' = blacklist \ (Channels \X {p})
  /\ UNCHANGED <<channels, used, floors, request, raced>>

(* A new channel is on no blacklist yet.                                   *)
AddChannel(a, c, p) ==
  /\ Idle(a) /\ c \notin used /\ p \in packages \cup {NULL}
  /\ channels' = channels \cup {c}
  /\ used' = used \cup {c}
  /\ package' = [package EXCEPT ![c] = p]
  /\ UNCHANGED <<packages, floors, blacklist, request, raced>>

DeleteChannel(a, c) ==
  /\ Idle(a) /\ c \in channels /\ ~ChannelLocked(c)
  /\ channels' = channels \ {c}
  /\ package' = [package EXCEPT ![c] = NULL]
  /\ floors' = floors \ ({c} \X Packages)
  /\ blacklist' = blacklist \ ({c} \X Packages)
  /\ UNCHANGED <<packages, used, request, raced>>

RemoveChannelPackageFloor(a, c, p) ==
  /\ Idle(a) /\ <<c, p>> \in floors
  /\ floors' = floors \ {<<c, p>>}
  /\ UNCHANGED <<packages, channels, used, package, blacklist, request, raced>>

-----------------------------------------------------------------------------
(* UpdateChannel: validatePackage, then the write, which fails when the    *)
(* package is gone and changes nothing when the channel is.                *)

(* Mutant of ValidatePackage: the blacklist is not looked at.               *)
ValidateExistence(a, c, p) ==
  /\ c \in channels /\ p \in packages \cup {NULL}
  /\ Start(a, [op |-> "channel", channel |-> c, package |-> p])
  /\ UNCHANGED rowsVars

ValidatePackage(a, c, p) ==
  /\ c \in channels
  /\ p # NULL => p \in packages /\ <<c, p>> \notin blacklist
  /\ Start(a, [op |-> "channel", channel |-> c, package |-> p])
  /\ UNCHANGED rowsVars

(* Mutant of UpdateChannel: the rows may be gone when it writes.            *)
UpdateChannelBlindly(a) ==
  LET r == request[a] IN
  /\ Doing(a, "channel")
  /\ package' = [package EXCEPT ![r.channel] = r.package]
  /\ Done(a)
  /\ UNCHANGED <<packages, channels, used, floors, blacklist>>

UpdateChannel(a) ==
  LET r == request[a] IN
  /\ Doing(a, "channel")
  /\ IF r.channel \in channels /\ r.package \in packages \cup {NULL}
       THEN package' = [package EXCEPT ![r.channel] = r.package]
       ELSE UNCHANGED package
  /\ Done(a)
  /\ UNCHANGED <<packages, channels, used, floors, blacklist>>

-----------------------------------------------------------------------------
(* AddChannelPackageFloor: isPackageBlacklistedForChannel, then the upsert. *)

CheckFloor(a, c, p) ==
  /\ c \in channels /\ p \in packages /\ <<c, p>> \notin blacklist
  /\ Start(a, [op |-> "floor", channel |-> c, package |-> p])
  /\ UNCHANGED rowsVars

AddChannelPackageFloor(a) ==
  LET r == request[a] IN
  /\ Doing(a, "floor")
  /\ IF r.channel \in channels /\ r.package \in packages
       THEN floors' = floors \cup {<<r.channel, r.package>>}
       ELSE UNCHANGED floors
  /\ Done(a)
  /\ UNCHANGED <<packages, channels, used, package, blacklist>>

-----------------------------------------------------------------------------
(* UpdatePackage: its transaction takes the package's row, reads the old   *)
(* blacklist, adds the new channels one by one, drops the others, commits. *)

(* Mutant of BeginUpdatePackage: the package's row is not held.             *)
BeginWithoutLock(a, p, wanted) ==
  /\ p \in packages
  /\ Start(a, [op |-> "package", package |-> p, wanted |-> wanted,
               old |-> BlacklistOf(p), added |-> {}])
  /\ UNCHANGED rowsVars

BeginUpdatePackage(a, p, wanted) ==
  /\ p \in packages /\ ~PackageLocked(p)
  /\ Start(a, [op |-> "package", package |-> p, wanted |-> wanted,
               old |-> BlacklistOf(p), added |-> {}])
  /\ UNCHANGED rowsVars

Unchecked(r) == r.wanted \ (r.old \cup r.added)

(* Mutant of MayBlacklist: floors are not looked at.                        *)
IsNotTarget(c, p) == c \in channels /\ package[c] # p

MayBlacklist(c, p) == c \in channels /\ package[c] # p /\ <<c, p>> \notin floors

BlacklistChannel(a) ==
  LET r == request[a] IN
  /\ Doing(a, "package")
  /\ \E c \in Unchecked(r) :
       IF MayBlacklist(c, r.package)
         THEN /\ request' = [request EXCEPT ![a].added = r.added \cup {c}]
              /\ UNCHANGED raced
         ELSE Done(a)                       \* roll back
  /\ UNCHANGED rowsVars

CommitUpdatePackage(a) ==
  LET r == request[a] IN
  /\ Doing(a, "package") /\ Unchecked(r) = {}
  /\ blacklist' = (blacklist \ ((r.old \ r.wanted) \X {r.package})) \cup (r.added \X {r.package})
  /\ Done(a)
  /\ UNCHANGED <<packages, channels, used, package, floors>>

-----------------------------------------------------------------------------

CatalogInit ==
  /\ packages = {} /\ channels = {} /\ used = {}
  /\ package = [c \in Channels |-> NULL]
  /\ floors = {} /\ blacklist = {}
  /\ request = [a \in Admins |-> NULL]
  /\ raced = FALSE

OneStep(a) ==
  \/ \E p \in Packages, cs \in SUBSET Channels : AddPackage(a, p, cs)
  \/ \E p \in Packages : DeletePackage(a, p)
  \/ \E c \in Channels, p \in Packages \cup {NULL} : AddChannel(a, c, p)
  \/ \E c \in Channels : DeleteChannel(a, c)
  \/ \E c \in Channels, p \in Packages : RemoveChannelPackageFloor(a, c, p)

LookThenWrite(a) ==
  \/ \E c \in Channels, p \in Packages \cup {NULL} : ValidatePackage(a, c, p)
  \/ UpdateChannel(a)
  \/ \E c \in Channels, p \in Packages : CheckFloor(a, c, p)
  \/ AddChannelPackageFloor(a)
  \/ \E p \in Packages, cs \in SUBSET Channels : BeginUpdatePackage(a, p, cs)
  \/ BlacklistChannel(a)
  \/ CommitUpdatePackage(a)

CatalogNext == \E a \in Admins : OneStep(a) \/ LookThenWrite(a)

CatalogSpec == CatalogInit /\ [][CatalogNext]_catalogVars

-----------------------------------------------------------------------------
(* Properties.                                                             *)

CatalogTypeOK ==
  /\ packages \subseteq Packages /\ channels \subseteq Channels
  /\ used \subseteq Packages \cup Channels
  /\ package \in [Channels -> packages \cup {NULL}]
  /\ floors \subseteq channels \X packages
  /\ blacklist \subseteq channels \X packages
  /\ request \in [Admins -> Request \cup {NULL}]
  /\ raced \in BOOLEAN

(* No package is both a floor of a channel and blacklisted for it.         *)
FloorBlacklistExclusion == floors \cap blacklist = {}

(* Nor is a channel's own package blacklisted for it, as long as no two    *)
(* requests that look before they write have overlapped.                   *)
TargetNotBlacklisted == \A c \in channels : <<c, package[c]>> \notin blacklist

SerialRequestsAgree == raced \/ (FloorBlacklistExclusion /\ TargetNotBlacklisted)

(* The request of a commits its update of package p in this step: it has   *)
(* no channel left to look at, so it is not rolled back.                   *)
Commits(a, p) ==
  /\ Doing(a, "package") /\ request[a].package = p
  /\ Unchecked(request[a]) = {} /\ request'[a] = NULL

(* A committed update of a package leaves its blacklist exactly as it      *)
(* asked, as far as those channels still exist: what other requests did    *)
(* between its look at the old blacklist and its writes is not mixed in.   *)
CommitSetsBlacklist ==
  [][\A a \in Admins, p \in Packages :
       Commits(a, p) =>
         {c \in Channels : <<c, p>> \in blacklist'} = request[a].wanted \cap channels]_catalogVars
=============================================================================
