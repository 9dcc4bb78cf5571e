------------------------ MODULE AdministrationProofs ------------------------
(***************************************************************************)
(* Proofs about what administrators change and what they are shown: about  *)
(* Catalog for any number of requests, packages and channels, and about    *)
(* Timeline for any number of instances, any times and any chart.          *)
(***************************************************************************)
EXTENDS Catalog, Timeline, FiniteSetTheorems, WellFoundedInduction, SequenceTheorems, TLAPS

-----------------------------------------------------------------------------
(* Catalog.                                                                *)


(* Identifiers that a request carries are of rows that exist or existed;   *)
(* a transaction of UpdatePackage finds the package, the channels it has   *)
(* added and the blacklist it has read as they were, but for channels      *)
(* that are gone.                                                          *)
CarriedBy(a) ==
  LET r == request[a] IN
  /\ Doing(a, "channel") => r.channel \in used /\ r.package \in used \cup {NULL}
  /\ Doing(a, "floor") => r.channel \in used /\ r.package \in used
  /\ Doing(a, "package") =>
       /\ r.package \in packages
       /\ r.added \subseteq channels \cap r.wanted
       /\ r.old \subseteq used
       /\ BlacklistOf(r.package) = r.old \cap channels

OneUpdatePerPackage ==
  \A a, b \in Admins :
    /\ Doing(a, "package") /\ Doing(b, "package")
    /\ request[a].package = request[b].package
    => a = b

(* As long as no two requests that look before they write have overlapped, *)
(* what a request has seen still holds when it writes.                     *)
StillTrue(a) ==
  LET r == request[a] IN
  /\ Doing(a, "channel") \/ Doing(a, "floor") => <<r.channel, r.package>> \notin blacklist
  /\ Doing(a, "package") => \A c \in r.added : MayBlacklist(c, r.package)

Serial ==
  /\ FloorBlacklistExclusion /\ TargetNotBlacklisted
  /\ \A a, b \in Admins : ~Idle(a) /\ ~Idle(b) => a = b
  /\ \A a \in Admins : StillTrue(a)

Inv ==
  /\ CatalogTypeOK
  /\ packages \cup channels \subseteq used
  /\ \A a \in Admins : CarriedBy(a)
  /\ OneUpdatePerPackage
  /\ raced \/ Serial

(* What a committed update must leave on the package's blacklist.          *)
CommitSets ==
  \A a \in Admins, p \in Packages :
    Commits(a, p) =>
      {c \in Channels : <<c, p>> \in blacklist'} = request[a].wanted \cap channels

-----------------------------------------------------------------------------
LEMMA Nulls == NULL \notin Packages /\ NULL \notin Channels /\ NULL \notin Request
BY CatalogAssumption DEF CatalogAssumption

LEMMA RequestFields ==
  ASSUME CatalogTypeOK, NEW a \in Admins, request[a] # NULL
  PROVE  /\ request[a] \in Request
         /\ request[a].op \in {"channel", "floor", "package"}
         /\ request[a].op = "channel" =>
              request[a].channel \in Channels /\ request[a].package \in Packages \cup {NULL}
         /\ request[a].op = "floor" =>
              request[a].channel \in Channels /\ request[a].package \in Packages
         /\ request[a].op = "package" =>
              /\ request[a].package \in Packages /\ request[a].wanted \subseteq Channels
              /\ request[a].old \subseteq Channels /\ request[a].added \subseteq Channels
<1>1. request[a] \in Request
  BY DEF CatalogTypeOK
<1> QED BY <1>1 DEF Request

(* Requests of one statement leave the requests in progress alone.         *)
LEMMA OthersWait ==
  ASSUME Inv, UNCHANGED <<request, raced>>
  PROVE  OneUpdatePerPackage' /\ CommitSets
<1>1. OneUpdatePerPackage'
  BY DEF Inv, OneUpdatePerPackage, Doing
<1>2. CommitSets
  BY DEF CommitSets, Commits, Doing
<1> QED BY <1>1, <1>2

LEMMA AddPackageKeeps ==
  ASSUME Inv, NEW a \in Admins, NEW p \in Packages, NEW cs \in SUBSET Channels,
         AddPackage(a, p, cs)
  PROVE  Inv' /\ CommitSets
<1> USE Nulls
<1>0. /\ CatalogTypeOK /\ packages \cup channels \subseteq used
      /\ p \notin used /\ p \notin packages /\ cs \subseteq channels
      /\ packages' = packages \cup {p} /\ used' = used \cup {p}
      /\ blacklist' = blacklist \cup (cs \X {p})
      /\ UNCHANGED <<channels, package, floors, request, raced>>
  BY DEF Inv, AddPackage
<1>1. CatalogTypeOK'
  BY <1>0 DEF CatalogTypeOK
<1>2. (packages \cup channels \subseteq used)'
  BY <1>0
<1>3. \A c, q : q # p => (<<c, q>> \in blacklist' <=> <<c, q>> \in blacklist)
  BY <1>0
<1>4. ASSUME NEW b \in Admins
      PROVE  CarriedBy(b)'
  <2>1. Doing(b, "package") => BlacklistOf(request[b].package)' = BlacklistOf(request[b].package)
    BY <1>0, <1>3 DEF Inv, CarriedBy, BlacklistOf
  <2> QED BY <1>0, <2>1 DEF Inv, CarriedBy, Doing
<1>5. Serial => Serial'
  <2> SUFFICES ASSUME Serial PROVE Serial'
    OBVIOUS
  <2>1. FloorBlacklistExclusion'
    BY <1>0 DEF Serial, FloorBlacklistExclusion, CatalogTypeOK
  <2>2. TargetNotBlacklisted'
    BY <1>0, <1>3 DEF Serial, TargetNotBlacklisted, CatalogTypeOK
  <2>3. ASSUME NEW b \in Admins
        PROVE  StillTrue(b)'
    BY <1>0, <1>3 DEF Serial, StillTrue, Inv, CarriedBy, Doing, MayBlacklist
  <2> QED BY <1>0, <2>1, <2>2, <2>3 DEF Serial, Idle
<1> QED BY <1>0, <1>1, <1>2, <1>4, <1>5, OthersWait DEF Inv

LEMMA DeletePackageKeeps ==
  ASSUME Inv, NEW a \in Admins, NEW p \in Packages, DeletePackage(a, p)
  PROVE  Inv' /\ CommitSets
<1> USE Nulls
<1>0. /\ CatalogTypeOK /\ packages \cup channels \subseteq used
      /\ \A b \in Admins : Doing(b, "package") => request[b].package # p
      /\ \A c \in channels : <<c, p>> \notin floors
      /\ packages' = packages \ {p}
      /\ package' = [c \in Channels |-> IF package[c] = p THEN NULL ELSE package[c]]
      /\ blacklist' = blacklist \ (Channels \X {p})
      /\ UNCHANGED <<channels, used, floors, request, raced>>
  BY DEF Inv, DeletePackage, PackageLocked
<1>1. CatalogTypeOK'
  BY <1>0 DEF CatalogTypeOK
<1>2. (packages \cup channels \subseteq used)'
  BY <1>0
<1>3. /\ \A c, q : q # p => (<<c, q>> \in blacklist' <=> <<c, q>> \in blacklist)
      /\ blacklist' \subseteq blacklist
  BY <1>0
<1>4. ASSUME NEW b \in Admins
      PROVE  CarriedBy(b)'
  <2>1. Doing(b, "package") => BlacklistOf(request[b].package)' = BlacklistOf(request[b].package)
    BY <1>0, <1>3 DEF BlacklistOf
  <2> QED BY <1>0, <2>1 DEF Inv, CarriedBy, Doing
<1>5. Serial => Serial'
  <2> SUFFICES ASSUME Serial PROVE Serial'
    OBVIOUS
  <2>1. FloorBlacklistExclusion'
    BY <1>0, <1>3 DEF Serial, FloorBlacklistExclusion
  <2>2. TargetNotBlacklisted'
    <3> SUFFICES ASSUME NEW c \in channels PROVE <<c, package'[c]>> \notin blacklist'
      BY <1>0 DEF TargetNotBlacklisted
    <3>1. package'[c] = NULL \/ package'[c] = package[c]
      BY <1>0 DEF CatalogTypeOK
    <3>2. <<c, NULL>> \notin blacklist /\ <<c, package[c]>> \notin blacklist
      BY <1>0 DEF CatalogTypeOK, Serial, TargetNotBlacklisted
    <3> QED BY <1>3, <3>1, <3>2
  <2>3. ASSUME NEW b \in Admins
        PROVE  StillTrue(b)'
    <3>1. Doing(b, "package") =>
            \A c \in request[b].added : c \in Channels /\ package'[c] # request[b].package
      BY <1>0, RequestFields DEF Serial, StillTrue, Doing, MayBlacklist
    <3> QED BY <1>0, <1>3, <3>1 DEF Serial, StillTrue, Doing, MayBlacklist
  <2> QED BY <1>0, <2>1, <2>2, <2>3 DEF Serial, Idle
<1> QED BY <1>0, <1>1, <1>2, <1>4, <1>5, OthersWait DEF Inv

LEMMA AddChannelKeeps ==
  ASSUME Inv, NEW a \in Admins, NEW c \in Channels, NEW p \in Packages \cup {NULL},
         AddChannel(a, c, p)
  PROVE  Inv' /\ CommitSets
<1> USE Nulls
<1>0. /\ CatalogTypeOK /\ packages \cup channels \subseteq used
      /\ c \notin used /\ c \notin channels /\ p \in packages \cup {NULL}
      /\ channels' = channels \cup {c} /\ used' = used \cup {c}
      /\ package' = [package EXCEPT ![c] = p]
      /\ UNCHANGED <<packages, floors, blacklist, request, raced>>
  BY DEF Inv, AddChannel
<1>1. CatalogTypeOK'
  BY <1>0 DEF CatalogTypeOK
<1>2. (packages \cup channels \subseteq used)'
  BY <1>0
<1>3. \A d \in Channels \ {c} : package'[d] = package[d]
  BY <1>0 DEF CatalogTypeOK
<1>4. ASSUME NEW b \in Admins
      PROVE  CarriedBy(b)'
  BY <1>0 DEF Inv, CarriedBy, Doing, BlacklistOf
<1>5. Serial => Serial'
  <2> SUFFICES ASSUME Serial PROVE Serial'
    OBVIOUS
  <2>1. FloorBlacklistExclusion'
    BY <1>0 DEF Serial, FloorBlacklistExclusion
  <2>2. TargetNotBlacklisted'
    <3> SUFFICES ASSUME NEW d \in channels' PROVE <<d, package'[d]>> \notin blacklist
      BY <1>0 DEF TargetNotBlacklisted
    <3>1. CASE d = c
      BY <1>0, <3>1 DEF CatalogTypeOK
    <3>2. CASE d # c
      BY <1>0, <1>3, <3>2 DEF Serial, TargetNotBlacklisted, CatalogTypeOK
    <3> QED BY <3>1, <3>2
  <2>3. ASSUME NEW b \in Admins
        PROVE  StillTrue(b)'
    <3>1. Doing(b, "package") =>
            \A d \in request[b].added : d \in Channels \ {c}
      BY <1>0, RequestFields DEF Serial, StillTrue, Doing, MayBlacklist
    <3> QED BY <1>0, <1>3, <3>1 DEF Serial, StillTrue, Doing, MayBlacklist
  <2> QED BY <1>0, <2>1, <2>2, <2>3 DEF Serial, Idle
<1> QED BY <1>0, <1>1, <1>2, <1>4, <1>5, OthersWait DEF Inv

LEMMA DeleteChannelKeeps ==
  ASSUME Inv, NEW a \in Admins, NEW c \in Channels, DeleteChannel(a, c)
  PROVE  Inv' /\ CommitSets
<1> USE Nulls
<1>0. /\ CatalogTypeOK /\ packages \cup channels \subseteq used
      /\ \A b \in Admins : Doing(b, "package") => c \notin request[b].added
      /\ channels' = channels \ {c}
      /\ package' = [package EXCEPT ![c] = NULL]
      /\ floors' = floors \ ({c} \X Packages)
      /\ blacklist' = blacklist \ ({c} \X Packages)
      /\ UNCHANGED <<packages, used, request, raced>>
  BY DEF Inv, DeleteChannel, ChannelLocked
<1>1. CatalogTypeOK'
  BY <1>0 DEF CatalogTypeOK
<1>2. (packages \cup channels \subseteq used)'
  BY <1>0
<1>3. /\ \A d, q : d # c => (<<d, q>> \in blacklist' <=> <<d, q>> \in blacklist)
      /\ \A d \in Channels \ {c} : package'[d] = package[d]
      /\ blacklist' \subseteq blacklist /\ floors' \subseteq floors
  BY <1>0 DEF CatalogTypeOK
<1>4. ASSUME NEW b \in Admins
      PROVE  CarriedBy(b)'
  <2>1. Doing(b, "package") =>
          BlacklistOf(request[b].package)' = BlacklistOf(request[b].package) \ {c}
    <3> SUFFICES ASSUME Doing(b, "package")
                 PROVE  BlacklistOf(request[b].package)' = BlacklistOf(request[b].package) \ {c}
      OBVIOUS
    <3>1. request[b].package \in Packages
      BY <1>0, RequestFields DEF Doing
    <3> QED BY <1>0, <1>3, <3>1 DEF BlacklistOf
  <2>2. CarriedBy(b)
    BY DEF Inv
  <2> QED BY <1>0, <2>1, <2>2 DEF CarriedBy, Doing
<1>5. Serial => Serial'
  <2> SUFFICES ASSUME Serial PROVE Serial'
    OBVIOUS
  <2>1. FloorBlacklistExclusion'
    BY <1>3 DEF Serial, FloorBlacklistExclusion
  <2>2. TargetNotBlacklisted'
    BY <1>0, <1>3 DEF Serial, TargetNotBlacklisted, CatalogTypeOK
  <2>3. ASSUME NEW b \in Admins
        PROVE  StillTrue(b)'
    <3>1. Doing(b, "package") =>
            \A d \in request[b].added : d \in Channels \ {c}
      BY <1>0, RequestFields DEF Doing
    <3> QED BY <1>0, <1>3, <3>1 DEF Serial, StillTrue, Doing, MayBlacklist
  <2> QED BY <1>0, <2>1, <2>2, <2>3 DEF Serial, Idle
<1> QED BY <1>0, <1>1, <1>2, <1>4, <1>5, OthersWait DEF Inv

LEMMA RemoveChannelPackageFloorKeeps ==
  ASSUME Inv, NEW a \in Admins, NEW c \in Channels, NEW p \in Packages,
         RemoveChannelPackageFloor(a, c, p)
  PROVE  Inv' /\ CommitSets
<1>0. /\ floors' \subseteq floors
      /\ UNCHANGED <<packages, channels, used, package, blacklist, request, raced>>
  BY DEF RemoveChannelPackageFloor
<1>1. CatalogTypeOK' /\ (packages \cup channels \subseteq used)'
  BY <1>0 DEF Inv, CatalogTypeOK
<1>2. \A b \in Admins : CarriedBy(b)'
  BY <1>0 DEF Inv, CarriedBy, Doing, BlacklistOf
<1>3. Serial => Serial'
  BY <1>0 DEF Serial, FloorBlacklistExclusion, TargetNotBlacklisted, StillTrue, Idle,
              Doing, MayBlacklist
<1> QED BY <1>0, <1>1, <1>2, <1>3, OthersWait DEF Inv

-----------------------------------------------------------------------------
(* Requests that look before they write.                                   *)

LEMMA RequestsDiffer ==
  ASSUME CatalogTypeOK, NEW a \in Admins, NEW r, request' = [request EXCEPT ![a] = r]
  PROVE  request'[a] = r /\ \A b \in Admins \ {a} : request'[b] = request[b]
BY DEF CatalogTypeOK

LEMMA Starts ==
  ASSUME Inv, NEW a \in Admins, NEW r \in Request, Start(a, r), UNCHANGED rowsVars,
         CarriedBy(a)', Serial => StillTrue(a)',
         r.op = "package" => ~PackageLocked(r.package)
  PROVE  Inv' /\ CommitSets
<1> USE Nulls
<1>0. /\ CatalogTypeOK /\ request[a] = NULL /\ r # NULL
      /\ request' = [request EXCEPT ![a] = r]
      /\ raced' = (raced \/ \E b \in Admins : ~Idle(b))
      /\ UNCHANGED <<packages, channels, used, package, floors, blacklist>>
  BY DEF Inv, Start, Idle, rowsVars
<1>1. request'[a] = r /\ \A b \in Admins \ {a} : request'[b] = request[b]
  BY <1>0, RequestsDiffer
<1>2. CatalogTypeOK'
  BY <1>0 DEF CatalogTypeOK
<1>3. ASSUME NEW b \in Admins
      PROVE  CarriedBy(b)'
  <2>1. CASE b = a
    BY <2>1
  <2>2. CASE b # a
    BY <1>0, <1>1, <2>2 DEF Inv, CarriedBy, Doing, BlacklistOf
  <2> QED BY <2>1, <2>2
<1>4. OneUpdatePerPackage'
  <2>1. \A b \in Admins \ {a} : Doing(b, "package")' <=> Doing(b, "package")
    BY <1>1 DEF Doing
  <2>2. Doing(a, "package")' =>
          \A b \in Admins \ {a} : Doing(b, "package") => request[b].package # r.package
    BY <1>1 DEF Doing, PackageLocked
  <2> QED BY <1>1, <2>1, <2>2 DEF Inv, OneUpdatePerPackage
<1>5. raced' \/ Serial'
  <2> SUFFICES ASSUME ~raced' PROVE Serial'
    OBVIOUS
  <2>1. Serial /\ \A b \in Admins : Idle(b)
    BY <1>0 DEF Inv
  <2>2. \A b \in Admins \ {a} : Idle(b)' /\ StillTrue(b)'
    BY <1>1, <2>1 DEF Idle, StillTrue, Doing
  <2>3. FloorBlacklistExclusion' /\ TargetNotBlacklisted'
    BY <1>0, <2>1 DEF Serial, FloorBlacklistExclusion, TargetNotBlacklisted
  <2> QED BY <2>1, <2>2, <2>3 DEF Serial
<1>6. CommitSets
  <2>1. \A b \in Admins, p \in Packages : ~Commits(b, p)
    BY <1>0, <1>1 DEF Commits, Doing
  <2> QED BY <2>1 DEF CommitSets
<1> QED BY <1>0, <1>2, <1>3, <1>4, <1>5, <1>6 DEF Inv

(* When no two have overlapped, a request that ends is the only one.       *)
LEMMA Ends ==
  ASSUME Inv, NEW a \in Admins, ~Idle(a), Done(a),
         UNCHANGED <<packages, channels, used>>, CatalogTypeOK',
         \A b \in Admins \ {a} : Doing(b, "package") =>
           BlacklistOf(request[b].package)' = BlacklistOf(request[b].package),
         Serial => FloorBlacklistExclusion' /\ TargetNotBlacklisted'
  PROVE  Inv'
<1> USE Nulls
<1>0. /\ request' = [request EXCEPT ![a] = NULL] /\ raced' = raced /\ request[a] # NULL
      /\ UNCHANGED <<packages, channels, used>>
      /\ CatalogTypeOK
  BY DEF Inv, Done, Idle
<1>1. request'[a] = NULL /\ \A b \in Admins \ {a} : request'[b] = request[b]
  BY <1>0, RequestsDiffer
<1>3. ASSUME NEW b \in Admins
      PROVE  CarriedBy(b)'
  <2>1. CASE b = a
    BY <1>1, <2>1 DEF CarriedBy, Doing
  <2>2. CASE b # a
    <3>1. CarriedBy(b)
      BY DEF Inv
    <3> QED BY <1>0, <1>1, <2>2, <3>1 DEF CarriedBy, Doing
  <2> QED BY <2>1, <2>2
<1>4. OneUpdatePerPackage'
  <2>1. \A b \in Admins : Doing(b, "package")' => b # a /\ Doing(b, "package")
    BY <1>1 DEF Doing
  <2> QED BY <1>1, <2>1 DEF Inv, OneUpdatePerPackage
<1>5. Serial => Serial'
  <2> SUFFICES ASSUME Serial PROVE Serial'
    OBVIOUS
  <2>1. \A b \in Admins : request'[b] = NULL
    BY <1>0, <1>1 DEF Serial, Idle
  <2> QED BY <2>1 DEF Serial, Idle, StillTrue, Doing
<1> QED BY <1>0, <1>3, <1>4, <1>5 DEF Inv

(* The end of another request than an update of a package commits none.    *)
LEMMA NoCommit ==
  ASSUME CatalogTypeOK, NEW a \in Admins, Done(a), ~Doing(a, "package")
  PROVE  CommitSets
<1>1. \A b \in Admins \ {a} : request'[b] = request[b]
  BY RequestsDiffer DEF Done
<1>2. \A b \in Admins, p \in Packages : ~Commits(b, p)
  BY <1>1 DEF Commits, Doing
<1> QED BY <1>2 DEF CommitSets

LEMMA ValidatePackageKeeps ==
  ASSUME Inv, NEW a \in Admins, NEW c \in Channels, NEW p \in Packages \cup {NULL},
         ValidatePackage(a, c, p)
  PROVE  Inv' /\ CommitSets
<1> USE Nulls
<1> DEFINE r == [op |-> "channel", channel |-> c, package |-> p]
<1>1. /\ r \in Request /\ r.op = "channel" /\ r.channel = c /\ r.package = p
  BY DEF Request
<1>2. /\ CatalogTypeOK /\ packages \cup channels \subseteq used
      /\ c \in channels
      /\ p # NULL => p \in packages
      /\ p # NULL => <<c, p>> \notin blacklist
      /\ Start(a, r) /\ UNCHANGED rowsVars
  BY DEF Inv, ValidatePackage
<1>3. <<c, p>> \notin blacklist
  BY <1>2 DEF CatalogTypeOK
<1> HIDE DEF r
<1>4. request'[a] = r
  BY <1>2, RequestsDiffer DEF Start
<1>5. CarriedBy(a)'
  BY <1>1, <1>2, <1>4 DEF CarriedBy, Doing, rowsVars
<1>6. StillTrue(a)'
  BY <1>1, <1>2, <1>3, <1>4 DEF StillTrue, Doing, rowsVars
<1> QED BY <1>1, <1>2, <1>5, <1>6, Starts

LEMMA CheckFloorKeeps ==
  ASSUME Inv, NEW a \in Admins, NEW c \in Channels, NEW p \in Packages, CheckFloor(a, c, p)
  PROVE  Inv' /\ CommitSets
<1> USE Nulls
<1> DEFINE r == [op |-> "floor", channel |-> c, package |-> p]
<1>1. /\ r \in Request /\ r.op = "floor" /\ r.channel = c /\ r.package = p
  BY DEF Request
<1>2. /\ CatalogTypeOK /\ packages \cup channels \subseteq used
      /\ c \in channels /\ p \in packages /\ <<c, p>> \notin blacklist
      /\ Start(a, r) /\ UNCHANGED rowsVars
  BY DEF Inv, CheckFloor
<1> HIDE DEF r
<1>4. request'[a] = r
  BY <1>2, RequestsDiffer DEF Start
<1>5. CarriedBy(a)'
  BY <1>1, <1>2, <1>4 DEF CarriedBy, Doing, rowsVars
<1>6. StillTrue(a)'
  BY <1>1, <1>2, <1>4 DEF StillTrue, Doing, rowsVars
<1> QED BY <1>1, <1>2, <1>5, <1>6, Starts

LEMMA BeginUpdatePackageKeeps ==
  ASSUME Inv, NEW a \in Admins, NEW p \in Packages, NEW cs \in SUBSET Channels,
         BeginUpdatePackage(a, p, cs)
  PROVE  Inv' /\ CommitSets
<1> USE Nulls
<1> DEFINE r == [op |-> "package", package |-> p, wanted |-> cs,
                 old |-> BlacklistOf(p), added |-> {}]
<1>1. /\ r.op = "package" /\ r.package = p /\ r.old = BlacklistOf(p) /\ r.added = {}
      /\ r \in Request
  BY DEF Request, BlacklistOf
<1>2. /\ CatalogTypeOK /\ packages \cup channels \subseteq used
      /\ p \in packages /\ ~PackageLocked(p)
      /\ Start(a, r) /\ UNCHANGED rowsVars
  BY DEF Inv, BeginUpdatePackage
<1> HIDE DEF r
<1>4. request'[a] = r
  BY <1>2, RequestsDiffer DEF Start
<1>5. CarriedBy(a)'
  <2>1. /\ BlacklistOf(p)' = BlacklistOf(p)
        /\ BlacklistOf(p) \subseteq channels
    BY <1>2 DEF BlacklistOf, rowsVars, CatalogTypeOK
  <2>2. request'[a].package = p /\ request'[a].old = BlacklistOf(p) /\ request'[a].added = {}
        /\ request'[a].op = "package"
    BY <1>1, <1>4
  <2>3. p \in packages' /\ channels' = channels /\ used' = used
    BY <1>2 DEF rowsVars
  <2>4. BlacklistOf(request[a].package)' = request'[a].old \cap channels'
    BY <2>1, <2>2, <2>3
  <2>5. request'[a].old \subseteq used'
    BY <1>2, <2>1, <2>2, <2>3
  <2> QED BY <2>2, <2>3, <2>4, <2>5 DEF CarriedBy, Doing
<1>6. StillTrue(a)'
  BY <1>1, <1>4 DEF StillTrue, Doing
<1> QED BY <1>1, <1>2, <1>5, <1>6, Starts

LEMMA UpdateChannelKeeps ==
  ASSUME Inv, NEW a \in Admins, UpdateChannel(a)
  PROVE  Inv' /\ CommitSets
<1> USE Nulls
<1> DEFINE r == request[a]
<1>0. /\ CatalogTypeOK /\ Doing(a, "channel") /\ ~Doing(a, "package") /\ ~Idle(a)
      /\ r.channel \in Channels
      /\ Done(a)
      /\ \/ /\ r.channel \in channels /\ r.package \in packages \cup {NULL}
            /\ package' = [package EXCEPT ![r.channel] = r.package]
         \/ package' = package
      /\ UNCHANGED <<packages, channels, used, floors, blacklist>>
  BY RequestFields DEF Inv, UpdateChannel, Doing, Idle
<1>1. CatalogTypeOK'
  <2>1. request' \in [Admins -> Request \cup {NULL}] /\ raced' \in BOOLEAN
    BY <1>0 DEF CatalogTypeOK, Done
  <2>2. package' \in [Channels -> packages \cup {NULL}]
    BY <1>0 DEF CatalogTypeOK
  <2> QED BY <1>0, <2>1, <2>2 DEF CatalogTypeOK
<1>2. Serial => FloorBlacklistExclusion' /\ TargetNotBlacklisted'
  <2> SUFFICES ASSUME Serial PROVE FloorBlacklistExclusion' /\ TargetNotBlacklisted'
    OBVIOUS
  <2>1. FloorBlacklistExclusion'
    BY <1>0 DEF Serial, FloorBlacklistExclusion
  <2>2. <<r.channel, r.package>> \notin blacklist
    BY <1>0 DEF Serial, StillTrue
  <2>3. TargetNotBlacklisted'
    <3> SUFFICES ASSUME NEW c \in channels PROVE <<c, package'[c]>> \notin blacklist
      BY <1>0 DEF TargetNotBlacklisted
    <3>1. package'[c] = package[c] \/ (c = r.channel /\ package'[c] = r.package)
      BY <1>0 DEF CatalogTypeOK
    <3> QED BY <2>2, <3>1 DEF Serial, TargetNotBlacklisted
  <2> QED BY <2>1, <2>3
<1>3. \A b \in Admins \ {a} : Doing(b, "package") =>
        BlacklistOf(request[b].package)' = BlacklistOf(request[b].package)
  BY <1>0, RequestsDiffer DEF BlacklistOf, Done
<1> HIDE DEF r
<1> QED BY <1>0, <1>1, <1>2, <1>3, Ends, NoCommit

LEMMA AddChannelPackageFloorKeeps ==
  ASSUME Inv, NEW a \in Admins, AddChannelPackageFloor(a)
  PROVE  Inv' /\ CommitSets
<1> USE Nulls
<1> DEFINE r == request[a]
<1>0. /\ CatalogTypeOK /\ Doing(a, "floor") /\ ~Doing(a, "package") /\ ~Idle(a)
      /\ Done(a)
      /\ \/ /\ r.channel \in channels /\ r.package \in packages
            /\ floors' = floors \cup {<<r.channel, r.package>>}
         \/ floors' = floors
      /\ UNCHANGED <<packages, channels, used, package, blacklist>>
  BY DEF Inv, AddChannelPackageFloor, Doing, Idle
<1>1. CatalogTypeOK'
  <2>1. request' \in [Admins -> Request \cup {NULL}] /\ raced' \in BOOLEAN
    BY <1>0 DEF CatalogTypeOK, Done
  <2> QED BY <1>0, <2>1 DEF CatalogTypeOK
<1>2. Serial => FloorBlacklistExclusion' /\ TargetNotBlacklisted'
  BY <1>0 DEF Serial, StillTrue, FloorBlacklistExclusion, TargetNotBlacklisted
<1>3. \A b \in Admins \ {a} : Doing(b, "package") =>
        BlacklistOf(request[b].package)' = BlacklistOf(request[b].package)
  BY <1>0, RequestsDiffer DEF BlacklistOf, Done
<1> HIDE DEF r
<1> QED BY <1>0, <1>1, <1>2, <1>3, Ends, NoCommit

(* The channel that is added is of the package whose row is held: no other *)
(* update of that package is in progress.                                  *)
LEMMA BlacklistChannelKeeps ==
  ASSUME Inv, NEW a \in Admins, BlacklistChannel(a)
  PROVE  Inv' /\ CommitSets
<1> USE Nulls
<1>0. /\ CatalogTypeOK /\ Doing(a, "package") /\ ~Idle(a) /\ request[a] \in Request
      /\ UNCHANGED <<packages, channels, used, package, floors, blacklist>>
  BY RequestFields DEF Inv, BlacklistChannel, Doing, Idle, rowsVars
<1>1. PICK c \in Unchecked(request[a]) :
        IF MayBlacklist(c, request[a].package)
          THEN /\ request' = [request EXCEPT ![a].added = request[a].added \cup {c}]
               /\ UNCHANGED raced
          ELSE Done(a)
  BY DEF BlacklistChannel
<1>2. CASE Done(a)
  <2>1. CatalogTypeOK'
    <3>1. request' \in [Admins -> Request \cup {NULL}] /\ raced' \in BOOLEAN
      BY <1>0, <1>2 DEF CatalogTypeOK, Done
    <3> QED BY <1>0, <3>1 DEF CatalogTypeOK
  <2>2. Serial => FloorBlacklistExclusion' /\ TargetNotBlacklisted'
    BY <1>0 DEF Serial, FloorBlacklistExclusion, TargetNotBlacklisted
  <2>3. \A p : BlacklistOf(p)' = BlacklistOf(p)
    BY <1>0 DEF BlacklistOf
  <2>4. CommitSets
    <3>1. \A b \in Admins \ {a} : request'[b] = request[b]
      BY <1>0, <1>2, RequestsDiffer DEF Done
    <3>2. c \in Unchecked(request[a])
      BY <1>1
    <3>3. \A b \in Admins, p \in Packages : ~Commits(b, p)
      BY <3>1, <3>2 DEF Commits, Doing
    <3> QED BY <3>3 DEF CommitSets
  <2>5. Inv'
    <3>1. \A b \in Admins \ {a} : Doing(b, "package") =>
            BlacklistOf(request[b].package)' = BlacklistOf(request[b].package)
      <4> QED BY <1>0, <1>2, <2>3, RequestsDiffer DEF Done
    <3> QED BY <1>0, <1>2, <2>1, <2>2, <3>1, Ends
  <2> QED BY <2>4, <2>5
<1>3. CASE /\ MayBlacklist(c, request[a].package)
           /\ request' = [request EXCEPT ![a].added = request[a].added \cup {c}]
           /\ UNCHANGED raced
  <2> DEFINE r == [request[a] EXCEPT !.added = request[a].added \cup {c}]
  <2>1. request' = [request EXCEPT ![a] = r] /\ raced' = raced
    BY <1>3
  <2>2. /\ c \in channels /\ c \in request[a].wanted /\ MayBlacklist(c, request[a].package)
        /\ request[a].op = "package"
    BY <1>1, <1>3, <1>0 DEF Unchecked, MayBlacklist, Doing
  <2>3. /\ r \in Request /\ r.op = "package" /\ r.package = request[a].package
        /\ r.added = request[a].added \cup {c}
        /\ r.wanted = request[a].wanted /\ r.old = request[a].old
    <3>1. /\ request[a] \in [op : {"package"}, package : Packages, wanted : SUBSET Channels,
                             old : SUBSET Channels, added : SUBSET Channels]
          /\ c \in Channels
      BY <1>0, <2>2 DEF Request, CatalogTypeOK
    <3> QED BY <3>1 DEF Request
  <2> HIDE DEF r
  <2>4. request'[a] = r /\ \A b \in Admins \ {a} : request'[b] = request[b]
    BY <1>0, <2>1, RequestsDiffer
  <2>5. CatalogTypeOK'
    <3>1. request' \in [Admins -> Request \cup {NULL}]
      BY <1>0, <2>1, <2>3 DEF CatalogTypeOK
    <3> QED BY <1>0, <2>1, <3>1 DEF CatalogTypeOK
  <2>7. ASSUME NEW b \in Admins
        PROVE  CarriedBy(b)'
    <3>0. CarriedBy(b)
      BY DEF Inv
    <3>1. CASE b = a
      <4>1. BlacklistOf(request[a].package)' = BlacklistOf(request[a].package)
        BY <1>0, <2>3, <2>4 DEF BlacklistOf
      <4>2. /\ request[a].package \in packages /\ request[a].old \subseteq used
            /\ request[a].added \subseteq channels \cap request[a].wanted
            /\ BlacklistOf(request[a].package) = request[a].old \cap channels
        BY <1>0, <3>0, <3>1 DEF CarriedBy
      <4>3. request'[a].op = "package"
        BY <2>3, <2>4
      <4> QED BY <1>0, <2>2, <2>3, <2>4, <3>1, <4>1, <4>2, <4>3 DEF CarriedBy, Doing
    <3>2. CASE b # a
      <4>1. request'[b] = request[b]
        BY <2>4, <3>2
      <4>2. BlacklistOf(request[b].package)' = BlacklistOf(request[b].package)
        BY <1>0, <4>1 DEF BlacklistOf
      <4> QED BY <1>0, <3>0, <4>1, <4>2 DEF CarriedBy, Doing
    <3> QED BY <3>1, <3>2
  <2>8. OneUpdatePerPackage'
    <3>1. \A b \in Admins : /\ Doing(b, "package")' <=> Doing(b, "package")
                            /\ Doing(b, "package") => request'[b].package = request[b].package
      BY <1>0, <2>2, <2>3, <2>4 DEF Doing
    <3> QED BY <3>1 DEF Inv, OneUpdatePerPackage
  <2>9. Serial => Serial'
    <3> SUFFICES ASSUME Serial PROVE Serial'
      OBVIOUS
    <3>1. \A b \in Admins \ {a} : request'[b] = NULL
      BY <1>0, <2>4 DEF Serial, Idle
    <3>2. StillTrue(a)'
      BY <1>0, <2>2, <2>3, <2>4, ZenonT(30) DEF Serial, StillTrue, Doing, MayBlacklist
    <3>3. FloorBlacklistExclusion' /\ TargetNotBlacklisted'
      BY <1>0 DEF Serial, FloorBlacklistExclusion, TargetNotBlacklisted
    <3>4. \A b \in Admins : StillTrue(b)'
      BY <3>1, <3>2 DEF StillTrue, Doing
    <3> QED BY <3>1, <3>3, <3>4 DEF Serial, Idle
  <2>10. CommitSets
    <3>1. \A b \in Admins, p \in Packages : ~Commits(b, p)
      BY <1>0, <2>3, <2>4 DEF Commits, Doing
    <3> QED BY <3>1 DEF CommitSets
  <2> QED BY <1>0, <2>1, <2>5, <2>7, <2>8, <2>9, <2>10 DEF Inv
<1> QED BY <1>1, <1>2, <1>3

(* What is on the package's blacklist is what the transaction read and the *)
(* channels that are gone since are off it, so dropping the unwanted ones  *)
(* and adding the new ones leaves the wanted ones that still exist.        *)
LEMMA CommitUpdatePackageKeeps ==
  ASSUME Inv, NEW a \in Admins, CommitUpdatePackage(a)
  PROVE  Inv' /\ CommitSets
<1> USE Nulls
<1> DEFINE r == request[a]
<1>0. /\ CatalogTypeOK /\ Doing(a, "package") /\ ~Idle(a) /\ Done(a)
      /\ r.package \in Packages /\ r.wanted \subseteq Channels
      /\ Unchecked(r) = {}
      /\ blacklist' = (blacklist \ ((r.old \ r.wanted) \X {r.package}))
                        \cup (r.added \X {r.package})
      /\ UNCHANGED <<packages, channels, used, package, floors>>
  BY RequestFields DEF Inv, CommitUpdatePackage, Doing, Idle
<1>1. /\ r.package \in packages /\ r.added \subseteq channels \cap r.wanted
      /\ BlacklistOf(r.package) = r.old \cap channels
  BY <1>0 DEF Inv, CarriedBy
<1>2. CatalogTypeOK'
  <2>1. request' \in [Admins -> Request \cup {NULL}] /\ raced' \in BOOLEAN
    BY <1>0 DEF CatalogTypeOK, Done
  <2>2. blacklist' \subseteq channels \X packages
    BY <1>0, <1>1 DEF CatalogTypeOK
  <2> QED BY <1>0, <2>1, <2>2 DEF CatalogTypeOK
<1>3. \A c, q : q # r.package => (<<c, q>> \in blacklist' <=> <<c, q>> \in blacklist)
  BY <1>0
<1>4. \A c : <<c, r.package>> \in blacklist' => <<c, r.package>> \in blacklist \/ c \in r.added
  BY <1>0
<1>5. Serial => FloorBlacklistExclusion' /\ TargetNotBlacklisted'
  <2> SUFFICES ASSUME Serial PROVE FloorBlacklistExclusion' /\ TargetNotBlacklisted'
    OBVIOUS
  <2>1. \A c \in r.added : package[c] # r.package /\ <<c, r.package>> \notin floors
    BY <1>0 DEF Serial, StillTrue, MayBlacklist
  <2>2. TargetNotBlacklisted'
    BY <1>0, <1>3, <1>4, <2>1 DEF Serial, TargetNotBlacklisted
  <2>3. FloorBlacklistExclusion'
    <3>1. ASSUME NEW c \in channels, NEW q \in packages, <<c, q>> \in floors
          PROVE  <<c, q>> \notin blacklist'
      <4>1. <<c, q>> \notin blacklist
        BY <3>1 DEF Serial, FloorBlacklistExclusion
      <4> QED BY <1>3, <1>4, <2>1, <3>1, <4>1
    <3> QED BY <1>0, <3>1 DEF FloorBlacklistExclusion, CatalogTypeOK
  <2> QED BY <2>2, <2>3
<1>6. \A b \in Admins \ {a} : Doing(b, "package") =>
        BlacklistOf(request[b].package)' = BlacklistOf(request[b].package)
  <2> SUFFICES ASSUME NEW b \in Admins \ {a}, Doing(b, "package")
               PROVE  BlacklistOf(request[b].package)' = BlacklistOf(request[b].package)
    OBVIOUS
  <2>1. request[b].package # r.package
    BY <1>0 DEF Inv, OneUpdatePerPackage
  <2>2. request'[b] = request[b]
    BY <1>0, RequestsDiffer DEF Done
  <2> QED BY <1>3, <2>1, <2>2 DEF BlacklistOf
<1>7. CommitSets
  <2>1. \A b \in Admins \ {a} : request'[b] = request[b]
    BY <1>0, RequestsDiffer DEF Done
  <2>2. \A b \in Admins \ {a}, p \in Packages : ~Commits(b, p)
    BY <2>1 DEF Commits, Doing
  <2>3. \A p \in Packages : Commits(a, p) => p = r.package
    BY DEF Commits
  <2>4. {c \in Channels : <<c, r.package>> \in blacklist'} = r.wanted \cap channels
    <3>1. ASSUME NEW c \in Channels, <<c, r.package>> \in blacklist'
          PROVE  c \in r.wanted /\ c \in channels
      <4>1. CASE c \in r.added
        BY <1>1, <4>1
      <4>2. CASE c \notin r.added
        <5>1. <<c, r.package>> \in blacklist /\ ~(c \in r.old \ r.wanted)
          BY <1>0, <3>1, <4>2
        <5>2. c \in BlacklistOf(r.package)
          BY <5>1 DEF BlacklistOf
        <5> QED BY <1>1, <5>1, <5>2
      <4> QED BY <4>1, <4>2
    <3>2. ASSUME NEW c \in Channels, c \in r.wanted, c \in channels
          PROVE  <<c, r.package>> \in blacklist'
      <4>1. c \in r.old \/ c \in r.added
        BY <1>0, <3>2 DEF Unchecked
      <4>2. CASE c \in r.added
        BY <1>0, <4>2
      <4>3. CASE c \in r.old
        <5>1. c \in BlacklistOf(r.package)
          BY <1>1, <3>2, <4>3
        <5>2. <<c, r.package>> \in blacklist
          BY <5>1 DEF BlacklistOf
        <5> QED BY <1>0, <3>2, <5>2
      <4> QED BY <4>1, <4>2, <4>3
    <3> QED BY <1>0, <3>1, <3>2
  <2> HIDE DEF r
  <2>5. \A p \in Packages : Commits(a, p) =>
          {c \in Channels : <<c, p>> \in blacklist'} = r.wanted \cap channels
    BY <2>3, <2>4
  <2> QED BY <2>2, <2>5 DEF CommitSets, r
<1> HIDE DEF r
<1> QED BY <1>0, <1>2, <1>5, <1>6, <1>7, Ends

-----------------------------------------------------------------------------
LEMMA InvInit == CatalogInit => Inv
<1> SUFFICES ASSUME CatalogInit PROVE Inv
  OBVIOUS
<1>1. \A a \in Admins : request[a] = NULL
  BY DEF CatalogInit
<1>2. CatalogTypeOK
  BY DEF CatalogInit, CatalogTypeOK
<1>3. \A a \in Admins : CarriedBy(a) /\ StillTrue(a) /\ Idle(a)
  BY <1>1 DEF CarriedBy, StillTrue, Doing, Idle
<1>4. OneUpdatePerPackage
  BY <1>1 DEF OneUpdatePerPackage, Doing
<1>5. Serial
  BY <1>3 DEF CatalogInit, Serial, FloorBlacklistExclusion, TargetNotBlacklisted
<1> QED BY <1>2, <1>3, <1>4, <1>5 DEF CatalogInit, Inv

LEMMA InvStep == Inv /\ [CatalogNext]_catalogVars => Inv' /\ [CommitSets]_catalogVars
<1> SUFFICES ASSUME Inv, [CatalogNext]_catalogVars
             PROVE  Inv' /\ [CommitSets]_catalogVars
  OBVIOUS
<1>1. CASE UNCHANGED catalogVars
  <2>1. UNCHANGED <<packages, channels, used, package, floors, blacklist, request, raced>>
    BY <1>1 DEF catalogVars, rowsVars
  <2>2. Inv'
    BY <2>1 DEF Inv, CatalogTypeOK, CarriedBy, OneUpdatePerPackage, Serial, StillTrue, Doing,
                Idle, BlacklistOf, MayBlacklist, FloorBlacklistExclusion, TargetNotBlacklisted
  <2> QED BY <1>1, <2>2
<1>2. ASSUME NEW a \in Admins, OneStep(a)
      PROVE  Inv' /\ CommitSets
  BY <1>2, AddPackageKeeps, DeletePackageKeeps, AddChannelKeeps, DeleteChannelKeeps,
     RemoveChannelPackageFloorKeeps DEF OneStep
<1>3. ASSUME NEW a \in Admins, LookThenWrite(a)
      PROVE  Inv' /\ CommitSets
  BY <1>3, ValidatePackageKeeps, UpdateChannelKeeps, CheckFloorKeeps,
     AddChannelPackageFloorKeeps, BeginUpdatePackageKeeps, BlacklistChannelKeeps,
     CommitUpdatePackageKeeps DEF LookThenWrite
<1> QED BY <1>1, <1>2, <1>3 DEF CatalogNext

(* Whatever requests are in progress, the catalog is in a state that the   *)
(* invariant describes.                                                    *)
THEOREM AlwaysInv == CatalogSpec => []Inv
<1>1. CatalogInit => Inv
  BY InvInit
<1>2. Inv /\ [CatalogNext]_catalogVars => Inv'
  BY InvStep
<1> QED BY <1>1, <1>2, PTL DEF CatalogSpec

(* Floors, blacklist entries and targets are of rows that exist (foreign   *)
(* keys of the schema, kept by the deletions' cascades and the rows held). *)
THEOREM TypesKept == CatalogSpec => []CatalogTypeOK
<1>1. Inv => CatalogTypeOK
  BY DEF Inv
<1> QED BY <1>1, AlwaysInv, PTL

(* Requests that do not overlap never leave a channel with a package that  *)
(* is blacklisted for it, nor with a blacklisted floor (validatePackage,   *)
(* isPackageBlacklistedForChannel and UpdatePackage's checks suffice).     *)
THEOREM SerialRequestsKept == CatalogSpec => []SerialRequestsAgree
<1>1. Inv => SerialRequestsAgree
  BY DEF Inv, Serial, SerialRequestsAgree
<1> QED BY <1>1, AlwaysInv, PTL

(* An update of a package that commits leaves exactly the blacklist it was *)
(* asked for, however it overlaps other requests (UpdatePackage).          *)
THEOREM CommitsExact == CatalogSpec => CommitSetsBlacklist
<1>1. Inv /\ [CatalogNext]_catalogVars => [CommitSets]_catalogVars
  BY InvStep
<1>2. [CommitSets]_catalogVars =>
        [\A a \in Admins, p \in Packages :
           Commits(a, p) =>
             {c \in Channels : <<c, p>> \in blacklist'} = request[a].wanted \cap channels]_catalogVars
  BY DEF CommitSets
<1> QED BY <1>1, <1>2, AlwaysInv, PTL DEF CatalogSpec, CommitSetsBlacklist

-----------------------------------------------------------------------------
(* Timeline.                                                               *)

LEMMA ChartConstants ==
  /\ Instances \subseteq Nat /\ IsFiniteSet(Instances)
  /\ Duration \in Nat /\ DeadInstance \in Nat /\ MaxTime \in Nat /\ Interval \in Nat \ {0}
  /\ Duration % 2 = 0 /\ Duration % Interval = 0 /\ Duration < DeadInstance
  /\ PastTimes \subseteq Int /\ IsFiniteSet(PastTimes)
  /\ \A t \in PastTimes : t < 0 /\ t % 2 = 1
  /\ Unknown \notin Int
BY TimelineAssumption DEF TimelineAssumption

LEMMA TimesAreInts == Times \subseteq Int /\ Unknown \notin Times /\ IsFiniteSet(Times)
<1>1. IsFiniteSet(0..MaxTime)
  BY ChartConstants, FS_Interval
<1>2. IsFiniteSet(Times)
  BY <1>1, ChartConstants, FS_Union DEF Times
<1>3. Times \subseteq Int
  <2>1. 0..MaxTime \subseteq Int
    BY ChartConstants
  <2> QED BY <2>1, ChartConstants DEF Times
<1> QED BY <1>2, <1>3, ChartConstants

-----------------------------------------------------------------------------
(* Sets of whole numbers: the first of a set of naturals, and the last of  *)
(* one that is bounded.                                                    *)

LEMMA First ==
  ASSUME NEW S \in SUBSET Nat, S # {}
  PROVE  \E x \in S : \A y \in S : x =< y
<1>1. PICK x \in S : \A y \in S : <<y, x>> \notin OpToRel(<, Nat)
  BY NatLessThanWellFounded, WFMin
<1>2. \A y \in S : ~(y < x)
  BY <1>1 DEF OpToRel
<1> QED BY <1>2

LEMMA Greatest ==
  ASSUME NEW S \in SUBSET Int, S # {}, NEW bound \in Int, \A x \in S : x =< bound
  PROVE  \E x \in S : \A y \in S : y =< x
<1> DEFINE D == {bound - x : x \in S}
<1>1. D \in SUBSET Nat /\ D # {}
  <2>1. \A x \in S : bound - x \in Nat
    OBVIOUS
  <2> QED BY <2>1
<1>2. PICK d \in D : \A e \in D : d =< e
  BY <1>1, First
<1>3. PICK x \in S : d = bound - x
  OBVIOUS
<1>4. \A y \in S : d =< bound - y
  BY <1>2
<1>5. \A y \in S : y =< x
  BY <1>3, <1>4
<1> QED BY <1>5

-----------------------------------------------------------------------------
(* The loop over Query 2.  Of the first k of its updates those count at t  *)
(* that an earlier point is before, that are before t, and that no other   *)
(* of the same instance follows before t.                                  *)

Update == [inst : Instances, at : Times]

Sorted(s) == \A j, k \in 1..Len(s) : j < k => Before(s[j], s[k])

Counted(s, points, j, t) ==
  /\ \E p \in points : s[j].at > p
  /\ s[j].at < t
  /\ \A m \in 1..(j - 1) : s[m].inst = s[j].inst => t < s[m].at

Counts(s, points, k, t) ==
  {[inst |-> s[j].inst, version |-> s[j].at, by |-> 2] :
     j \in {m \in 1..k : Counted(s, points, m, t)}}

(* What the loop has done after k updates.                                 *)
Accumulates(acc, base, s, points, k) ==
  /\ acc = [timeline |-> acc.timeline, prev |-> acc.prev, latest |-> acc.latest]
  /\ acc.timeline = [t \in points |-> base[t] \cup Counts(s, points, k, t)]
  /\ acc.prev = IF k = 0 THEN Unknown ELSE s[k].inst
  /\ k > 0 /\ (\E p \in points : s[k].at > p) => acc.latest = s[k].at

LEMMA AddUpdateAccumulates ==
  ASSUME NEW points \in SUBSET Int, \A t \in points : t =< now, now \in Int,
         NEW base, NEW s \in Seq(Update), Sorted(s),
         NEW k \in Nat, k < Len(s), NEW acc, Accumulates(acc, base, s, points, k)
  PROVE  Accumulates(AddUpdate(acc, s[k + 1]), base, s, points, k + 1)
<1> DEFINE c == s[k + 1]
           L == IF acc.prev # c.inst THEN now + 1 ELSE acc.latest
           rec == [inst |-> c.inst, version |-> c.at, by |-> 2]
           T(t) == base[t] \cup Counts(s, points, k, t)
<1>1. /\ k + 1 \in 1..Len(s) /\ k + 1 # 0 /\ (k + 1) - 1 = k /\ Len(s) \in Nat
      /\ \A j \in 1..(k + 1) : j \in 1..Len(s)
  OBVIOUS
<1>2. \A j \in 1..(k + 1) : s[j] \in Update /\ s[j].inst \in Nat /\ s[j].at \in Int
  <2>1. \A j \in 1..(k + 1) : s[j] \in Update
    BY <1>1
  <2> QED BY <2>1, TimesAreInts, ChartConstants DEF Update
<1>3. \A m \in 1..k : Before(s[m], c)
  BY <1>1 DEF Sorted
<1>4. \A t \in points : Counts(s, points, k + 1, t) =
        IF Counted(s, points, k + 1, t) THEN Counts(s, points, k, t) \cup {rec}
        ELSE Counts(s, points, k, t)
  <2>1. 1..(k + 1) = (1..k) \cup {k + 1}
    OBVIOUS
  <2> QED BY <2>1 DEF Counts
<1>5. CASE \E p \in points : c.at > p
  <2>1. ASSUME NEW t \in points
        PROVE  (c.at < t /\ t < L) <=> Counted(s, points, k + 1, t)
    <3>1. CASE acc.prev # c.inst
      <4>1. \A m \in 1..k : s[m].inst # c.inst
        <5> SUFFICES ASSUME NEW m \in 1..k, s[m].inst = c.inst PROVE FALSE
          OBVIOUS
        <5>1. k # 0 /\ k \in 1..k /\ acc.prev = s[k].inst
          BY DEF Accumulates
        <5>2. m # k
          BY <3>1, <5>1
        <5>3. Before(s[m], s[k]) /\ Before(s[k], c)
          BY <1>1, <1>3, <5>1, <5>2 DEF Sorted
        <5>4. s[m].inst \in Nat /\ s[k].inst \in Nat /\ c.inst \in Nat
          BY <1>2, <5>1
        <5>5. s[m].inst =< s[k].inst /\ s[k].inst =< c.inst
          BY <5>3, <5>4 DEF Before
        <5> QED BY <3>1, <5>1, <5>4, <5>5
      <4>2. t < L
        BY <3>1
      <4> QED BY <1>1, <1>5, <4>1, <4>2 DEF Counted
    <3>2. CASE acc.prev = c.inst
      <4>1. k # 0 /\ k \in 1..k /\ s[k].inst = c.inst
        <5>1. c.inst \in Nat /\ Unknown # c.inst
          BY <1>1, <1>2, ChartConstants
        <5> QED BY <3>2, <5>1 DEF Accumulates
      <4>2. s[k].at > c.at
        BY <1>2, <1>3, <4>1 DEF Before
      <4>3. \E p \in points : s[k].at > p
        <5>1. PICK p \in points : c.at > p
          BY <1>5
        <5>2. p \in Int /\ s[k].at \in Int /\ c.at \in Int
          BY <1>1, <1>2, <4>1, <5>1
        <5> QED BY <4>2, <5>1, <5>2
      <4>4. L = s[k].at
        BY <3>2, <4>1, <4>3 DEF Accumulates
      <4>5. \A m \in 1..k : s[m].inst = c.inst => s[m].at >= s[k].at
        <5> SUFFICES ASSUME NEW m \in 1..k, s[m].inst = c.inst, m # k
                     PROVE  s[m].at >= s[k].at
          BY <1>2
        <5>1. Before(s[m], s[k])
          BY <1>1, <4>1 DEF Sorted
        <5> QED BY <1>2, <4>1, <5>1 DEF Before
      <4>6. t < s[k].at <=> \A m \in 1..k : s[m].inst = c.inst => t < s[m].at
        <5>1. t \in Int /\ \A m \in 1..k : s[m].at \in Int
          BY <1>2
        <5> QED BY <4>1, <4>5, <5>1
      <4> QED BY <1>1, <1>5, <4>4, <4>6 DEF Counted
    <3> QED BY <3>1, <3>2
  <2>2. AddUpdate(acc, c) =
          [timeline |-> WithVersion(acc.timeline, c.inst, c.at, L),
           prev |-> c.inst, latest |-> c.at]
    BY <1>5 DEF AddUpdate, Accumulates
  <2>3. WithVersion(acc.timeline, c.inst, c.at, L) =
          [t \in points |-> base[t] \cup Counts(s, points, k + 1, t)]
    <3>1. WithVersion(acc.timeline, c.inst, c.at, L) =
            [t \in points |-> IF c.at < t /\ t < L THEN T(t) \cup {rec} ELSE T(t)]
      BY DEF WithVersion, Accumulates
    <3>2. \A t \in points :
            (IF c.at < t /\ t < L THEN T(t) \cup {rec} ELSE T(t)) =
              base[t] \cup Counts(s, points, k + 1, t)
      BY <1>4, <2>1
    <3> QED BY <3>1, <3>2
  <2> QED BY <1>1, <2>2, <2>3 DEF Accumulates
<1>6. CASE ~\E p \in points : c.at > p
  <2>1. AddUpdate(acc, c) = [timeline |-> acc.timeline, prev |-> c.inst, latest |-> L]
    BY <1>6 DEF AddUpdate, Accumulates
  <2>2. \A t \in points : ~Counted(s, points, k + 1, t)
    BY <1>6 DEF Counted
  <2>3. acc.timeline = [t \in points |-> base[t] \cup Counts(s, points, k + 1, t)]
    BY <1>4, <2>2 DEF Accumulates
  <2> QED BY <1>1, <1>6, <2>1, <2>3 DEF Accumulates
<1> QED BY <1>5, <1>6

LEMMA LoopCounts ==
  ASSUME NEW points \in SUBSET Int, \A t \in points : t =< now, now \in Int,
         NEW base \in [points -> SUBSET Count],
         NEW s \in Seq(Update), Sorted(s)
  PROVE  Loop(base, s) = [t \in points |-> base[t] \cup Counts(s, points, Len(s), t)]
<1> DEFINE Initially == [timeline |-> base, prev |-> Unknown, latest |-> now + 1]
           IsLoop(f, n) ==
             f = [k \in 0..n |-> IF k = 0 THEN Initially ELSE AddUpdate(f[k - 1], s[k])]
<1>0. Len(s) \in Nat
  OBVIOUS
<1>1. \A n \in Nat : \E f : IsLoop(f, n)
  <2> DEFINE Missing == {n \in Nat : ~\E f : IsLoop(f, n)}
  <2> SUFFICES ASSUME Missing # {} PROVE FALSE
    OBVIOUS
  <2>1. PICK n \in Missing : \A m \in Missing : n =< m
    BY First
  <2>2. IsLoop([k \in 0..0 |-> Initially], 0)
    OBVIOUS
  <2>3. n # 0 /\ n \in Nat /\ n - 1 \in Nat /\ n - 1 \notin Missing
    <3>1. 0 \notin Missing
      BY <2>2
    <3>2. n # 0 /\ n \in Nat
      BY <3>1
    <3>3. n - 1 \in Nat /\ ~(n =< n - 1)
      BY <3>2
    <3> HIDE DEF Missing
    <3> QED BY <2>1, <3>2, <3>3
  <2>4. PICK f : IsLoop(f, n - 1)
    BY <2>3
  <2> DEFINE g == [k \in 0..n |-> IF k < n THEN f[k] ELSE AddUpdate(f[n - 1], s[n])]
  <2>5. \A k \in 0..n : g[k] = IF k = 0 THEN Initially ELSE AddUpdate(g[k - 1], s[k])
    <3> SUFFICES ASSUME NEW k \in 0..n
                 PROVE  g[k] = IF k = 0 THEN Initially ELSE AddUpdate(g[k - 1], s[k])
      OBVIOUS
    <3>1. CASE k = n
      <4>1. g[k] = AddUpdate(f[n - 1], s[n]) /\ g[k - 1] = f[n - 1] /\ k # 0
        BY <2>3, <3>1
      <4> QED BY <3>1, <4>1
    <3>2. CASE k # n
      <4>1. k \in 0..(n - 1) /\ g[k] = f[k] /\ (k # 0 => g[k - 1] = f[k - 1])
        BY <2>3, <3>2
      <4>2. f[k] = IF k = 0 THEN Initially ELSE AddUpdate(f[k - 1], s[k])
        BY <2>4, <4>1
      <4> QED BY <4>1, <4>2
    <3> QED BY <3>1, <3>2
  <2>6. IsLoop(g, n)
    BY <2>5
  <2> QED BY <2>1, <2>6
<1> DEFINE acc == CHOOSE f : IsLoop(f, Len(s))
<1>2. IsLoop(acc, Len(s))
  BY <1>0, <1>1
<1>3. Loop(base, s) = acc[Len(s)].timeline
  BY Zenon DEF Loop
<1> HIDE DEF acc
<1>4. acc[0] = Initially /\ \A k \in 0..Len(s) : k # 0 => acc[k] = AddUpdate(acc[k - 1], s[k])
  <2>1. \A k \in 0..Len(s) : acc[k] = IF k = 0 THEN Initially ELSE AddUpdate(acc[k - 1], s[k])
    BY <1>2, Zenon
  <2>2. 0 \in 0..Len(s)
    BY <1>0
  <2> QED BY <2>1, <2>2, Zenon
<1>5. \A k \in 0..Len(s) : Accumulates(acc[k], base, s, points, k)
  <2> DEFINE Off == {k \in 0..Len(s) : ~Accumulates(acc[k], base, s, points, k)}
  <2> SUFFICES ASSUME Off # {} PROVE FALSE
    OBVIOUS
  <2>1. Off \in SUBSET Nat
    BY <1>0
  <2>2. PICK n \in Off : \A m \in Off : n =< m
    BY <2>1, First
  <2>3. Accumulates(acc[0], base, s, points, 0)
    <3>1. \A t \in points : Counts(s, points, 0, t) = {}
      BY DEF Counts
    <3>2. base = [t \in points |-> base[t] \cup Counts(s, points, 0, t)]
      BY <3>1
    <3> QED BY <1>4, <3>2 DEF Accumulates
  <2>4. n # 0 /\ n \in 0..Len(s) /\ n - 1 \in Nat /\ n - 1 < Len(s) /\ (n - 1) + 1 = n
    BY <1>0, <2>2, <2>3
  <2>5. Accumulates(acc[n - 1], base, s, points, n - 1)
    BY <1>0, <2>2, <2>4
  <2>6. Accumulates(AddUpdate(acc[n - 1], s[(n - 1) + 1]), base, s, points, (n - 1) + 1)
    BY <2>4, <2>5, AddUpdateAccumulates
  <2>7. acc[n] = AddUpdate(acc[n - 1], s[n])
    BY <1>4, <2>4
  <2> QED BY <2>2, <2>4, <2>6, <2>7
<1>6. Accumulates(acc[Len(s)], base, s, points, Len(s))
  <2>1. Len(s) \in 0..Len(s)
    BY <1>0
  <2> QED BY <1>5, <2>1, Zenon
<1> QED BY <1>3, <1>6 DEF Accumulates

-----------------------------------------------------------------------------
(* The points of the chart end at the time it is made.                     *)

LEMMA Multiples ==
  ASSUME NEW k \in Nat, NEW n \in Nat, k =< n, NEW d \in Nat
  PROVE  k * d \in Nat /\ n * d \in Nat /\ k * d =< n * d
<1>1. n - k \in Nat
  OBVIOUS
<1>2. (n - k) * d \in Nat
  BY <1>1
<1>3. (n - k) * d = n * d - k * d
  BY <1>1
<1> QED BY <1>2, <1>3

LEMMA Spread ==
  /\ Duration \div Interval \in Nat
  /\ (Duration \div Interval) * Interval = Duration
<1> DEFINE n == Duration \div Interval
<1>1. Duration \in Nat /\ Interval \in Nat \ {0} /\ Duration % Interval = 0
  BY ChartConstants
<1>2. n \in Nat
  BY <1>1
<1>3. Duration = Interval * n + (Duration % Interval)
  BY <1>1
<1> QED BY <1>1, <1>2, <1>3

LEMMA PointsOf ==
  ASSUME NEW t \in Int
  PROVE  /\ Points(t) \in SUBSET Int /\ \A p \in Points(t) : p =< t
         /\ t \in Points(t) /\ t - Duration \in Points(t)
<1> DEFINE n == Duration \div Interval
<1>1. Duration \in Nat /\ Interval \in Nat
  BY ChartConstants
<1>2. n \in Nat /\ n * Interval = Duration
  BY Spread
<1>3. \A k \in 0..n : k * Interval \in Nat /\ k * Interval =< Duration
  BY <1>1, <1>2, Multiples
<1>4. \A p \in Points(t) : p \in Int /\ p =< t
  <2> SUFFICES ASSUME NEW k \in 0..n
               PROVE  t - Duration + k * Interval \in Int /\ t - Duration + k * Interval =< t
    BY DEF Points
  <2>1. k * Interval \in Nat /\ k * Interval =< Duration
    BY <1>3
  <2> QED BY <1>1, <2>1
<1>5. t - Duration + n * Interval = t /\ n \in 0..n
  <2>1. t - Duration + Duration = t
    BY <1>1
  <2>2. n \in 0..n
    BY <1>2
  <2> QED BY <1>2, <2>1, <2>2
<1>6. t - Duration + 0 * Interval = t - Duration /\ 0 \in 0..n
  BY <1>1, <1>2
<1> QED BY <1>4, <1>5, <1>6 DEF Points

-----------------------------------------------------------------------------
(* What the queries find out about an instance, as of the time at.         *)

SeenAt(i, at) ==
  rows[i] # Unknown /\ rows[i].group = Group /\ rows[i].checked >= at - Duration

DoneSince(i, groups, from) == {c \in history[i] : c.group \in groups /\ c.at >= from}

LastOf(done) == CHOOSE at \in {c.at : c \in done} : \A c \in done : c.at =< at

Answer1(i, at) ==
  IF SeenAt(i, at) /\ DoneSince(i, {Group}, at - DeadInstance) = {}
  THEN {[inst |-> i, since |-> rows[i].since]} ELSE {}

Answer2(i, at) ==
  IF SeenAt(i, at)
  THEN {[inst |-> i, at |-> c.at] : c \in DoneSince(i, {Group}, at - Duration)} ELSE {}

Answer3(i, at) ==
  IF /\ SeenAt(i, at)
     /\ DoneSince(i, {Group, Other}, at - DeadInstance) # {}
     /\ DoneSince(i, {Group, Other}, at - Duration) = {}
  THEN {[inst |-> i, at |-> LastOf(DoneSince(i, {Group, Other}, at - DeadInstance))]} ELSE {}

(* An instance that has not been written since the chart was begun is      *)
(* still what the queries have found it to be.                             *)
StillAnswers(i) ==
  /\ queries[1] # Unknown =>
       /\ rows[i] # Unknown => rows[i].since =< queries[1].asOf
       /\ \A c \in history[i] : c.at =< queries[1].asOf
       /\ {r \in queries[1].found : r.inst = i} = Answer1(i, queries[1].asOf)
  /\ queries[2] # Unknown =>
       {queries[2].found[j] : j \in {m \in 1..Len(queries[2].found) :
                                       queries[2].found[m].inst = i}}
         = Answer2(i, queries[2].asOf)
  /\ queries[3] # Unknown =>
       {r \in queries[3].found : r.inst = i} = Answer3(i, queries[3].asOf)

ResultsTypeOK ==
  /\ queries = [q \in 1..3 |-> queries[q]]
  /\ queries[1] # Unknown => /\ queries[1].asOf % 2 = 0
                             /\ queries[1].found \subseteq [inst : Instances, since : Times]
  /\ queries[2] # Unknown => queries[2].found \in Seq(Update) /\ Sorted(queries[2].found)
  /\ queries[3] # Unknown => queries[3].found \subseteq Update

(* Nothing has happened later than now, and updates complete at odd times. *)
NothingAhead ==
  \A i \in Instances :
    /\ rows[i] # Unknown => rows[i].since =< now
    /\ \A c \in history[i] : c.at =< now /\ c.at % 2 = 1

(* The chart says of each point what the three queries together do.        *)
ChartOf(points, found, never, last) ==
  [t \in points |-> never[t] \cup Counts(found, points, Len(found), t) \cup last]

ChartOfAnswers ==
  chart # Unknown =>
    /\ \A q \in 1..3 : queries[q] # Unknown
    /\ chart = ChartOf(Points(queries[1].asOf), queries[2].found, NeverUpdated, LastUpdated)

TimelineInv ==
  /\ TimelineTypeOK /\ history \in [Instances -> SUBSET Completed]
  /\ ResultsTypeOK /\ NothingAhead
  /\ \A i \in Instances \ touched : StillAnswers(i)
  /\ ChartOfAnswers

-----------------------------------------------------------------------------
(* The queries.                                                            *)

LEMMA CompletedTimes ==
  ASSUME history \in [Instances -> SUBSET Completed], NEW i \in Instances, NEW c \in history[i]
  PROVE  c.at \in Times /\ c.at \in Int /\ c.group \in {Group, Other}
<1>1. c \in Completed
  OBVIOUS
<1> QED BY <1>1, TimesAreInts DEF Completed

LEMMA RowTimes ==
  ASSUME TimelineTypeOK, NEW i \in Instances, rows[i] # Unknown
  PROVE  /\ rows[i] \in Row /\ rows[i].since \in Times /\ rows[i].since \in Int
         /\ rows[i].checked \in Times /\ rows[i].checked \in Int
BY TimesAreInts DEF TimelineTypeOK, Row

LEMMA UpdatesFinite == ASSUME NEW F \in SUBSET Update PROVE IsFiniteSet(F)
<1> DEFINE f == [p \in Instances \X Times |-> [inst |-> p[1], at |-> p[2]]]
           image == {f[p] : p \in DOMAIN f}
<1>1. IsFiniteSet(Instances \X Times)
  BY ChartConstants, TimesAreInts, FS_Product
<1>2. IsFiniteSet(image)
  <2>1. DOMAIN f = Instances \X Times /\ f \in [Instances \X Times -> image]
    OBVIOUS
  <2>2. f \in Surjection(Instances \X Times, image)
    BY <2>1 DEF Surjection
  <2> QED BY <1>1, <2>2, FS_Surjection
<1>3. F \subseteq image
  <2> SUFFICES ASSUME NEW u \in F PROVE u \in image
    OBVIOUS
  <2>1. u = [inst |-> u.inst, at |-> u.at] /\ u.inst \in Instances /\ u.at \in Times
    BY DEF Update
  <2>2. <<u.inst, u.at>> \in Instances \X Times /\ f[<<u.inst, u.at>>] = u
    BY <2>1
  <2> QED BY <2>2
<1> QED BY <1>2, <1>3, FS_Subset

LEMMA OrderedResult ==
  ASSUME NEW F \in SUBSET Update, NEW s \in InOrder(F)
  PROVE  /\ s \in Seq(Update) /\ Sorted(s)
         /\ {s[j] : j \in 1..Len(s)} = F
<1> DEFINE n == Cardinality(F)
<1>1. n \in Nat
  BY UpdatesFinite, FS_CardinalityType
<1>2. /\ s \in [1..n -> F] /\ \A c \in F : \E j \in 1..n : s[j] = c
      /\ \A j, k \in DOMAIN s : j < k => Before(s[j], s[k])
  BY DEF InOrder, Bijection, Surjection, Injection
<1>3. s \in Seq(Update) /\ Len(s) = n
  BY <1>1, <1>2
<1> QED BY <1>2, <1>3 DEF Sorted

LEMMA Query1Answers ==
  ASSUME NEW i \in Instances
  PROVE  {r \in InstancesWithoutStatus : r.inst = i} = Answer1(i, now)
<1>1. i \in Active <=> SeenAt(i, now)
  BY DEF Active, SeenAt, Within
<1>2. Updated(i, {Group}, DeadInstance) = DoneSince(i, {Group}, now - DeadInstance)
  BY DEF Updated, DoneSince, Within
<1> QED BY <1>1, <1>2 DEF InstancesWithoutStatus, Answer1

LEMMA Query2Members ==
  \A c : c \in InstanceWithStatusHistoryInInterval <=>
            \E j \in Active : \E d \in Updated(j, {Group}, Duration) :
              c = [inst |-> j, at |-> d.at]
BY DEF InstanceWithStatusHistoryInInterval

LEMMA Query2Answers ==
  ASSUME NEW i \in Instances
  PROVE  {c \in InstanceWithStatusHistoryInInterval : c.inst = i} = Answer2(i, now)
<1>1. i \in Active <=> SeenAt(i, now)
  BY DEF Active, SeenAt, Within
<1>2. Updated(i, {Group}, Duration) = DoneSince(i, {Group}, now - Duration)
  BY DEF Updated, DoneSince, Within
<1> SUFFICES ASSUME NEW c
             PROVE  (c \in InstanceWithStatusHistoryInInterval /\ c.inst = i)
                       <=> c \in Answer2(i, now)
  OBVIOUS
<1>3. \A j, at : c = [inst |-> j, at |-> at] => c.inst = j
  OBVIOUS
<1>4. c \in Answer2(i, now) <=>
        /\ i \in Active
        /\ \E d \in Updated(i, {Group}, Duration) : c = [inst |-> i, at |-> d.at]
  BY <1>1, <1>2 DEF Answer2
<1> QED BY <1>3, <1>4, Query2Members

LEMMA Query3Answers ==
  ASSUME NEW i \in Instances
  PROVE  {r \in InstancesWithoutStatusInInterval : r.inst = i} = Answer3(i, now)
<1>1. i \in Active <=> SeenAt(i, now)
  BY DEF Active, SeenAt, Within
<1>2. /\ Updated(i, {Group, Other}, Duration) = DoneSince(i, {Group, Other}, now - Duration)
      /\ Updated(i, {Group, Other}, DeadInstance)
           = DoneSince(i, {Group, Other}, now - DeadInstance)
  BY DEF Updated, DoneSince, Within
<1> SUFFICES ASSUME NEW r
             PROVE  (r \in InstancesWithoutStatusInInterval /\ r.inst = i)
                       <=> r \in Answer3(i, now)
  OBVIOUS
<1> DEFINE older(j) == Updated(j, {Group, Other}, DeadInstance)
           others == {j \in Active : older(j) # {} /\ Updated(j, {Group, Other}, Duration) = {}}
<1>3. r \in InstancesWithoutStatusInInterval <=>
        \E j \in others : r = [inst |-> j, at |-> LastOf(older(j))]
  BY DEF InstancesWithoutStatusInInterval, LastOf
<1>4. r \in Answer3(i, now) <=> i \in others /\ r = [inst |-> i, at |-> LastOf(older(i))]
  BY <1>1, <1>2 DEF Answer3
<1>5. \A j, at : r = [inst |-> j, at |-> at] => r.inst = j
  OBVIOUS
<1> HIDE DEF older, others
<1> QED BY <1>3, <1>4, <1>5

LEMMA ResultsTyped ==
  ASSUME TimelineTypeOK, history \in [Instances -> SUBSET Completed], now \in Int
  PROVE  /\ InstancesWithoutStatus \subseteq [inst : Instances, since : Times]
         /\ InstanceWithStatusHistoryInInterval \subseteq Update
<1>1. \A j \in Active : j \in Instances /\ rows[j] # Unknown
  BY DEF Active
<1>2. InstancesWithoutStatus \subseteq [inst : Instances, since : Times]
  BY <1>1, RowTimes DEF InstancesWithoutStatus
<1>3. InstanceWithStatusHistoryInInterval \subseteq Update
  <2>1. ASSUME NEW j \in Active, NEW d \in Updated(j, {Group}, Duration)
        PROVE  [inst |-> j, at |-> d.at] \in Update
    <3>1. j \in Instances /\ d \in history[j]
      BY <1>1 DEF Updated
    <3>2. d.at \in Times
      BY <3>1, CompletedTimes
    <3> QED BY <3>1, <3>2 DEF Update
  <2> SUFFICES ASSUME NEW c \in InstanceWithStatusHistoryInInterval PROVE c \in Update
    OBVIOUS
  <2>2. PICK j \in Active : \E d \in Updated(j, {Group}, Duration) : c = [inst |-> j, at |-> d.at]
    BY Query2Members
  <2>3. PICK d \in Updated(j, {Group}, Duration) : c = [inst |-> j, at |-> d.at]
    BY <2>2
  <2> QED BY <2>1, <2>3
<1> QED BY <1>2, <1>3

(* The last of an instance's updates exists and is one of them.            *)
LEMMA LastIsOne ==
  ASSUME NEW done, done # {}, \A c \in done : c.at \in Int, NEW bound \in Int,
         \A c \in done : c.at =< bound
  PROVE  /\ \E c \in done : LastOf(done) = c.at
         /\ \A c \in done : c.at =< LastOf(done)
<1> DEFINE S == {c.at : c \in done}
<1>1. S \in SUBSET Int /\ S # {} /\ \A x \in S : x =< bound
  OBVIOUS
<1>2. \E at \in S : \A c \in done : c.at =< at
  BY <1>1, Greatest
<1>3. LastOf(done) \in S /\ \A c \in done : c.at =< LastOf(done)
  BY <1>2 DEF LastOf
<1> QED BY <1>3

LEMMA Query3Typed ==
  ASSUME TimelineTypeOK, history \in [Instances -> SUBSET Completed], NothingAhead, now \in Int
  PROVE  InstancesWithoutStatusInInterval \subseteq Update
<1> SUFFICES ASSUME NEW r \in InstancesWithoutStatusInInterval PROVE r \in Update
  OBVIOUS
<1>1. PICK i \in Active : /\ Updated(i, {Group, Other}, DeadInstance) # {}
                          /\ r = [inst |-> i,
                                  at |-> LastOf(Updated(i, {Group, Other}, DeadInstance))]
  BY DEF InstancesWithoutStatusInInterval, LastOf
<1> DEFINE done == Updated(i, {Group, Other}, DeadInstance)
<1>2. i \in Instances /\ done \subseteq history[i]
  BY DEF Active, Updated
<1>3. \A c \in done : c.at \in Times /\ c.at \in Int /\ c.at =< now
  BY <1>2, CompletedTimes DEF NothingAhead
<1>4. PICK c \in done : LastOf(done) = c.at
  BY <1>1, <1>3, LastIsOne
<1> QED BY <1>1, <1>2, <1>3, <1>4 DEF Update

-----------------------------------------------------------------------------
(* The invariant.                                                          *)

LEMMA TimelineInit == Init => TimelineInv
<1> SUFFICES ASSUME Init PROVE TimelineInv
  OBVIOUS
<1>1. PICK past \in [Instances -> UNION {Past(i) : i \in Instances}] :
        /\ \A i \in Instances : past[i] \in Past(i)
        /\ rows = [i \in Instances |-> past[i].row]
        /\ history = [i \in Instances |-> past[i].history]
  BY DEF Init
<1>2. ASSUME NEW i \in Instances
      PROVE  /\ rows[i] \in Row \cup {Unknown} /\ history[i] \subseteq Completed
             /\ rows[i] # Unknown => rows[i].since \in PastTimes
             /\ \A c \in history[i] : c.at \in PastTimes
  <2>0. past[i] \in Past(i) /\ rows[i] = past[i].row /\ history[i] = past[i].history
    BY <1>1
  <2>1. GroupsOf(i) \subseteq {Group, Other}
    BY DEF GroupsOf
  <2>2. PastTimes \subseteq Times
    BY DEF Times
  <2>3. CASE past[i] = [row |-> Unknown, history |-> {}]
    BY <2>0, <2>3
  <2>4. CASE past[i] \in [row : [group : GroupsOf(i), since : PastTimes, checked : PastTimes],
                          history : PastHistories(i)]
    <3>1. /\ rows[i] \in [group : GroupsOf(i), since : PastTimes, checked : PastTimes]
          /\ history[i] \in PastHistories(i)
      BY <2>0, <2>4
    <3>2. history[i] \subseteq [at : PastTimes, group : GroupsOf(i)]
      BY <3>1 DEF PastHistories
    <3> QED BY <2>1, <2>2, <3>1, <3>2 DEF Row, Completed
  <2> QED BY <2>0, <2>3, <2>4 DEF Past
<1>3. /\ now = 0 /\ queries = [q \in 1..3 |-> Unknown] /\ chart = Unknown
      /\ cached = Unknown /\ touched = {}
  BY DEF Init
<1>4. \A q \in 1..3 : queries[q] = Unknown
  BY <1>3
<1>5. \A t \in PastTimes : t =< now /\ t % 2 = 1
  BY <1>3, ChartConstants
<1>6. /\ rows = [i \in Instances |-> rows[i]] /\ history = [i \in Instances |-> history[i]]
  BY <1>1
<1>7. rows \in [Instances -> Row \cup {Unknown}] /\ history \in [Instances -> SUBSET Completed]
  BY <1>2, <1>6
<1>8. TimelineTypeOK
  BY <1>2, <1>3, <1>4, <1>7, ChartConstants DEF TimelineTypeOK
<1>9. NothingAhead
  BY <1>2, <1>5 DEF NothingAhead
<1>10. ResultsTypeOK /\ ChartOfAnswers /\ \A i \in Instances : StillAnswers(i)
  BY <1>3, <1>4 DEF ResultsTypeOK, ChartOfAnswers, StillAnswers
<1> QED BY <1>7, <1>8, <1>9, <1>10 DEF TimelineInv

(* What the queries found stays, and so does what the chart says of it.    *)
LEMMA ResultsKept ==
  ASSUME UNCHANGED queries
  PROVE  ResultsTypeOK => ResultsTypeOK'
BY DEF ResultsTypeOK, Sorted, Before

LEMMA ChartKept ==
  ASSUME UNCHANGED <<queries, chart>>
  PROVE  ChartOfAnswers => ChartOfAnswers'
<1>1. NeverUpdated' = NeverUpdated /\ LastUpdated' = LastUpdated
  BY DEF NeverUpdated, LastUpdated, Points
<1> QED BY <1>1 DEF ChartOfAnswers

LEMMA StillAnswersKept ==
  ASSUME NEW i \in Instances, rows'[i] = rows[i], history'[i] = history[i], UNCHANGED queries
  PROVE  StillAnswers(i) => StillAnswers(i)'
<1>1. \A at : /\ Answer1(i, at)' = Answer1(i, at)
              /\ Answer2(i, at)' = Answer2(i, at)
              /\ Answer3(i, at)' = Answer3(i, at)
  BY DEF Answer1, Answer2, Answer3, SeenAt, DoneSince
<1> QED BY <1>1 DEF StillAnswers

LEMMA TickKeeps == ASSUME TimelineInv, Tick PROVE TimelineInv'
<1>1. /\ now \in Int /\ now' = now + 1 /\ now' \in 0..MaxTime
      /\ UNCHANGED <<rows, history, queries, chart, cached, touched>>
  BY ChartConstants DEF Tick, tables, TimelineInv, TimelineTypeOK
<1>2. TimelineTypeOK'
  <2>1. \A x \in 0..now : x \in 0..now'
    BY <1>1
  <2> QED BY <1>1, <2>1 DEF TimelineInv, TimelineTypeOK, Points
<1>3. NothingAhead'
  <2> SUFFICES ASSUME NEW i \in Instances
               PROVE  /\ rows[i] # Unknown => rows[i].since =< now'
                      /\ \A c \in history[i] : c.at =< now' /\ c.at % 2 = 1
    BY <1>1 DEF NothingAhead
  <2>1. rows[i] # Unknown => rows[i].since \in Int
    BY RowTimes DEF TimelineInv
  <2>2. \A c \in history[i] : c.at \in Int
    BY CompletedTimes DEF TimelineInv
  <2> QED BY <1>1, <2>1, <2>2 DEF TimelineInv, NothingAhead
<1>4. ResultsTypeOK' /\ ChartOfAnswers'
  BY <1>1, ResultsKept, ChartKept DEF TimelineInv
<1>5. \A i \in Instances \ touched : StillAnswers(i)'
  BY <1>1, StillAnswersKept DEF TimelineInv
<1> QED BY <1>1, <1>2, <1>3, <1>4, <1>5 DEF TimelineInv

(* A write to an instance's row or history at the present, odd time.       *)
LEMMA WriteKeeps ==
  ASSUME TimelineInv, NEW i \in Instances, Quiet(i), Writes(i),
         rows' \in [Instances -> Row \cup {Unknown}],
         history' \in [Instances -> SUBSET Completed],
         \A j \in Instances \ {i} : rows'[j] = rows[j] /\ history'[j] = history[j],
         rows'[i] # Unknown => rows'[i].since =< now,
         \A c \in history'[i] : c \in history[i] \/ c.at = now
  PROVE  TimelineInv'
<1>1. /\ now \in Int /\ now % 2 = 1 /\ touched' = touched \cup {i}
      /\ UNCHANGED <<now, queries, chart, cached>>
  BY ChartConstants DEF Quiet, Writes, TimelineInv, TimelineTypeOK
<1>2. TimelineTypeOK'
  BY <1>1 DEF TimelineInv, TimelineTypeOK, Points
<1>3. NothingAhead'
  <2> SUFFICES ASSUME NEW j \in Instances
               PROVE  /\ rows'[j] # Unknown => rows'[j].since =< now
                      /\ \A c \in history'[j] : c.at =< now /\ c.at % 2 = 1
    BY <1>1 DEF NothingAhead
  <2>1. CASE j = i
    BY <1>1, <2>1 DEF TimelineInv, NothingAhead
  <2>2. CASE j # i
    BY <2>2 DEF TimelineInv, NothingAhead
  <2> QED BY <2>1, <2>2
<1>4. ResultsTypeOK' /\ ChartOfAnswers'
  BY <1>1, ResultsKept, ChartKept DEF TimelineInv
<1>5. \A j \in Instances \ touched' : StillAnswers(j)'
  BY <1>1, StillAnswersKept DEF TimelineInv
<1> QED BY <1>1, <1>2, <1>3, <1>4, <1>5 DEF TimelineInv

LEMMA NowIsATime == TimelineInv => now \in Times /\ now \in Int
BY ChartConstants DEF TimelineInv, TimelineTypeOK, Times

LEMMA RegisterInstanceKeeps ==
  ASSUME TimelineInv, NEW i \in Instances, NEW g \in GroupsOf(i), RegisterInstance(i, g)
  PROVE  TimelineInv'
<1>1. g \in {Group, Other}
  BY DEF GroupsOf
<1> DEFINE r == [group |-> g, checked |-> now,
                 since |-> IF rows[i] = Unknown THEN now ELSE rows[i].since]
<1>2. r \in Row /\ r.since =< now
  <2>1. CASE rows[i] = Unknown
    BY <1>1, <2>1, NowIsATime DEF Row
  <2>2. CASE rows[i] # Unknown
    BY <1>1, <2>2, NowIsATime, RowTimes DEF Row, TimelineInv, NothingAhead
  <2> QED BY <2>1, <2>2
<1>3. rows \in [Instances -> Row \cup {Unknown}] /\ history \in [Instances -> SUBSET Completed]
  BY DEF TimelineInv, TimelineTypeOK
<1>4. rows' = [rows EXCEPT ![i] = r] /\ history' = history /\ Quiet(i) /\ Writes(i)
  BY DEF RegisterInstance
<1> HIDE DEF r
<1> QED BY <1>2, <1>3, <1>4, WriteKeeps

LEMMA GrantUpdateKeeps ==
  ASSUME TimelineInv, NEW i \in Instances, GrantUpdate(i)
  PROVE  TimelineInv'
<1>1. rows \in [Instances -> Row \cup {Unknown}] /\ history \in [Instances -> SUBSET Completed]
  BY DEF TimelineInv, TimelineTypeOK
<1>2. /\ rows' = [rows EXCEPT ![i].since = now, ![i].checked = now]
      /\ rows[i] # Unknown /\ history' = history /\ Quiet(i) /\ Writes(i)
  BY DEF GrantUpdate
<1>3. rows'[i] \in Row /\ rows'[i].since = now
  BY <1>1, <1>2, NowIsATime DEF Row
<1>4. rows' \in [Instances -> Row \cup {Unknown}] /\ \A j \in Instances \ {i} : rows'[j] = rows[j]
  BY <1>1, <1>2, <1>3
<1> QED BY <1>1, <1>2, <1>3, <1>4, WriteKeeps, NowIsATime

LEMMA CompleteUpdateKeeps ==
  ASSUME TimelineInv, NEW i \in Instances, CompleteUpdate(i)
  PROVE  TimelineInv'
<1> DEFINE c == [at |-> now, group |-> rows[i].group]
<1>1. rows \in [Instances -> Row \cup {Unknown}] /\ history \in [Instances -> SUBSET Completed]
  BY DEF TimelineInv, TimelineTypeOK
<1>2. /\ rows[i] # Unknown /\ rows' = rows /\ Quiet(i) /\ Writes(i)
      /\ history' = [history EXCEPT ![i] = @ \cup {c}]
  BY DEF CompleteUpdate
<1>3. c \in Completed /\ c.at = now
  BY <1>1, <1>2, NowIsATime DEF Completed, Row
<1> HIDE DEF c
<1>4. /\ history' \in [Instances -> SUBSET Completed]
      /\ \A j \in Instances \ {i} : history'[j] = history[j]
      /\ history'[i] = history[i] \cup {c}
  BY <1>1, <1>2, <1>3
<1>5. rows[i].since =< now
  BY <1>2 DEF TimelineInv, NothingAhead
<1> QED BY <1>1, <1>2, <1>3, <1>4, <1>5, WriteKeeps

LEMMA BeginKeeps == ASSUME TimelineInv, Begin PROVE TimelineInv'
<1>1. /\ queries' = [q \in 1..3 |-> Unknown] /\ chart' = Unknown /\ touched' = {}
      /\ UNCHANGED <<now, rows, history, cached>>
  BY DEF Begin, tables
<1>2. \A q \in 1..3 : queries'[q] = Unknown
  BY <1>1
<1>3. TimelineTypeOK'
  BY <1>1, <1>2 DEF TimelineInv, TimelineTypeOK
<1>4. NothingAhead'
  BY <1>1 DEF TimelineInv, NothingAhead
<1>5. ResultsTypeOK' /\ ChartOfAnswers' /\ \A i \in Instances : StillAnswers(i)'
  BY <1>1, <1>2 DEF ResultsTypeOK, ChartOfAnswers, StillAnswers
<1> QED BY <1>1, <1>3, <1>4, <1>5 DEF TimelineInv

LEMMA StoreKeeps == ASSUME TimelineInv, Store PROVE TimelineInv'
<1>1. cached' = now /\ UNCHANGED <<now, rows, history, queries, chart, touched>>
  BY DEF Store, tables
<1>2. now \in 0..now
  BY ChartConstants DEF TimelineInv, TimelineTypeOK
<1>3. TimelineTypeOK'
  BY <1>1, <1>2 DEF TimelineInv, TimelineTypeOK, Points
<1>4. NothingAhead'
  BY <1>1 DEF TimelineInv, NothingAhead
<1>5. ResultsTypeOK' /\ ChartOfAnswers' /\ \A i \in Instances \ touched : StillAnswers(i)'
  BY <1>1, ResultsKept, ChartKept, StillAnswersKept DEF TimelineInv
<1> QED BY <1>1, <1>3, <1>4, <1>5 DEF TimelineInv

LEMMA RunQueryKeeps ==
  ASSUME TimelineInv, NEW q \in 1..3, RunQuery(q)
  PROVE  TimelineInv'
<1>1. PICK found \in Answers(q) :
        queries' = [queries EXCEPT ![q] = [asOf |-> now, found |-> found]]
  BY DEF RunQuery
<1> DEFINE result == [asOf |-> now, found |-> found]
<1>2. /\ now \in Int /\ now \in 0..now /\ now % 2 = 0 /\ queries[q] = Unknown
      /\ UNCHANGED <<now, rows, history, chart, cached, touched>>
  BY ChartConstants DEF RunQuery, tables, TimelineInv, TimelineTypeOK
<1>3. /\ queries' = [p \in 1..3 |-> queries'[p]] /\ queries'[q] = result
      /\ \A p \in 1..3 : p # q => queries'[p] = queries[p]
  BY <1>1 DEF TimelineInv, ResultsTypeOK
<1>4. chart = Unknown
  BY <1>2 DEF TimelineInv, ChartOfAnswers
<1>5. TimelineTypeOK'
  <2>1. \A p \in 1..3 : queries'[p] # Unknown => queries'[p].asOf \in 0..now
    BY <1>2, <1>3 DEF TimelineInv, TimelineTypeOK
  <2> QED BY <1>2, <1>4, <2>1 DEF TimelineInv, TimelineTypeOK
<1>6. NothingAhead' /\ ChartOfAnswers'
  BY <1>2, <1>4 DEF TimelineInv, NothingAhead, ChartOfAnswers
<1>7. \A i \in Instances : UNCHANGED <<rows[i], history[i]>>
  BY <1>2
<1>8. \A i, at : /\ Answer1(i, at)' = Answer1(i, at)
                 /\ Answer2(i, at)' = Answer2(i, at)
                 /\ Answer3(i, at)' = Answer3(i, at)
  BY <1>2 DEF Answer1, Answer2, Answer3, SeenAt, DoneSince
<1> HIDE DEF result
<1>9. CASE q = 1
  <2>1. found = InstancesWithoutStatus /\ result.asOf = now /\ result.found = found
    BY <1>9 DEF Answers, result
  <2>2. found \subseteq [inst : Instances, since : Times]
    BY <1>2, <2>1, ResultsTyped DEF TimelineInv
  <2>3. queries'[1] = result /\ queries'[2] = queries[2] /\ queries'[3] = queries[3]
    BY <1>3, <1>9
  <2>4. ResultsTypeOK'
    BY <1>2, <1>3, <2>1, <2>2, <2>3 DEF TimelineInv, ResultsTypeOK, Sorted, Before
  <2>5. ASSUME NEW i \in Instances \ touched PROVE StillAnswers(i)'
    <3>1. {r \in found : r.inst = i} = Answer1(i, now)
      BY <2>1, Query1Answers
    <3>2. /\ rows[i] # Unknown => rows[i].since =< now
          /\ \A c \in history[i] : c.at =< now
      BY DEF TimelineInv, NothingAhead
    <3> QED BY <1>2, <1>8, <2>1, <2>3, <3>1, <3>2 DEF TimelineInv, StillAnswers
  <2> QED BY <1>2, <1>5, <1>6, <2>4, <2>5 DEF TimelineInv
<1>10. CASE q = 2
  <2>1. /\ found \in InOrder(InstanceWithStatusHistoryInInterval)
        /\ result.asOf = now /\ result.found = found
    BY <1>10 DEF Answers, result
  <2>2. InstanceWithStatusHistoryInInterval \subseteq Update
    BY <1>2, ResultsTyped DEF TimelineInv
  <2>3. /\ found \in Seq(Update) /\ Sorted(found)
        /\ {found[j] : j \in 1..Len(found)} = InstanceWithStatusHistoryInInterval
    BY <2>1, <2>2, OrderedResult
  <2>4. queries'[1] = queries[1] /\ queries'[2] = result /\ queries'[3] = queries[3]
    BY <1>3, <1>10
  <2>5. ResultsTypeOK'
    <3>1. Sorted(found)'
      BY <2>3 DEF Sorted, Before
    <3> QED BY <1>3, <2>1, <2>3, <2>4, <3>1, SMTT(30)
        DEF TimelineInv, ResultsTypeOK, Sorted, Before
  <2>6. ASSUME NEW i \in Instances \ touched PROVE StillAnswers(i)'
    <3>1. {found[j] : j \in {m \in 1..Len(found) : found[m].inst = i}} =
            {c \in {found[j] : j \in 1..Len(found)} : c.inst = i}
      OBVIOUS
    <3>2. {found[j] : j \in {m \in 1..Len(found) : found[m].inst = i}} = Answer2(i, now)
      BY <2>3, <3>1, Query2Answers
    <3> QED BY <1>2, <1>8, <2>1, <2>4, <3>2 DEF TimelineInv, StillAnswers
  <2> QED BY <1>2, <1>5, <1>6, <2>5, <2>6 DEF TimelineInv
<1>11. CASE q = 3
  <2>1. found = InstancesWithoutStatusInInterval /\ result.asOf = now /\ result.found = found
    BY <1>11 DEF Answers, result
  <2>2. found \subseteq Update
    BY <1>2, <2>1, Query3Typed DEF TimelineInv
  <2>3. queries'[1] = queries[1] /\ queries'[2] = queries[2] /\ queries'[3] = result
    BY <1>3, <1>11
  <2>4. ResultsTypeOK'
    BY <1>3, <2>1, <2>2, <2>3 DEF TimelineInv, ResultsTypeOK, Sorted, Before
  <2>5. ASSUME NEW i \in Instances \ touched PROVE StillAnswers(i)'
    <3>1. {r \in found : r.inst = i} = Answer3(i, now)
      BY <2>1, Query3Answers
    <3> QED BY <1>2, <1>8, <2>1, <2>3, <3>1 DEF TimelineInv, StillAnswers
  <2> QED BY <1>2, <1>5, <1>6, <2>4, <2>5 DEF TimelineInv
<1> QED BY <1>9, <1>10, <1>11

LEMMA PutTogetherKeeps == ASSUME TimelineInv, PutTogether PROVE TimelineInv'
<1> DEFINE points == Points(queries[1].asOf)
           found == queries[2].found
<1>1. /\ now \in Int /\ \A q \in 1..3 : queries[q] # Unknown
      /\ queries[1].asOf \in Int /\ queries[1].asOf =< now
      /\ UNCHANGED <<now, rows, history, queries, cached, touched>>
  BY ChartConstants DEF PutTogether, tables, TimelineInv, TimelineTypeOK
<1>2. points \in SUBSET Int /\ \A t \in points : t =< now
  <2>1. points \in SUBSET Int /\ \A t \in points : t =< queries[1].asOf
    BY <1>1, PointsOf
  <2> HIDE DEF points
  <2> QED BY <1>1, <2>1
<1>3. found \in Seq(Update) /\ Sorted(found)
  BY <1>1 DEF TimelineInv, ResultsTypeOK
<1>4. NeverUpdated \in [points -> SUBSET Count]
  <2>1. \A r \in queries[1].found : r.inst \in Instances
    BY <1>1 DEF TimelineInv, ResultsTypeOK
  <2> QED BY <2>1 DEF NeverUpdated, Count
<1> HIDE DEF points, found
<1>5. Loop(NeverUpdated, found) =
        [t \in points |-> NeverUpdated[t] \cup Counts(found, points, Len(found), t)]
  BY <1>1, <1>2, <1>3, <1>4, LoopCounts
<1>6. chart' = ChartOf(points, found, NeverUpdated, LastUpdated)
  BY <1>5 DEF PutTogether, ChartOf, found
<1>7. ChartOfAnswers'
  <2>1. NeverUpdated' = NeverUpdated /\ LastUpdated' = LastUpdated /\ points' = points
        /\ found' = found
    BY <1>1 DEF NeverUpdated, LastUpdated, Points, points, found
  <2> QED BY <1>1, <1>6, <2>1 DEF ChartOfAnswers, points, found
<1>8. ASSUME NEW t \in points
      PROVE  NeverUpdated[t] \cup Counts(found, points, Len(found), t) \cup LastUpdated
               \subseteq Count
  <2>1. NeverUpdated[t] \subseteq Count
    BY <1>4
  <2>2. Counts(found, points, Len(found), t) \subseteq Count
    <3>1. \A j \in 1..Len(found) : found[j] \in Update
      BY <1>3
    <3>2. \A j \in 1..Len(found) : found[j].inst \in Instances /\ found[j].at \in Times
      BY <3>1 DEF Update
    <3> QED BY <3>2 DEF Counts, Count
  <2>3. LastUpdated \subseteq Count
    <3>1. \A r \in queries[3].found : r.inst \in Instances /\ r.at \in Times
      BY <1>1 DEF TimelineInv, ResultsTypeOK, Update
    <3> QED BY <3>1 DEF LastUpdated, Count
  <2> QED BY <2>1, <2>2, <2>3
<1>9. TimelineTypeOK'
  <2>1. DOMAIN chart' = points /\ \A t \in points : chart'[t] \subseteq Count
    BY <1>6, <1>8 DEF ChartOf
  <2>2. points = Points(queries[1].asOf)'
    BY <1>1 DEF Points, points
  <2> QED BY <1>1, <2>1, <2>2 DEF TimelineInv, TimelineTypeOK
<1>10. ResultsTypeOK' /\ NothingAhead' /\ \A i \in Instances \ touched : StillAnswers(i)'
  BY <1>1, ResultsKept, StillAnswersKept DEF TimelineInv, NothingAhead
<1> QED BY <1>1, <1>7, <1>9, <1>10 DEF TimelineInv

LEMMA TimelineStep == TimelineInv /\ [Next]_vars => TimelineInv'
<1> SUFFICES ASSUME TimelineInv, [Next]_vars PROVE TimelineInv'
  OBVIOUS
<1>1. CASE Tick
  BY <1>1, TickKeeps
<1>2. CASE \E i \in Instances : \/ \E g \in GroupsOf(i) : RegisterInstance(i, g)
                               \/ GrantUpdate(i) \/ CompleteUpdate(i)
  BY <1>2, RegisterInstanceKeeps, GrantUpdateKeeps, CompleteUpdateKeeps
<1>3. CASE Begin
  BY <1>3, BeginKeeps
<1>4. CASE \E q \in 1..3 : RunQuery(q)
  BY <1>4, RunQueryKeeps
<1>5. CASE PutTogether
  BY <1>5, PutTogetherKeeps
<1>6. CASE Store
  BY <1>6, StoreKeeps
<1>7. CASE UNCHANGED vars
  <2>1. UNCHANGED <<now, rows, history, queries, chart, cached, touched>>
    BY <1>7 DEF vars, tables
  <2>2. TimelineTypeOK' /\ NothingAhead'
    BY <2>1 DEF TimelineInv, TimelineTypeOK, NothingAhead, Points
  <2> QED BY <2>1, <2>2, ResultsKept, ChartKept, StillAnswersKept DEF TimelineInv
<1> QED BY <1>1, <1>2, <1>3, <1>4, <1>5, <1>6, <1>7 DEF Next

LEMMA AlwaysTimelineInv == Spec => []TimelineInv
BY TimelineInit, TimelineStep, PTL DEF Spec

(* The tables, the queries' results and the chart have their types, and the *)
(* chart has the points that its first query's time gives it.               *)
THEOREM ChartTypes == Spec => []TimelineTypeOK
<1>1. TimelineInv => TimelineTypeOK
  BY DEF TimelineInv
<1> QED BY <1>1, AlwaysTimelineInv, PTL

-----------------------------------------------------------------------------
(* A settled instance: all three queries saw it as the first one did.       *)

DoneWithin(i, span) == {c \in history[i] : c.at >= Newest - span}

LEMMA SettledTimes ==
  ASSUME TimelineInv, chart # Unknown, NEW i \in Settled
  PROVE  /\ i \in Instances /\ i \notin touched /\ StillAnswers(i)
         /\ \A q \in 1..3 : queries[q] # Unknown /\ queries[q].asOf \in Int
         /\ \A c \in history[i] : /\ c.at \in Int /\ c.at \in Times /\ c.at % 2 = 1
                                  /\ c.at =< Newest
         /\ rows[i] # Unknown => rows[i].since \in Int /\ rows[i].since =< Newest
         /\ Newest \in Int /\ Newest % 2 = 0
         /\ Duration \in Nat /\ DeadInstance \in Nat /\ Duration % 2 = 0
         /\ Duration < DeadInstance /\ DOMAIN chart = Points(Newest)
<1>1. i \in Instances /\ i \notin touched /\ StillAnswers(i)
  BY DEF Settled, TimelineInv
<1>2. \A q \in 1..3 : queries[q] # Unknown /\ queries[q].asOf \in Int
  BY ChartConstants DEF TimelineInv, ChartOfAnswers, TimelineTypeOK
<1>3. \A c \in history[i] : /\ c.at \in Int /\ c.at \in Times /\ c.at % 2 = 1
                            /\ c.at =< queries[1].asOf
  BY <1>1, <1>2, CompletedTimes DEF TimelineInv, NothingAhead, StillAnswers
<1>4. rows[i] # Unknown => rows[i].since \in Int /\ rows[i].since =< queries[1].asOf
  BY <1>1, <1>2, RowTimes DEF TimelineInv, StillAnswers
<1>5. queries[1].asOf % 2 = 0 /\ DOMAIN chart = Points(queries[1].asOf)
  BY <1>2 DEF TimelineInv, ResultsTypeOK, TimelineTypeOK
<1> QED BY <1>1, <1>2, <1>3, <1>4, <1>5, ChartConstants DEF Newest

LEMMA SettledWindows ==
  ASSUME TimelineInv, chart # Unknown, NEW i \in Settled, NEW q \in 1..3
  PROVE  /\ SeenAt(i, queries[q].asOf) <=> SeenAt(i, Newest)
         /\ \A span \in {Duration, DeadInstance}, groups \in {{Group}, {Group, Other}} :
              DoneSince(i, groups, queries[q].asOf - span) = DoneWithin(i, span)
<1>1. queries[q].asOf \in AsOf /\ Newest \in AsOf
  BY DEF AsOf, Newest
<1>2. \A x \in TimesOf(i), span \in {Duration, DeadInstance} :
        x >= queries[q].asOf - span <=> x >= Newest - span
  BY <1>1, Zenon DEF Settled
<1>3. rows[i] # Unknown => rows[i].checked \in TimesOf(i)
  BY DEF TimesOf
<1>4. \A c \in history[i] : c.at \in TimesOf(i) /\ c.group = Group
  BY DEF TimesOf, Settled
<1>5. SeenAt(i, queries[q].asOf) <=> SeenAt(i, Newest)
  BY <1>2, <1>3 DEF SeenAt
<1>6. ASSUME NEW span \in {Duration, DeadInstance}, NEW groups \in {{Group}, {Group, Other}}
      PROVE  DoneSince(i, groups, queries[q].asOf - span) = DoneWithin(i, span)
  <2>1. \A c \in history[i] :
          c.group \in groups /\ (c.at >= queries[q].asOf - span <=> c.at >= Newest - span)
    BY <1>2, <1>4
  <2> QED BY <2>1 DEF DoneSince, DoneWithin
<1> QED BY <1>5, <1>6

(* What each query contributes to a point, of an instance.                  *)
Never(i, t) ==
  IF SeenAt(i, Newest) /\ DoneWithin(i, DeadInstance) = {} /\ rows[i].since =< t
  THEN {[inst |-> i, version |-> Unknown, by |-> 1]} ELSE {}

Lately(i, t) ==
  {[inst |-> i, version |-> queries[2].found[j].at, by |-> 2] :
     j \in {m \in 1..Len(queries[2].found) :
              /\ queries[2].found[m].inst = i
              /\ Counted(queries[2].found, Points(Newest), m, t)}}

Once(i) ==
  IF /\ SeenAt(i, Newest) /\ DoneWithin(i, DeadInstance) # {}
     /\ DoneWithin(i, Duration) = {}
  THEN {[inst |-> i, version |-> LastOf(DoneWithin(i, DeadInstance)), by |-> 3]} ELSE {}

LEMMA SettledCounts ==
  ASSUME TimelineInv, chart # Unknown, NEW i \in Settled, NEW t \in Points(Newest)
  PROVE  /\ CountsOf(i, t) = Never(i, t) \cup Lately(i, t) \cup Once(i)
         /\ {queries[2].found[j].at : j \in {m \in 1..Len(queries[2].found) :
                                              queries[2].found[m].inst = i}}
              = IF SeenAt(i, Newest) THEN {c.at : c \in DoneWithin(i, Duration)} ELSE {}
<1> DEFINE found == queries[2].found
           J == {m \in 1..Len(found) : found[m].inst = i}
           done(span) == DoneWithin(i, span)
<1>1. /\ StillAnswers(i) /\ \A q \in 1..3 : queries[q] # Unknown
  BY SettledTimes
<1>0. \A q \in 1..3 :
        /\ SeenAt(i, queries[q].asOf) <=> SeenAt(i, Newest)
        /\ DoneSince(i, {Group}, queries[q].asOf - DeadInstance) = done(DeadInstance)
        /\ DoneSince(i, {Group}, queries[q].asOf - Duration) = done(Duration)
        /\ DoneSince(i, {Group, Other}, queries[q].asOf - DeadInstance) = done(DeadInstance)
        /\ DoneSince(i, {Group, Other}, queries[q].asOf - Duration) = done(Duration)
  <2> SUFFICES ASSUME NEW q \in 1..3
               PROVE  /\ SeenAt(i, queries[q].asOf) <=> SeenAt(i, Newest)
                      /\ \A span \in {Duration, DeadInstance},
                            groups \in {{Group}, {Group, Other}} :
                           DoneSince(i, groups, queries[q].asOf - span) = done(span)
    OBVIOUS
  <2> QED BY SettledWindows
<1> HIDE DEF done
<1>2. {r \in queries[1].found : r.inst = i} =
        IF SeenAt(i, Newest) /\ done(DeadInstance) = {}
        THEN {[inst |-> i, since |-> rows[i].since]} ELSE {}
  <2>1. Answer1(i, queries[1].asOf) =
          IF SeenAt(i, Newest) /\ done(DeadInstance) = {}
          THEN {[inst |-> i, since |-> rows[i].since]} ELSE {}
    BY <1>0 DEF Answer1
  <2> QED BY <1>1, <2>1 DEF StillAnswers
<1>3. {found[j] : j \in J} =
        IF SeenAt(i, Newest) THEN {[inst |-> i, at |-> c.at] : c \in done(Duration)} ELSE {}
  <2>1. Answer2(i, queries[2].asOf) =
          IF SeenAt(i, Newest) THEN {[inst |-> i, at |-> c.at] : c \in done(Duration)} ELSE {}
    <3>1. /\ SeenAt(i, queries[2].asOf) <=> SeenAt(i, Newest)
          /\ DoneSince(i, {Group}, queries[2].asOf - Duration) = done(Duration)
      BY <1>0
    <3> QED BY <3>1, Zenon DEF Answer2
  <2> QED BY <1>1, <2>1 DEF StillAnswers
<1>4. {r \in queries[3].found : r.inst = i} =
        IF SeenAt(i, Newest) /\ done(DeadInstance) # {} /\ done(Duration) = {}
        THEN {[inst |-> i, at |-> LastOf(done(DeadInstance))]} ELSE {}
  <2>1. Answer3(i, queries[3].asOf) =
          IF SeenAt(i, Newest) /\ done(DeadInstance) # {} /\ done(Duration) = {}
          THEN {[inst |-> i, at |-> LastOf(done(DeadInstance))]} ELSE {}
    <3>1. /\ SeenAt(i, queries[3].asOf) <=> SeenAt(i, Newest)
          /\ DoneSince(i, {Group, Other}, queries[3].asOf - Duration) = done(Duration)
          /\ DoneSince(i, {Group, Other}, queries[3].asOf - DeadInstance) = done(DeadInstance)
      BY <1>0
    <3> QED BY <3>1, Zenon DEF Answer3
  <2> QED BY <1>1, <2>1 DEF StillAnswers
<1>5. chart[t] = NeverUpdated[t] \cup Counts(found, Points(Newest), Len(found), t) \cup LastUpdated
  BY DEF TimelineInv, ChartOfAnswers, ChartOf, Newest
<1>6. {c \in NeverUpdated[t] : c.inst = i} = Never(i, t)
  <2>1. NeverUpdated[t] = {[inst |-> r.inst, version |-> Unknown, by |-> 1] :
                             r \in {s \in queries[1].found : s.since =< t}}
    BY DEF NeverUpdated, Newest
  <2> DEFINE mine == {r \in queries[1].found : r.inst = i}
             rec == [inst |-> i, version |-> Unknown, by |-> 1]
  <2>2. \A c : c \in NeverUpdated[t] /\ c.inst = i <=>
                 c = rec /\ \E r \in mine : r.since =< t
    BY <2>1
  <2>3. (\E r \in mine : r.since =< t) <=>
          SeenAt(i, Newest) /\ done(DeadInstance) = {} /\ rows[i].since =< t
    <3> DEFINE one == [inst |-> i, since |-> rows[i].since]
    <3>1. mine = IF SeenAt(i, Newest) /\ done(DeadInstance) = {} THEN {one} ELSE {}
      BY <1>2
    <3>2. one.since = rows[i].since
      OBVIOUS
    <3> HIDE DEF mine, one, done
    <3> QED BY <3>1, <3>2
  <2> HIDE DEF mine, rec
  <2>4. {c \in NeverUpdated[t] : c.inst = i} =
          IF SeenAt(i, Newest) /\ done(DeadInstance) = {} /\ rows[i].since =< t
          THEN {rec} ELSE {}
    BY <2>2, <2>3
  <2> QED BY <2>4 DEF Never, done, rec
<1>7. {c \in LastUpdated : c.inst = i} = Once(i)
  <2> DEFINE mine == {r \in queries[3].found : r.inst = i}
             rec(at) == [inst |-> i, version |-> at, by |-> 3]
  <2>1. \A c : c \in LastUpdated /\ c.inst = i <=> \E r \in mine : c = rec(r.at)
    BY DEF LastUpdated
  <2>2. \A c : (\E r \in mine : c = rec(r.at)) <=>
                 /\ SeenAt(i, Newest) /\ done(DeadInstance) # {} /\ done(Duration) = {}
                 /\ c = rec(LastOf(done(DeadInstance)))
    <3> DEFINE one == [inst |-> i, at |-> LastOf(done(DeadInstance))]
    <3>1. mine = IF SeenAt(i, Newest) /\ done(DeadInstance) # {} /\ done(Duration) = {}
                 THEN {one} ELSE {}
      BY <1>4
    <3>2. one.at = LastOf(done(DeadInstance))
      OBVIOUS
    <3> HIDE DEF mine, one, done, rec
    <3> QED BY <3>1, <3>2
  <2> HIDE DEF mine, rec
  <2>3. {c \in LastUpdated : c.inst = i} =
          IF SeenAt(i, Newest) /\ done(DeadInstance) # {} /\ done(Duration) = {}
          THEN {rec(LastOf(done(DeadInstance)))} ELSE {}
    BY <2>1, <2>2
  <2> QED BY <2>3 DEF Once, done, rec
<1>8. {c \in Counts(found, Points(Newest), Len(found), t) : c.inst = i} = Lately(i, t)
  BY DEF Counts, Lately
<1>9. CountsOf(i, t) = Never(i, t) \cup Lately(i, t) \cup Once(i)
  BY <1>5, <1>6, <1>7, <1>8 DEF CountsOf
<1>10. {found[j].at : j \in J} =
         IF SeenAt(i, Newest) THEN {c.at : c \in DoneWithin(i, Duration)} ELSE {}
  <2>1. {found[j].at : j \in J} = {u.at : u \in {found[j] : j \in J}}
    OBVIOUS
  <2>2. CASE SeenAt(i, Newest)
    <3> DEFINE D == done(Duration)
    <3>1. \A c : [inst |-> i, at |-> c.at].at = c.at
      OBVIOUS
    <3> HIDE DEF D
    <3>2. {u.at : u \in {[inst |-> i, at |-> c.at] : c \in D}} = {c.at : c \in D}
      BY <3>1
    <3> QED BY <1>3, <2>1, <2>2, <3>2 DEF D, done
  <2>3. CASE ~SeenAt(i, Newest)
    BY <1>3, <2>1, <2>3
  <2> QED BY <2>2, <2>3
<1> QED BY <1>9, <1>10

LEMMA FoundTyped ==
  ASSUME TimelineInv, chart # Unknown
  PROVE  /\ queries[2].found \in Seq(Update) /\ Sorted(queries[2].found)
         /\ Len(queries[2].found) \in Nat
         /\ \A m \in 1..Len(queries[2].found) :
              queries[2].found[m] \in Update /\ queries[2].found[m].at \in Int
<1>1. queries[2].found \in Seq(Update) /\ Sorted(queries[2].found)
  BY DEF TimelineInv, ChartOfAnswers, ResultsTypeOK
<1>2. \A m \in 1..Len(queries[2].found) : queries[2].found[m] \in Update
  BY <1>1
<1>3. Len(queries[2].found) \in Nat
  BY <1>1
<1> QED BY <1>1, <1>2, <1>3, TimesAreInts DEF Update

(* No two of an instance's completed updates count at one point.            *)
LEMMA OneAtATime ==
  ASSUME TimelineInv, chart # Unknown, NEW i \in Settled, NEW t \in Points(Newest),
         NEW c \in Lately(i, t), NEW d \in Lately(i, t)
  PROVE  c = d
<1> DEFINE found == queries[2].found
           J == {m \in 1..Len(found) :
                   found[m].inst = i /\ Counted(found, Points(Newest), m, t)}
           rec(j) == [inst |-> i, version |-> found[j].at, by |-> 2]
<1>1. PICK j \in J : c = rec(j)
  BY DEF Lately
<1>2. PICK k \in J : d = rec(k)
  BY DEF Lately
<1>3. \A m \in J : m \in 1..Len(found) /\ found[m].at \in Int /\ Len(found) \in Nat
  BY FoundTyped
<1>4. t \in Int
  BY SettledTimes, PointsOf
<1>5. ASSUME NEW m \in J, NEW n \in J PROVE ~(m < n)
  <2> SUFFICES ASSUME m < n PROVE FALSE
    OBVIOUS
  <2>1. m \in 1..(n - 1) /\ found[m].inst = found[n].inst
    BY <1>3
  <2>2. t < found[m].at
    BY <2>1 DEF Counted
  <2>3. found[m].at < t
    BY DEF Counted
  <2> QED BY <1>3, <1>4, <2>2, <2>3, SMTT(30)
<1>6. j = k
  BY <1>3, <1>5
<1> QED BY <1>1, <1>2, <1>6

LEMMA AtMostOne ==
  ASSUME NEW S, \A x, y \in S : x = y
  PROVE  Cardinality(S) =< 1
<1>1. CASE S = {}
  BY <1>1, FS_EmptySet
<1>2. CASE S # {}
  <2>1. PICK x \in S : S = {x}
    BY <1>2
  <2> QED BY <2>1, FS_Singleton
<1> QED BY <1>1, <1>2

(* Which query an instance is counted by.                                   *)
LEMMA CountedBy ==
  ASSUME TimelineInv, chart # Unknown, NEW i \in Settled, NEW t \in Points(Newest)
  PROVE  /\ ~SeenAt(i, Newest) => CountsOf(i, t) = {}
         /\ SeenAt(i, Newest) /\ DoneWithin(i, DeadInstance) = {} =>
              CountsOf(i, t) = Never(i, t)
         /\ SeenAt(i, Newest) /\ DoneWithin(i, DeadInstance) # {}
              /\ DoneWithin(i, Duration) = {} => CountsOf(i, t) = Once(i)
         /\ SeenAt(i, Newest) /\ DoneWithin(i, Duration) # {} =>
              CountsOf(i, t) = Lately(i, t)
<1> DEFINE found == queries[2].found
           J == {m \in 1..Len(found) : found[m].inst = i}
<1>1. CountsOf(i, t) = Never(i, t) \cup Lately(i, t) \cup Once(i)
  BY SettledCounts
<1>2. {found[j].at : j \in J} =
        IF SeenAt(i, Newest) THEN {c.at : c \in DoneWithin(i, Duration)} ELSE {}
  BY SettledCounts
<1>3. Lately(i, t) # {} => {found[j].at : j \in J} # {}
  BY DEF Lately
<1>4. Lately(i, t) # {} => SeenAt(i, Newest) /\ DoneWithin(i, Duration) # {}
  BY <1>2, <1>3
<1>5. DoneWithin(i, Duration) \subseteq DoneWithin(i, DeadInstance)
  BY SettledTimes DEF DoneWithin
<1>6. Never(i, t) # {} => SeenAt(i, Newest) /\ DoneWithin(i, DeadInstance) = {}
  BY DEF Never
<1>7. Once(i) # {} => /\ SeenAt(i, Newest) /\ DoneWithin(i, DeadInstance) # {}
                      /\ DoneWithin(i, Duration) = {}
  BY DEF Once
<1> QED BY <1>1, <1>4, <1>5, <1>6, <1>7

(* The latest of the updates in the chart's time counts at its last point.  *)
LEMMA LatestCounts ==
  ASSUME TimelineInv, chart # Unknown, NEW i \in Settled,
         SeenAt(i, Newest), DoneWithin(i, Duration) # {}
  PROVE  Lately(i, Newest) # {}
<1> DEFINE found == queries[2].found
           J == {m \in 1..Len(found) : found[m].inst = i}
<1>1. {found[j].at : j \in J} = {c.at : c \in DoneWithin(i, Duration)}
  <2>1. Newest \in Points(Newest)
    BY SettledTimes, PointsOf
  <2> QED BY <2>1, SettledCounts
<1>2. J \in SUBSET Nat /\ J # {}
  <2>1. J \in SUBSET Nat
    BY FoundTyped
  <2> DEFINE D == DoneWithin(i, Duration)
  <2> HIDE DEF D
  <2>2. {c.at : c \in D} # {}
    BY DEF D
  <2> QED BY <1>1, <2>1, <2>2 DEF D
<1>3. PICK j \in J : \A m \in J : j =< m
  BY <1>2, First
<1>4. PICK c \in DoneWithin(i, Duration) : found[j].at = c.at
  <2>1. found[j].at \in {found[m].at : m \in J}
    OBVIOUS
  <2> QED BY <1>1, <2>1
<1>5. /\ c.at \in Int /\ c.at % 2 = 1 /\ c.at =< Newest /\ c.at >= Newest - Duration
      /\ Newest \in Int /\ Newest % 2 = 0 /\ Duration \in Nat /\ Duration % 2 = 0
  BY SettledTimes DEF DoneWithin
<1>6. c.at < Newest /\ c.at > Newest - Duration
  BY <1>5
<1>7. Newest - Duration \in Points(Newest)
  BY <1>5, PointsOf
<1>8. \A m \in 1..(j - 1) : found[m].inst # found[j].inst
  BY <1>3
<1>9. Counted(found, Points(Newest), j, Newest)
  BY <1>4, <1>6, <1>7, <1>8 DEF Counted
<1> QED BY <1>9 DEF Lately

LEMMA NewestIsExact == TimelineInv => NewestCountIsExact
<1> SUFFICES ASSUME TimelineInv, chart # Unknown, NEW i \in Settled
             PROVE  Cardinality(CountsOf(i, Newest)) =
                      IF rows[i] # Unknown /\ rows[i].checked >= Newest - Duration
                      THEN 1 ELSE 0
  BY DEF NewestCountIsExact
<1>1. SeenAt(i, Newest) <=> rows[i] # Unknown /\ rows[i].checked >= Newest - Duration
  BY DEF Settled, SeenAt
<1>2. Newest \in Points(Newest)
  BY SettledTimes, PointsOf
<1>3. CASE ~SeenAt(i, Newest)
  <2>1. CountsOf(i, Newest) = {}
    BY <1>2, <1>3, CountedBy
  <2> QED BY <1>1, <1>3, <2>1, FS_EmptySet
<1>4. CASE SeenAt(i, Newest)
  <2> SUFFICES \E c : CountsOf(i, Newest) = {c}
    BY <1>1, <1>4, FS_Singleton
  <2>1. CASE DoneWithin(i, DeadInstance) = {}
    <3>1. rows[i].since =< Newest
      BY <1>4, SettledTimes DEF SeenAt
    <3> QED BY <1>2, <1>4, <2>1, <3>1, CountedBy DEF Never
  <2>2. CASE DoneWithin(i, DeadInstance) # {} /\ DoneWithin(i, Duration) = {}
    BY <1>2, <1>4, <2>2, CountedBy DEF Once
  <2>3. CASE DoneWithin(i, Duration) # {}
    <3>1. CountsOf(i, Newest) = Lately(i, Newest) /\ Lately(i, Newest) # {}
      BY <1>2, <1>4, <2>3, CountedBy, LatestCounts
    <3>2. \A c, d \in Lately(i, Newest) : c = d
      BY <1>2, OneAtATime
    <3> QED BY <3>1, <3>2
  <2> QED BY <2>1, <2>2, <2>3
<1> QED BY <1>3, <1>4

(* The version counted at a point is not older than an update before it.    *)
LEMMA LatelyIsLast ==
  ASSUME TimelineInv, chart # Unknown, NEW i \in Settled, NEW t \in Points(Newest),
         SeenAt(i, Newest), NEW c \in Lately(i, t), NEW d \in history[i], d.at < t
  PROVE  c.version # Unknown /\ c.version >= d.at
<1> DEFINE found == queries[2].found
           J == {m \in 1..Len(found) : found[m].inst = i}
<1>1. PICK j \in J : /\ Counted(found, Points(Newest), j, t)
                     /\ c = [inst |-> i, version |-> found[j].at, by |-> 2]
  BY DEF Lately
<1>2. /\ found \in Seq(Update) /\ Sorted(found) /\ Len(found) \in Nat
      /\ d.at \in Int /\ Newest \in Int /\ Duration \in Nat
      /\ i \in Instances /\ i \in Nat
  BY FoundTyped, SettledTimes, ChartConstants
<1>3. /\ t \in Int /\ \A m \in J : m \in 1..Len(found) /\ found[m].at \in Int
  BY <1>2, FoundTyped, PointsOf
<1>4. {found[m].at : m \in J} = {e.at : e \in DoneWithin(i, Duration)}
  BY SettledCounts
<1>5. c.version = found[j].at /\ found[j].at \in Int
  BY <1>1, <1>3
<1>6. ASSUME found[j].at < d.at PROVE FALSE
  <2>1. found[j].at >= Newest - Duration
    <3>1. found[j].at \in {found[m].at : m \in J}
      OBVIOUS
    <3>2. PICK e \in DoneWithin(i, Duration) : found[j].at = e.at
      BY <1>4, <3>1
    <3> QED BY <3>2 DEF DoneWithin
  <2>2. d.at >= Newest - Duration
    BY <1>2, <1>5, <1>6, <2>1
  <2>3. d.at \in {e.at : e \in DoneWithin(i, Duration)}
    BY <2>2 DEF DoneWithin
  <2>4. PICK m \in J : found[m].at = d.at
    BY <1>4, <2>3
  <2>5. m # j /\ m \in 1..Len(found) /\ j \in 1..Len(found) /\ Len(found) \in Nat
    BY <1>2, <1>3, <1>5, <1>6, <2>4
  <2>6. m < j
    <3> SUFFICES ASSUME j < m PROVE FALSE
      BY <2>5
    <3>1. Before(found[j], found[m])
      BY <1>2, <2>5 DEF Sorted
    <3>2. found[j].at > found[m].at
      BY <1>2, <3>1 DEF Before
    <3> QED BY <1>2, <1>5, <1>6, <2>4, <3>2
  <2>7. m \in 1..(j - 1) /\ found[m].inst = found[j].inst
    BY <2>5, <2>6
  <2>8. t < found[m].at
    BY <1>1, <2>7 DEF Counted
  <2> QED BY <1>2, <1>3, <2>4, <2>8
<1>7. found[j].at >= d.at
  BY <1>2, <1>5, <1>6
<1>8. found[j].at # Unknown
  BY <1>5, ChartConstants
<1> QED BY <1>5, <1>7, <1>8

LEMMA CountsOfTheirTime == TimelineInv => CountsAreOfTheirTime
<1> SUFFICES ASSUME TimelineInv, chart # Unknown, NEW i \in Settled, NEW t \in DOMAIN chart
             PROVE  /\ Cardinality(CountsOf(i, t)) =< 1
                    /\ \A c \in CountsOf(i, t), d \in history[i] :
                         d.at < t /\ d.at >= Newest - DeadInstance =>
                           c.version # Unknown /\ c.version >= d.at
  BY DEF CountsAreOfTheirTime
<1>1. t \in Points(Newest)
  BY SettledTimes
<1>2. CASE ~SeenAt(i, Newest)
  BY <1>1, <1>2, CountedBy, AtMostOne
<1>3. CASE SeenAt(i, Newest) /\ DoneWithin(i, DeadInstance) = {}
  <2>1. CountsOf(i, t) = Never(i, t)
    BY <1>1, <1>3, CountedBy
  <2>2. \A c, d \in Never(i, t) : c = d
    BY DEF Never
  <2>3. \A d \in history[i] : ~(d.at >= Newest - DeadInstance)
    BY <1>3 DEF DoneWithin
  <2> QED BY <2>1, <2>2, <2>3, AtMostOne
<1>4. CASE /\ SeenAt(i, Newest) /\ DoneWithin(i, DeadInstance) # {}
           /\ DoneWithin(i, Duration) = {}
  <2> DEFINE done == DoneWithin(i, DeadInstance)
  <2>1. CountsOf(i, t) = {[inst |-> i, version |-> LastOf(done), by |-> 3]}
    BY <1>1, <1>4, CountedBy DEF Once
  <2>2. \A c, d \in CountsOf(i, t) : c = d
    BY <2>1
  <2>3. \A c \in done : c.at \in Int /\ c.at =< Newest
    BY SettledTimes DEF DoneWithin
  <2>4. /\ \E c \in done : LastOf(done) = c.at
        /\ \A c \in done : c.at =< LastOf(done)
    <3>1. Newest \in Int /\ done # {}
      BY <1>4, SettledTimes
    <3> HIDE DEF done
    <3> QED BY <2>3, <3>1, LastIsOne
  <2>5. LastOf(done) \in Int
    BY <2>3, <2>4
  <2>6. \A d \in history[i] : d.at >= Newest - DeadInstance => d \in done
    BY DEF DoneWithin
  <2>7. \A c \in CountsOf(i, t) : c.version = LastOf(done)
    BY <2>1
  <2> HIDE DEF done
  <2>8. ASSUME NEW c \in CountsOf(i, t), NEW d \in history[i],
               d.at >= Newest - DeadInstance
        PROVE  c.version # Unknown /\ c.version >= d.at
    <3>1. d.at \in Int /\ d.at =< LastOf(done)
      BY <2>3, <2>4, <2>6, <2>8
    <3> QED BY <2>5, <2>7, <3>1, ChartConstants
  <2> QED BY <2>2, <2>8, AtMostOne
<1>5. CASE SeenAt(i, Newest) /\ DoneWithin(i, Duration) # {}
  <2>1. CountsOf(i, t) = Lately(i, t)
    BY <1>1, <1>5, CountedBy
  <2>2. \A c, d \in CountsOf(i, t) : c = d
    BY <1>1, <2>1, OneAtATime
  <2> QED BY <1>1, <1>5, <2>1, <2>2, LatelyIsLast, AtMostOne
<1> QED BY <1>2, <1>3, <1>4, <1>5

(* An instance of the group that the queries saw alike is counted once at   *)
(* the chart's last point if it was seen within the chart's time, and not   *)
(* at all otherwise.                                                        *)
THEOREM EveryInstanceOnce == Spec => []NewestCountIsExact
BY AlwaysTimelineInv, NewestIsExact, PTL

(* At every point it has at most one version, and none that an update       *)
(* completed before that point has replaced.                                *)
THEOREM VersionOfTheTime == Spec => []CountsAreOfTheirTime
BY AlwaysTimelineInv, CountsOfTheirTime, PTL
=============================================================================
