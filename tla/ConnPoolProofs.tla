--------------------------- MODULE ConnPoolProofs ---------------------------
(***************************************************************************)
(* Proofs about ConnPool for any number of workers, any orderly scripts    *)
(* and a pool of any size; and that the server's scripts, those of         *)
(* Operations, are orderly.                                                *)
(***************************************************************************)
EXTENDS Operations, FiniteSetTheorems, SequenceTheorems, TLAPS

OrderlyScripts == \A script \in Scripts : Orderly(Nothing, script)

Held == [conns : Nat, locks : SUBSET Locks]

LEMMA Constants ==
  /\ IsFiniteSet(Workers) /\ Cardinality(Workers) \in Nat
  /\ MaxOpen \in Nat \ {0} /\ MaxDepth \in Nat \ {0}
BY ConnPoolAssumption, FS_CardinalityType DEF ConnPoolAssumption

LEMMA NothingHeld == Nothing.conns = 0 /\ Nothing.locks = {} /\ Nothing \in Held
BY DEF Nothing, Holding, Held

-----------------------------------------------------------------------------
(* What is left of an orderly script after its next step is orderly, and   *)
(* a worker that follows one ends up with nothing.                         *)

LEMMA OrderlyTail ==
  ASSUME NEW held, NEW script, Orderly(held, script), script # <<>>
  PROVE  /\ MayFollow(Head(script), held)
         /\ Head(script) \in [conns : 0..MaxDepth, locks : SUBSET Locks]
         /\ Orderly(Head(script), Tail(script))
<1>1. script \in Seq(Held) /\ Len(script) \in Nat \ {0} /\ 1 \in DOMAIN script
  BY DEF Orderly, Held
<1>2. Head(script) = script[1] /\ script[1] \in Held
  BY <1>1
<1>3. MayFollow(Head(script), held)
  BY <1>1, <1>2 DEF Orderly
<1>4. Head(script) \in [conns : 0..MaxDepth, locks : SUBSET Locks]
  BY <1>2, <1>3, Constants DEF MayFollow, Held
<1>5. /\ Tail(script) \in Seq(Held) /\ Len(Tail(script)) = Len(script) - 1
      /\ \A i \in 1..(Len(script) - 1) : Tail(script)[i] = script[i + 1]
  BY <1>1
<1>6. ASSUME NEW i \in DOMAIN Tail(script)
      PROVE  MayFollow(Tail(script)[i], IF i = 1 THEN Head(script) ELSE Tail(script)[i - 1])
  <2>1. i \in 1..(Len(script) - 1) /\ i + 1 \in DOMAIN script /\ i + 1 # 1
    BY <1>1, <1>5
  <2>2. MayFollow(script[i + 1], script[i])
    <3>1. MayFollow(script[i + 1], IF i + 1 = 1 THEN held ELSE script[(i + 1) - 1])
      BY <2>1 DEF Orderly
    <3>2. (i + 1) - 1 = i /\ i + 1 # 1
      BY <2>1, <1>1
    <3> QED BY <3>1, <3>2
  <2>3. (IF i = 1 THEN Head(script) ELSE Tail(script)[i - 1]) = script[i]
    BY <1>1, <1>2, <1>5, <2>1
  <2> QED BY <1>5, <2>1, <2>2, <2>3
<1>7. (IF Tail(script) = <<>> THEN Head(script) ELSE Tail(script)[Len(Tail(script))]) = Nothing
  <2>1. script[Len(script)] = Nothing
    BY DEF Orderly
  <2>2. CASE Len(script) = 1
    <3>1. Tail(script) = <<>>
      <4>1. Len(Tail(script)) = 0
        BY <1>5, <2>2
      <4> QED BY <1>5, <4>1, EmptySeq
    <3>2. Head(script) = Nothing
      BY <1>2, <2>1, <2>2
    <3> QED BY <3>1, <3>2
  <2>3. CASE Len(script) # 1
    <3>1. Tail(script) # <<>> /\ Tail(script)[Len(script) - 1] = script[Len(script)]
      BY <1>1, <1>5, <2>3
    <3> QED BY <1>5, <2>1, <3>1
  <2> QED BY <2>2, <2>3
<1> QED BY <1>3, <1>4, <1>5, <1>6, <1>7 DEF Orderly, Held

LEMMA OrderlyEnd == Orderly(Nothing, <<>>)
BY DEF Orderly

LEMMA OrderlyRest ==
  ASSUME NEW held, Orderly(held, <<>>)
  PROVE  held = Nothing
BY DEF Orderly

-----------------------------------------------------------------------------
LEMMA TypeInit == Init => ConnPoolTypeOK
BY NothingHeld, OrderlyEnd, Constants DEF Init, ConnPoolTypeOK, Held

LEMMA TypeStep ==
  ASSUME OrderlyScripts, ConnPoolTypeOK, [Next]_vars
  PROVE  ConnPoolTypeOK'
<1>0. Nothing \in [conns : 0..MaxDepth, locks : SUBSET Locks]
  BY NothingHeld, Constants DEF Held
<1>1. ASSUME NEW w \in Workers, NEW script \in Scripts, Start(w, script)
      PROVE  ConnPoolTypeOK'
  <2>1. holds[w] = Nothing
    BY <1>1, OrderlyRest DEF Start, Busy, ConnPoolTypeOK
  <2>2. Orderly(holds[w], script)
    BY <2>1 DEF OrderlyScripts
  <2> QED BY <1>1, <2>2 DEF Start, ConnPoolTypeOK
<1>2. ASSUME NEW w \in Workers, Step(w)
      PROVE  ConnPoolTypeOK'
  <2>1. rest[w] # <<>> /\ Orderly(holds[w], rest[w])
    BY <1>2 DEF Step, CanStep, Busy, ConnPoolTypeOK
  <2>2. /\ Head(rest[w]) \in [conns : 0..MaxDepth, locks : SUBSET Locks]
        /\ Orderly(Head(rest[w]), Tail(rest[w]))
    BY <2>1, OrderlyTail
  <2> QED BY <1>2, <2>2 DEF Step, ConnPoolTypeOK
<1>3. ASSUME NEW w \in Workers, EndEarly(w)
      PROVE  ConnPoolTypeOK'
  BY <1>0, <1>3, OrderlyEnd DEF EndEarly, ConnPoolTypeOK
<1>4. CASE UNCHANGED vars
  BY <1>4 DEF vars, ConnPoolTypeOK
<1> QED BY <1>1, <1>2, <1>3, <1>4 DEF Next

(* Workers hold and do only what the rest of an orderly script allows.     *)
THEOREM TypesKept ==
  ASSUME OrderlyScripts
  PROVE  Spec => []ConnPoolTypeOK
<1>1. ConnPoolTypeOK /\ [Next]_vars => ConnPoolTypeOK'
  BY TypeStep
<1> QED BY <1>1, TypeInit, PTL DEF Spec

-----------------------------------------------------------------------------
(* Who cannot go on waits for a connection, or for a lock; whoever holds a *)
(* lock waits for a connection; and each holds fewer connections than it   *)
(* may.                                                                    *)

LEMMA BlockedHoldsLess ==
  ASSUME ConnPoolTypeOK, NEW w \in Workers, ~CanStep(w)
  PROVE  holds[w].conns \in Nat /\ holds[w].conns =< MaxDepth - 1
<1>1. holds[w] \in [conns : 0..MaxDepth, locks : SUBSET Locks] /\ Orderly(holds[w], rest[w])
  BY DEF ConnPoolTypeOK
<1>2. CASE ~Busy(w)
  BY <1>1, <1>2, OrderlyRest, NothingHeld, Constants DEF Busy
<1>3. CASE Busy(w)
  <2>1. /\ MayFollow(Head(rest[w]), holds[w])
        /\ Head(rest[w]) \in [conns : 0..MaxDepth, locks : SUBSET Locks]
    BY <1>1, <1>3, OrderlyTail DEF Busy
  <2>2. \/ Head(rest[w]).conns > holds[w].conns
        \/ \E lock \in Head(rest[w]).locks \ holds[w].locks : ~Free(lock)
    BY <1>3 DEF CanStep
  <2> QED BY <1>1, <2>1, <2>2, Constants DEF MayFollow
<1> QED BY <1>2, <1>3

(* If nobody can go on, those who hold connections hold less than they may. *)
LEMMA StalledHolders ==
  ASSUME ConnPoolTypeOK, \A w \in Workers : ~CanStep(w)
  PROVE  /\ Cardinality(InUse) \in Nat
         /\ Cardinality(InUse) =< Cardinality(Holders) * (MaxDepth - 1)
<1> DEFINE Pairs == Holders \X (1..(MaxDepth - 1))
<1>1. InUse \in SUBSET Pairs
  <2> SUFFICES ASSUME NEW c \in Workers \X (1..MaxOpen), c[2] <= holds[c[1]].conns
               PROVE  c \in Pairs
    BY DEF InUse
  <2>1. c[1] \in Workers /\ c[2] \in Nat /\ 1 =< c[2] /\ c = <<c[1], c[2]>>
    OBVIOUS
  <2>2. holds[c[1]].conns \in Nat /\ holds[c[1]].conns =< MaxDepth - 1
    BY <2>1, BlockedHoldsLess
  <2>3. c[1] \in Holders
    BY <2>1, <2>2 DEF Holders
  <2> QED BY <2>1, <2>2, <2>3, Constants
<1>2. IsFiniteSet(1..(MaxDepth - 1)) /\ Cardinality(1..(MaxDepth - 1)) = MaxDepth - 1
  BY Constants, FS_Interval
<1>3. IsFiniteSet(Holders)
  <2>1. Holders \in SUBSET Workers
    BY DEF Holders
  <2> QED BY <2>1, Constants, FS_Subset
<1>4. IsFiniteSet(Pairs) /\ Cardinality(Pairs) = Cardinality(Holders) * (MaxDepth - 1)
  BY <1>2, <1>3, FS_Product
<1>5. IsFiniteSet(InUse) /\ Cardinality(InUse) =< Cardinality(Pairs)
  BY <1>1, <1>4, FS_Subset
<1>6. Cardinality(InUse) \in Nat
  BY <1>5, FS_CardinalityType
<1> HIDE DEF Pairs
<1> QED BY <1>4, <1>5, <1>6

(* With a connection to spare, whoever holds a lock can go on, and if      *)
(* nobody does, anyone can.                                                *)
LEMMA HolderCanStep ==
  ASSUME ConnPoolTypeOK, NEW w \in Workers, Busy(w), Cardinality(InUse) < MaxOpen,
         holds[w].locks # {} \/ \A v \in Workers : holds[v].locks = {}
  PROVE  CanStep(w)
<1>1. Orderly(holds[w], rest[w]) /\ rest[w] # <<>>
  BY DEF ConnPoolTypeOK, Busy
<1>2. MayFollow(Head(rest[w]), holds[w])
  BY <1>1, OrderlyTail
<1>3. \A lock \in Head(rest[w]).locks \ holds[w].locks : Free(lock)
  BY <1>2 DEF MayFollow, Free
<1> QED BY <1>3 DEF CanStep

(* However many requests are at work and however small the pool, they all  *)
(* stop only for want of a connection, with more of them holding some      *)
(* than the pool allows for (dbreads' loops over open rows, admin's        *)
(* transactions, the caches).                                              *)
THEOREM StallsOnlyExhausted ==
  ASSUME OrderlyScripts
  PROVE  Spec => []OnlyExhaustionStalls
<1>1. ConnPoolTypeOK => OnlyExhaustionStalls
  <2> SUFFICES ASSUME ConnPoolTypeOK, NEW w \in Workers, Busy(w),
                      \A v \in Workers : ~CanStep(v)
               PROVE  /\ Cardinality(InUse) >= MaxOpen
                      /\ Cardinality(Holders) * (MaxDepth - 1) >= MaxOpen
    BY DEF OnlyExhaustionStalls, Stalled
  <2>1. \A v \in Workers : holds[v].locks # {} => Busy(v)
    BY OrderlyRest, NothingHeld DEF Busy, ConnPoolTypeOK
  <2>2. ~(Cardinality(InUse) < MaxOpen)
    <3>1. CASE \A v \in Workers : holds[v].locks = {}
      BY <3>1, HolderCanStep
    <3>2. CASE \E v \in Workers : holds[v].locks # {}
      BY <2>1, <3>2, HolderCanStep
    <3> QED BY <3>1, <3>2
  <2>3. /\ Cardinality(InUse) \in Nat
        /\ Cardinality(InUse) =< Cardinality(Holders) * (MaxDepth - 1)
    BY StalledHolders
  <2>4. Cardinality(Holders) * (MaxDepth - 1) \in Nat
    <3>1. Holders \in SUBSET Workers
      BY DEF Holders
    <3>2. Cardinality(Holders) \in Nat
      BY <3>1, Constants, FS_Subset, FS_CardinalityType
    <3> QED BY <3>2, Constants
  <2> QED BY <2>2, <2>3, <2>4, Constants
<1> QED BY <1>1, TypesKept, PTL

-----------------------------------------------------------------------------
(* The server's scripts.  A plain one takes no locks and at most depth     *)
(* connections; one that fits takes a lock only when it has no other, and  *)
(* fewer connections than that.                                            *)

EndsWithNothing(script) == script # <<>> => script[Len(script)] = Nothing

Plain(script, depth) ==
  /\ script \in Seq(Held)
  /\ \A i \in 1..Len(script) : script[i].conns =< depth /\ script[i].locks = {}
  /\ EndsWithNothing(script)

BeforeStep(script, i) == IF i = 1 THEN Nothing ELSE script[i - 1]

Fits(script, depth) ==
  /\ script \in Seq(Held)
  /\ \A i \in 1..Len(script) :
       /\ script[i].conns =< depth
       /\ \/ script[i].locks \subseteq BeforeStep(script, i).locks
          \/ BeforeStep(script, i).locks = {} /\ BeforeStep(script, i).conns < depth
  /\ EndsWithNothing(script)

LEMMA HoldingHeld ==
  ASSUME NEW c \in Nat, NEW l \in SUBSET Locks
  PROVE  Holding(c, l) \in Held /\ Holding(c, l).conns = c /\ Holding(c, l).locks = l
BY DEF Holding, Held

LEMMA Concatenated ==
  ASSUME NEW s \in Seq(Held), NEW t \in Seq(Held)
  PROVE  /\ s \o t \in Seq(Held) /\ Len(s \o t) = Len(s) + Len(t)
         /\ Len(s) \in Nat /\ Len(t) \in Nat
         /\ \A i \in 1..Len(s) : (s \o t)[i] = s[i]
         /\ \A i \in (Len(s) + 1)..(Len(s) + Len(t)) : (s \o t)[i] = t[i - Len(s)]
OBVIOUS

LEMMA EmptyIsPlain == ASSUME NEW d \in Nat PROVE Plain(<<>>, d)
BY DEF Plain, EndsWithNothing

LEMMA NothingIsPlain == ASSUME NEW d \in Nat PROVE Plain(<<Nothing>>, d)
BY NothingHeld DEF Plain, EndsWithNothing

LEMMA QueryIsPlain == Plain(Query, 1)
<1>1. Holding(1, {}) \in Held /\ Holding(1, {}).conns = 1 /\ Holding(1, {}).locks = {}
  BY HoldingHeld
<1>2. Query \in Seq(Held) /\ Len(Query) = 2 /\ Query[1] = Holding(1, {}) /\ Query[2] = Nothing
  BY <1>1, NothingHeld DEF Query
<1> QED BY <1>1, <1>2, NothingHeld DEF Plain, EndsWithNothing

LEMMA EndsTogether ==
  ASSUME NEW s \in Seq(Held), NEW t \in Seq(Held), EndsWithNothing(s), EndsWithNothing(t)
  PROVE  EndsWithNothing(s \o t)
<1>1. CASE t = <<>>
  BY <1>1
<1>2. CASE t # <<>>
  <2>1. Len(t) \in Nat \ {0}
    BY <1>2
  <2>2. (s \o t)[Len(s) + Len(t)] = t[Len(t)]
    BY <2>1
  <2> QED BY <1>2, <2>2, Concatenated DEF EndsWithNothing
<1> QED BY <1>1, <1>2

LEMMA PlainTogether ==
  ASSUME NEW d \in Nat, NEW s, NEW t, Plain(s, d), Plain(t, d)
  PROVE  Plain(s \o t, d)
<1>1. s \in Seq(Held) /\ t \in Seq(Held) /\ EndsWithNothing(s \o t)
  BY EndsTogether DEF Plain
<1>2. ASSUME NEW i \in 1..Len(s \o t)
      PROVE  (s \o t)[i].conns =< d /\ (s \o t)[i].locks = {}
  <2>1. CASE i \in 1..Len(s)
    BY <1>1, <2>1, Concatenated DEF Plain
  <2>2. CASE i \notin 1..Len(s)
    <3>1. i - Len(s) \in 1..Len(t) /\ (s \o t)[i] = t[i - Len(s)]
      BY <1>1, <2>2, Concatenated
    <3> QED BY <3>1 DEF Plain
  <2> QED BY <2>1, <2>2
<1> QED BY <1>1, <1>2, Concatenated DEF Plain

LEMMA FitsTogether ==
  ASSUME NEW d \in Nat, NEW s, NEW t, Fits(s, d), Fits(t, d)
  PROVE  Fits(s \o t, d)
<1>1. s \in Seq(Held) /\ t \in Seq(Held) /\ EndsWithNothing(s \o t) /\ EndsWithNothing(s)
  BY EndsTogether DEF Fits
<1>2. ASSUME NEW i \in 1..Len(s \o t)
      PROVE  \/ \E j \in 1..Len(s) :
                  (s \o t)[i] = s[j] /\ BeforeStep(s \o t, i) = BeforeStep(s, j)
             \/ \E j \in 1..Len(t) :
                  (s \o t)[i] = t[j] /\ BeforeStep(s \o t, i) = BeforeStep(t, j)
  <2>1. CASE i \in 1..Len(s)
    <3>1. i = 1 \/ i - 1 \in 1..Len(s)
      BY <1>1, <2>1, Concatenated
    <3> QED BY <1>1, <2>1, <3>1, Concatenated DEF BeforeStep
  <2>2. CASE i \notin 1..Len(s)
    <3> DEFINE j == i - Len(s)
    <3>1. j \in 1..Len(t) /\ (s \o t)[i] = t[j]
      BY <1>1, <2>2, Concatenated
    <3>2. CASE j = 1
      <4>1. i = 1 \/ (i # 1 /\ Len(s) # 0 /\ (s \o t)[i - 1] = s[Len(s)])
        BY <1>1, <3>1, <3>2, Concatenated
      <4>2. Len(s) # 0 => s[Len(s)] = Nothing
        BY <1>1 DEF EndsWithNothing
      <4> QED BY <3>1, <3>2, <4>1, <4>2 DEF BeforeStep
    <3>3. CASE j # 1
      <4>1. i # 1 /\ (s \o t)[i - 1] = t[j - 1]
        BY <1>1, <3>1, <3>3, Concatenated
      <4> QED BY <3>1, <3>3, <4>1 DEF BeforeStep
    <3> QED BY <3>2, <3>3
  <2> QED BY <2>1, <2>2
<1>3. ASSUME NEW i \in 1..Len(s \o t)
      PROVE  /\ (s \o t)[i].conns =< d
             /\ \/ (s \o t)[i].locks \subseteq BeforeStep(s \o t, i).locks
                \/ BeforeStep(s \o t, i).locks = {} /\ BeforeStep(s \o t, i).conns < d
  <2>1. CASE \E j \in 1..Len(s) :
               (s \o t)[i] = s[j] /\ BeforeStep(s \o t, i) = BeforeStep(s, j)
    BY <2>1 DEF Fits
  <2>2. CASE \E j \in 1..Len(t) :
               (s \o t)[i] = t[j] /\ BeforeStep(s \o t, i) = BeforeStep(t, j)
    BY <2>2 DEF Fits
  <2> QED BY <1>2, <2>1, <2>2
<1> QED BY <1>1, <1>3, Concatenated DEF Fits

LEMMA PlainFits ==
  ASSUME NEW d \in Nat, NEW e \in Nat, d =< e, NEW s, Plain(s, d)
  PROVE  Plain(s, e) /\ Fits(s, e)
<1>1. \A i \in 1..Len(s) : s[i] \in Held
  BY DEF Plain
<1>2. \A i \in 1..Len(s) : s[i].conns \in Nat
  BY <1>1 DEF Held
<1> QED BY <1>2 DEF Plain, Fits

LEMMA FitsMore ==
  ASSUME NEW d \in Nat, NEW e \in Nat, d =< e, NEW s, Fits(s, d)
  PROVE  Fits(s, e)
<1>1. \A i \in 1..Len(s) : s[i].conns \in Nat /\ BeforeStep(s, i).conns \in Nat
  <2>1. Len(s) \in Nat /\ \A i \in 1..Len(s) : s[i] \in Held
    BY DEF Fits
  <2>2. \A i \in 1..Len(s) : s[i].conns \in Nat
    BY <2>1 DEF Held
  <2> QED BY <2>1, <2>2, NothingHeld DEF BeforeStep
<1> QED BY <1>1 DEF Fits

LEMMA WithSteps ==
  ASSUME NEW s \in Seq(Held), NEW c \in Nat, NEW l \in SUBSET Locks
  PROVE  /\ With(c, l, s) \in Seq(Held) /\ Len(With(c, l, s)) = Len(s)
         /\ \A i \in 1..Len(s) : /\ With(c, l, s)[i].conns = s[i].conns + c
                                 /\ With(c, l, s)[i].locks = s[i].locks \cup l
<1> DEFINE step(i) == Holding(s[i].conns + c, s[i].locks \cup l)
<1>1. Len(s) \in Nat /\ DOMAIN s = 1..Len(s) /\ \A i \in 1..Len(s) : s[i] \in Held
  OBVIOUS
<1>2. ASSUME NEW i \in 1..Len(s)
      PROVE  step(i) \in Held /\ step(i).conns = s[i].conns + c /\ step(i).locks = s[i].locks \cup l
  <2>1. s[i].conns + c \in Nat /\ s[i].locks \cup l \in SUBSET Locks
    BY <1>1 DEF Held
  <2> QED BY <2>1, HoldingHeld
<1>3. With(c, l, s) = [i \in 1..Len(s) |-> step(i)]
  BY <1>1 DEF With
<1> HIDE DEF step
<1> QED BY <1>1, <1>2, <1>3

(* First some steps, then a script with more in hand, then everything back. *)
Between(h, w) == h \o w \o <<Nothing>>

LEMMA BetweenSteps ==
  ASSUME NEW h \in Seq(Held), NEW w \in Seq(Held)
  PROVE  /\ Between(h, w) \in Seq(Held) /\ Len(Between(h, w)) = Len(h) + Len(w) + 1
         /\ \A i \in 1..Len(h) : Between(h, w)[i] = h[i]
         /\ \A i \in (Len(h) + 1)..(Len(h) + Len(w)) : Between(h, w)[i] = w[i - Len(h)]
         /\ Between(h, w)[Len(h) + Len(w) + 1] = Nothing /\ EndsWithNothing(Between(h, w))
<1>1. <<Nothing>> \in Seq(Held) /\ Len(<<Nothing>>) = 1 /\ <<Nothing>>[1] = Nothing
  BY NothingHeld
<1>2. /\ h \o w \in Seq(Held) /\ Len(h \o w) = Len(h) + Len(w)
      /\ Len(h) \in Nat /\ Len(w) \in Nat
      /\ \A i \in 1..Len(h) : (h \o w)[i] = h[i]
      /\ \A i \in (Len(h) + 1)..(Len(h) + Len(w)) : (h \o w)[i] = w[i - Len(h)]
  BY Concatenated
<1> DEFINE u == h \o w
<1>3. /\ u \o <<Nothing>> \in Seq(Held) /\ Len(u \o <<Nothing>>) = Len(u) + 1
      /\ \A i \in 1..Len(u) : (u \o <<Nothing>>)[i] = u[i]
      /\ (u \o <<Nothing>>)[Len(u) + 1] = Nothing
  <2> HIDE DEF u
  <2>1. u \in Seq(Held)
    BY <1>2 DEF u
  <2> QED BY <1>1, <2>1, Concatenated
<1>4. Between(h, w) = u \o <<Nothing>>
  BY DEF Between
<1> HIDE DEF u
<1>5. Len(u) = Len(h) + Len(w) /\ \A i \in 1..Len(u) : u[i] = (h \o w)[i]
  BY <1>2 DEF u
<1> QED BY <1>2, <1>3, <1>4, <1>5 DEF EndsWithNothing

LEMMA RowsArePlain ==
  ASSUME NEW d \in Nat, NEW s, Plain(s, d)
  PROVE  Plain(Rows(s), d + 1)
<1> DEFINE h == <<Holding(1, {})>>
           w == With(1, {}, s)
           t == Between(h, w)
<1>1. s \in Seq(Held) /\ Len(s) \in Nat /\ \A i \in 1..Len(s) : s[i] \in Held
  BY DEF Plain
<1>2. /\ h \in Seq(Held) /\ Len(h) = 1 /\ h[1].conns = 1 /\ h[1].locks = {}
  BY HoldingHeld
<1>3. /\ w \in Seq(Held) /\ Len(w) = Len(s)
      /\ \A i \in 1..Len(s) : w[i].conns = s[i].conns + 1 /\ w[i].locks = s[i].locks
  <2>1. /\ w \in Seq(Held) /\ Len(w) = Len(s)
        /\ \A i \in 1..Len(s) : w[i].conns = s[i].conns + 1 /\ w[i].locks = s[i].locks \cup {}
    <3> DEFINE none == {}
    <3>1. none \in SUBSET Locks
      OBVIOUS
    <3> HIDE DEF none
    <3>2. /\ With(1, none, s) \in Seq(Held) /\ Len(With(1, none, s)) = Len(s)
          /\ \A i \in 1..Len(s) : /\ With(1, none, s)[i].conns = s[i].conns + 1
                                  /\ With(1, none, s)[i].locks = s[i].locks \cup none
      BY <1>1, <3>1, WithSteps
    <3> QED BY <3>2 DEF none
  <2> HIDE DEF w
  <2> QED BY <2>1
<1> HIDE DEF h, w
<1>4. /\ t \in Seq(Held) /\ Len(t) = Len(s) + 2 /\ t[1] = h[1]
      /\ \A i \in 2..(Len(s) + 1) : t[i] = w[i - 1]
      /\ t[Len(s) + 2] = Nothing /\ EndsWithNothing(t)
  <2>1. /\ t \in Seq(Held) /\ Len(t) = Len(h) + Len(w) + 1
        /\ \A i \in 1..Len(h) : t[i] = h[i]
        /\ \A i \in (Len(h) + 1)..(Len(h) + Len(w)) : t[i] = w[i - Len(h)]
        /\ t[Len(h) + Len(w) + 1] = Nothing /\ EndsWithNothing(t)
    BY <1>2, <1>3, BetweenSteps
  <2> HIDE DEF t
  <2>2. Len(h) = 1 /\ Len(w) = Len(s) /\ Len(s) \in Nat
    BY <1>1, <1>2, <1>3
  <2>3. Len(t) = Len(s) + 2 /\ t[Len(s) + 2] = Nothing
    <3>1. 1 + Len(s) + 1 = Len(s) + 2
      BY <2>2
    <3> QED BY <2>1, <2>2, <3>1
  <2>4. t[1] = h[1] /\ \A i \in 2..(Len(s) + 1) : t[i] = w[i - 1]
    <3>1. 1 \in 1..Len(h)
      BY <2>2
    <3>2. \A i \in 2..(Len(s) + 1) : i \in (Len(h) + 1)..(Len(h) + Len(w)) /\ i - Len(h) = i - 1
      BY <2>2
    <3> QED BY <2>1, <3>1, <3>2
  <2> QED BY <2>1, <2>3, <2>4
<1>5. ASSUME NEW i \in 1..Len(t) PROVE t[i].conns =< d + 1 /\ t[i].locks = {}
  <2>1. CASE i = 1
    BY <1>2, <1>4, <2>1
  <2>2. CASE i = Len(s) + 2
    BY <1>4, <2>2, NothingHeld
  <2>3. CASE i # 1 /\ i # Len(s) + 2
    <3>1. i - 1 \in 1..Len(s) /\ t[i] = w[i - 1]
      BY <1>1, <1>4, <2>3
    <3>2. s[i - 1].conns =< d /\ s[i - 1].locks = {} /\ s[i - 1].conns \in Nat
      BY <1>1, <3>1 DEF Plain, Held
    <3> QED BY <1>3, <3>1, <3>2
  <2> QED BY <2>1, <2>2, <2>3
<1> QED BY <1>4, <1>5 DEF Plain, Rows, Between, h, w

LEMMA LockedFits ==
  ASSUME NEW d \in Nat \ {0}, NEW s, Plain(s, d), NEW lock \in Locks
  PROVE  Fits(Locked(lock, s), d)
<1> DEFINE h == <<Holding(0, {lock})>>
           w == With(0, {lock}, s)
           t == Between(h, w)
<1>1. s \in Seq(Held) /\ Len(s) \in Nat /\ \A i \in 1..Len(s) : s[i] \in Held
  BY DEF Plain
<1>2. /\ h \in Seq(Held) /\ Len(h) = 1 /\ h[1].conns = 0 /\ h[1].locks = {lock}
  BY HoldingHeld
<1>3. /\ w \in Seq(Held) /\ Len(w) = Len(s)
      /\ \A i \in 1..Len(s) : w[i].conns = s[i].conns + 0 /\ w[i].locks = s[i].locks \cup {lock}
  BY <1>1, WithSteps
<1> HIDE DEF h, w
<1>4. /\ t \in Seq(Held) /\ Len(t) = Len(s) + 2 /\ t[1] = h[1]
      /\ \A i \in 2..(Len(s) + 1) : t[i] = w[i - 1]
      /\ t[Len(s) + 2] = Nothing /\ EndsWithNothing(t)
  <2>1. /\ t \in Seq(Held) /\ Len(t) = Len(h) + Len(w) + 1
        /\ \A i \in 1..Len(h) : t[i] = h[i]
        /\ \A i \in (Len(h) + 1)..(Len(h) + Len(w)) : t[i] = w[i - Len(h)]
        /\ t[Len(h) + Len(w) + 1] = Nothing /\ EndsWithNothing(t)
    BY <1>2, <1>3, BetweenSteps
  <2> HIDE DEF t
  <2>2. Len(h) = 1 /\ Len(w) = Len(s) /\ Len(s) \in Nat
    BY <1>1, <1>2, <1>3
  <2>3. Len(t) = Len(s) + 2 /\ t[Len(s) + 2] = Nothing
    <3>1. 1 + Len(s) + 1 = Len(s) + 2
      BY <2>2
    <3> QED BY <2>1, <2>2, <3>1
  <2>4. t[1] = h[1] /\ \A i \in 2..(Len(s) + 1) : t[i] = w[i - 1]
    <3>1. 1 \in 1..Len(h)
      BY <2>2
    <3>2. \A i \in 2..(Len(s) + 1) : i \in (Len(h) + 1)..(Len(h) + Len(w)) /\ i - Len(h) = i - 1
      BY <2>2
    <3> QED BY <2>1, <3>1, <3>2
  <2> QED BY <2>1, <2>3, <2>4
<1>5. \A i \in 2..(Len(s) + 1) : t[i].conns =< d /\ t[i].locks = {lock}
  <2> SUFFICES ASSUME NEW i \in 2..(Len(s) + 1) PROVE t[i].conns =< d /\ t[i].locks = {lock}
    OBVIOUS
  <2>1. i - 1 \in 1..Len(s) /\ t[i] = w[i - 1]
    BY <1>1, <1>4
  <2>2. s[i - 1].conns =< d /\ s[i - 1].locks = {} /\ s[i - 1].conns \in Nat
    BY <1>1, <2>1 DEF Plain, Held
  <2>3. t[i].conns = s[i - 1].conns + 0 /\ t[i].locks = s[i - 1].locks \cup {lock}
    BY <1>3, <2>1
  <2> QED BY <2>2, <2>3
<1>6. ASSUME NEW i \in 1..Len(t)
      PROVE  /\ t[i].conns =< d
             /\ \/ t[i].locks \subseteq BeforeStep(t, i).locks
                \/ BeforeStep(t, i).locks = {} /\ BeforeStep(t, i).conns < d
  <2>1. CASE i = 1
    BY <1>2, <1>4, <2>1, NothingHeld DEF BeforeStep
  <2>2. CASE i = Len(s) + 2
    BY <1>4, <2>2, NothingHeld
  <2>3. CASE i # 1 /\ i # Len(s) + 2
    <3>1. /\ i \in 2..(Len(s) + 1) /\ BeforeStep(t, i) = t[i - 1]
          /\ i - 1 = 1 \/ i - 1 \in 2..(Len(s) + 1)
      BY <1>1, <1>4, <2>3 DEF BeforeStep
    <3> QED BY <1>2, <1>4, <1>5, <3>1
  <2> QED BY <2>1, <2>2, <2>3
<1> QED BY <1>4, <1>6 DEF Fits, Locked, Between, h, w

LEMMA TxFits ==
  ASSUME NEW d \in Nat \ {0}, NEW s, Plain(s, d), NEW row \in Locks
  PROVE  Fits(Tx(row, s), d + 1)
<1> DEFINE h == <<Holding(1, {}), Holding(1, {row})>>
           w == With(1, {row}, s)
           t == Between(h, w)
<1>1. s \in Seq(Held) /\ Len(s) \in Nat /\ \A i \in 1..Len(s) : s[i] \in Held
  BY DEF Plain
<1>2. /\ h \in Seq(Held) /\ Len(h) = 2 /\ h[1].conns = 1 /\ h[1].locks = {}
      /\ h[2].conns = 1 /\ h[2].locks = {row}
  BY HoldingHeld
<1>3. /\ w \in Seq(Held) /\ Len(w) = Len(s)
      /\ \A i \in 1..Len(s) : w[i].conns = s[i].conns + 1 /\ w[i].locks = s[i].locks \cup {row}
  BY <1>1, WithSteps
<1> HIDE DEF h, w
<1>4. /\ t \in Seq(Held) /\ Len(t) = Len(s) + 3 /\ t[1] = h[1] /\ t[2] = h[2]
      /\ \A i \in 3..(Len(s) + 2) : t[i] = w[i - 2]
      /\ t[Len(s) + 3] = Nothing /\ EndsWithNothing(t)
  <2>1. /\ t \in Seq(Held) /\ Len(t) = Len(h) + Len(w) + 1
        /\ \A i \in 1..Len(h) : t[i] = h[i]
        /\ \A i \in (Len(h) + 1)..(Len(h) + Len(w)) : t[i] = w[i - Len(h)]
        /\ t[Len(h) + Len(w) + 1] = Nothing /\ EndsWithNothing(t)
    BY <1>2, <1>3, BetweenSteps
  <2> HIDE DEF t
  <2>2. Len(h) = 2 /\ Len(w) = Len(s) /\ Len(s) \in Nat
    BY <1>1, <1>2, <1>3
  <2>3. Len(t) = Len(s) + 3 /\ t[Len(s) + 3] = Nothing
    <3>1. 2 + Len(s) + 1 = Len(s) + 3
      BY <2>2
    <3> QED BY <2>1, <2>2, <3>1
  <2>4. t[1] = h[1] /\ t[2] = h[2] /\ \A i \in 3..(Len(s) + 2) : t[i] = w[i - 2]
    <3>1. 1 \in 1..Len(h) /\ 2 \in 1..Len(h)
      BY <2>2
    <3>2. \A i \in 3..(Len(s) + 2) : i \in (Len(h) + 1)..(Len(h) + Len(w)) /\ i - Len(h) = i - 2
      BY <2>2
    <3> QED BY <2>1, <3>1, <3>2
  <2> QED BY <2>1, <2>3, <2>4
<1>5. \A i \in 3..(Len(s) + 2) : t[i].conns =< d + 1 /\ t[i].locks = {row}
  <2> SUFFICES ASSUME NEW i \in 3..(Len(s) + 2)
               PROVE  t[i].conns =< d + 1 /\ t[i].locks = {row}
    OBVIOUS
  <2>1. i - 2 \in 1..Len(s) /\ t[i] = w[i - 2]
    BY <1>1, <1>4
  <2>2. s[i - 2].conns =< d /\ s[i - 2].locks = {} /\ s[i - 2].conns \in Nat
    BY <1>1, <2>1 DEF Plain, Held
  <2>3. t[i].conns = s[i - 2].conns + 1 /\ t[i].locks = s[i - 2].locks \cup {row}
    BY <1>3, <2>1
  <2> QED BY <2>2, <2>3
<1>6. ASSUME NEW i \in 1..Len(t)
      PROVE  /\ t[i].conns =< d + 1
             /\ \/ t[i].locks \subseteq BeforeStep(t, i).locks
                \/ BeforeStep(t, i).locks = {} /\ BeforeStep(t, i).conns < d + 1
  <2>1. CASE i = 1
    BY <1>2, <1>4, <2>1, NothingHeld DEF BeforeStep
  <2>2. CASE i = 2
    BY <1>2, <1>4, <2>2 DEF BeforeStep
  <2>3. CASE i = Len(s) + 3
    BY <1>4, <2>3, NothingHeld
  <2>4. CASE i \notin {1, 2, Len(s) + 3}
    <3>1. /\ i \in 3..(Len(s) + 2) /\ BeforeStep(t, i) = t[i - 1]
          /\ i - 1 = 2 \/ i - 1 \in 3..(Len(s) + 2)
      BY <1>1, <1>4, <2>4 DEF BeforeStep
    <3> QED BY <1>2, <1>4, <1>5, <3>1
  <2> QED BY <2>1, <2>2, <2>3, <2>4
<1> QED BY <1>4, <1>6 DEF Fits, Tx, Between, h, w

LEMMA WriteFits ==
  ASSUME NEW row \in Locks
  PROVE  Fits(Write(row), 2)
<1>1. /\ Holding(1, {}) \in Held /\ Holding(1, {}).conns = 1 /\ Holding(1, {}).locks = {}
      /\ Holding(1, {row}) \in Held /\ Holding(1, {row}).conns = 1
      /\ Holding(1, {row}).locks = {row}
  BY HoldingHeld
<1>2. /\ Write(row) \in Seq(Held) /\ Len(Write(row)) = 3
      /\ Write(row)[1] = Holding(1, {}) /\ Write(row)[2] = Holding(1, {row})
      /\ Write(row)[3] = Nothing
  BY <1>1, NothingHeld DEF Write
<1> QED BY <1>1, <1>2, NothingHeld DEF Fits, BeforeStep, EndsWithNothing

-----------------------------------------------------------------------------
(* The scripts of Operations.  Most run one statement after another.       *)

OneByOne(script) == Plain(script, 1)

LEMMA OneByOneTogether ==
  ASSUME NEW s, NEW t, OneByOne(s), OneByOne(t)
  PROVE  OneByOne(s \o t)
BY PlainTogether DEF OneByOne

LEMMA Reads ==
  /\ OneByOne(Query) /\ OneByOne(getPackage) /\ OneByOne(getPackagesFromQuery)
  /\ OneByOne(GetPackageByVersionAndArch) /\ OneByOne(GetChannel) /\ OneByOne(GetGroup)
  /\ OneByOne(GetInstance)
<1>1. OneByOne(Query)
  BY QueryIsPlain DEF OneByOne
<1>2. OneByOne(Query \o Query)
  BY <1>1, OneByOneTogether
<1>3. OneByOne(getPackage)
  BY <1>1, <1>2, OneByOneTogether DEF getPackage, GetFlatcarAction, getExtraFiles
<1>4. OneByOne(getPackagesFromQuery)
  BY <1>1, <1>2, OneByOneTogether DEF getPackagesFromQuery, loadPackageExtras
<1>5. OneByOne(GetPackageByVersionAndArch) /\ OneByOne(GetChannel)
  BY <1>1, <1>3, OneByOneTogether DEF GetPackageByVersionAndArch, GetChannel
<1>6. OneByOne(GetGroup)
  BY <1>1, <1>5, OneByOneTogether DEF GetGroup
<1> QED BY <1>1, <1>2, <1>3, <1>4, <1>5, <1>6 DEF GetInstance

LEMMA Changes ==
  /\ OneByOne(AddChannel) /\ OneByOne(UpdateChannel) /\ OneByOne(AddChannelPackageFloor)
  /\ OneByOne(updatePackageBlacklistedChannels)
  /\ OneByOne(updateInstanceStatus) /\ OneByOne(enforceRolloutPolicy)
  /\ OneByOne(triggerEventConsequences)
<1>1. OneByOne(AddChannel)
  BY Reads, OneByOneTogether DEF AddChannel, validatePackage
<1>2. OneByOne(UpdateChannel)
  BY Reads, OneByOneTogether DEF UpdateChannel, validatePackage, newChannelActivityEntry
<1>3. OneByOne(AddChannelPackageFloor)
  BY Reads, OneByOneTogether DEF AddChannelPackageFloor, isPackageBlacklistedForChannel
<1>4. OneByOne(updatePackageBlacklistedChannels)
  BY Reads, OneByOneTogether DEF updatePackageBlacklistedChannels, isPackageFloorForChannel
<1>5. OneByOne(updateInstanceStatus)
  BY Reads, OneByOneTogether DEF updateInstanceStatus, updateInstanceData
<1>6. OneByOne(enforceRolloutPolicy)
  BY <1>5, Reads, OneByOneTogether
     DEF enforceRolloutPolicy, GetGroupUpdatesStats, UpdateGroupLocal
<1>7. OneByOne(triggerEventConsequences)
  BY <1>5, Reads, OneByOneTogether
     DEF triggerEventConsequences, newActivityEntry, GetGroupUpdatesStats, UpdateGroupLocal
<1> QED BY <1>1, <1>2, <1>3, <1>4, <1>5, <1>6, <1>7

(* Of the others none needs a third connection but GetApps.                *)
LEMMA OpenRows ==
  /\ Plain(getChannelsFromQuery, 2) /\ Plain(getGroupsFromQuery, 2)
  /\ Plain(GetPackageFloorChannels, 2) /\ Plain(GetInstanceStatusHistory, 2)
  /\ Plain(AddPackage, 2) /\ Plain(AddPackageWithMetadata, 2)
  /\ Plain(GetApp, 2) /\ Plain(GetApps, 3)
<1>1. \A s : OneByOne(s) => Plain(Rows(s), 2) /\ Plain(s, 2)
  BY RowsArePlain, PlainFits DEF OneByOne
<1>2. Plain(Query, 2) /\ Plain(getChannelsFromQuery, 2) /\ Plain(getGroupsFromQuery, 2)
      /\ Plain(GetPackageFloorChannels, 2) /\ Plain(GetInstanceStatusHistory, 2)
  BY <1>1, Reads DEF getChannelsFromQuery, getGroupsFromQuery, GetPackageFloorChannels,
                     GetInstanceStatusHistory, GetEvent
<1>3. OneByOne(checkMatchingArch \o updatePackageFiles)
  BY Reads, NothingIsPlain, OneByOneTogether
     DEF checkMatchingArch, updatePackageFiles, OneByOne
<1>4. Plain(AddPackage, 2) /\ Plain(AddPackageWithMetadata, 2)
  BY <1>1, <1>3 DEF AddPackage, AddPackageWithMetadata
<1>5. Plain(GetApp, 2)
  BY <1>2, PlainTogether DEF GetApp, getInstanceCount, GetCountQuery
<1>6. Plain(getGroupsFromQuery \o getChannelsFromQuery \o getInstanceCount, 2)
  BY <1>2, PlainTogether DEF getInstanceCount, GetCountQuery
<1>7. Plain(GetApps, 3)
  <2>1. Plain(GetApps, 2 + 1)
    BY <1>6, RowsArePlain DEF GetApps
  <2> QED BY <2>1
<1> QED BY <1>2, <1>4, <1>5, <1>7

Three(script) == Fits(script, 3)

LEMMA ThreeTogether ==
  ASSUME NEW s, NEW t, Three(s), Three(t)
  PROVE  Three(s \o t)
BY FitsTogether DEF Three

LEMMA WithinThree ==
  ASSUME NEW s
  PROVE  /\ OneByOne(s) => Three(s)
         /\ Plain(s, 2) => Three(s)
         /\ Plain(s, 3) => Three(s)
         /\ Fits(s, 2) => Three(s)
BY PlainFits, FitsMore DEF Three, OneByOne

(* What is done one statement after another, and what leaves rows open.    *)
LEMMA PlainOperations ==
  /\ Three(Query) /\ Three(getPackage) /\ Three(getPackagesFromQuery)
  /\ Three(GetPackageByVersionAndArch) /\ Three(GetChannel) /\ Three(GetGroup)
  /\ Three(GetInstance) /\ Three(AddChannel) /\ Three(UpdateChannel)
  /\ Three(AddChannelPackageFloor) /\ Three(enforceRolloutPolicy)
  /\ Three(triggerEventConsequences) /\ Three(getChannelsFromQuery)
  /\ Three(getGroupsFromQuery) /\ Three(GetPackageFloorChannels)
  /\ Three(GetInstanceStatusHistory) /\ Three(AddPackage) /\ Three(AddPackageWithMetadata)
  /\ Three(GetApp) /\ Three(GetApps)
BY Reads, Changes, OpenRows, WithinThree

(* What takes a lock: the caches refilled under theirs, and the            *)
(* transactions that keep a package's row.                                 *)
LEMMA LockingOperations ==
  ASSUME ServerLocks \subseteq Locks
  PROVE  /\ Three(GetGroupID) /\ Three(UpdateCachedGroups)
         /\ Three(GetAppID) /\ Three(ClearCachedAppIDs)
         /\ Three(UpdatePackage) /\ Three(DeletePackage)
<1>1. "cachedGroupsLock" \in Locks /\ "cachedAppsIDsLock" \in Locks /\ "package row" \in Locks
  BY DEF ServerLocks
<1>2. ASSUME NEW s, OneByOne(s) \/ Plain(s, 2), NEW lock \in Locks
      PROVE  Three(Locked(lock, s))
  <2>1. Plain(s, 3)
    BY <1>2, PlainFits DEF OneByOne
  <2> QED BY <2>1, LockedFits DEF Three
<1>3. OneByOne(<<>>)
  BY EmptyIsPlain DEF OneByOne
<1>4. \A lock \in Locks : Three(Locked(lock, <<>>))
  BY <1>2, <1>3
<1>5. Three(GetGroupID)
  <2>1. Three(Locked("cachedGroupsLock", getGroupsFromQuery))
    BY <1>1, <1>2, OpenRows
  <2> QED BY <1>1, <1>4, <2>1, ThreeTogether DEF GetGroupID
<1>6. Three(GetAppID)
  <2>1. Three(Locked("cachedAppsIDsLock", Query))
    BY <1>1, <1>2, Reads
  <2> QED BY <1>1, <1>4, <2>1, ThreeTogether DEF GetAppID
<1>7. Three(UpdateCachedGroups) /\ Three(ClearCachedAppIDs)
  BY <1>1, <1>4 DEF UpdateCachedGroups, ClearCachedAppIDs
<1>8. Three(UpdatePackage)
  <2>1. OneByOne(updatePackageFiles)
    BY NothingIsPlain DEF OneByOne, updatePackageFiles
  <2>2. OneByOne(getPackage \o updatePackageBlacklistedChannels \o updatePackageFiles)
    BY <2>1, Reads, Changes, OneByOneTogether
  <2>3. ASSUME NEW s, OneByOne(s), NEW row \in Locks PROVE Three(Tx(row, s))
    <3>1. Fits(Tx(row, s), 1 + 1)
      BY <2>3, TxFits DEF OneByOne
    <3>2. 1 + 1 = 2
      OBVIOUS
    <3>3. Fits(Tx(row, s), 2)
      BY <3>1, <3>2, Zenon
    <3> QED BY <3>3, WithinThree
  <2> QED BY <1>1, <2>2, <2>3 DEF UpdatePackage
<1>9. Three(DeletePackage)
  <2>1. Three(Write("package row"))
    BY <1>1, WriteFits, WithinThree
  <2> QED BY <2>1, PlainOperations, ThreeTogether DEF DeletePackage
<1> QED BY <1>5, <1>6, <1>7, <1>8, <1>9

(* Requests about applications and what belongs to them.                   *)
LEMMA AdministratorsRequests ==
  ASSUME ServerLocks \subseteq Locks
  PROVE  /\ Three(CreateAppRequest) /\ Three(UpdateAppRequest) /\ Three(DeleteAppRequest)
         /\ Three(CreateChannelRequest) /\ Three(UpdateChannelRequest)
         /\ Three(DeleteChannelRequest) /\ Three(CreateGroupRequest)
         /\ Three(UpdateGroupRequest) /\ Three(DeleteGroupRequest)
         /\ Three(CreatePackageRequest) /\ Three(UpdatePackageRequest)
         /\ Three(DeletePackageRequest) /\ Three(SetChannelFloor)
         /\ Three(RemoveChannelFloor) /\ Three(ClearGroupUpdatesOverride)
         /\ Three(UpdateInstanceRequest)
         /\ Three(AddTeam) /\ Three(UpdateTeam) /\ Three(AddUser) /\ Three(UpdateUserPassword)
<1> USE ThreeTogether, PlainOperations, LockingOperations
<1>1. Three(AddGroup)
  BY DEF AddGroup, validateChannel
<1>2. Three(UpdateGroup)
  BY DEF UpdateGroup, validateChannel
<1>3. Three(DeleteGroup)
  BY DEF DeleteGroup
<1>4. Three(AddApp) /\ Three(UpdateApp) /\ Three(DeleteApp)
  BY DEF AddApp, UpdateApp, DeleteApp
<1>5. Three(AddAppCloning)
  BY <1>1, <1>4 DEF AddAppCloning
<1>6. Three(CreateAppRequest)
  BY <1>5 DEF CreateAppRequest
<1>7. Three(UpdateAppRequest)
  BY <1>4 DEF UpdateAppRequest
<1>8. Three(DeleteAppRequest)
  BY <1>4 DEF DeleteAppRequest
<1>9. Three(CreateChannelRequest)
  BY DEF CreateChannelRequest
<1>10. Three(UpdateChannelRequest)
  BY DEF UpdateChannelRequest
<1>11. Three(DeleteChannelRequest)
  BY DEF DeleteChannelRequest, DeleteChannel
<1>12. Three(CreateGroupRequest)
  BY <1>1 DEF CreateGroupRequest
<1>13. Three(UpdateGroupRequest)
  BY <1>2 DEF UpdateGroupRequest, UpdateGroupLocal
<1>14. Three(DeleteGroupRequest)
  BY <1>3 DEF DeleteGroupRequest
<1>15. Three(CreatePackageRequest)
  BY DEF CreatePackageRequest
<1>16. Three(UpdatePackageRequest)
  BY DEF UpdatePackageRequest
<1>17. Three(DeletePackageRequest)
  BY DEF DeletePackageRequest
<1>18. Three(SetChannelFloor) /\ Three(RemoveChannelFloor)
  BY DEF SetChannelFloor, RemoveChannelFloor, RemoveChannelPackageFloor
<1>19. Three(ClearGroupUpdatesOverride) /\ Three(UpdateInstanceRequest)
  BY DEF ClearGroupUpdatesOverride, UpdateGroupLocal, UpdateInstanceRequest, UpdateInstance
<1>20. /\ Three(AddTeam) /\ Three(UpdateTeam) /\ Three(AddUser) /\ Three(UpdateUserPassword)
  BY DEF AddTeam, UpdateTeam, AddUser, UpdateUserPassword
<1> HIDE ThreeTogether, PlainOperations, LockingOperations
<1> QED BY <1>6, <1>7, <1>8, <1>9, <1>10, <1>11, <1>12, <1>13, <1>14, <1>15, <1>16, <1>17,
           <1>18, <1>19, <1>20

(* Requests that only read.                                                *)
LEMMA ReadersRequests ==
  ASSUME ServerLocks \subseteq Locks
  PROVE  /\ Three(PaginateActivity) /\ Three(PaginateApps) /\ Three(PaginateChannels)
         /\ Three(PaginateGroups) /\ Three(PaginatePackages) /\ Three(PaginateChannelFloors)
         /\ Three(GetAppRequest) /\ Three(GetInstanceRequest)
         /\ Three(GetInstanceStatusHistoryRequest) /\ Three(GetGroupInstances)
         /\ Three(GetGroupInstancesCount) /\ Three(GetGroupInstanceStats)
         /\ Three(GetPackageFloorChannelsRequest) /\ Three(GetGroupVersionBreakdownRequest)
         /\ Three(GetGroupOEMBreakdownRequest) /\ Three(GetGroupVersionTimeline)
         /\ Three(GetGroupStatusTimeline) /\ Three(GetPackageRequest)
         /\ Three(GetChannelRequest) /\ Three(GetGroupRequest)
         /\ Three(GetChannelFloorPackages) /\ Three(GetInstanceStats)
         /\ Three(GetInstanceStatsByTimestamp) /\ Three(GetTeams) /\ Three(GetTeam)
         /\ Three(GetUser) /\ Three(GetUsersInTeam)
<1> USE ThreeTogether, PlainOperations, LockingOperations
<1>1. Three(PaginateActivity)
  BY DEF PaginateActivity, GetActivityCount, GetActivity, GetCountQuery
<1>2. Three(PaginateApps)
  BY DEF PaginateApps, GetCountQuery
<1>3. Three(PaginateChannels) /\ Three(PaginateGroups)
  BY DEF PaginateChannels, PaginateGroups, GetCountQuery, GetChannels, GetGroups
<1>4. Three(PaginatePackages) /\ Three(PaginateChannelFloors)
  BY DEF PaginatePackages, PaginateChannelFloors, GetCountQuery, GetPackages,
         GetChannelFloorPackagesPaginated
<1>5. Three(GetAppRequest) /\ Three(GetInstanceRequest)
  BY DEF GetAppRequest, GetInstanceRequest
<1>6. Three(GetInstanceStatusHistoryRequest) /\ Three(GetPackageFloorChannelsRequest)
  BY DEF GetInstanceStatusHistoryRequest, GetPackageFloorChannelsRequest
<1>7. Three(GetGroupInstances) /\ Three(GetGroupInstancesCount)
  BY DEF GetGroupInstances, GetInstances, GetGroupInstancesCount, GetInstancesCount,
         GetCountQuery
<1>8. Three(GetGroupInstanceStats)
  BY DEF GetGroupInstanceStats, GetGroupInstancesStats
<1>9. Three(GetGroupVersionBreakdownRequest) /\ Three(GetGroupOEMBreakdownRequest)
  BY DEF GetGroupVersionBreakdownRequest, GetGroupVersionBreakdown,
         GetGroupOEMBreakdownRequest, GetGroupOEMBreakdown
<1>10. Three(GetGroupVersionTimeline) /\ Three(GetGroupStatusTimeline)
  BY DEF GetGroupVersionTimeline, GetGroupVersionCountTimeline,
         GetGroupStatusTimeline, GetGroupStatusCountTimeline
<1>11. /\ Three(GetPackageRequest) /\ Three(GetChannelRequest) /\ Three(GetGroupRequest)
       /\ Three(GetChannelFloorPackages)
  BY DEF GetPackageRequest, GetChannelRequest, GetGroupRequest, GetChannelFloorPackages
<1>12. /\ Three(GetInstanceStats) /\ Three(GetInstanceStatsByTimestamp) /\ Three(GetTeams)
       /\ Three(GetTeam) /\ Three(GetUser) /\ Three(GetUsersInTeam)
  BY DEF GetInstanceStats, GetInstanceStatsByTimestamp, GetTeams, GetTeam, GetUser,
         GetUsersInTeam
<1> HIDE ThreeTogether, PlainOperations, LockingOperations
<1> QED BY <1>1, <1>2, <1>3, <1>4, <1>5, <1>6, <1>7, <1>8, <1>9, <1>10, <1>11, <1>12

(* Machines' requests, and what the server does by itself.                 *)
LEMMA RuntimeRequests ==
  ASSUME ServerLocks \subseteq Locks
  PROVE  /\ Three(buildOmahaResponse) /\ Three(buildOmahaSyncerResponse)
         /\ Three(initialize) /\ Three(SyncerRound)
         /\ Three(UpdateInstanceStats) /\ Three(calculateMetrics)
<1> USE ThreeTogether, PlainOperations, LockingOperations
<1>1. Three(validateApplicationAndGroup)
  BY DEF validateApplicationAndGroup
<1>2. Three(RegisterInstance)
  BY <1>1 DEF RegisterInstance
<1>3. /\ Three(updateInstanceData) /\ Three(HasRecentRuntimeActivity)
      /\ Three(newActivityEntry) /\ Three(UpdateGroupLocal)
      /\ Three(GetRequiredChannelFloors) /\ Three(GetFlatcarAction)
  BY DEF updateInstanceData, HasRecentRuntimeActivity, newActivityEntry, UpdateGroupLocal,
         GetRequiredChannelFloors, GetFlatcarAction
<1>4. Three(GetUpdatePackage)
  BY <1>2, <1>3 DEF GetUpdatePackage
<1>5. Three(GetUpdatePackagesForSyncer)
  BY <1>2, <1>3 DEF GetUpdatePackagesForSyncer
<1>6. Three(RegisterEvent)
  BY <1>1 DEF RegisterEvent
<1>7. Three(buildOmahaResponse)
  BY <1>2, <1>3, <1>4, <1>6 DEF buildOmahaResponse
<1>8. Three(buildOmahaSyncerResponse)
  BY <1>2, <1>3, <1>5 DEF buildOmahaSyncerResponse
<1>9. Three(initialize) /\ Three(UpdateInstanceStats) /\ Three(calculateMetrics)
  BY DEF initialize, UpdateInstanceStats, calculateMetrics
<1>10. Three(SyncerRound)
  BY DEF SyncerRound
<1> HIDE ThreeTogether, PlainOperations, LockingOperations
<1> QED BY <1>7, <1>8, <1>9, <1>10

LEMMA RequestsWithinThree ==
  ASSUME ServerLocks \subseteq Locks, NEW script \in ServerRequests
  PROVE  Three(script)
BY AdministratorsRequests, ReadersRequests, RuntimeRequests DEF ServerRequests, Omaha

(* Cut where nothing is held, they are orderly.                            *)
LEMMA EpisodesOrderly ==
  ASSUME MaxDepth >= 3, NEW script, Three(script), NEW episode \in Episodes(script)
  PROVE  Orderly(Nothing, episode)
<1> DEFINE pauses == {0, Len(script)} \cup {k \in DOMAIN script : script[k] = Nothing}
<1>1. PICK i \in pauses, j \in pauses : i < j /\ episode = SubSeq(script, i + 1, j)
  <2>1. PICK p \in pauses \X pauses : p[1] < p[2] /\ episode = SubSeq(script, p[1] + 1, p[2])
    BY DEF Episodes
  <2> QED BY <2>1
<1>2. /\ script \in Seq(Held) /\ Len(script) \in Nat
      /\ \A k \in 1..Len(script) : script[k] \in Held
  BY DEF Three, Fits
<1>3. script # <<>> => script[Len(script)] = Nothing
  BY DEF Three, Fits, EndsWithNothing
<1>4. i \in 0..Len(script) /\ j \in 1..Len(script) /\ i \in Nat /\ j \in Nat
  BY <1>1, <1>2
<1>5. (i # 0 => script[i] = Nothing) /\ script[j] = Nothing
  BY <1>1, <1>2, <1>3, <1>4
<1> HIDE DEF pauses
<1>6. /\ episode \in Seq(Held) /\ Len(episode) = j - i
      /\ \A k \in 1..(j - i) : episode[k] = script[i + k]
  BY <1>1, <1>2, <1>4
<1>7. ASSUME NEW k \in 1..(j - i)
      PROVE  MayFollow(episode[k], IF k = 1 THEN Nothing ELSE episode[k - 1])
  <2>1. i + k \in 1..Len(script) /\ (i + k) - 1 = i + (k - 1)
    BY <1>4
  <2>2. (IF k = 1 THEN Nothing ELSE episode[k - 1]) = BeforeStep(script, i + k)
    <3>1. CASE k = 1
      BY <1>4, <1>5, <3>1 DEF BeforeStep
    <3>2. CASE k # 1
      <4>1. k - 1 \in 1..(j - i) /\ i + k # 1
        BY <1>4, <3>2
      <4> QED BY <1>6, <2>1, <3>2, <4>1 DEF BeforeStep
    <3> QED BY <3>1, <3>2
  <2>3. BeforeStep(script, i + k).conns \in Nat /\ script[i + k].conns \in Nat
    <3>1. script[i + k] \in Held /\ BeforeStep(script, i + k) \in Held
      BY <1>2, <2>1, NothingHeld DEF BeforeStep
    <3> QED BY <3>1 DEF Held
  <2>4. /\ script[i + k].conns =< 3
        /\ \/ script[i + k].locks \subseteq BeforeStep(script, i + k).locks
           \/ BeforeStep(script, i + k).locks = {} /\ BeforeStep(script, i + k).conns < 3
    BY <2>1 DEF Three, Fits
  <2>5. MayFollow(script[i + k], BeforeStep(script, i + k))
    BY <2>3, <2>4, Constants DEF MayFollow
  <2> QED BY <1>6, <2>2, <2>5
<1>8. episode # <<>> /\ episode[Len(episode)] = Nothing
  BY <1>1, <1>4, <1>5, <1>6
<1> QED BY <1>6, <1>7, <1>8 DEF Orderly, Held

(* The server's requests and background jobs nest three connections at     *)
(* most, take one lock at a time and give everything back.                 *)
THEOREM ServerScriptsOrderly ==
  ASSUME Scripts = ServerScripts, ServerLocks \subseteq Locks, MaxDepth >= 3
  PROVE  OrderlyScripts
BY RequestsWithinThree, EpisodesOrderly DEF OrderlyScripts, ServerScripts

(* So the server stops for good only with its pool used up by at least     *)
(* half as many requests as the pool has connections: thirteen of them at  *)
(* the default of 25 (New in api.go, NEBRASKA_DB_MAX_OPEN_CONNS).          *)
THEOREM ServerStalls ==
  ASSUME Scripts = ServerScripts, ServerLocks \subseteq Locks, MaxDepth = 3
  PROVE  Spec => [](Stalled => 2 * Cardinality(Holders) >= MaxOpen)
<1>1. Spec => []OnlyExhaustionStalls
  BY ServerScriptsOrderly, StallsOnlyExhausted
<1>2. OnlyExhaustionStalls => (Stalled => 2 * Cardinality(Holders) >= MaxOpen)
  <2>1. Cardinality(Holders) \in Nat
    <3>1. Holders \in SUBSET Workers
      BY DEF Holders
    <3> QED BY <3>1, Constants, FS_Subset, FS_CardinalityType
  <2>2. Cardinality(Holders) * (MaxDepth - 1) = 2 * Cardinality(Holders)
    BY <2>1
  <2> QED BY <2>2 DEF OnlyExhaustionStalls
<1> QED BY <1>1, <1>2, PTL
=============================================================================
