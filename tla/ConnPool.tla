------------------------------ MODULE ConnPool ------------------------------
(***************************************************************************)
(* The server's requests share one pool of database connections and a few  *)
(* locks.  A query whose rows are still open, or an open transaction,      *)
(* keeps its connection while the code inside asks for further ones; a     *)
(* cache is refilled under its lock; a row that a transaction has written  *)
(* is locked until the transaction ends.  Nothing ever gives up waiting    *)
(* for a connection or a lock: the queries carry no deadline.  Nor does    *)
(* anything limit how many requests are at work at once: enough of them,   *)
(* each holding connections and asking for one more, stop the server.      *)
(*                                                                         *)
(* What a request does is abstracted to its script: what it holds after    *)
(* each of its steps.  Module Operations has the scripts of the code.      *)
(***************************************************************************)
EXTENDS Integers, Sequences, FiniteSets

CONSTANTS Workers,   \* requests and background jobs that can be in progress
          Scripts,   \* what each of them may do
          Locks,
          MaxOpen,   \* NEBRASKA_DB_MAX_OPEN_CONNS
          MaxDepth   \* connections that one worker may hold

ASSUME ConnPoolAssumption ==
  /\ IsFiniteSet(Workers)
  /\ MaxOpen \in Nat \ {0} /\ MaxDepth \in Nat \ {0}

VARIABLES holds,  \* what each worker holds
          rest    \* what it will hold after each of the steps still to do

vars == <<holds, rest>>

Holding(conns, locks) == [conns |-> conns, locks |-> locks]
Nothing == Holding(0, {})

----------------------------------------------------------------------------
\* How scripts are put together.

\* A statement with its rows read at once.
Query == <<Holding(1, {}), Nothing>>

\* A statement that changes a row which other transactions may have locked.
Write(row) == <<Holding(1, {}), Holding(1, {row}), Nothing>>

With(conns, locks, script) ==
  [i \in DOMAIN script |-> Holding(script[i].conns + conns, script[i].locks \cup locks)]

\* A loop over a query's open rows.  Bound: one row.
Rows(body) == <<Holding(1, {})>> \o With(1, {}, body) \o <<Nothing>>

\* A transaction that writes a row and then works on other connections too.
Tx(row, body) ==
  <<Holding(1, {}), Holding(1, {row})>> \o With(1, {row}, body) \o <<Nothing>>

\* A critical section.  A read lock is taken for an exclusive one: nothing
\* is waited for under the read locks.
Locked(lock, body) == <<Holding(0, {lock})>> \o With(0, {lock}, body) \o <<Nothing>>

----------------------------------------------------------------------------
\* A worker that takes a lock holds no other, and could still take a
\* connection.
MayFollow(next, held) ==
  /\ next.conns <= MaxDepth
  /\ next.locks \subseteq held.locks \/ (held.locks = {} /\ held.conns < MaxDepth)

\* What a worker holds and what is left of its script: each step may follow
\* the one before it, and in the end everything has been given back.
Orderly(held, script) ==
  /\ script \in Seq([conns : Nat, locks : SUBSET Locks])
  /\ \A i \in DOMAIN script : MayFollow(script[i], IF i = 1 THEN held ELSE script[i - 1])
  /\ (IF script = <<>> THEN held ELSE script[Len(script)]) = Nothing

ConnPoolTypeOK ==
  /\ holds \in [Workers -> [conns : 0..MaxDepth, locks : SUBSET Locks]]
  /\ DOMAIN rest = Workers
  /\ \A w \in Workers : Orderly(holds[w], rest[w])

Init ==
  /\ holds = [w \in Workers |-> Nothing]
  /\ rest = [w \in Workers |-> <<>>]

Busy(w) == rest[w] # <<>>

\* Connections in use, one pair for each.
InUse == {c \in Workers \X (1..MaxOpen) : c[2] <= holds[c[1]].conns}

Free(lock) == \A w \in Workers : lock \notin holds[w].locks

\* The next step only gives back, or what it takes is there.
CanStep(w) ==
  /\ Busy(w)
  /\ LET next == Head(rest[w]) IN
     /\ next.conns > holds[w].conns => Cardinality(InUse) < MaxOpen
     /\ \A lock \in next.locks \ holds[w].locks : Free(lock)

Start(w, script) ==
  /\ ~Busy(w)
  /\ rest' = [rest EXCEPT ![w] = script]
  /\ UNCHANGED holds

Step(w) ==
  /\ CanStep(w)
  /\ holds' = [holds EXCEPT ![w] = Head(rest[w])]
  /\ rest' = [rest EXCEPT ![w] = Tail(rest[w])]

\* A statement fails or finds nothing to go on with, and the request returns:
\* the deferred calls close the rows, end the transaction and unlock.
EndEarly(w) ==
  /\ CanStep(w)
  /\ holds' = [holds EXCEPT ![w] = Nothing]
  /\ rest' = [rest EXCEPT ![w] = <<>>]

Next == \E w \in Workers :
          \/ \E script \in Scripts : Start(w, script)
          \/ Step(w) \/ EndEarly(w)

Spec == Init /\ [][Next]_vars

----------------------------------------------------------------------------
\* The workers that hold connections.
Holders == {w \in Workers : holds[w].conns > 0}

Stalled == (\E w \in Workers : Busy(w)) /\ \A w \in Workers : ~CanStep(w)

\* The server stops for good only by running out of connections, and only
\* when so many requests have some open and ask for one more that the pool
\* cannot have given each of them all but its last: no two wait for each
\* other's locks, whoever refills a cache under its lock waits for nothing
\* but a connection, and no lock outlives the request that took it (dbreads'
\* loops over open rows, admin's transactions).
OnlyExhaustionStalls ==
  Stalled => /\ Cardinality(InUse) >= MaxOpen
             /\ Cardinality(Holders) * (MaxDepth - 1) >= MaxOpen
=============================================================================
