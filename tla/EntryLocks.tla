----------------------------- MODULE EntryLocks -----------------------------
(***************************************************************************)
(* The two locks of the Entry server: the job manager's ("jobs") and the   *)
(* worker registry's ("workers"), both Go RWMutexes, and the goroutines    *)
(* that take them.                                                         *)
(*                                                                         *)
(* A handler is reduced to the sets of paths through it, and a path to its *)
(* lock operations and outgoing HTTP requests, in order.  What the         *)
(* critical sections do to the data is the business of JobManager.         *)
(*                                                                         *)
(* docs/architecture-distilled.md, "Locking Rules", forbids to hold both   *)
(* locks at the same time and to hold one while making HTTP requests.  The *)
(* first is broken in one place, where createJobWithTaskPlan finds that    *)
(* the job exists and releases its reservations.                           *)
(***************************************************************************)
EXTENDS Integers, Sequences

CONSTANTS
  Goroutines,      \* requests and tickers served at the same time
  MaxSegments      \* bound on the segments of a job

Locks == {"jobs", "workers"}
Nobody == "nobody"

ASSUME LocksAssumption == MaxSegments \in Nat \ {0} /\ Nobody \notin Goroutines

VARIABLES
  todo,            \* [Goroutines -> Seq(steps)]: what is left of the path; <<>> is idle
  writer,          \* [Locks -> Goroutines or Nobody]: who has the write lock
  pending,         \* [Locks -> Goroutines or Nobody]: who waits for the readers to leave
  readers,         \* [Locks -> SUBSET Goroutines]: who has a read lock
  queued           \* [Locks -> SUBSET Goroutines]: readers that wait for the writer

vars == <<todo, writer, pending, readers, queued>>

-----------------------------------------------------------------------------
(* The paths. *)

Section(l, lock, unlock) == << <<l, lock>>, <<l, unlock>> >>
Write(l) == Section(l, "Lock", "Unlock")
Read(l) == Section(l, "RLock", "RUnlock")
Http == << <<"http", "Do">> >>

Then(first, rest) == {first \o p : p \in rest}

\* RegisterWorker, HeartbeatWorker and the reading of the status, the two tickers.
RegisterPaths == {Write("workers")}
HeartbeatPaths == {Write("workers"), Write("workers") \o Read("workers")}
TickerPaths == {Write("workers")}

\* n segments reserved one after the other.
Reservations(n) == [k \in 1 .. 2 * n |-> Write("workers")[IF k % 2 = 1 THEN 1 ELSE 2]]

\* The job is new, or it exists and the reservations go back under both locks.
CommitJob ==
  {Write("jobs"), << <<"jobs", "Lock">> >> \o Write("workers") \o << <<"jobs", "Unlock">> >>}

CreateJobPaths ==
  LET reserved == UNION {Then(Reservations(n), CommitJob \cup {Write("workers")}) : n \in 1 .. MaxSegments}
  IN  Then(Read("workers"), {<<>>} \cup Then(Read("jobs"), {<<>>} \cup reserved))

QueryPaths == {Read("jobs")}
AcceptPaths == {Write("jobs")}
FailPaths == {Write("jobs"), Write("jobs") \o Write("workers")}

MarkAssembleStartFailed == Write("jobs") \o Write("workers")

\* A slip: the worker is asked before the manager's lock is given back.
StartRequestLocked ==
  Then(<< <<"jobs", "Lock">> >> \o Http \o << <<"jobs", "Unlock">> >>,
       {Write("jobs"), MarkAssembleStartFailed, Write("workers") \o MarkAssembleStartFailed})

\* The task is inserted; the worker took it, refused it, or is short of disk.
StartRequest ==
  Then(Write("jobs") \o Http,
       {Write("jobs"), MarkAssembleStartFailed, Write("workers") \o MarkAssembleStartFailed})

\* A slip: the job is marked failed from inside the registry's search.
StartAssemblePathsInverted ==
  Then(Read("jobs"),
       {<<>>, << <<"workers", "Lock">> >> \o Write("jobs") \o << <<"workers", "Unlock">> >>} \cup
       Then(Write("workers"),
            {Write("workers") \o Write("jobs"), Write("jobs") \o Write("workers")}
            \cup StartRequest))

\* startAssembleGIF; nobody has room, no ID can be made, or the job is not in its
\* state any more.
StartAssemblePaths ==
  Then(Read("jobs"),
       {<<>>} \cup
       Then(Write("workers"),
            {Write("jobs"), Write("workers") \o Write("jobs"), Write("jobs") \o Write("workers")}
            \cup StartRequest))

\* A slip in the error returns: the lock is given back twice.
CompletePathsUnlockTwice ==
  {Write("jobs") \o << <<"jobs", "Unlock">> >>}
  \cup Then(Write("jobs") \o Write("workers"), {<<>>} \cup StartAssemblePaths)

\* An error return, a segment that is not the last, or the last one.
CompletePaths ==
  {Write("jobs")}
  \cup Then(Write("jobs") \o Write("workers"), {<<>>} \cup StartAssemblePaths)

\* completeAssembleJob, failAssembleJob, and the notification of the source.
AssembledPaths ==
  LET report == {Write("jobs"), Write("jobs") \o Write("workers") \o Http}
  IN  {Read("workers")} \cup report \cup Then(Read("workers"), report)

Paths ==
  RegisterPaths \cup HeartbeatPaths \cup TickerPaths \cup CreateJobPaths \cup QueryPaths
  \cup AcceptPaths \cup FailPaths \cup CompletePaths \cup AssembledPaths

-----------------------------------------------------------------------------
LocksInit ==
  /\ todo = [g \in Goroutines |-> <<>>]
  /\ writer = [l \in Locks |-> Nobody] /\ pending = [l \in Locks |-> Nobody]
  /\ readers = [l \in Locks |-> {}] /\ queued = [l \in Locks |-> {}]

At(g, l, operation) == todo[g] # <<>> /\ Head(todo[g]) = <<l, operation>>

\* The goroutines of `who` go on.
Advance(who) == todo' = [g \in Goroutines |-> IF g \in who THEN Tail(todo[g]) ELSE todo[g]]

Serve(g) ==
  /\ todo[g] = <<>>
  /\ \E path \in Paths : todo' = [todo EXCEPT ![g] = path]
  /\ UNCHANGED <<writer, pending, readers, queued>>

\* The writers' own mutex is taken, and new readers are kept out.
Announce(g, l) ==
  /\ At(g, l, "Lock")
  /\ writer[l] = Nobody /\ pending[l] = Nobody
  /\ pending' = [pending EXCEPT ![l] = g]
  /\ UNCHANGED <<todo, writer, readers, queued>>

Lock(g, l) ==
  /\ pending[l] = g
  /\ readers[l] = {}
  /\ pending' = [pending EXCEPT ![l] = Nobody]
  /\ writer' = [writer EXCEPT ![l] = g]
  /\ Advance({g})
  /\ UNCHANGED <<readers, queued>>

\* The readers that wait come before the next writer.
Unlock(g, l) ==
  /\ At(g, l, "Unlock")
  /\ writer' = [writer EXCEPT ![l] = Nobody]
  /\ readers' = [readers EXCEPT ![l] = @ \cup queued[l]]
  /\ queued' = [queued EXCEPT ![l] = {}]
  /\ Advance({g} \cup queued[l])
  /\ UNCHANGED pending

RLock(g, l) ==
  /\ At(g, l, "RLock") /\ g \notin queued[l]
  /\ IF writer[l] = Nobody /\ pending[l] = Nobody
     THEN readers' = [readers EXCEPT ![l] = @ \cup {g}] /\ Advance({g}) /\ UNCHANGED queued
     ELSE queued' = [queued EXCEPT ![l] = @ \cup {g}] /\ UNCHANGED <<todo, readers>>
  /\ UNCHANGED <<writer, pending>>

RUnlock(g, l) ==
  /\ At(g, l, "RUnlock")
  /\ readers' = [readers EXCEPT ![l] = @ \ {g}]
  /\ Advance({g})
  /\ UNCHANGED <<writer, pending, queued>>

\* The client has a timeout of its own.
Do(g) ==
  /\ At(g, "http", "Do")
  /\ Advance({g})
  /\ UNCHANGED <<writer, pending, readers, queued>>

Step(g) ==
  \/ \E l \in Locks : Announce(g, l) \/ Lock(g, l) \/ Unlock(g, l) \/ RLock(g, l) \/ RUnlock(g, l)
  \/ Do(g)

LocksNext == \E g \in Goroutines : Serve(g) \/ Step(g)

LocksSpec == LocksInit /\ [][LocksNext]_vars

-----------------------------------------------------------------------------
(* Properties. *)

Holds(g, l) == writer[l] = g \/ g \in readers[l]

\* docs: "Never hold any manager lock while making HTTP requests."  On every path,
\* after whatever branches led there.
NoLockAcrossHttp ==
  \A g \in Goroutines : At(g, "http", "Do") => \A l \in Locks : ~Holds(g, l)

\* Go ends the process when a mutex that is not locked is unlocked, and a lock that
\* is kept stops the server: on every path, error returns included, each lock is
\* given back by who has it, once.
UnlocksOwnLock ==
  \A g \in Goroutines, l \in Locks :
    /\ At(g, l, "Unlock") => writer[l] = g
    /\ At(g, l, "RUnlock") => g \in readers[l]
    /\ todo[g] = <<>> => ~Holds(g, l)

\* g can go on only after h did: h has the lock or, if g wants to read, is about to.
WaitsFor(g, h) ==
  \E l \in Locks :
    \/ At(g, l, "Lock") /\ pending[l] # g /\ h \in {writer[l], pending[l]}
    \/ pending[l] = g /\ h \in readers[l]
    \/ g \in queued[l] /\ h \in {writer[l], pending[l]}

\* No goroutines wait for each other in a circle, although one path takes the
\* registry's lock with the manager's held and a writer that waits keeps readers
\* out.  With UnlocksOwnLock: every lock that is waited for is given back.
NoWaitCycle ==
  \A waiting \in (SUBSET Goroutines) \ {{}} :
    \E g \in waiting : \A h \in waiting : ~WaitsFor(g, h)
=============================================================================
