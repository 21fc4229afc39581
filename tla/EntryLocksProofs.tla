-------------------------- MODULE EntryLocksProofs --------------------------
(***************************************************************************)
(* The lock discipline of the Entry server for any number of goroutines    *)
(* and segments.  That a path gives back what it takes, in order, is a     *)
(* property of a few neighbouring steps (Tidy); it passes from two paths   *)
(* to the one after the other and from a path to what is left of it, so    *)
(* what a goroutine holds can be read off its next steps.                  *)
(***************************************************************************)
EXTENDS EntryLocks, TLAPS

Operations == {"Lock", "Unlock", "RLock", "RUnlock"}
Steps == {<<l, operation>> : l \in Locks, operation \in Operations} \cup {<<"http", "Do">>}
End == <<"end", "end">>

\* The k-th step of p, or End behind the last one.
StepAt(p, k) == IF k <= Len(p) THEN p[k] ELSE End

\* Nothing is held before the k-th step of p.
Free(p, k) ==
  \/ StepAt(p, k) \in {End, <<"http", "Do">>, <<"jobs", "Lock">>, <<"jobs", "RLock">>,
                       <<"workers", "RLock">>}
  \/ StepAt(p, k) = <<"workers", "Lock">> /\ StepAt(p, k + 2) # <<"jobs", "Unlock">>

\* The k-th step of p is followed as it must be.
TidyAt(p, k) ==
  /\ StepAt(p, k) = <<"jobs", "Lock">> =>
       \/ StepAt(p, k + 1) = <<"jobs", "Unlock">>
       \/ /\ StepAt(p, k + 1) = <<"workers", "Lock">> /\ StepAt(p, k + 2) = <<"workers", "Unlock">>
          /\ StepAt(p, k + 3) = <<"jobs", "Unlock">>
  /\ StepAt(p, k) = <<"workers", "Lock">> => StepAt(p, k + 1) = <<"workers", "Unlock">>
  /\ StepAt(p, k) = <<"jobs", "RLock">> => StepAt(p, k + 1) = <<"jobs", "RUnlock">>
  /\ StepAt(p, k) = <<"workers", "RLock">> => StepAt(p, k + 1) = <<"workers", "RUnlock">>
  /\ StepAt(p, k) \in {<<"http", "Do">>, <<"jobs", "Unlock">>, <<"jobs", "RUnlock">>,
                       <<"workers", "RUnlock">>} => Free(p, k + 1)
  /\ StepAt(p, k) = <<"workers", "Unlock">> =>
       StepAt(p, k + 1) = <<"jobs", "Unlock">> \/ Free(p, k + 1)

Tidy(p) == \A k \in 1 .. Len(p) : TidyAt(p, k)

Balanced(p) == p \in Seq(Steps) /\ Tidy(p) /\ Free(p, 1)

-----------------------------------------------------------------------------
(* Steps of concatenations and of tails. *)

\* A step of two paths one after the other is a step of the first or of the second.
LEMMA StepOfConcat ==
  ASSUME NEW p \in Seq(Steps), NEW q \in Seq(Steps), NEW k \in Nat \ {0}
  PROVE  /\ p \o q \in Seq(Steps) /\ Len(p \o q) = Len(p) + Len(q)
         /\ k <= Len(p) => StepAt(p \o q, k) = StepAt(p, k)
         /\ k > Len(p) => StepAt(p \o q, k) = StepAt(q, k - Len(p))
BY DEF StepAt

\* The steps of what is left come one later.
LEMMA StepOfTail ==
  ASSUME NEW p \in Seq(Steps), p # <<>>, NEW k \in Nat \ {0}
  PROVE  /\ Tail(p) \in Seq(Steps) /\ Len(Tail(p)) = Len(p) - 1
         /\ StepAt(Tail(p), k) = StepAt(p, k + 1)
BY DEF StepAt

\* The first step, or the end of the path.
LEMMA StepOfHead ==
  ASSUME NEW p \in Seq(Steps)
  PROVE  /\ p = <<>> <=> StepAt(p, 1) = End
         /\ p # <<>> => StepAt(p, 1) = Head(p)
<1>1. \A s \in Steps : s # End
  BY DEF Steps, End, Locks, Operations
<1>2. CASE p = <<>>
  BY <1>2 DEF StepAt
<1>3. CASE p # <<>>
  <2>1. Len(p) >= 1 /\ p[1] \in Steps /\ Head(p) = p[1]
    BY <1>3
  <2> QED
    BY <1>1, <1>3, <2>1 DEF StepAt
<1> QED
  BY <1>2, <1>3

\* A path that follows another: the lock discipline carries over.
LEMMA BalancedConcat ==
  ASSUME NEW p, NEW q, Balanced(p), Balanced(q)
  PROVE  Balanced(p \o q)
<1>0. p \in Seq(Steps) /\ q \in Seq(Steps) /\ Len(p) \in Nat /\ Len(q) \in Nat
  BY DEF Balanced
<1>1. p \o q \in Seq(Steps) /\ Len(p \o q) = Len(p) + Len(q)
  BY <1>0, StepOfConcat
<1>2. \A k \in Nat \ {0} : /\ k <= Len(p) => StepAt(p \o q, k) = StepAt(p, k)
                           /\ k > Len(p) => StepAt(p \o q, k) = StepAt(q, k - Len(p))
  BY <1>0, StepOfConcat
<1>3. \A k \in Nat \ {0} : k > Len(p) => StepAt(p, k) = End
  BY <1>0 DEF StepAt
<1>4. ASSUME NEW k \in Nat \ {0}, k <= Len(p) + 1, Free(p, k) PROVE Free(p \o q, k)
  <2>1. CASE k = Len(p) + 1
    <3>1. StepAt(p \o q, k) = StepAt(q, 1) /\ StepAt(p \o q, k + 2) = StepAt(q, 3)
      BY <1>0, <1>2, <2>1
    <3> QED
      BY <3>1 DEF Balanced, Free
  <2>2. CASE k <= Len(p)
    <3>1. StepAt(p \o q, k) = StepAt(p, k)
      BY <1>2, <2>2
    <3>2. ASSUME StepAt(p, k) = <<"workers", "Lock">>
          PROVE  StepAt(p \o q, k + 2) # <<"jobs", "Unlock">>
      <4>1. StepAt(p, k + 1) = <<"workers", "Unlock">>
        BY <2>2, <3>2 DEF Balanced, Tidy, TidyAt
      <4>2. k + 1 <= Len(p)
        BY <1>0, <1>3, <4>1 DEF End
      <4>3. CASE k + 2 <= Len(p)
        <5>1. StepAt(p \o q, k + 2) = StepAt(p, k + 2)
          BY <1>2, <4>3
        <5> QED
          BY <1>4, <3>2, <5>1 DEF Free, End
      <4>4. CASE k + 2 = Len(p) + 1
        <5>1. StepAt(p \o q, k + 2) = StepAt(q, 1)
          BY <1>0, <1>2, <4>4
        <5> QED
          BY <5>1 DEF Balanced, Free, End
      <4> QED
        BY <1>0, <4>2, <4>3, <4>4
    <3> QED
      BY <1>4, <3>1, <3>2 DEF Free
  <2> QED
    BY <1>0, <1>4, <2>1, <2>2
<1>5. ASSUME NEW k \in Nat \ {0}, Free(q, k) PROVE Free(p \o q, k + Len(p))
  <2>1. StepAt(p \o q, k + Len(p)) = StepAt(q, k) /\ StepAt(p \o q, k + Len(p) + 2) = StepAt(q, k + 2)
    BY <1>0, <1>2
  <2> QED
    BY <1>5, <2>1 DEF Free
<1>6. ASSUME NEW k \in 1 .. Len(p) PROVE TidyAt(p \o q, k)
  <2>1. TidyAt(p, k)
    BY DEF Balanced, Tidy
  <2>2. StepAt(p \o q, k) = StepAt(p, k)
    BY <1>2
  <2>3. \A i \in 1 .. 3 : StepAt(p, k + i) # End => StepAt(p \o q, k + i) = StepAt(p, k + i)
    BY <1>0, <1>2, <1>3
  <2>4. Free(p, k + 1) => Free(p \o q, k + 1)
    BY <1>0, <1>4
  <2> QED
    BY <2>1, <2>2, <2>3, <2>4 DEF TidyAt, End
<1>7. ASSUME NEW k \in 1 .. Len(q) PROVE TidyAt(p \o q, k + Len(p))
  <2>1. TidyAt(q, k)
    BY DEF Balanced, Tidy
  <2>2. /\ StepAt(p \o q, k + Len(p)) = StepAt(q, k)
        /\ StepAt(p \o q, k + Len(p) + 1) = StepAt(q, k + 1)
        /\ StepAt(p \o q, k + Len(p) + 2) = StepAt(q, k + 2)
        /\ StepAt(p \o q, k + Len(p) + 3) = StepAt(q, k + 3)
    BY <1>0, <1>2
  <2>3. Free(q, k + 1) => Free(p \o q, k + Len(p) + 1)
    <3>1. (k + 1) + Len(p) = k + Len(p) + 1 /\ k + 1 \in Nat \ {0}
      BY <1>0
    <3> QED
      BY <1>5, <3>1
  <2> QED
    BY <2>1, <2>2, <2>3 DEF TidyAt
<1>8. Tidy(p \o q)
  <2> SUFFICES ASSUME NEW k \in 1 .. Len(p) + Len(q) PROVE TidyAt(p \o q, k)
    BY <1>1 DEF Tidy
  <2>1. CASE k <= Len(p)
    BY <1>0, <1>6, <2>1
  <2>2. CASE k > Len(p)
    <3>1. k - Len(p) \in 1 .. Len(q) /\ (k - Len(p)) + Len(p) = k
      BY <1>0, <2>2
    <3> QED
      BY <1>7, <3>1
  <2> QED
    BY <1>0, <2>1, <2>2
<1> QED
  BY <1>0, <1>1, <1>4, <1>8 DEF Balanced

-----------------------------------------------------------------------------
(* Every path is balanced. *)

\* A section of its own under one lock.
LEMMA BalancedSection ==
  ASSUME NEW l \in Locks
  PROVE  Balanced(Write(l)) /\ Balanced(Read(l))
<1>1. ASSUME NEW a, NEW b, <<a, b>> \in {<<"Lock", "Unlock">>, <<"RLock", "RUnlock">>}
      PROVE  Balanced(Section(l, a, b))
  <2> DEFINE p == Section(l, a, b)
  <2>1. <<l, a>> \in Steps /\ <<l, b>> \in Steps
    BY <1>1 DEF Steps, Operations
  <2>2. p \in Seq(Steps) /\ Len(p) = 2 /\ p[1] = <<l, a>> /\ p[2] = <<l, b>>
    BY <2>1 DEF Section
  <2> HIDE DEF p
  <2>3. /\ StepAt(p, 1) = <<l, a>> /\ StepAt(p, 2) = <<l, b>>
        /\ StepAt(p, 3) = End /\ StepAt(p, 4) = End /\ StepAt(p, 5) = End
    BY <2>2 DEF StepAt
  <2>4. Free(p, 1) /\ Free(p, 3)
    BY <1>1, <2>3 DEF Free, End, Locks
  <2>5. TidyAt(p, 1) /\ TidyAt(p, 2)
    BY <1>1, <2>3, <2>4 DEF TidyAt, Locks
  <2> QED
    BY <2>2, <2>4, <2>5 DEF Balanced, Tidy, p
<1> QED
  BY <1>1 DEF Write, Read

\* A request, and nothing at all.
LEMMA BalancedHttp == Balanced(Http) /\ Balanced(<<>>)
<1>1. Http \in Seq(Steps) /\ Len(Http) = 1 /\ Http[1] = <<"http", "Do">>
  BY DEF Http, Steps
<1>2. StepAt(Http, 1) = <<"http", "Do">> /\ StepAt(Http, 2) = End
  BY <1>1 DEF StepAt
<1>3. Free(Http, 1) /\ Free(Http, 2)
  BY <1>2 DEF Free
<1>4. TidyAt(Http, 1)
  BY <1>2, <1>3 DEF TidyAt
<1>5. <<>> \in Seq(Steps) /\ Len(<<>>) = 0 /\ StepAt(<<>>, 1) = End
  BY DEF StepAt
<1> QED
  BY <1>1, <1>3, <1>4, <1>5 DEF Balanced, Tidy, Free

\* The one place where both locks are held.
LEMMA BalancedCommit == \A p \in CommitJob : Balanced(p)
<1> DEFINE p == << <<"jobs", "Lock">> >> \o Write("workers") \o << <<"jobs", "Unlock">> >>
<1>1. p \in Seq(Steps)
  <2>1. << <<"jobs", "Lock">> >> \in Seq(Steps) /\ << <<"jobs", "Unlock">> >> \in Seq(Steps)
    BY DEF Steps, Locks, Operations
  <2>2. Write("workers") \in Seq(Steps)
    BY BalancedSection DEF Balanced, Locks
  <2> QED
    BY <2>1, <2>2
<1>2. /\ Len(p) = 4 /\ p[1] = <<"jobs", "Lock">> /\ p[2] = <<"workers", "Lock">>
      /\ p[3] = <<"workers", "Unlock">> /\ p[4] = <<"jobs", "Unlock">>
  BY DEF Write, Section
<1> HIDE DEF p
<1>3. /\ StepAt(p, 1) = <<"jobs", "Lock">> /\ StepAt(p, 2) = <<"workers", "Lock">>
      /\ StepAt(p, 3) = <<"workers", "Unlock">> /\ StepAt(p, 4) = <<"jobs", "Unlock">>
      /\ StepAt(p, 5) = End /\ StepAt(p, 6) = End /\ StepAt(p, 7) = End
  BY <1>2 DEF StepAt
<1>4. Free(p, 1) /\ Free(p, 5)
  BY <1>3 DEF Free
<1>5. TidyAt(p, 1) /\ TidyAt(p, 2)
  BY <1>3, <1>4 DEF TidyAt
<1>6. TidyAt(p, 3) /\ TidyAt(p, 4)
  BY <1>3, <1>4 DEF TidyAt
<1>7. Balanced(p)
  <2>1. \A k \in 1 .. 4 : k = 1 \/ k = 2 \/ k = 3 \/ k = 4
    OBVIOUS
  <2> QED
    BY <1>1, <1>2, <1>4, <1>5, <1>6, <2>1 DEF Balanced, Tidy
<1>8. Balanced(Write("jobs"))
  BY BalancedSection DEF Locks
<1> QED
  BY <1>7, <1>8 DEF CommitJob, p

\* Any number of reservations one after the other.
LEMMA BalancedReservations == \A n \in Nat : Balanced(Reservations(n))
<1> SUFFICES ASSUME NEW n \in Nat PROVE Balanced(Reservations(n))
  OBVIOUS
<1> DEFINE p == Reservations(n)
           wl == <<"workers", "Lock">>
           wu == <<"workers", "Unlock">>
<1>1. /\ p = [k \in 1 .. 2 * n |-> IF k % 2 = 1 THEN wl ELSE wu]
      /\ wl \in Steps /\ wu \in Steps
  <2>1. Write("workers")[1] = wl /\ Write("workers")[2] = wu
    BY DEF Write, Section
  <2> QED
    BY <2>1 DEF Reservations, Steps, Locks, Operations
<1>2. p \in Seq(Steps) /\ Len(p) = 2 * n
  BY <1>1
<1>3. \A k \in 1 .. 2 * n : p[k] = IF k % 2 = 1 THEN wl ELSE wu
  BY <1>1
<1> HIDE DEF p
<1>4. \A k \in Nat \ {0} : StepAt(p, k) \in {wl, wu, End}
  BY <1>2, <1>3 DEF StepAt
<1>5. \A k \in Nat \ {0} : StepAt(p, k) = wl => StepAt(p, k + 1) = wu
  <2> SUFFICES ASSUME NEW k \in Nat \ {0}, StepAt(p, k) = wl PROVE StepAt(p, k + 1) = wu
    OBVIOUS
  <2>1. k <= 2 * n /\ k % 2 = 1
    BY <1>2, <1>3 DEF StepAt, End
  <2>2. k + 1 <= 2 * n /\ (k + 1) % 2 # 1
    BY <2>1
  <2> QED
    BY <1>2, <1>3, <2>2 DEF StepAt
<1>6. \A k \in Nat \ {0} : StepAt(p, k) = wu => StepAt(p, k + 1) # wu
  <2> SUFFICES ASSUME NEW k \in Nat \ {0}, StepAt(p, k) = wu, StepAt(p, k + 1) = wu PROVE FALSE
    OBVIOUS
  <2>1. k + 1 <= 2 * n
    BY <1>2 DEF StepAt, End
  <2>2. k % 2 # 1 /\ (k + 1) % 2 # 1
    BY <1>2, <1>3, <2>1 DEF StepAt
  <2> QED
    BY <2>2
<1>7. ASSUME NEW k \in Nat \ {0}, StepAt(p, k) # wu PROVE Free(p, k)
  <2>1. StepAt(p, k + 2) # <<"jobs", "Unlock">>
    BY <1>4 DEF End
  <2> QED
    BY <1>4, <1>7, <2>1 DEF Free
<1>8. StepAt(p, 1) # wu
  BY <1>2, <1>3 DEF StepAt, End
<1>9. ASSUME NEW k \in 1 .. Len(p) PROVE TidyAt(p, k)
  <2>1. k \in Nat \ {0} /\ k + 1 \in Nat \ {0} /\ StepAt(p, k) \in {wl, wu, End}
    BY <1>2, <1>4
  <2>2. CASE StepAt(p, k) = wl
    BY <1>5, <2>1, <2>2 DEF TidyAt
  <2>3. CASE StepAt(p, k) = wu
    <3>1. Free(p, k + 1)
      BY <1>6, <1>7, <2>1, <2>3
    <3> QED
      BY <2>3, <3>1 DEF TidyAt
  <2>4. CASE StepAt(p, k) = End
    BY <2>4 DEF TidyAt, End
  <2> QED
    BY <2>1, <2>2, <2>3, <2>4
<1> QED
  BY <1>2, <1>7, <1>8, <1>9 DEF Balanced, Tidy, p

\* A balanced beginning in front of balanced paths.
LEMMA BalancedThen ==
  ASSUME NEW first, Balanced(first), NEW rest, \A p \in rest : Balanced(p)
  PROVE  \A p \in Then(first, rest) : Balanced(p)
BY BalancedConcat DEF Then

\* Every path through every handler is balanced, for any number of segments.
LEMMA PathsBalanced == \A p \in Paths : Balanced(p)
<1>1. \A l \in Locks : Balanced(Write(l)) /\ Balanced(Read(l))
  BY BalancedSection
<1>2. /\ Balanced(Write("jobs")) /\ Balanced(Write("workers"))
      /\ Balanced(Read("jobs")) /\ Balanced(Read("workers"))
  BY <1>1 DEF Locks
<1>3. \A p, q : Balanced(p) /\ Balanced(q) => Balanced(p \o q)
  BY BalancedConcat
<1>4. Balanced(Http) /\ Balanced(<<>>)
  BY BalancedHttp
<1> USE <1>2
<1>5. \A p \in CreateJobPaths : Balanced(p)
  <2> DEFINE After(n) == Then(Reservations(n), CommitJob \cup {Write("workers")})
             reserved == UNION {After(n) : n \in 1 .. MaxSegments}
             known == {<<>>} \cup Then(Read("jobs"), {<<>>} \cup reserved)
  <2>1. \A n \in 1 .. MaxSegments : \A p \in After(n) : Balanced(p)
    <3> SUFFICES ASSUME NEW n \in 1 .. MaxSegments PROVE \A p \in After(n) : Balanced(p)
      OBVIOUS
    <3>1. Balanced(Reservations(n))
      BY BalancedReservations
    <3>2. \A p \in CommitJob \cup {Write("workers")} : Balanced(p)
      BY BalancedCommit
    <3> QED
      BY <3>1, <3>2, BalancedThen
  <2>2. \A p \in {<<>>} \cup reserved : Balanced(p)
    BY <1>4, <2>1
  <2>3. CreateJobPaths = Then(Read("workers"), known)
    BY DEF CreateJobPaths
  <2> HIDE DEF reserved
  <2>4. \A p \in known : Balanced(p)
    BY <1>4, <2>2, BalancedThen
  <2> HIDE DEF known
  <2> QED
    BY <2>3, <2>4, BalancedThen
<1>6. \A p \in StartRequest : Balanced(p)
  <2>1. Balanced(MarkAssembleStartFailed) /\ Balanced(Write("workers") \o MarkAssembleStartFailed)
    BY <1>3 DEF MarkAssembleStartFailed
  <2>2. Balanced(Write("jobs") \o Http)
    BY <1>3, <1>4
  <2> QED
    BY <2>1, <2>2, BalancedThen DEF StartRequest
<1>7. \A p \in StartAssemblePaths : Balanced(p)
  <2> DEFINE picked == {Write("jobs"), Write("workers") \o Write("jobs"),
                        Write("jobs") \o Write("workers")} \cup StartRequest
             found == {<<>>} \cup Then(Write("workers"), picked)
  <2>1. \A p \in picked : Balanced(p)
    BY <1>3, <1>6
  <2>2. StartAssemblePaths = Then(Read("jobs"), found)
    BY DEF StartAssemblePaths
  <2> HIDE DEF picked
  <2>3. \A p \in found : Balanced(p)
    BY <1>4, <2>1, BalancedThen
  <2> HIDE DEF found
  <2> QED
    BY <2>2, <2>3, BalancedThen
<1>8. \A p \in CompletePaths : Balanced(p)
  <2>1. \A p \in {<<>>} \cup StartAssemblePaths : Balanced(p)
    BY <1>4, <1>7
  <2>2. Balanced(Write("jobs") \o Write("workers"))
    BY <1>3
  <2> QED
    BY <2>1, <2>2, BalancedThen DEF CompletePaths
<1>9. \A p \in AssembledPaths : Balanced(p)
  <2> DEFINE report == {Write("jobs"), Write("jobs") \o Write("workers") \o Http}
  <2>1. \A p \in report : Balanced(p)
    BY <1>3, <1>4
  <2>2. AssembledPaths = {Read("workers")} \cup report \cup Then(Read("workers"), report)
    BY DEF AssembledPaths
  <2> HIDE DEF report
  <2> QED
    BY <2>1, <2>2, BalancedThen
<1>10. \A p \in HeartbeatPaths \cup FailPaths : Balanced(p)
  BY <1>3 DEF HeartbeatPaths, FailPaths
<1> QED
  BY <1>5, <1>8, <1>9, <1>10 DEF Paths, RegisterPaths, TickerPaths, QueryPaths, AcceptPaths

-----------------------------------------------------------------------------
(* What a goroutine holds can be read off what is left of its path. *)

Keeps(p, l) ==
  \/ StepAt(p, 1) = <<l, "Unlock">>
  \/ /\ l = "jobs"
     /\ \/ StepAt(p, 1) = <<"workers", "Unlock">> /\ StepAt(p, 2) = <<"jobs", "Unlock">>
        \/ StepAt(p, 1) = <<"workers", "Lock">> /\ StepAt(p, 3) = <<"jobs", "Unlock">>

Reads(p, l) == StepAt(p, 1) = <<l, "RUnlock">>

\* What is free holds nothing.
LEMMA FreeHoldsNothing ==
  ASSUME NEW p, Free(p, 1), NEW l \in Locks
  PROVE  ~Keeps(p, l) /\ ~Reads(p, l)
BY DEF Free, Keeps, Reads, End, Locks

\* How one step of a tidy path changes what is held.
LEMMA TidyTail ==
  ASSUME NEW p \in Seq(Steps), p # <<>>, Tidy(p)
  PROVE  /\ Tail(p) \in Seq(Steps) /\ Tidy(Tail(p))
         /\ \A l \in Locks :
              /\ Head(p) = <<l, "Lock">> =>
                   /\ Keeps(Tail(p), l)
                   /\ \A m \in Locks : /\ ~Reads(Tail(p), m) /\ ~Reads(p, m)
                                       /\ m # l => (Keeps(Tail(p), m) <=> Keeps(p, m))
              /\ Head(p) = <<l, "Unlock">> =>
                   /\ ~Keeps(Tail(p), l)
                   /\ \A m \in Locks : /\ ~Reads(Tail(p), m) /\ ~Reads(p, m)
                                       /\ m # l => (Keeps(Tail(p), m) <=> Keeps(p, m))
              /\ Head(p) = <<l, "RLock">> =>
                   \A m \in Locks : /\ ~Keeps(Tail(p), m) /\ ~Keeps(p, m)
                                    /\ Reads(Tail(p), m) <=> m = l
                                    /\ ~Reads(p, m)
              /\ Head(p) \in {<<l, "RUnlock">>, <<"http", "Do">>} =>
                   \A m \in Locks : ~Keeps(Tail(p), m) /\ ~Keeps(p, m) /\ ~Reads(Tail(p), m)
<1> DEFINE q == Tail(p)
<1>1. q \in Seq(Steps) /\ Len(q) = Len(p) - 1 /\ Len(p) \in Nat \ {0}
  BY StepOfTail
<1>2. \A k \in Nat \ {0} : StepAt(q, k) = StepAt(p, k + 1)
  BY StepOfTail
<1> HIDE DEF q
<1>3. \A k \in Nat \ {0} : Free(p, k + 1) <=> Free(q, k)
  <2> SUFFICES ASSUME NEW k \in Nat \ {0} PROVE Free(p, k + 1) <=> Free(q, k)
    OBVIOUS
  <2>1. StepAt(q, k) = StepAt(p, k + 1) /\ StepAt(q, k + 2) = StepAt(p, (k + 1) + 2)
    BY <1>2
  <2> QED
    BY <2>1 DEF Free
<1>4. Tidy(q)
  <2> SUFFICES ASSUME NEW k \in 1 .. Len(q) PROVE TidyAt(q, k)
    BY DEF Tidy
  <2>1. TidyAt(p, k + 1)
    BY <1>1 DEF Tidy
  <2>2. /\ StepAt(q, k) = StepAt(p, k + 1) /\ StepAt(q, k + 1) = StepAt(p, (k + 1) + 1)
        /\ StepAt(q, k + 2) = StepAt(p, (k + 1) + 2) /\ StepAt(q, k + 3) = StepAt(p, (k + 1) + 3)
    BY <1>1, <1>2
  <2>3. Free(p, (k + 1) + 1) <=> Free(q, k + 1)
    BY <1>1, <1>3
  <2> QED
    BY <2>1, <2>2, <2>3 DEF TidyAt
<1>5. /\ StepAt(p, 1) = Head(p)
      /\ StepAt(p, 1) = <<"jobs", "Lock">> =>
           \/ StepAt(p, 2) = <<"jobs", "Unlock">>
           \/ /\ StepAt(p, 2) = <<"workers", "Lock">> /\ StepAt(p, 3) = <<"workers", "Unlock">>
              /\ StepAt(p, 4) = <<"jobs", "Unlock">>
      /\ StepAt(p, 1) = <<"workers", "Lock">> => StepAt(p, 2) = <<"workers", "Unlock">>
      /\ StepAt(p, 1) = <<"jobs", "RLock">> => StepAt(p, 2) = <<"jobs", "RUnlock">>
      /\ StepAt(p, 1) = <<"workers", "RLock">> => StepAt(p, 2) = <<"workers", "RUnlock">>
      /\ StepAt(p, 1) \in {<<"http", "Do">>, <<"jobs", "Unlock">>, <<"jobs", "RUnlock">>,
                           <<"workers", "RUnlock">>} => Free(p, 2)
      /\ StepAt(p, 1) = <<"workers", "Unlock">> =>
           StepAt(p, 2) = <<"jobs", "Unlock">> \/ Free(p, 2)
  <2>1. StepAt(p, 1) = Head(p) /\ TidyAt(p, 1)
    BY <1>1, StepOfHead DEF Tidy
  <2>2. 1 + 1 = 2 /\ 1 + 2 = 3 /\ 1 + 3 = 4
    OBVIOUS
  <2> QED
    BY <2>1, <2>2, Zenon DEF TidyAt
<1>6. StepAt(q, 1) = StepAt(p, 2) /\ StepAt(q, 2) = StepAt(p, 3) /\ StepAt(q, 3) = StepAt(p, 4)
  BY <1>2
<1>7. Free(p, 2) => \A m \in Locks : ~Keeps(q, m) /\ ~Reads(q, m)
  BY <1>3, FreeHoldsNothing
<1>8. ASSUME NEW l \in Locks, Head(p) = <<l, "Lock">>
      PROVE  /\ Keeps(q, l)
             /\ \A m \in Locks : /\ ~Reads(q, m) /\ ~Reads(p, m)
                                 /\ m # l => (Keeps(q, m) <=> Keeps(p, m))
  <2>1. CASE l = "jobs"
    <3>1. StepAt(p, 1) = <<"jobs", "Lock">>
      BY <1>5, <1>8, <2>1
    <3>2. \/ StepAt(q, 1) = <<"jobs", "Unlock">>
          \/ StepAt(q, 1) = <<"workers", "Lock">> /\ StepAt(q, 3) = <<"jobs", "Unlock">>
      BY <1>5, <1>6, <3>1
    <3>3. Keeps(q, "jobs") /\ ~Keeps(q, "workers") /\ ~Keeps(p, "workers")
      BY <3>1, <3>2 DEF Keeps
    <3>4. \A m \in Locks : ~Reads(q, m) /\ ~Reads(p, m)
      BY <3>1, <3>2 DEF Reads, Locks
    <3> QED
      BY <2>1, <3>3, <3>4 DEF Locks
  <2>2. CASE l = "workers"
    <3>1. StepAt(p, 1) = <<"workers", "Lock">> /\ StepAt(q, 1) = <<"workers", "Unlock">>
      BY <1>5, <1>6, <1>8, <2>2
    <3>2. Keeps(q, "workers") /\ (Keeps(q, "jobs") <=> Keeps(p, "jobs"))
      BY <1>6, <3>1 DEF Keeps
    <3>3. \A m \in Locks : ~Reads(q, m) /\ ~Reads(p, m)
      BY <3>1 DEF Reads, Locks
    <3> QED
      BY <2>2, <3>2, <3>3 DEF Locks
  <2> QED
    BY <2>1, <2>2 DEF Locks
<1>9. ASSUME NEW l \in Locks, Head(p) = <<l, "Unlock">>
      PROVE  /\ ~Keeps(q, l)
             /\ \A m \in Locks : /\ ~Reads(q, m) /\ ~Reads(p, m)
                                 /\ m # l => (Keeps(q, m) <=> Keeps(p, m))
  <2>1. CASE l = "jobs"
    <3>1. Free(p, 2)
      BY <1>5, <1>9, <2>1
    <3> QED
      BY <1>5, <1>7, <1>9, <2>1, <3>1 DEF Keeps, Reads, Locks
  <2>2. CASE l = "workers"
    <3>1. CASE StepAt(p, 2) = <<"jobs", "Unlock">>
      BY <1>5, <1>6, <1>9, <2>2, <3>1 DEF Keeps, Reads, Locks
    <3>2. CASE StepAt(p, 2) # <<"jobs", "Unlock">> /\ Free(p, 2)
      BY <1>5, <1>7, <1>9, <2>2, <3>2 DEF Keeps, Reads, Locks
    <3> QED
      BY <1>5, <1>9, <2>2, <3>1, <3>2
  <2> QED
    BY <2>1, <2>2 DEF Locks
<1>10. ASSUME NEW l \in Locks, Head(p) = <<l, "RLock">>, NEW m \in Locks
       PROVE  /\ ~Keeps(q, m) /\ ~Keeps(p, m) /\ (Reads(q, m) <=> m = l) /\ ~Reads(p, m)
  <2>1. StepAt(q, 1) = <<l, "RUnlock">>
    BY <1>5, <1>6, <1>10 DEF Locks
  <2> QED
    BY <1>5, <1>10, <2>1 DEF Keeps, Reads, Locks
<1>11. ASSUME NEW l \in Locks, Head(p) \in {<<l, "RUnlock">>, <<"http", "Do">>}, NEW m \in Locks
       PROVE  ~Keeps(q, m) /\ ~Keeps(p, m) /\ ~Reads(q, m)
  <2>1. Free(p, 2)
    BY <1>5, <1>11 DEF Locks
  <2> QED
    BY <1>5, <1>7, <1>11, <2>1 DEF Keeps, Locks
<1> QED
  BY <1>1, <1>4, <1>8, <1>9, <1>10, <1>11 DEF q

-----------------------------------------------------------------------------
(* The inductive invariant. *)

LocksTypeOK ==
  /\ todo \in [Goroutines -> Seq(Steps)]
  /\ writer \in [Locks -> Goroutines \cup {Nobody}]
  /\ pending \in [Locks -> Goroutines \cup {Nobody}]
  /\ readers \in [Locks -> SUBSET Goroutines]
  /\ queued \in [Locks -> SUBSET Goroutines]

\* The locks are held by the goroutines whose paths say so, and who waits is at
\* the operation it waits in.
LocksInv ==
  /\ LocksTypeOK
  /\ \A g \in Goroutines : Tidy(todo[g])
  /\ \A g \in Goroutines, l \in Locks :
       /\ writer[l] = g <=> Keeps(todo[g], l)
       /\ g \in readers[l] <=> Reads(todo[g], l)
       /\ pending[l] = g => At(g, l, "Lock")
       /\ g \in queued[l] => At(g, l, "RLock")
  /\ \A l \in Locks : pending[l] # Nobody => writer[l] = Nobody

\* At, in terms of the first step.
LEMMA AtFirst ==
  ASSUME LocksTypeOK, NEW g \in Goroutines, NEW l \in Locks \cup {"http"}, NEW operation
  PROVE  At(g, l, operation) <=> StepAt(todo[g], 1) = <<l, operation>>
<1>1. todo[g] \in Seq(Steps)
  BY DEF LocksTypeOK
<1>2. CASE todo[g] = <<>>
  <2>1. StepAt(todo[g], 1) = <<"end", "end">>
    BY <1>1, <1>2, StepOfHead DEF End
  <2>2. l # "end"
    BY DEF Locks
  <2> QED
    BY <1>2, <2>1, <2>2 DEF At
<1>3. CASE todo[g] # <<>>
  BY <1>1, <1>3, StepOfHead DEF At
<1> QED
  BY <1>2, <1>3

\* A goroutine that is left alone by a step, and what it holds with it.
Rests(g) ==
  /\ todo'[g] = todo[g]
  /\ \A l \in Locks : /\ writer'[l] = g <=> writer[l] = g
                      /\ g \in readers'[l] <=> g \in readers[l]
                      /\ pending'[l] = g => pending[l] = g
                      /\ g \in queued'[l] => g \in queued[l]

\* What the invariant says of one goroutine.
Accounted(g) ==
  /\ Tidy(todo[g])
  /\ \A l \in Locks : /\ writer[l] = g <=> Keeps(todo[g], l)
                      /\ g \in readers[l] <=> Reads(todo[g], l)
                      /\ pending[l] = g => At(g, l, "Lock")
                      /\ g \in queued[l] => At(g, l, "RLock")

\* What is left alone stays accounted for.
LEMMA RestingAccounted ==
  ASSUME NEW g \in Goroutines, Accounted(g), Rests(g)
  PROVE  Accounted(g)'
<1>1. \A l \in Locks : /\ Keeps(todo'[g], l) <=> Keeps(todo[g], l)
                       /\ Reads(todo'[g], l) <=> Reads(todo[g], l)
  BY DEF Rests
<1>2. \A l \in Locks, operation \in {"Lock", "RLock"} :
        At(g, l, operation) => At(g, l, operation)'
  BY DEF Rests, At
<1> QED
  BY <1>1, <1>2 DEF Rests, Accounted, Tidy

\* The invariant, one goroutine at a time.
LEMMA InvIsAccounted == LocksInv <=> /\ LocksTypeOK
                                     /\ \A g \in Goroutines : Accounted(g)
                                     /\ \A l \in Locks : pending[l] # Nobody => writer[l] = Nobody
BY DEF LocksInv, Accounted

\* A goroutine that takes one step, and holds what the rest of its path says.
LEMMA MovingAccounted ==
  ASSUME NEW g \in Goroutines, LocksTypeOK, Accounted(g), todo[g] # <<>>, todo'[g] = Tail(todo[g]),
         \A m \in Locks : /\ writer'[m] = g <=> Keeps(Tail(todo[g]), m)
                          /\ g \in readers'[m] <=> Reads(Tail(todo[g]), m)
                          /\ pending'[m] # g /\ g \notin queued'[m]
  PROVE  Accounted(g)'
<1>1. todo[g] \in Seq(Steps) /\ Tidy(todo[g])
  BY DEF LocksTypeOK, Accounted
<1>2. Tidy(todo'[g])
  BY <1>1, TidyTail
<1>3. Tidy(todo[g])'
  BY <1>2 DEF Tidy
<1>4. \A m \in Locks : /\ Keeps(todo[g], m)' <=> Keeps(Tail(todo[g]), m)
                       /\ Reads(todo[g], m)' <=> Reads(Tail(todo[g]), m)
  OBVIOUS
<1> QED
  BY <1>3, <1>4 DEF Accounted

\* Who waits for a lock, waits at its own operation.
LEMMA WaitsAtOneLock ==
  ASSUME NEW g \in Goroutines, Accounted(g), NEW l, NEW operation, At(g, l, operation)
  PROVE  \A m \in Locks : /\ pending[m] = g => m = l /\ operation = "Lock"
                          /\ g \in queued[m] => m = l /\ operation = "RLock"
BY DEF Accounted, At

\* Advance leaves a typed path.
LEMMA AdvanceType ==
  ASSUME LocksTypeOK, NEW who, Advance(who), \A g \in Goroutines : g \in who => todo[g] # <<>>
  PROVE  /\ todo' \in [Goroutines -> Seq(Steps)]
         /\ \A g \in Goroutines : /\ g \in who => todo'[g] = Tail(todo[g])
                                  /\ g \notin who => todo'[g] = todo[g]
BY DEF LocksTypeOK, Advance

\* Each step keeps the invariant.
LEMMA LocksStep == LocksInv /\ [LocksNext]_vars => LocksInv'
<1> SUFFICES ASSUME LocksInv, [LocksNext]_vars PROVE LocksInv'
  OBVIOUS
<1>0. /\ LocksTypeOK /\ \A g \in Goroutines : Accounted(g)
      /\ \A l \in Locks : pending[l] # Nobody => writer[l] = Nobody
      /\ Nobody \notin Goroutines
  BY InvIsAccounted, LocksAssumption
<1> SUFFICES /\ LocksTypeOK' /\ \A g \in Goroutines : Accounted(g)'
             /\ \A l \in Locks : pending'[l] # Nobody => writer'[l] = Nobody
  BY DEF LocksInv, Accounted
<1>t. \A g \in Goroutines : todo[g] \in Seq(Steps)
  BY <1>0 DEF LocksTypeOK
<1>1. ASSUME NEW g \in Goroutines, Serve(g)
      PROVE  /\ LocksTypeOK' /\ \A h \in Goroutines : Accounted(h)'
             /\ \A l \in Locks : pending'[l] # Nobody => writer'[l] = Nobody
  <2>1. PICK path \in Paths : todo' = [todo EXCEPT ![g] = path]
    BY <1>1 DEF Serve
  <2>2. Balanced(path) /\ todo[g] = <<>> /\ UNCHANGED <<writer, pending, readers, queued>>
    BY <1>1, PathsBalanced DEF Serve
  <2>3. LocksTypeOK' /\ todo'[g] = path
    BY <1>0, <2>1, <2>2 DEF LocksTypeOK, Balanced
  <2>4. \A h \in Goroutines : h # g => Accounted(h)'
    <3> SUFFICES ASSUME NEW h \in Goroutines, h # g PROVE Accounted(h)'
      OBVIOUS
    <3>1. Rests(h)
      BY <1>0, <2>1, <2>2 DEF Rests, LocksTypeOK
    <3> QED
      BY <1>0, <3>1, RestingAccounted
  <2>5. \A l \in Locks : ~Keeps(path, l) /\ ~Reads(path, l)
    BY <2>2, FreeHoldsNothing DEF Balanced
  <2>6. \A l \in Locks : ~Keeps(<<>>, l) /\ ~Reads(<<>>, l)
    BY BalancedHttp, FreeHoldsNothing DEF Balanced
  <2>7. \A l \in Locks : writer[l] # g /\ g \notin readers[l] /\ pending[l] # g /\ g \notin queued[l]
    BY <1>0, <2>2, <2>6 DEF Accounted, At
  <2>8. Accounted(g)'
    <3>1. Tidy(todo[g])'
      BY <2>2, <2>3 DEF Balanced, Tidy
    <3>2. \A l \in Locks : ~Keeps(todo[g], l)' /\ ~Reads(todo[g], l)'
      BY <2>3, <2>5
    <3> QED
      BY <2>2, <2>7, <3>1, <3>2 DEF Accounted
  <2> QED
    BY <1>0, <2>2, <2>3, <2>4, <2>8
<1>2. ASSUME NEW g \in Goroutines, NEW l \in Locks, Announce(g, l)
      PROVE  /\ LocksTypeOK' /\ \A h \in Goroutines : Accounted(h)'
             /\ \A m \in Locks : pending'[m] # Nobody => writer'[m] = Nobody
  <2>1. /\ At(g, l, "Lock") /\ writer[l] = Nobody /\ pending' = [pending EXCEPT ![l] = g]
        /\ UNCHANGED <<todo, writer, readers, queued>>
    BY <1>2 DEF Announce
  <2>2. LocksTypeOK' /\ \A m \in Locks : pending'[m] # Nobody => writer'[m] = Nobody
    BY <1>0, <2>1 DEF LocksTypeOK
  <2>3. \A h \in Goroutines : h # g => Accounted(h)'
    <3> SUFFICES ASSUME NEW h \in Goroutines, h # g PROVE Accounted(h)'
      OBVIOUS
    <3>1. Rests(h)
      BY <1>0, <2>1 DEF Rests, LocksTypeOK
    <3> QED
      BY <1>0, <3>1, RestingAccounted
  <2>4. Accounted(g)'
    <3>1. \A m \in Locks : pending'[m] = g => At(g, m, "Lock")
      BY <1>0, <2>1 DEF Accounted, LocksTypeOK
    <3>2. Tidy(todo[g])' /\ \A m \in Locks : /\ Keeps(todo[g], m)' <=> Keeps(todo[g], m)
                                             /\ Reads(todo[g], m)' <=> Reads(todo[g], m)
      BY <1>0, <2>1 DEF Accounted
    <3>3. \A m \in Locks, operation \in {"Lock", "RLock"} :
            At(g, m, operation) => At(g, m, operation)'
      BY <2>1 DEF At
    <3> QED
      BY <1>0, <2>1, <3>1, <3>2, <3>3 DEF Accounted
  <2> QED
    BY <2>2, <2>3, <2>4
<1>3. ASSUME NEW g \in Goroutines, NEW l \in Locks, Lock(g, l)
      PROVE  /\ LocksTypeOK' /\ \A h \in Goroutines : Accounted(h)'
             /\ \A m \in Locks : pending'[m] # Nobody => writer'[m] = Nobody
  <2>1. /\ pending[l] = g /\ readers[l] = {}
        /\ pending' = [pending EXCEPT ![l] = Nobody] /\ writer' = [writer EXCEPT ![l] = g]
        /\ Advance({g}) /\ UNCHANGED <<readers, queued>>
    BY <1>3 DEF Lock
  <2>2. At(g, l, "Lock") /\ writer[l] = Nobody /\ todo[g] # <<>> /\ Head(todo[g]) = <<l, "Lock">>
    BY <1>0, <2>1 DEF Accounted, At
  <2>3. /\ todo' \in [Goroutines -> Seq(Steps)] /\ todo'[g] = Tail(todo[g])
        /\ \A h \in Goroutines : h # g => todo'[h] = todo[h]
    BY <1>0, <2>1, <2>2, AdvanceType
  <2>4. /\ LocksTypeOK' /\ \A m \in Locks : pending'[m] # Nobody => writer'[m] = Nobody
    BY <1>0, <2>1, <2>3 DEF LocksTypeOK
  <2>5. \A h \in Goroutines : h # g => Accounted(h)'
    <3> SUFFICES ASSUME NEW h \in Goroutines, h # g PROVE Accounted(h)'
      OBVIOUS
    <3>1. Rests(h)
      BY <1>0, <2>1, <2>2, <2>3 DEF Rests, LocksTypeOK
    <3> QED
      BY <1>0, <3>1, RestingAccounted
  <2>6. /\ Keeps(Tail(todo[g]), l)
        /\ \A m \in Locks : /\ ~Reads(Tail(todo[g]), m) /\ ~Reads(todo[g], m)
                            /\ m # l => (Keeps(Tail(todo[g]), m) <=> Keeps(todo[g], m))
    BY <1>0, <1>t, <2>2, TidyTail DEF Accounted
  <2>7. Accounted(g)'
    <3>1. \A m \in Locks : pending'[m] # g /\ g \notin queued'[m]
      BY <1>0, <2>1, <2>2, WaitsAtOneLock DEF LocksTypeOK
    <3>2. \A m \in Locks : /\ writer'[m] = g <=> Keeps(Tail(todo[g]), m)
                           /\ g \in readers'[m] <=> Reads(Tail(todo[g]), m)
      BY <1>0, <2>1, <2>6 DEF LocksTypeOK, Accounted
    <3> QED
      BY <1>0, <2>2, <2>3, <3>1, <3>2, MovingAccounted
  <2> QED
    BY <2>4, <2>5, <2>7
<1>4. ASSUME NEW g \in Goroutines, NEW l \in Locks, Unlock(g, l)
      PROVE  /\ LocksTypeOK' /\ \A h \in Goroutines : Accounted(h)'
             /\ \A m \in Locks : pending'[m] # Nobody => writer'[m] = Nobody
  <2>1. /\ At(g, l, "Unlock") /\ writer' = [writer EXCEPT ![l] = Nobody]
        /\ readers' = [readers EXCEPT ![l] = @ \cup queued[l]]
        /\ queued' = [queued EXCEPT ![l] = {}]
        /\ Advance({g} \cup queued[l]) /\ UNCHANGED pending
    BY <1>4 DEF Unlock
  <2>2. todo[g] # <<>> /\ Head(todo[g]) = <<l, "Unlock">>
    BY <2>1 DEF At
  <2>3. \A h \in Goroutines : h \in queued[l] =>
          At(h, l, "RLock") /\ todo[h] # <<>> /\ Head(todo[h]) = <<l, "RLock">>
    BY <1>0 DEF Accounted, At
  <2>4. g \notin queued[l] /\ writer[l] = g
    <3>1. Keeps(todo[g], l)
      BY <1>t, <2>2, StepOfHead DEF Keeps
    <3> QED
      BY <1>0, <2>2, <2>3, <3>1 DEF Accounted
  <2>5. /\ todo' \in [Goroutines -> Seq(Steps)]
        /\ \A h \in Goroutines : /\ h \in {g} \cup queued[l] => todo'[h] = Tail(todo[h])
                                 /\ h \notin {g} \cup queued[l] => todo'[h] = todo[h]
    BY <1>0, <2>1, <2>2, <2>3, AdvanceType
  <2>6. /\ LocksTypeOK' /\ \A m \in Locks : pending'[m] # Nobody => writer'[m] = Nobody
    BY <1>0, <2>1, <2>5 DEF LocksTypeOK
  <2>7. ASSUME NEW h \in Goroutines, h \notin {g} \cup queued[l] PROVE Accounted(h)'
    <3>1. Rests(h)
      BY <1>0, <2>1, <2>4, <2>5, <2>7 DEF Rests, LocksTypeOK
    <3> QED
      BY <1>0, <3>1, RestingAccounted
  <2>8. ASSUME NEW h \in Goroutines, h \in queued[l] PROVE Accounted(h)'
    <3>1. At(h, l, "RLock") /\ todo[h] # <<>> /\ Head(todo[h]) = <<l, "RLock">> /\ h # g
      BY <2>3, <2>4, <2>8
    <3>2. \A m \in Locks : /\ ~Keeps(Tail(todo[h]), m) /\ ~Keeps(todo[h], m)
                           /\ Reads(Tail(todo[h]), m) <=> m = l
                           /\ ~Reads(todo[h], m)
      BY <1>0, <1>t, <3>1, TidyTail DEF Accounted
    <3>3. \A m \in Locks : pending'[m] # h /\ h \notin queued'[m]
      BY <1>0, <2>1, <3>1, WaitsAtOneLock DEF LocksTypeOK
    <3>4. \A m \in Locks : /\ writer'[m] = h <=> Keeps(Tail(todo[h]), m)
                           /\ h \in readers'[m] <=> Reads(Tail(todo[h]), m)
      BY <1>0, <2>1, <2>8, <3>2 DEF LocksTypeOK, Accounted
    <3> QED
      BY <1>0, <2>5, <2>8, <3>1, <3>3, <3>4, MovingAccounted
  <2>9. Accounted(g)'
    <3>1. /\ ~Keeps(Tail(todo[g]), l)
          /\ \A m \in Locks : /\ ~Reads(Tail(todo[g]), m) /\ ~Reads(todo[g], m)
                              /\ m # l => (Keeps(Tail(todo[g]), m) <=> Keeps(todo[g], m))
      BY <1>0, <1>t, <2>2, TidyTail DEF Accounted
    <3>2. \A m \in Locks : pending'[m] # g /\ g \notin queued'[m]
      BY <1>0, <2>1, WaitsAtOneLock DEF LocksTypeOK
    <3>3. \A m \in Locks : /\ writer'[m] = g <=> Keeps(Tail(todo[g]), m)
                           /\ g \in readers'[m] <=> Reads(Tail(todo[g]), m)
      BY <1>0, <2>1, <2>4, <3>1 DEF LocksTypeOK, Accounted
    <3> QED
      BY <1>0, <2>2, <2>5, <3>2, <3>3, MovingAccounted
  <2> QED
    BY <2>6, <2>7, <2>8, <2>9
<1>5. ASSUME NEW g \in Goroutines, NEW l \in Locks, RLock(g, l)
      PROVE  /\ LocksTypeOK' /\ \A h \in Goroutines : Accounted(h)'
             /\ \A m \in Locks : pending'[m] # Nobody => writer'[m] = Nobody
  <2>1. /\ At(g, l, "RLock") /\ g \notin queued[l] /\ UNCHANGED <<writer, pending>>
        /\ todo[g] # <<>> /\ Head(todo[g]) = <<l, "RLock">>
    BY <1>5 DEF RLock, At
  <2>2. CASE readers' = [readers EXCEPT ![l] = @ \cup {g}] /\ Advance({g}) /\ UNCHANGED queued
    <3>1. /\ todo' \in [Goroutines -> Seq(Steps)] /\ todo'[g] = Tail(todo[g])
          /\ \A h \in Goroutines : h # g => todo'[h] = todo[h]
      BY <1>0, <2>1, <2>2, AdvanceType
    <3>2. /\ LocksTypeOK' /\ \A m \in Locks : pending'[m] # Nobody => writer'[m] = Nobody
      BY <1>0, <2>1, <2>2, <3>1 DEF LocksTypeOK
    <3>3. ASSUME NEW h \in Goroutines, h # g PROVE Accounted(h)'
      <4>1. Rests(h)
        BY <1>0, <2>1, <2>2, <3>1, <3>3 DEF Rests, LocksTypeOK
      <4> QED
        BY <1>0, <4>1, RestingAccounted
    <3>4. \A m \in Locks : /\ ~Keeps(Tail(todo[g]), m) /\ ~Keeps(todo[g], m)
                           /\ Reads(Tail(todo[g]), m) <=> m = l
                           /\ ~Reads(todo[g], m)
      BY <1>0, <1>t, <2>1, TidyTail DEF Accounted
    <3>5. \A m \in Locks : pending'[m] # g /\ g \notin queued'[m]
      BY <1>0, <2>1, <2>2, WaitsAtOneLock DEF LocksTypeOK
    <3>6. \A m \in Locks : /\ writer'[m] = g <=> Keeps(Tail(todo[g]), m)
                           /\ g \in readers'[m] <=> Reads(Tail(todo[g]), m)
      BY <1>0, <2>1, <2>2, <3>4 DEF LocksTypeOK, Accounted
    <3>7. Accounted(g)'
      BY <1>0, <2>1, <3>1, <3>5, <3>6, MovingAccounted
    <3> QED
      BY <3>2, <3>3, <3>7
  <2>3. CASE queued' = [queued EXCEPT ![l] = @ \cup {g}] /\ UNCHANGED <<todo, readers>>
    <3>1. /\ LocksTypeOK' /\ \A m \in Locks : pending'[m] # Nobody => writer'[m] = Nobody
      BY <1>0, <2>1, <2>3 DEF LocksTypeOK
    <3>2. ASSUME NEW h \in Goroutines, h # g PROVE Accounted(h)'
      <4>1. Rests(h)
        BY <1>0, <2>1, <2>3, <3>2 DEF Rests, LocksTypeOK
      <4> QED
        BY <1>0, <4>1, RestingAccounted
    <3>3. Accounted(g)'
      <4>1. \A m \in Locks : g \in queued'[m] => At(g, m, "RLock")
        BY <1>0, <2>1, <2>3 DEF Accounted, LocksTypeOK
      <4>2. Tidy(todo[g])' /\ \A m \in Locks : /\ Keeps(todo[g], m)' <=> Keeps(todo[g], m)
                                               /\ Reads(todo[g], m)' <=> Reads(todo[g], m)
        BY <1>0, <2>3 DEF Accounted
      <4>3. \A m \in Locks, operation \in {"Lock", "RLock"} :
              At(g, m, operation) => At(g, m, operation)'
        BY <2>3 DEF At
      <4> QED
        BY <1>0, <2>1, <2>3, <4>1, <4>2, <4>3 DEF Accounted
    <3> QED
      BY <3>1, <3>2, <3>3
  <2> QED
    BY <1>5, <2>2, <2>3 DEF RLock
<1>6. ASSUME NEW g \in Goroutines, NEW l \in Locks, RUnlock(g, l)
      PROVE  /\ LocksTypeOK' /\ \A h \in Goroutines : Accounted(h)'
             /\ \A m \in Locks : pending'[m] # Nobody => writer'[m] = Nobody
  <2>1. /\ At(g, l, "RUnlock") /\ todo[g] # <<>> /\ Head(todo[g]) = <<l, "RUnlock">>
        /\ readers' = [readers EXCEPT ![l] = @ \ {g}] /\ Advance({g})
        /\ UNCHANGED <<writer, pending, queued>>
    BY <1>6 DEF RUnlock, At
  <2>2. /\ todo' \in [Goroutines -> Seq(Steps)] /\ todo'[g] = Tail(todo[g])
        /\ \A h \in Goroutines : h # g => todo'[h] = todo[h]
    BY <1>0, <2>1, AdvanceType
  <2>3. /\ LocksTypeOK' /\ \A m \in Locks : pending'[m] # Nobody => writer'[m] = Nobody
    BY <1>0, <2>1, <2>2 DEF LocksTypeOK
  <2>4. ASSUME NEW h \in Goroutines, h # g PROVE Accounted(h)'
    <3>1. Rests(h)
      BY <1>0, <2>1, <2>2, <2>4 DEF Rests, LocksTypeOK
    <3> QED
      BY <1>0, <3>1, RestingAccounted
  <2>5. \A m \in Locks : ~Keeps(Tail(todo[g]), m) /\ ~Keeps(todo[g], m) /\ ~Reads(Tail(todo[g]), m)
    BY <1>0, <1>t, <2>1, TidyTail DEF Accounted
  <2>6. \A m \in Locks : m # l => ~Reads(todo[g], m)
    BY <1>t, <2>1, StepOfHead DEF Reads
  <2>7. \A m \in Locks : pending'[m] # g /\ g \notin queued'[m]
    BY <1>0, <2>1, WaitsAtOneLock
  <2>8. \A m \in Locks : /\ writer'[m] = g <=> Keeps(Tail(todo[g]), m)
                         /\ g \in readers'[m] <=> Reads(Tail(todo[g]), m)
    BY <1>0, <2>1, <2>5, <2>6 DEF LocksTypeOK, Accounted
  <2>9. Accounted(g)'
    BY <1>0, <2>1, <2>2, <2>7, <2>8, MovingAccounted
  <2> QED
    BY <2>3, <2>4, <2>9
<1>7. ASSUME NEW g \in Goroutines, Do(g)
      PROVE  /\ LocksTypeOK' /\ \A h \in Goroutines : Accounted(h)'
             /\ \A m \in Locks : pending'[m] # Nobody => writer'[m] = Nobody
  <2>1. /\ At(g, "http", "Do") /\ todo[g] # <<>> /\ Head(todo[g]) = <<"http", "Do">>
        /\ Advance({g}) /\ UNCHANGED <<writer, pending, readers, queued>>
    BY <1>7 DEF Do, At
  <2>2. /\ todo' \in [Goroutines -> Seq(Steps)] /\ todo'[g] = Tail(todo[g])
        /\ \A h \in Goroutines : h # g => todo'[h] = todo[h]
    BY <1>0, <2>1, AdvanceType
  <2>3. /\ LocksTypeOK' /\ \A m \in Locks : pending'[m] # Nobody => writer'[m] = Nobody
    BY <1>0, <2>1, <2>2 DEF LocksTypeOK
  <2>4. ASSUME NEW h \in Goroutines, h # g PROVE Accounted(h)'
    <3>1. Rests(h)
      BY <1>0, <2>1, <2>2, <2>4 DEF Rests, LocksTypeOK
    <3> QED
      BY <1>0, <3>1, RestingAccounted
  <2>5. \A m \in Locks : ~Keeps(Tail(todo[g]), m) /\ ~Keeps(todo[g], m) /\ ~Reads(Tail(todo[g]), m)
    BY <1>0, <1>t, <2>1, TidyTail DEF Accounted
  <2>6. \A m \in Locks : ~Reads(todo[g], m)
    BY <1>t, <2>1, StepOfHead DEF Reads
  <2>7. \A m \in Locks : pending'[m] # g /\ g \notin queued'[m]
    BY <1>0, <2>1, WaitsAtOneLock
  <2>8. \A m \in Locks : /\ writer'[m] = g <=> Keeps(Tail(todo[g]), m)
                         /\ g \in readers'[m] <=> Reads(Tail(todo[g]), m)
    BY <1>0, <2>1, <2>5, <2>6 DEF LocksTypeOK, Accounted
  <2>9. Accounted(g)'
    BY <1>0, <2>1, <2>2, <2>7, <2>8, MovingAccounted
  <2> QED
    BY <2>3, <2>4, <2>9
<1>8. ASSUME UNCHANGED vars
      PROVE  /\ LocksTypeOK' /\ \A h \in Goroutines : Accounted(h)'
             /\ \A m \in Locks : pending'[m] # Nobody => writer'[m] = Nobody
  <2>1. UNCHANGED <<todo, writer, pending, readers, queued>>
    BY <1>8 DEF vars
  <2>2. \A h \in Goroutines : Rests(h)
    BY <2>1 DEF Rests
  <2> QED
    BY <1>0, <2>1, <2>2, RestingAccounted DEF LocksTypeOK
<1> QED
  BY <1>1, <1>2, <1>3, <1>4, <1>5, <1>6, <1>7, <1>8 DEF LocksNext, Step

\* The locks are free when the server starts.
LEMMA LocksStart == LocksInit => LocksInv
<1> SUFFICES ASSUME LocksInit PROVE LocksInv
  OBVIOUS
<1>1. \A l \in Locks : ~Keeps(<<>>, l) /\ ~Reads(<<>>, l)
  BY BalancedHttp, FreeHoldsNothing DEF Balanced
<1>2. Tidy(<<>>) /\ <<>> \in Seq(Steps)
  BY BalancedHttp DEF Balanced
<1> QED
  BY <1>1, <1>2, LocksAssumption DEF LocksInit, LocksInv, LocksTypeOK

\* The locks are held as the paths say, in every state.
LEMMA LocksAlways == LocksSpec => []LocksInv
BY LocksStart, LocksStep, PTL DEF LocksSpec

\* A lock is given back by the goroutine that has it and by nobody else, and a
\* handler that returned holds none: for every number of concurrent requests.
THEOREM LocksGivenBack == LocksSpec => []UnlocksOwnLock
<1>1. LocksInv => UnlocksOwnLock
  <2> SUFFICES ASSUME LocksInv, NEW g \in Goroutines, NEW l \in Locks
               PROVE  /\ At(g, l, "Unlock") => writer[l] = g
                      /\ At(g, l, "RUnlock") => g \in readers[l]
                      /\ todo[g] = <<>> => ~Holds(g, l)
    BY DEF UnlocksOwnLock
  <2>1. /\ At(g, l, "Unlock") => Keeps(todo[g], l)
        /\ At(g, l, "RUnlock") => Reads(todo[g], l)
    BY AtFirst DEF LocksInv, Keeps, Reads
  <2>2. todo[g] = <<>> => ~Keeps(todo[g], l) /\ ~Reads(todo[g], l)
    BY BalancedHttp, FreeHoldsNothing DEF Balanced
  <2> QED
    BY <2>1, <2>2 DEF LocksInv, Holds
<1> QED
  BY <1>1, LocksAlways, PTL

\* No goroutine asks a worker over HTTP with a lock held.
THEOREM HttpWithoutLocks == LocksSpec => []NoLockAcrossHttp
<1>1. LocksInv => NoLockAcrossHttp
  <2> SUFFICES ASSUME LocksInv, NEW g \in Goroutines, At(g, "http", "Do"), NEW l \in Locks
               PROVE  ~Holds(g, l)
    BY DEF NoLockAcrossHttp
  <2>1. Free(todo[g], 1)
    BY AtFirst DEF LocksInv, Free
  <2> QED
    BY <2>1, FreeHoldsNothing DEF LocksInv, Holds
<1> QED
  BY <1>1, LocksAlways, PTL

-----------------------------------------------------------------------------
(* No circle of waiting.  The goroutines are ranked by what they wait for:  *)
(* who gives a lock back waits for nobody; a writer that is announced waits *)
(* for readers, who give back; the registry's lock is waited for only with  *)
(* its holder about to give it back; and the manager's lock is held by one  *)
(* that gives it back or is at the registry's.                              *)

\* The next step is one that never waits, or there is none.
Returning(g) == StepAt(todo[g], 1) \notin {<<l, operation>> : l \in Locks, operation \in {"Lock", "RLock"}}

\* Who gives a lock back, asks over HTTP or is done waits for nobody.
LEMMA ReturningWaitsForNobody ==
  ASSUME LocksInv, NEW g \in Goroutines, Returning(g)
  PROVE  \A h : ~WaitsFor(g, h)
<1>1. \A l \in Locks : ~At(g, l, "Lock") /\ ~At(g, l, "RLock")
  BY AtFirst DEF LocksInv, Returning
<1> QED
  BY <1>1 DEF LocksInv, WaitsFor

\* An announced writer waits for readers, and these give back.
LEMMA AnnouncedWaitsForReturning ==
  ASSUME LocksInv, NEW g \in Goroutines, NEW l \in Locks, pending[l] = g,
         NEW h \in Goroutines, WaitsFor(g, h)
  PROVE  Returning(h)
<1>1. At(g, l, "Lock")
  BY DEF LocksInv
<1>2. \A m \in Locks : /\ At(g, m, "Lock") => m = l
                       /\ ~(g \in queued[m])
  BY <1>1 DEF LocksInv, At
<1>3. PICK m \in Locks : h \in readers[m]
  BY <1>2 DEF WaitsFor
<1>4. StepAt(todo[h], 1) = <<m, "RUnlock">>
  BY <1>3 DEF LocksInv, Reads
<1> QED
  BY <1>4 DEF Returning

\* Who is at the lock m, not announced, waits for who holds m or is announced.
LEMMA QueuesAtOneLock ==
  ASSUME LocksInv, NEW g \in Goroutines, NEW m \in Locks, At(g, m, "Lock") \/ At(g, m, "RLock"),
         \A l \in Locks : pending[l] # g, NEW h, WaitsFor(g, h)
  PROVE  h \in {writer[m], pending[m]}
<1>1. \A l \in Locks : At(g, l, "Lock") \/ g \in queued[l] => l = m
  BY DEF LocksInv, At
<1> QED
  BY <1>1 DEF WaitsFor

\* Whatever requests are served at the same time, no set of goroutines waits in
\* a circle, and so no deadlock.
THEOREM NoDeadlock == LocksSpec => []NoWaitCycle
<1>1. LocksInv => NoWaitCycle
  <2> SUFFICES ASSUME LocksInv, NEW waiting \in (SUBSET Goroutines) \ {{}},
                      \A g \in waiting : \E h \in waiting : WaitsFor(g, h)
               PROVE  FALSE
    BY DEF NoWaitCycle
  <2>0. LocksTypeOK /\ \A g \in waiting : g \in Goroutines
    BY DEF LocksInv
  <2>1. \A g \in waiting : ~Returning(g)
    BY <2>0, ReturningWaitsForNobody
  <2>2. \A g \in waiting, l \in Locks : pending[l] # g
    BY <2>0, <2>1, AnnouncedWaitsForReturning
  <2>3. \A g \in waiting, m \in Locks :
          At(g, m, "Lock") \/ At(g, m, "RLock") => \E h \in waiting : writer[m] = h
    <3> SUFFICES ASSUME NEW g \in waiting, NEW m \in Locks, At(g, m, "Lock") \/ At(g, m, "RLock")
                 PROVE  \E h \in waiting : writer[m] = h
      OBVIOUS
    <3>1. PICK h \in waiting : WaitsFor(g, h)
      OBVIOUS
    <3>2. h \in {writer[m], pending[m]}
      BY <2>0, <2>2, <3>1, QueuesAtOneLock
    <3> QED
      BY <2>2, <3>2
  <2>4. \A g \in waiting : ~At(g, "workers", "Lock") /\ ~At(g, "workers", "RLock")
    <3> SUFFICES ASSUME NEW g \in waiting, At(g, "workers", "Lock") \/ At(g, "workers", "RLock")
                 PROVE  FALSE
      OBVIOUS
    <3>1. PICK h \in waiting : writer["workers"] = h
      BY <2>3 DEF Locks
    <3>2. Keeps(todo[h], "workers")
      BY <2>0, <3>1 DEF LocksInv, Locks
    <3>3. StepAt(todo[h], 1) = <<"workers", "Unlock">>
      BY <3>2 DEF Keeps
    <3> QED
      BY <2>1, <3>3 DEF Returning
  <2>5. \A g \in waiting : ~At(g, "jobs", "Lock") /\ ~At(g, "jobs", "RLock")
    <3> SUFFICES ASSUME NEW g \in waiting, At(g, "jobs", "Lock") \/ At(g, "jobs", "RLock")
                 PROVE  FALSE
      OBVIOUS
    <3>1. PICK h \in waiting : writer["jobs"] = h
      BY <2>3 DEF Locks
    <3>2. Keeps(todo[h], "jobs")
      BY <2>0, <3>1 DEF LocksInv, Locks
    <3>3. StepAt(todo[h], 1) \in {<<"jobs", "Unlock">>, <<"workers", "Unlock">>, <<"workers", "Lock">>}
      BY <3>2 DEF Keeps
    <3>4. StepAt(todo[h], 1) # <<"workers", "Lock">>
      BY <2>0, <2>4, AtFirst DEF Locks
    <3> QED
      BY <2>1, <3>3, <3>4 DEF Returning
  <2>6. PICK g : g \in waiting
    OBVIOUS
  <2>7. \E l \in Locks : At(g, l, "Lock") \/ At(g, l, "RLock")
    BY <2>0, <2>1, <2>6, AtFirst DEF Returning
  <2> QED
    BY <2>4, <2>5, <2>6, <2>7 DEF Locks
<1> QED
  BY <1>1, LocksAlways, PTL
=============================================================================
