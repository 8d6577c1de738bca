---------------------------- MODULE Check_proofs ----------------------------
(***************************************************************************)
(* What the page is told about updates, proved for any handlers, tags and  *)
(* length of an hour: GitHub is not asked too often, and no answer is      *)
(* older than that.                                                        *)
(***************************************************************************)
EXTENDS Check, TLAPS

\* The types of the variables that the answers depend on.
TypeOK ==
  /\ latest \in Tag
  /\ reachable \in BOOLEAN
  /\ cache \in [tag : Tag \cup {None}, err : BOOLEAN, age : 0 .. Long]
  /\ call \in [Req -> {"idle", "waiting", "fetching", "late"}]
  /\ unseen \in [Tag -> 0 .. Long]
  /\ asked \in 0 .. Long

\* A fetch is over before the second tick after GitHub was asked.
FetchIsSoon ==
  \A r \in Req : /\ call[r] = "fetching" => asked = 0
                 /\ call[r] = "late" => asked <= 1

\* The cache was filled after GitHub was asked last, unless it is being asked.
FilledSinceAsked == Held \/ cache.age <= asked

\* A tag in the cache, while it may be told, was the newest when it was fetched, or at
\* most a tick before.
CacheWasLatest ==
  ~cache.err /\ cache.age < Long =>
    cache.tag \in Tag /\ unseen[cache.tag] <= cache.age + 1

\* The inductive invariant.
IInv == TypeOK /\ FetchIsSoon /\ FilledSinceAsked /\ CacheWasLatest
-----------------------------------------------------------------------------
\* An age grows by one up to a limit.
LEMMA OlderFacts ==
  ASSUME NEW age \in 0 .. Long
  PROVE  /\ Older(age) \in 0 .. Long
         /\ age < Long => Older(age) = age + 1
         /\ age = Long => Older(age) = Long
<1> DEFINE S == {age + 1, CheckEvery + 1}
           least == IF age < Long THEN age + 1 ELSE Long
<1>1. age \in Nat /\ CheckEvery \in Nat /\ age <= CheckEvery + 1
  BY CheckAssumption DEF Long
<1>2. least \in S /\ \A y \in S : least <= y
  BY <1>1 DEF Long
<1>3. \A x \in S : (\A y \in S : x <= y) => x = least
  BY <1>1, <1>2 DEF Long
<1>4. Older(age) = least
  BY <1>2, <1>3 DEF Older, Min
<1> QED
  BY <1>1, <1>4 DEF Long

\* At first nothing is cached and nobody asks.
LEMMA InitSafe == Init => IInv
<1> SUFFICES ASSUME Init PROVE IInv
  OBVIOUS
<1>1. Long \in Nat
  BY CheckAssumption DEF Long
<1> QED
  BY <1>1 DEF Init, IInv, TypeOK, FetchIsSoon, FilledSinceAsked, CacheWasLatest

\* A release is the newest at once, and keeps no other from having been it.
LEMMA ReleaseSafe ==
  ASSUME IInv, NEW v \in Tag, Release(v)
  PROVE  IInv'
<1>1. Long \in Nat
  BY CheckAssumption DEF Long
<1>2. TypeOK' /\ CacheWasLatest'
  BY <1>1 DEF IInv, TypeOK, CacheWasLatest, Release
<1>3. FetchIsSoon' /\ FilledSinceAsked'
  BY DEF IInv, FetchIsSoon, FilledSinceAsked, Held, Release
<1> QED
  BY <1>2, <1>3 DEF IInv

\* Everything gets older by one tick.
LEMMA TickSafe ==
  ASSUME IInv, Tick
  PROVE  IInv'
<1>1. CheckEvery \in Nat \ {0} /\ Long = CheckEvery + 1
  BY CheckAssumption DEF Long
<1>2. /\ asked' = Older(asked) /\ asked' \in 0 .. Long
      /\ asked < Long => asked' = asked + 1
      /\ asked = Long => asked' = Long
  BY OlderFacts DEF Tick, IInv, TypeOK
<1>3. /\ cache' = [cache EXCEPT !.age = cache'.age] /\ cache'.age \in 0 .. Long
      /\ cache.age < Long => cache'.age = cache.age + 1
      /\ cache.age = Long => cache'.age = Long
  BY OlderFacts DEF Tick, IInv, TypeOK
<1>4. /\ unseen' \in [Tag -> 0 .. Long]
      /\ \A v \in Tag : unseen'[v] <= unseen[v] + 1
  BY <1>1, OlderFacts DEF Tick, IInv, TypeOK
<1>5. TypeOK'
  BY <1>2, <1>3, <1>4 DEF IInv, TypeOK, Tick
<1>6. FetchIsSoon'
  BY <1>1, <1>2 DEF IInv, TypeOK, FetchIsSoon, Tick
<1>7. FilledSinceAsked'
  BY <1>1, <1>2, <1>3 DEF IInv, TypeOK, FilledSinceAsked, Held, Tick
<1>8. CacheWasLatest'
  BY <1>1, <1>3, <1>4 DEF IInv, TypeOK, CacheWasLatest
<1> QED
  BY <1>5, <1>6, <1>7, <1>8 DEF IInv

\* A handler that waits, or is answered from the cache, changes nothing of it.
LEMMA HitSafe ==
  ASSUME IInv, NEW r \in Req, Get(r) \/ Hit(r)
  PROVE  IInv'
  BY DEF IInv, TypeOK, FetchIsSoon, FilledSinceAsked, CacheWasLatest, Held, Get, Hit, Answer

\* Whoever asks holds the mutex.
LEMMA AskSafe ==
  ASSUME IInv, NEW r \in Req, Ask(r)
  PROVE  IInv'
<1>1. Long \in Nat
  BY CheckAssumption DEF Long
<1> QED
  BY <1>1 DEF IInv, TypeOK, FetchIsSoon, FilledSinceAsked, CacheWasLatest, Held, Ask

\* A fetch fills the cache with a tag that was the newest since GitHub was asked.
LEMMA FetchSafe ==
  ASSUME IInv, NEW r \in Req, Fetch(r)
  PROVE  IInv'
<1>1. Long \in Nat /\ asked \in Nat /\ asked <= 1
  BY CheckAssumption DEF Long, Fetch, IInv, TypeOK, FetchIsSoon
<1>2. PICK tag \in Tag :
        /\ unseen[tag] <= asked
        /\ cache' = IF reachable THEN [tag |-> tag, err |-> FALSE, age |-> 0]
                    ELSE [cache EXCEPT !.err = TRUE, !.age = 0]
        /\ call' = [call EXCEPT ![r] = "idle"]
        /\ UNCHANGED <<latest, reachable, unseen, asked>>
  BY DEF Fetch, Seen, Answer
<1>3. /\ cache' \in [tag : Tag \cup {None}, err : BOOLEAN, age : 0 .. Long]
      /\ cache'.age = 0
      /\ cache'.err = FALSE => cache'.tag = tag
  <2>1. cache \in [tag : Tag \cup {None}, err : BOOLEAN, age : 0 .. Long] /\ 0 \in 0 .. Long
    BY <1>1 DEF IInv, TypeOK
  <2>2. CASE reachable
    BY <1>2, <2>1, <2>2
  <2>3. CASE ~reachable
    BY <1>2, <2>1, <2>3
  <2> QED
    BY <2>2, <2>3
<1>4. TypeOK' /\ FetchIsSoon'
  BY <1>2, <1>3 DEF IInv, TypeOK, FetchIsSoon
<1>5. FilledSinceAsked' /\ CacheWasLatest'
  BY <1>1, <1>2, <1>3 DEF IInv, TypeOK, FilledSinceAsked, CacheWasLatest
<1> QED
  BY <1>4, <1>5 DEF IInv

\* Every step keeps the invariant.
LEMMA StepSafe == IInv /\ [Next]_vars => IInv'
<1> SUFFICES ASSUME IInv, [Next]_vars PROVE IInv'
  OBVIOUS
<1>1. ASSUME NEW v \in Tag, Release(v) PROVE IInv'
  BY <1>1, ReleaseSafe
<1>2. CASE Outage
  BY <1>2 DEF Outage, IInv, TypeOK, FetchIsSoon, FilledSinceAsked, CacheWasLatest, Held
<1>3. CASE Tick
  BY <1>3, TickSafe
<1>4. ASSUME NEW r \in Req, Get(r) \/ Serve(r) \/ Fetch(r) PROVE IInv'
  BY <1>4, HitSafe, AskSafe, FetchSafe DEF Serve
<1>5. CASE UNCHANGED vars
  BY <1>5 DEF vars, IInv, TypeOK, FetchIsSoon, FilledSinceAsked, CacheWasLatest, Held
<1> QED
  BY <1>1, <1>2, <1>3, <1>4, <1>5 DEF Next

\* The invariant holds at all times.
THEOREM InvariantHolds == Spec => []IInv
<1> QED
  BY InitSafe, StepSafe, PTL DEF Spec

\* GitHub is asked at most once in CheckEvery ticks, by whichever of the handlers that
\* find the cache stale, and also while it does not answer (update.go:323).
THEOREM HourBetweenRequests == Spec => AskedHourly
<1>1. IInv => \A r \in Req : Ask(r) => asked >= CheckEvery
  BY CheckAssumption DEF IInv, TypeOK, FilledSinceAsked, Ask, Fresh, Long
<1>2. IInv /\ [Next]_vars => [\A r \in Req : Ask(r) => asked >= CheckEvery]_vars
  BY <1>1
<1> QED
  BY <1>2, InvariantHolds, PTL DEF Spec, AskedHourly

\* A tag that is told was the newest within the hour and the tick a fetch may take
\* (update.go:326-328).
THEOREM AnswersRecent == Spec => ToldRecent
<1> DEFINE Recent ==
      \A r \in Req : call[r] # "idle" /\ call'[r] = "idle" /\ told' # "error" =>
        told' \in Tag /\ unseen[told'] <= CheckEvery
<1>1. IInv /\ [Next]_vars => [Recent]_vars
  <2> SUFFICES ASSUME IInv, Next, NEW r \in Req,
                      call[r] # "idle", call'[r] = "idle", told' # "error"
               PROVE  told' \in Tag /\ unseen[told'] <= CheckEvery
    OBVIOUS
  <2>1. CheckEvery \in Nat \ {0} /\ Long = CheckEvery + 1
    BY CheckAssumption DEF Long
  <2>2. PICK q \in Req : Hit(q) \/ Fetch(q)
    BY DEF Next, Release, Outage, Tick, Get, Serve, Ask, IInv, TypeOK
  <2>3. CASE Hit(q)
    BY <2>1, <2>3 DEF Hit, Fresh, Answer, IInv, TypeOK, CacheWasLatest
  <2>4. CASE Fetch(q)
    <3>1. asked <= 1 /\ asked \in Nat
      BY <2>4, <2>1 DEF Fetch, IInv, TypeOK, FetchIsSoon
    <3> QED
      BY <2>1, <2>4, <3>1 DEF Fetch, Seen, Answer, IInv, TypeOK
  <2> QED
    BY <2>2, <2>3, <2>4
<1> QED
  BY <1>1, InvariantHolds, PTL DEF Spec, ToldRecent
=============================================================================
