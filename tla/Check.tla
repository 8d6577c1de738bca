------------------------------- MODULE Check -------------------------------
(***************************************************************************)
(* What the page is told about updates (GET of /api/update, latestTag in   *)
(* update.go): the newest tag, or an error, from a cache that one of the   *)
(* handlers refreshes when it is an hour old, while the others wait.  A    *)
(* service that is restarted begins with an empty cache.                   *)
(***************************************************************************)
EXTENDS Integers, FiniteSetsExt

CONSTANTS
  Tag,         \* published versions
  Req,         \* handlers of GET /api/update that may run at once
  CheckEvery,  \* an hour, in ticks; metaTimeout is less than one
  None         \* nothing

ASSUME CheckAssumption == CheckEvery \in Nat \ {0} /\ None \notin Tag

VARIABLES
  \* GitHub
  latest,     \* tag of the newest release; one can be withdrawn
  reachable,  \* it answers in time
  \* the server
  cache,      \* checkCache; its age stands for the time it was filled
  call,       \* how far a handler has come: idle, waiting, fetching, or late
  told,       \* the last answer to a page: a tag, "error", "nothing" before it
  \* what no program sees
  unseen,     \* for how long a tag has not been the newest
  asked       \* for how long GitHub has not been asked

vars == <<latest, reachable, cache, call, told, unseen, asked>>

\* Ages stop where nothing tells them apart any more.
Older(age) == Min({age + 1, CheckEvery + 1})
Long == CheckEvery + 1

Init ==
  /\ latest \in Tag /\ reachable \in BOOLEAN
  /\ cache = [tag |-> None, err |-> FALSE, age |-> Long]
  /\ call = [r \in Req |-> "idle"]
  /\ told = "nothing"
  /\ unseen = [v \in Tag |-> IF v = latest THEN 0 ELSE Long] /\ asked = Long

Release(v) ==
  /\ v # latest
  /\ latest' = v
  /\ unseen' = [unseen EXCEPT ![v] = 0]
  /\ UNCHANGED <<reachable, cache, call, told, asked>>

Outage ==
  /\ reachable' = ~reachable
  /\ UNCHANGED <<latest, cache, call, told, unseen, asked>>

\* No fetch outlasts a tick: it is given up.
Tick ==
  /\ \A r \in Req : call[r] # "late"
  /\ call' = [r \in Req |-> IF call[r] = "fetching" THEN "late" ELSE call[r]]
  /\ cache' = [cache EXCEPT !.age = Older(@)]
  /\ unseen' = [v \in Tag |-> IF v = latest THEN 0 ELSE Older(unseen[v])]
  /\ asked' = Older(asked)
  /\ UNCHANGED <<latest, reachable, told>>

\* A page asks when it is loaded.
Get(r) ==
  /\ call[r] = "idle"
  /\ call' = [call EXCEPT ![r] = "waiting"]
  /\ UNCHANGED <<latest, reachable, cache, told, unseen, asked>>

\* Whoever refreshes the cache holds its mutex throughout.
Held == \E r \in Req : call[r] \in {"fetching", "late"}

\* Bug: a tag is good for ever.
AnyTag == cache.tag # None
Fresh == cache.age < CheckEvery

Answer(r, tag, err) ==
  /\ call' = [call EXCEPT ![r] = "idle"]
  /\ told' = IF err THEN "error" ELSE tag

\* Bug: whoever asks keeps the cache fresh.
HitSliding(r) ==
  /\ call[r] = "waiting" /\ ~Held
  /\ Fresh
  /\ Answer(r, cache.tag, cache.err)
  /\ cache' = [cache EXCEPT !.age = 0]
  /\ UNCHANGED <<latest, reachable, unseen, asked>>

Hit(r) ==
  /\ call[r] = "waiting" /\ ~Held
  /\ Fresh
  /\ Answer(r, cache.tag, cache.err)
  /\ UNCHANGED <<latest, reachable, cache, unseen, asked>>

Ask(r) ==
  /\ call[r] = "waiting" /\ ~Held
  /\ ~Fresh
  /\ call' = [call EXCEPT ![r] = "fetching"]
  /\ asked' = 0
  /\ UNCHANGED <<latest, reachable, cache, told, unseen>>

\* The tags that were the newest since GitHub was asked.
Seen == {v \in Tag : unseen[v] <= asked}

\* Bug: a failure does not set the time.
FetchUncached(r) ==
  /\ call[r] \in {"fetching", "late"}
  /\ \E tag \in Seen :
       /\ cache' = IF reachable THEN [tag |-> tag, err |-> FALSE, age |-> 0]
                   ELSE [cache EXCEPT !.err = TRUE]
       /\ Answer(r, tag, ~reachable)
  /\ UNCHANGED <<latest, reachable, unseen, asked>>

\* Bug: the fetch has no time limit.
FetchWaiting(r) ==
  /\ call[r] \in {"fetching", "late"}
  /\ reachable
  /\ \E tag \in Seen :
       /\ cache' = [tag |-> tag, err |-> FALSE, age |-> 0]
       /\ Answer(r, tag, FALSE)
  /\ UNCHANGED <<latest, reachable, unseen, asked>>

\* A failure leaves the old tag, which nobody is told while the error stands.
Fetch(r) ==
  /\ call[r] \in {"fetching", "late"}
  /\ \E tag \in Seen :
       /\ cache' = IF reachable THEN [tag |-> tag, err |-> FALSE, age |-> 0]
                   ELSE [cache EXCEPT !.err = TRUE, !.age = 0]
       /\ Answer(r, tag, ~reachable)
  /\ UNCHANGED <<latest, reachable, unseen, asked>>

Serve(r) == Hit(r) \/ Ask(r)

Next == \/ \E v \in Tag : Release(v)
        \/ Outage \/ Tick
        \/ \E r \in Req : Get(r) \/ Serve(r) \/ Fetch(r)

\* Time goes on, a fetch ends, and whoever waits for the mutex gets it in the end,
\* though others keep taking it.
Fairness == WF_vars(Tick) /\ \A r \in Req : SF_vars(Serve(r)) /\ WF_vars(Fetch(r))

Spec == Init /\ [][Next]_vars /\ Fairness

\* "refreshed at most once an hour" (update.go:323), however many handlers find the
\* cache stale at once and whether GitHub answers or not.
AskedHourly == [][\A r \in Req : Ask(r) => asked >= CheckEvery]_vars

\* Unless it is an error, an answer is a tag that was the newest within an hour and
\* the time of a fetch, also after errors and for a handler that waited for another's
\* fetch (update.go:326-328).
ToldRecent ==
  [][\A r \in Req : call[r] # "idle" /\ call'[r] = "idle" /\ told' # "error" =>
       told' \in Tag /\ unseen[told'] <= CheckEvery]_vars

\* An error is cached as well, but not for good: once GitHub answers again, and if
\* the page keeps asking, the page is told a tag (update.go:332-336).
ErrorsPass ==
  <>[]reachable /\ (\A r \in Req : []<>(call[r] # "idle")) => []<>(told \in Tag)

\* A handler that waits for another's fetch is answered, also while GitHub is not
\* reachable (update.go:324-325).
EveryoneAnswered == \A r \in Req : call[r] # "idle" ~> call[r] = "idle"
=============================================================================
