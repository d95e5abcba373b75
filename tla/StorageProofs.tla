----------------------------- MODULE StorageProofs -----------------------------
(* The price catalogues (PricingStore): sources are asked at their intervals,      *)
(* prices never get older, and what a source answered is in force, for any         *)
(* sources, callers, intervals, releases and restarts.                             *)
(* The session logs (UsageLogs): no turn is counted twice and no scan leaves one    *)
(* out, for any sessions, scanners and times.                                      *)
(* Claude's events (ClaudeLogs): what counts does not depend on their order, for    *)
(* any messages, requests and events.                                              *)
EXTENDS MCStorage, Functions, FiniteSetTheorems, WellFoundedInduction, TLAPS

-----------------------------------------------------------------------------
(* The price catalogues (PricingStore).                                              *)

\* What the theorems assume of the intervals: a failed source is asked again no later than an
\* answered one (REFRESH_INTERVAL, FAILURE_RETRY_INTERVAL).
Intervals ==
  /\ RefreshInterval \in Nat \ {0}
  /\ FailureRetryInterval \in Nat /\ FailureRetryInterval <= RefreshInterval

Editions == [Sources -> Nat]
Bundles == [at : Nat, content : Editions, number : Nat]
States == [etag : Nat, fetched : Int, failed : Int]
PassFields == {"pc", "due", "states", "changed"}

StoreTypes ==
  /\ now \in Nat
  /\ edition \in Editions /\ prices \in Editions /\ seen \in Editions
  /\ release \in Bundles /\ bundle \in Bundles
  /\ file \in [Sources -> [at : Int, content : Nat]]
  /\ saved \in [Sources -> States] /\ states \in [Sources -> States]
  /\ DOMAIN pass = PassFields /\ pass.states \in [Sources -> States] /\ pass.due \subseteq Sources
  /\ DOMAIN tried = Sources /\ \A s \in Sources : tried[s].at \in Int
  /\ inFlight \/ pass.pc = "none"

\* A snapshot of a source that is taken later is no older: a release's, and a cache file's.
Older(b, s) == /\ b.at >= 0 /\ b.at <= now /\ b.content[s] <= edition[s]
               /\ file[s].at < b.at => file[s].content <= b.content[s]
               /\ file[s].at >= b.at => file[s].content >= b.content[s]
SnapshotsAge ==
  \A s \in Sources :
    /\ Older(bundle, s) /\ Older(release, s)
    /\ bundle.content[s] <= release.content[s]
    /\ file[s].content <= edition[s] /\ file[s].at <= now
    /\ file[s].at = now => file[s].content = edition[s]
    /\ file[s] = NoFile \/ file[s].at >= 0

\* The prices are not ahead of file and bundle and not behind the bundle; once what has changed
\* was loaded, not behind the file either. An ETag stands for what the cache file has.
Loaded == pass.pc \notin {"fetch", "load"} \/ (pass.pc = "fetch" /\ ~pass.changed)
PricesFit ==
  \A s \in Sources :
    /\ prices[s] >= bundle.content[s]
    /\ prices[s] <= bundle.content[s] \/ prices[s] <= file[s].content
    /\ Loaded => prices[s] >= file[s].content
    /\ seen[s] <= file[s].content \/ seen[s] <= prices[s]
    /\ saved[s].etag <= file[s].content /\ states[s].etag <= file[s].content
    /\ pass.states[s].etag <= file[s].content

\* The states that decide what is due know of the last fetch.
Knows(state, s) == /\ tried[s].ok => state.fetched >= tried[s].at
                   /\ ~tried[s].ok => state.failed >= tried[s].at \/ tried[s].at = Never
StatesKnow ==
  \A s \in Sources :
    /\ pass.pc = "fetch" => \/ s \in pass.due /\ Due(states[s]) /\ Knows(states[s], s)
                            \/ s \notin pass.due /\ Knows(pass.states[s], s)
    /\ pass.pc # "fetch" => Knows(states[s], s)

StoreInv == StoreTypes /\ SnapshotsAge /\ PricesFit /\ StatesKnow

-----------------------------------------------------------------------------
\* Whichever of file and bundle is loaded is the newer one.
LEMMA WinnerIsNewer ==
  ASSUME Intervals, NEW b \in Bundles, NEW s \in Sources,
         file \in [Sources -> [at : Int, content : Nat]],
         Older(b, s), file[s] = NoFile \/ file[s].at >= 0
  PROVE  LET w == Winner(s, file, b)
         IN /\ w \in Nat /\ w >= b.content[s] /\ w >= file[s].content
            /\ w = b.content[s] \/ w = file[s].content
<1>1. b.content[s] \in Nat /\ file[s].content \in Nat /\ file[s].at \in Int /\ b.at \in Nat
  BY DEF Bundles, Editions
<1>2. file[s] = NoFile => file[s].content = 0
  BY DEF NoFile
<1>3. QED
  BY <1>1, <1>2 DEF Winner, Older

LEMMA StoreInitially == ASSUME Intervals, Init PROVE StoreInv
<1>1. /\ now = 0 /\ edition = [s \in Sources |-> 1]
      /\ release = [at |-> 0, content |-> edition, number |-> 0] /\ bundle = release
      /\ file = [s \in Sources |-> NoFile] /\ saved = Unfetched /\ states = saved
      /\ prices = Load(file, bundle) /\ pass = NoPass /\ seen = prices
      /\ tried = [s \in Sources |-> [at |-> Never, ok |-> FALSE]]
  BY DEF Init
<1>2. Never \in Int /\ Never < 0
  BY DEF Never, Intervals
<1>3. \A s \in Sources : /\ edition[s] = 1 /\ bundle.content[s] = 1 /\ file[s] = NoFile
                         /\ file[s].at = Never /\ file[s].content = 0
  BY <1>1 DEF NoFile
<1>4. \A s \in Sources : prices[s] = 1
  BY <1>1, <1>3 DEF Load, Winner
<1>5. Unfetched \in [Sources -> States] /\ \A s \in Sources : Unfetched[s].etag = 0
  BY <1>2 DEF Unfetched, States
<1>6. pass.pc = "none" /\ pass.due = {} /\ pass.states = Unfetched /\ DOMAIN pass = PassFields
  BY <1>1 DEF NoPass, PassFields
<1>7. StoreTypes
  <2>1. edition \in Editions /\ bundle \in Bundles
    BY <1>1 DEF Editions, Bundles
  <2>2. prices \in Editions
    BY <1>1, <1>4 DEF Editions, Load
  <2>3. file \in [Sources -> [at : Int, content : Nat]]
    BY <1>1, <1>2 DEF NoFile
  <2>4. DOMAIN tried = Sources /\ \A s \in Sources : tried[s].at \in Int
    BY <1>1, <1>2
  <2>5. QED
    BY <1>1, <1>5, <1>6, <2>1, <2>2, <2>3, <2>4 DEF StoreTypes
<1>8. SnapshotsAge
  BY <1>1, <1>2, <1>3 DEF SnapshotsAge, Older
<1>9. PricesFit
  BY <1>1, <1>3, <1>4, <1>5, <1>6 DEF PricesFit
<1>10. StatesKnow
  <2>1. \A s \in Sources : ~tried[s].ok /\ tried[s].at = Never
    BY <1>1
  <2>2. QED
    BY <1>6, <2>1 DEF StatesKnow, Knows
<1>11. QED
  BY <1>7, <1>8, <1>9, <1>10 DEF StoreInv

-----------------------------------------------------------------------------
(* The world.                                                                        *)
LEMMA TickKeeps == ASSUME Intervals, StoreInv, Tick PROVE StoreInv'
<1>1. /\ pass.pc = "none" /\ now' = now + 1
      /\ UNCHANGED <<release, disk, states, prices, caller, inFlight, pass, tried, seen>>
      /\ DOMAIN edition' = Sources /\ edition' = [s \in Sources |-> edition'[s]]
      /\ \A s \in Sources : edition'[s] \in 1..MaxEdition /\ edition'[s] >= edition[s]
  BY DEF Tick
<1>2. edition' \in Editions
  BY <1>1 DEF Editions
<1>3. StoreTypes'
  BY <1>1, <1>2 DEF StoreInv, StoreTypes, disk
<1>4. SnapshotsAge'
  <2>1. \A s \in Sources : /\ edition[s] \in Nat /\ edition'[s] \in Nat /\ file[s].at \in Int
                           /\ file[s].content \in Nat /\ bundle.content[s] \in Nat
                           /\ release.content[s] \in Nat /\ now \in Nat
                           /\ bundle.at \in Nat /\ release.at \in Nat
    BY <1>2 DEF StoreInv, StoreTypes, Editions, Bundles
  <2>2. QED
    BY <1>1, <2>1 DEF StoreInv, SnapshotsAge, Older, disk
<1>5. PricesFit'
  BY <1>1 DEF StoreInv, PricesFit, Loaded, disk
<1>6. StatesKnow'
  BY <1>1 DEF StoreInv, StatesKnow, Knows
<1>7. QED
  BY <1>3, <1>4, <1>5, <1>6 DEF StoreInv

LEMMA ReleaseKeeps == ASSUME Intervals, StoreInv, Release PROVE StoreInv'
<1>1. /\ release' = [at |-> now, content |-> edition, number |-> release.number + 1]
      /\ UNCHANGED <<now, edition, disk, states, prices, caller, inFlight, pass, tried, seen>>
  BY DEF Release
<1>2. release' \in Bundles
  BY <1>1 DEF StoreInv, StoreTypes, Bundles
<1>3. StoreTypes'
  BY <1>1, <1>2 DEF StoreInv, StoreTypes, disk
<1>4. SnapshotsAge'
  <2>1. \A s \in Sources : /\ edition[s] \in Nat /\ file[s].at \in Int /\ file[s].content \in Nat
                           /\ now \in Nat /\ release'.content[s] = edition[s] /\ release'.at = now
    BY <1>1 DEF StoreInv, StoreTypes, Editions
  <2>2. QED
    BY <1>1, <2>1 DEF StoreInv, SnapshotsAge, Older, disk
<1>5. PricesFit' /\ StatesKnow'
  BY <1>1 DEF StoreInv, PricesFit, StatesKnow, Knows, Due, Loaded, disk
<1>6. QED
  BY <1>3, <1>4, <1>5 DEF StoreInv

\* A launch: the states are the saved ones, the prices are loaded, perhaps with a newer bundle.
LEMMA RelaunchKeeps == ASSUME Intervals, StoreInv, Relaunch PROVE StoreInv'
<1>1. /\ bundle' \in {bundle, release} /\ states' = saved /\ prices' = Load(file, bundle')
      /\ pass' = NoPass /\ tried' = [s \in Sources |-> [at |-> Never, ok |-> FALSE]]
      /\ seen' = [s \in Sources |-> 0] /\ UNCHANGED <<world, file, saved>>
  BY DEF Relaunch
<1>2. /\ pass'.pc = "none" /\ pass'.due = {} /\ pass'.states = Unfetched
      /\ DOMAIN pass' = PassFields
  BY <1>1 DEF NoPass, PassFields
<1>3. bundle' \in Bundles /\ \A s \in Sources : Older(bundle', s)
  BY <1>1 DEF StoreInv, StoreTypes, SnapshotsAge
<1>4. \A s \in Sources : /\ prices'[s] \in Nat
                         /\ prices'[s] >= bundle'.content[s] /\ prices'[s] >= file[s].content
                         /\ prices'[s] = bundle'.content[s] \/ prices'[s] = file[s].content
  <2> TAKE s \in Sources
  <2>1. prices'[s] = Winner(s, file, bundle')
    BY <1>1 DEF Load
  <2>2. file[s] = NoFile \/ file[s].at >= 0
    BY DEF StoreInv, SnapshotsAge
  <2>3. file \in [Sources -> [at : Int, content : Nat]]
    BY DEF StoreInv, StoreTypes
  <2>4. Older(bundle', s)
    BY <1>3
  <2> QED
    BY <1>3, <2>1, <2>2, <2>3, <2>4, WinnerIsNewer
<1>5. Unfetched \in [Sources -> States] /\ \A s \in Sources : Unfetched[s].etag = 0
  BY DEF Unfetched, States, Never, Intervals
<1>6. StoreTypes'
  <2>1. prices' \in Editions /\ seen' \in Editions
    BY <1>1, <1>4 DEF Editions, Load
  <2>2. DOMAIN tried' = Sources /\ \A s \in Sources : tried'[s].at \in Int
    BY <1>1 DEF Never, Intervals
  <2>3. QED
    BY <1>1, <1>2, <1>3, <1>5, <2>1, <2>2 DEF StoreInv, StoreTypes, world
<1>7. SnapshotsAge'
  <2>1. now' = now /\ edition' = edition /\ release' = release /\ file' = file
    BY <1>1 DEF world
  <2>2. \A s \in Sources : release.content[s] \in Nat
    BY DEF StoreInv, StoreTypes, Bundles, Editions
  <2>3. CASE bundle' = bundle
    BY <2>1, <2>3 DEF StoreInv, SnapshotsAge, Older
  <2>4. CASE bundle' = release
    BY <2>1, <2>2, <2>4 DEF StoreInv, SnapshotsAge, Older
  <2>5. QED
    BY <1>1, <2>3, <2>4
<1>8. PricesFit'
  <2>1. \A s \in Sources : /\ file[s].content \in Nat /\ seen'[s] = 0
                           /\ bundle'.content[s] \in Nat
    BY <1>1, <1>3 DEF StoreInv, StoreTypes, Bundles, Editions
  <2>2. \A s \in Sources : states'[s].etag <= file[s].content /\ saved'[s].etag <= file[s].content
    BY <1>1 DEF StoreInv, PricesFit
  <2>3. \A s \in Sources : pass'.states[s].etag = 0
    BY <1>2, <1>5
  <2>4. file' = file
    BY <1>1
  <2>5. QED
    BY <1>4, <2>1, <2>2, <2>3, <2>4 DEF PricesFit
<1>9. StatesKnow'
  <2>1. \A s \in Sources : ~tried'[s].ok /\ tried'[s].at = Never
    BY <1>1
  <2>2. QED
    BY <1>2, <2>1 DEF StatesKnow, Knows
<1>10. QED
  BY <1>6, <1>7, <1>8, <1>9 DEF StoreInv

-----------------------------------------------------------------------------
(* The pass.                                                                         *)

\* A refresh that asks starts a pass if none is under way.
LEMMA CallerKeeps ==
  ASSUME Intervals, StoreInv, NEW c \in Callers, HasDueSource(c) \/ Exchange(c)
  PROVE  StoreInv'
<1>1. UNCHANGED <<world, disk, states, prices, tried, seen>>
  BY DEF HasDueSource, Exchange
<1>2. SnapshotsAge'
  BY <1>1 DEF StoreInv, SnapshotsAge, Older, world, disk
<1>3. CASE UNCHANGED pass
  <2>1. inFlight' \/ inFlight' = inFlight
    BY DEF HasDueSource, Exchange
  <2>2. StoreTypes'
    BY <1>1, <1>3, <2>1 DEF StoreInv, StoreTypes, world, disk
  <2>3. PricesFit' /\ StatesKnow'
    BY <1>1, <1>3 DEF StoreInv, PricesFit, Loaded, StatesKnow, Knows, Due, world, disk
  <2>4. QED
    BY <1>2, <2>2, <2>3 DEF StoreInv
<1>4. CASE pass' = [NoPass EXCEPT !.pc = "begin"] /\ ~inFlight /\ inFlight'
  <2>1. /\ pass'.pc = "begin" /\ pass'.due = {} /\ pass'.states = Unfetched
        /\ DOMAIN pass' = PassFields
    BY <1>4 DEF NoPass, PassFields
  <2>2. pass.pc = "none"
    BY <1>4 DEF StoreInv, StoreTypes
  <2>3. Unfetched \in [Sources -> States] /\ \A s \in Sources : Unfetched[s].etag = 0
    BY DEF Unfetched, States, Never, Intervals
  <2>4. StoreTypes'
    BY <1>1, <1>4, <2>1, <2>3 DEF StoreInv, StoreTypes, world, disk
  <2>5. PricesFit'
    <3>1. \A s \in Sources : pass'.states[s].etag = 0 /\ file[s].content \in Nat
      BY <2>1, <2>3 DEF StoreInv, StoreTypes
    <3>2. QED
      BY <1>1, <2>1, <2>2, <3>1 DEF StoreInv, PricesFit, Loaded, disk
  <2>6. StatesKnow'
    BY <1>1, <2>1, <2>2 DEF StoreInv, StatesKnow, Knows
  <2>7. QED
    BY <1>2, <2>4, <2>5, <2>6 DEF StoreInv
<1>5. QED
  <2>1. UNCHANGED pass \/ (pass' = [NoPass EXCEPT !.pc = "begin"] /\ ~inFlight /\ inFlight')
    BY DEF HasDueSource, Exchange
  <2>2. QED
    BY <1>3, <1>4, <2>1

\* refresh_due copies the states and finds what is due.
LEMMA BeginPassKeeps == ASSUME StoreInv, BeginPass PROVE StoreInv'
<1>1. /\ pass.pc = "begin" /\ pass' = [pc |-> "fetch", due |-> {s \in Sources : Due(states[s])},
                                       states |-> states, changed |-> FALSE]
      /\ UNCHANGED <<world, disk, states, prices, caller, inFlight, tried, seen>>
  BY DEF BeginPass
<1>2. /\ DOMAIN pass' = PassFields /\ pass'.pc = "fetch" /\ pass'.states = states
      /\ pass'.due = {s \in Sources : Due(states[s])} /\ ~pass'.changed
  BY <1>1 DEF PassFields
<1>3. StoreTypes'
  BY <1>1, <1>2 DEF StoreInv, StoreTypes, world, disk
<1>4. SnapshotsAge'
  BY <1>1 DEF StoreInv, SnapshotsAge, Older, world, disk
<1>5. PricesFit'
  BY <1>1, <1>2 DEF StoreInv, PricesFit, Loaded, disk
<1>6. StatesKnow'
  BY <1>1, <1>2 DEF StoreInv, StatesKnow, Knows, Due, world
<1>7. QED
  BY <1>3, <1>4, <1>5, <1>6 DEF StoreInv

\* What one fetch leaves in the pass.
LEMMA FetchedShape ==
  ASSUME StoreInv, NEW s \in Sources, Fetching(s), NEW state \in States, NEW changed,
         Fetched(s, state, changed)
  PROVE  /\ pass.pc = "fetch" /\ s \in pass.due
         /\ DOMAIN pass' = PassFields /\ pass'.pc = "fetch" /\ pass'.due = pass.due \ {s}
         /\ pass'.changed = changed /\ pass'.states \in [Sources -> States]
         /\ pass'.states[s] = state
         /\ \A t \in Sources \ {s} : pass'.states[t] = pass.states[t]
<1>1. pass.pc = "fetch" /\ s \in pass.due /\ DOMAIN pass = PassFields
      /\ pass.states \in [Sources -> States]
  BY DEF Fetching, StoreInv, StoreTypes
<1>2. pass' = [pass EXCEPT !.due = @ \ {s}, !.states[s] = state, !.changed = changed]
  BY DEF Fetched
<1>3. QED
  BY <1>1, <1>2 DEF PassFields

\* A fetch is one that was due, and the states of the pass know of it afterwards.
LEMMA FetchIsKnown ==
  ASSUME StoreInv, NEW s \in Sources, Fetching(s), NEW state \in States, NEW changed,
         Fetched(s, state, changed), NEW try \in [at : {now}, ok : BOOLEAN],
         tried' = [tried EXCEPT ![s] = try], UNCHANGED <<now, states>>,
         try.ok => state.fetched = now, ~try.ok => state.failed = now
  PROVE  StatesKnow'
<1>1. /\ pass.pc = "fetch" /\ pass'.pc = "fetch" /\ pass'.due = pass.due \ {s}
      /\ pass'.states[s] = state /\ \A t \in Sources \ {s} : pass'.states[t] = pass.states[t]
  BY FetchedShape
<1>2. try.at = now /\ now \in Nat /\ DOMAIN tried = Sources
  BY DEF StoreInv, StoreTypes
<1>3. tried'[s] = try /\ \A t \in Sources \ {s} : tried'[t] = tried[t]
  BY <1>2
<1>4. ASSUME NEW t \in Sources
      PROVE  \/ t \in pass'.due /\ Due(states[t])' /\ Knows(states[t], t)'
             \/ t \notin pass'.due /\ Knows(pass.states[t], t)'
  <2>1. CASE t = s
    <3>1. try.ok => state.fetched >= try.at
      BY <1>2
    <3>2. ~try.ok => state.failed >= try.at
      BY <1>2
    <3>3. QED
      BY <1>1, <1>3, <2>1, <3>1, <3>2 DEF Knows
  <2>2. CASE t # s
    <3>1. \/ t \in pass.due /\ Due(states[t]) /\ Knows(states[t], t)
          \/ t \notin pass.due /\ Knows(pass.states[t], t)
      BY <1>1 DEF StoreInv, StatesKnow
    <3>2. QED
      BY <1>1, <1>3, <2>2, <3>1 DEF Knows, Due
  <2>3. QED
    BY <2>1, <2>2
<1>5. QED
  BY <1>1, <1>4 DEF StatesKnow

LEMMA FailsKeeps == ASSUME StoreInv, NEW s \in Sources, FetchFails(s) PROVE StoreInv'
<1> DEFINE state == [pass.states[s] EXCEPT !.failed = now]
           try == [at |-> now, ok |-> FALSE]
<1>1. /\ Fetching(s) /\ Fetched(s, state, pass.changed) /\ tried' = [tried EXCEPT ![s] = try]
      /\ UNCHANGED <<world, disk, states, prices, caller, inFlight, seen>>
  BY DEF FetchFails
<1>2. state \in States /\ state.failed = now /\ state.etag = pass.states[s].etag
  BY DEF StoreInv, StoreTypes, States
<1>3. try \in [at : {now}, ok : BOOLEAN] /\ ~try.ok /\ try.at \in Int
  BY DEF StoreInv, StoreTypes
<1> HIDE DEF state, try
<1>4. /\ pass.pc = "fetch" /\ s \in pass.due
      /\ DOMAIN pass' = PassFields /\ pass'.pc = "fetch" /\ pass'.due = pass.due \ {s}
      /\ pass'.changed = pass.changed /\ pass'.states \in [Sources -> States]
      /\ pass'.states[s] = state /\ \A t \in Sources \ {s} : pass'.states[t] = pass.states[t]
  BY <1>1, <1>2, FetchedShape
<1>5. StoreTypes'
  BY <1>1, <1>3, <1>4 DEF StoreInv, StoreTypes, world, disk
<1>6. SnapshotsAge'
  BY <1>1 DEF StoreInv, SnapshotsAge, Older, world, disk
<1>7. PricesFit'
  <2>1. \A t \in Sources : pass'.states[t].etag = pass.states[t].etag
    BY <1>2, <1>4
  <2>2. QED
    BY <1>1, <1>4, <2>1 DEF StoreInv, PricesFit, Loaded, disk
<1>8. StatesKnow'
  <2>1. now' = now /\ states' = states
    BY <1>1 DEF world
  <2>2. QED
    BY <1>1, <1>2, <1>3, <2>1, FetchIsKnown
<1>9. QED
  BY <1>5, <1>6, <1>7, <1>8 DEF StoreInv

\* "Not modified" is said of what the cache file has.
LEMMA NotModifiedKeeps ==
  ASSUME Intervals, StoreInv, NEW s \in Sources, NotModified(s) PROVE StoreInv'
<1> DEFINE state == [pass.states[s] EXCEPT !.fetched = now, !.failed = Never]
           try == [at |-> now, ok |-> TRUE]
<1>1. /\ Fetching(s) /\ Fetched(s, state, pass.changed) /\ tried' = [tried EXCEPT ![s] = try]
      /\ seen' = [seen EXCEPT ![s] = edition[s]] /\ pass.states[s].etag = edition[s]
      /\ UNCHANGED <<world, disk, states, prices, caller, inFlight>>
  BY DEF NotModified
<1>2. state \in States /\ state.fetched = now /\ state.etag = pass.states[s].etag
  <2>1. pass.states[s] \in States /\ now \in Int /\ Never \in Int
    BY DEF StoreInv, StoreTypes, Never, Intervals
  <2>2. QED
    BY <2>1 DEF States
<1>3. try \in [at : {now}, ok : BOOLEAN] /\ try.ok /\ try.at \in Int
  BY DEF StoreInv, StoreTypes
<1> HIDE DEF state, try
<1>4. /\ pass.pc = "fetch" /\ s \in pass.due
      /\ DOMAIN pass' = PassFields /\ pass'.pc = "fetch" /\ pass'.due = pass.due \ {s}
      /\ pass'.changed = pass.changed /\ pass'.states \in [Sources -> States]
      /\ pass'.states[s] = state /\ \A t \in Sources \ {s} : pass'.states[t] = pass.states[t]
  BY <1>1, <1>2, FetchedShape
<1>5. StoreTypes'
  <2>1. seen' \in Editions
    BY <1>1 DEF StoreInv, StoreTypes, Editions
  <2>2. QED
    BY <1>1, <1>3, <1>4, <2>1 DEF StoreInv, StoreTypes, world, disk
<1>6. SnapshotsAge'
  BY <1>1 DEF StoreInv, SnapshotsAge, Older, world, disk
<1>7. PricesFit'
  <2>1. \A t \in Sources : pass'.states[t].etag = pass.states[t].etag
    BY <1>2, <1>4
  <2>2. \A t \in Sources : seen'[t] <= file[t].content \/ seen'[t] <= prices[t]
    BY <1>1 DEF StoreInv, StoreTypes, PricesFit, Editions
  <2>3. QED
    BY <1>1, <1>4, <2>1, <2>2 DEF StoreInv, PricesFit, Loaded, disk
<1>8. StatesKnow'
  <2>1. now' = now /\ states' = states
    BY <1>1 DEF world
  <2>2. QED
    BY <1>1, <1>2, <1>3, <2>1, FetchIsKnown
<1>9. QED
  BY <1>5, <1>6, <1>7, <1>8 DEF StoreInv

\* An answer is in the cache file before anything else knows of it.
LEMMA AnsweredKeeps ==
  ASSUME Intervals, StoreInv, NEW s \in Sources, Answered(s) PROVE StoreInv'
<1> DEFINE state == [etag |-> edition[s], fetched |-> now, failed |-> Never]
           try == [at |-> now, ok |-> TRUE]
<1>1. /\ Fetching(s) /\ Fetched(s, state, TRUE) /\ tried' = [tried EXCEPT ![s] = try]
      /\ file' = [file EXCEPT ![s] = [at |-> now, content |-> edition[s]]]
      /\ seen' = [seen EXCEPT ![s] = edition[s]]
      /\ UNCHANGED <<world, launches, bundle, saved, states, prices, caller, inFlight>>
  BY DEF Answered
<1>2. state \in States /\ state.fetched = now /\ state.etag = edition[s]
  BY DEF StoreInv, StoreTypes, States, Never, Intervals, Editions
<1>3. try \in [at : {now}, ok : BOOLEAN] /\ try.ok /\ try.at \in Int
  BY DEF StoreInv, StoreTypes
<1> HIDE DEF state, try
<1>4. /\ pass.pc = "fetch" /\ s \in pass.due
      /\ DOMAIN pass' = PassFields /\ pass'.pc = "fetch" /\ pass'.due = pass.due \ {s}
      /\ pass'.changed = TRUE /\ pass'.states \in [Sources -> States]
      /\ pass'.states[s] = state /\ \A t \in Sources \ {s} : pass'.states[t] = pass.states[t]
  BY <1>1, <1>2, FetchedShape
<1>5. /\ now' = now /\ edition' = edition /\ release' = release /\ bundle' = bundle
      /\ saved' = saved /\ states' = states /\ prices' = prices
  BY <1>1 DEF world
<1>6. /\ file'[s].at = now /\ file'[s].content = edition[s]
      /\ \A t \in Sources \ {s} : file'[t] = file[t]
      /\ file' \in [Sources -> [at : Int, content : Nat]]
  BY <1>1 DEF StoreInv, StoreTypes, Editions
<1>7. \A t \in Sources : /\ edition[t] \in Nat /\ prices[t] \in Nat /\ seen[t] \in Nat
                         /\ file[t].content \in Nat /\ bundle.content[t] \in Nat
                         /\ release.content[t] \in Nat /\ pass.states[t].etag \in Nat
                         /\ saved[t].etag \in Nat /\ states[t].etag \in Nat
  BY DEF StoreInv, StoreTypes, Editions, Bundles, States
<1>8. StoreTypes'
  <2>1. seen' \in Editions
    BY <1>1, <1>7 DEF StoreInv, StoreTypes, Editions
  <2>2. QED
    BY <1>1, <1>3, <1>4, <1>5, <1>6, <2>1 DEF StoreInv, StoreTypes
<1>9. SnapshotsAge'
  <2>1. now \in Nat /\ bundle.at \in Nat /\ release.at \in Nat
    BY DEF StoreInv, StoreTypes, Bundles
  <2>2. \A t \in Sources : \/ t # s /\ file'[t] = file[t]
                           \/ t = s /\ file'[t].at = now /\ file'[t].content = edition[t]
    BY <1>6
  <2>3. QED
    BY <1>5, <1>7, <2>1, <2>2 DEF StoreInv, SnapshotsAge, Older
<1>10. PricesFit'
  <2>1. \A t \in Sources : file'[t].content \in Nat /\ file[t].content <= file'[t].content
    BY <1>6, <1>7 DEF StoreInv, SnapshotsAge
  <2>2. \A t \in Sources : seen'[t] <= file'[t].content \/ seen'[t] <= prices[t]
    <3>1. \A t \in Sources \ {s} : seen'[t] = seen[t]
      BY <1>1
    <3>2. seen'[s] = edition[s]
      BY <1>1 DEF StoreInv, StoreTypes, Editions
    <3>3. QED
      BY <1>6, <1>7, <2>1, <3>1, <3>2 DEF StoreInv, PricesFit
  <2>3. \A t \in Sources : pass'.states[t].etag <= file'[t].content
    BY <1>2, <1>4, <1>6, <1>7, <2>1 DEF StoreInv, PricesFit
  <2>4. \A t \in Sources : /\ saved[t].etag <= file'[t].content
                           /\ states[t].etag <= file'[t].content
                           /\ prices[t] <= bundle.content[t] \/ prices[t] <= file'[t].content
    BY <1>7, <2>1 DEF StoreInv, PricesFit
  <2>5. ~Loaded'
    BY <1>4 DEF Loaded
  <2>6. QED
    BY <1>5, <2>2, <2>3, <2>4, <2>5 DEF StoreInv, PricesFit
<1>11. StatesKnow'
  BY <1>1, <1>2, <1>3, <1>5, FetchIsKnown
<1>12. QED
  BY <1>8, <1>9, <1>10, <1>11 DEF StoreInv

\* The end of a pass: the states are shared, the prices loaded, the states saved.
LEMMA StoreStatesKeeps == ASSUME StoreInv, StoreStates PROVE StoreInv'
<1>1. /\ pass.pc = "fetch" /\ pass.due = {} /\ states' = pass.states
      /\ pass' = [pass EXCEPT !.pc = IF pass.changed THEN "load" ELSE "write"]
      /\ UNCHANGED <<world, disk, prices, caller, inFlight, tried, seen>>
  BY DEF StoreStates
<1>2. /\ DOMAIN pass' = PassFields /\ pass'.pc = IF pass.changed THEN "load" ELSE "write"
      /\ pass'.states = pass.states /\ pass'.due = {} /\ pass'.changed = pass.changed
  BY <1>1 DEF StoreInv, StoreTypes, PassFields
<1>3. StoreTypes'
  BY <1>1, <1>2 DEF StoreInv, StoreTypes, world, disk
<1>4. SnapshotsAge'
  BY <1>1 DEF StoreInv, SnapshotsAge, Older, world, disk
<1>5. PricesFit'
  BY <1>1, <1>2 DEF StoreInv, PricesFit, Loaded, disk
<1>6. StatesKnow'
  BY <1>1, <1>2 DEF StoreInv, StatesKnow, Knows
<1>7. QED
  BY <1>3, <1>4, <1>5, <1>6 DEF StoreInv

LEMMA LoadKeeps ==
  ASSUME Intervals, StoreInv, LoadPricing
  PROVE  StoreInv' /\ \A s \in Sources : prices'[s] >= prices[s]
<1>1. /\ pass.pc = "load" /\ prices' = Load(file, bundle) /\ pass' = [pass EXCEPT !.pc = "write"]
      /\ UNCHANGED <<world, disk, states, caller, inFlight, tried, seen>>
  BY DEF LoadPricing
<1>2. /\ DOMAIN pass' = PassFields /\ pass'.pc = "write" /\ pass'.states = pass.states
      /\ pass'.due = pass.due /\ pass'.changed = pass.changed
  BY <1>1 DEF StoreInv, StoreTypes, PassFields
<1>3. \A s \in Sources : /\ prices'[s] \in Nat
                         /\ prices'[s] >= bundle.content[s] /\ prices'[s] >= file[s].content
                         /\ prices'[s] = bundle.content[s] \/ prices'[s] = file[s].content
  <2> TAKE s \in Sources
  <2>1. prices'[s] = Winner(s, file, bundle)
    BY <1>1 DEF Load
  <2>2. /\ Older(bundle, s) /\ (file[s] = NoFile \/ file[s].at >= 0)
        /\ bundle \in Bundles /\ file \in [Sources -> [at : Int, content : Nat]]
    BY DEF StoreInv, StoreTypes, SnapshotsAge
  <2> QED
    BY <2>1, <2>2, WinnerIsNewer
<1>4. prices' \in Editions
  BY <1>1, <1>3 DEF Editions, Load
<1>5. \A s \in Sources : /\ prices[s] \in Nat /\ seen[s] \in Nat /\ file[s].content \in Nat
                         /\ bundle.content[s] \in Nat
  BY DEF StoreInv, StoreTypes, Bundles, Editions
<1>6. \A s \in Sources : prices'[s] >= prices[s]
  BY <1>3, <1>5 DEF StoreInv, PricesFit
<1>7. StoreTypes'
  BY <1>1, <1>2, <1>4 DEF StoreInv, StoreTypes, world, disk
<1>8. SnapshotsAge'
  BY <1>1 DEF StoreInv, SnapshotsAge, Older, world, disk
<1>9. PricesFit'
  <2>1. \A s \in Sources : seen[s] <= file[s].content \/ seen[s] <= prices'[s]
    BY <1>3, <1>5, <1>6 DEF StoreInv, PricesFit
  <2>2. \A s \in Sources : prices'[s] <= bundle.content[s] \/ prices'[s] <= file[s].content
    BY <1>3, <1>5
  <2>3. QED
    BY <1>1, <1>2, <1>3, <2>1, <2>2 DEF StoreInv, PricesFit, disk
<1>10. StatesKnow'
  BY <1>1, <1>2 DEF StoreInv, StatesKnow, Knows
<1>11. QED
  BY <1>6, <1>7, <1>8, <1>9, <1>10 DEF StoreInv

LEMMA WriteKeeps == ASSUME StoreInv, WriteStates PROVE StoreInv'
<1>1. /\ pass.pc = "write" /\ saved' \in {saved, pass.states} /\ pass' = [pass EXCEPT !.pc = "done"]
      /\ UNCHANGED <<world, launches, bundle, file, states, prices, caller, inFlight, tried, seen>>
  BY DEF WriteStates
<1>2. /\ DOMAIN pass' = PassFields /\ pass'.pc = "done" /\ pass'.states = pass.states
      /\ pass'.due = pass.due /\ pass'.changed = pass.changed
  BY <1>1 DEF StoreInv, StoreTypes, PassFields
<1>3. saved' \in [Sources -> States] /\ \A s \in Sources : saved'[s].etag <= file[s].content
  BY <1>1 DEF StoreInv, StoreTypes, PricesFit
<1>4. StoreTypes'
  BY <1>1, <1>2, <1>3 DEF StoreInv, StoreTypes, world
<1>5. SnapshotsAge'
  BY <1>1 DEF StoreInv, SnapshotsAge, Older, world
<1>6. PricesFit'
  BY <1>1, <1>2, <1>3 DEF StoreInv, PricesFit, Loaded
<1>7. StatesKnow'
  BY <1>1, <1>2 DEF StoreInv, StatesKnow, Knows
<1>8. QED
  BY <1>4, <1>5, <1>6, <1>7 DEF StoreInv

LEMMA CompleteKeeps == ASSUME Intervals, StoreInv, Complete PROVE StoreInv'
<1>1. /\ pass.pc = "done" /\ pass' = NoPass
      /\ UNCHANGED <<world, disk, states, prices, caller, tried, seen>>
  BY DEF Complete
<1>2. /\ DOMAIN pass' = PassFields /\ pass'.pc = "none" /\ pass'.states = Unfetched
      /\ pass'.due = {}
  BY <1>1 DEF NoPass, PassFields
<1>3. Unfetched \in [Sources -> States] /\ \A s \in Sources : Unfetched[s].etag = 0
  BY DEF Unfetched, States, Never, Intervals
<1>4. StoreTypes'
  BY <1>1, <1>2, <1>3 DEF StoreInv, StoreTypes, world, disk
<1>5. SnapshotsAge'
  BY <1>1 DEF StoreInv, SnapshotsAge, Older, world, disk
<1>6. PricesFit'
  <2>1. \A s \in Sources : pass'.states[s].etag = 0 /\ file[s].content \in Nat
    BY <1>2, <1>3 DEF StoreInv, StoreTypes
  <2>2. QED
    BY <1>1, <1>2, <2>1 DEF StoreInv, PricesFit, Loaded, disk
<1>7. StatesKnow'
  BY <1>1, <1>2 DEF StoreInv, StatesKnow, Knows
<1>8. QED
  BY <1>4, <1>5, <1>6, <1>7 DEF StoreInv

-----------------------------------------------------------------------------
LEMMA StoreStep == ASSUME Intervals, StoreInv, [Next]_vars PROVE StoreInv'
<1>1. CASE Tick
  BY <1>1, TickKeeps
<1>2. CASE Release
  BY <1>2, ReleaseKeeps
<1>3. CASE Relaunch
  BY <1>3, RelaunchKeeps
<1>4. CASE \E c \in Callers : HasDueSource(c) \/ Exchange(c)
  BY <1>4, CallerKeeps
<1>5. CASE BeginPass
  BY <1>5, BeginPassKeeps
<1>6. CASE \E s \in Sources : Answered(s) \/ NotModified(s) \/ FetchFails(s)
  BY <1>6, AnsweredKeeps, NotModifiedKeeps, FailsKeeps
<1>7. CASE StoreStates
  BY <1>7, StoreStatesKeeps
<1>8. CASE LoadPricing
  BY <1>8, LoadKeeps
<1>9. CASE WriteStates
  BY <1>9, WriteKeeps
<1>10. CASE Complete
  BY <1>10, CompleteKeeps
<1>11. CASE UNCHANGED vars
  <2>1. UNCHANGED <<now, edition, release, bundle, file, saved, states, prices, inFlight, pass,
                    tried, seen>>
    BY <1>11 DEF vars
  <2>2. StoreTypes' /\ SnapshotsAge'
    BY <2>1 DEF StoreInv, StoreTypes, SnapshotsAge, Older
  <2>3. PricesFit' /\ StatesKnow'
    BY <2>1 DEF StoreInv, PricesFit, Loaded, StatesKnow, Knows, Due
  <2>4. QED
    BY <2>2, <2>3 DEF StoreInv
<1>12. QED
  BY <1>1, <1>2, <1>3, <1>4, <1>5, <1>6, <1>7, <1>8, <1>9, <1>10, <1>11 DEF Next

THEOREM StoreHolds == ASSUME Intervals PROVE Spec => []StoreInv
<1>1. Init => StoreInv
  BY StoreInitially
<1>2. StoreInv /\ [Next]_vars => StoreInv'
  BY StoreStep
<1>3. QED
  BY <1>1, <1>2, PTL DEF Spec

\* Between passes every source's prices are at least those of its last answer: they are not behind
\* the cache file once loaded, and an answer is never newer than the file (fetch_source).
THEOREM AnswersAreInForce == ASSUME Intervals PROVE Spec => []AnswersAreServed
<1>1. StoreInv => AnswersAreServed
  <2> SUFFICES ASSUME StoreInv, pass.pc = "none", NEW s \in Sources PROVE prices[s] >= seen[s]
    BY DEF AnswersAreServed
  <2>1. prices[s] \in Nat /\ seen[s] \in Nat /\ file[s].content \in Nat
    BY DEF StoreInv, StoreTypes, Editions
  <2>2. prices[s] >= file[s].content
    BY DEF StoreInv, PricesFit, Loaded
  <2>3. QED
    BY <2>1, <2>2 DEF StoreInv, PricesFit
<1>2. QED
  BY <1>1, StoreHolds, PTL

-----------------------------------------------------------------------------
\* What every step keeps of the prices.
LEMMA PricesStep ==
  ASSUME Intervals, StoreInv, [Next]_vars
  PROVE  \A s \in Sources : prices'[s] >= prices[s] /\ prices'[s] >= bundle'.content[s]
<1>1. StoreInv'
  BY StoreStep
<1>2. \A s \in Sources : /\ prices[s] \in Nat /\ bundle.content[s] \in Nat
                         /\ release.content[s] \in Nat /\ file[s].content \in Nat
  BY DEF StoreInv, StoreTypes, Editions, Bundles
<1>3. \A s \in Sources : prices'[s] >= bundle'.content[s]
  BY <1>1 DEF StoreInv, PricesFit
<1>4. CASE prices' = prices
  BY <1>2, <1>3, <1>4
<1>5. CASE LoadPricing
  BY <1>3, <1>5, LoadKeeps
<1>6. CASE Relaunch
  <2>1. bundle' \in {bundle, release} /\ file' = file /\ pass' = NoPass
    BY <1>6 DEF Relaunch
  <2>2. \A s \in Sources : bundle'.content[s] \in Nat /\ bundle'.content[s] >= bundle.content[s]
    BY <1>2, <2>1 DEF StoreInv, SnapshotsAge
  <2>3. \A s \in Sources : prices'[s] \in Nat /\ prices'[s] >= file[s].content
    <3>1. pass'.pc = "none"
      BY <2>1 DEF NoPass
    <3>2. QED
      BY <1>1, <2>1, <3>1 DEF StoreInv, StoreTypes, Editions, PricesFit, Loaded
  <2>4. QED
    BY <1>2, <1>3, <2>2, <2>3 DEF StoreInv, PricesFit
<1>7. QED
  <2>1. prices' = prices \/ LoadPricing \/ Relaunch
    BY DEF Next, vars, Tick, Release, HasDueSource, Exchange, BeginPass, Answered, NotModified,
           FetchFails, StoreStates, WriteStates, Complete
  <2>2. QED
    BY <1>4, <1>5, <1>6, <2>1

\* The prices in force never go back to an earlier edition, in a pass, at a launch or with an
\* update (load_catalog).
THEOREM PricesGrow == ASSUME Intervals PROVE Spec => PricesNeverOlder
<1>1. StoreInv /\ [Next]_vars
        => [\A s \in Sources : prices'[s] >= prices[s] /\ prices'[s] >= bundle'.content[s]]_vars
  BY PricesStep
<1>2. QED
  BY <1>1, StoreHolds, PTL DEF Spec, PricesNeverOlder

-----------------------------------------------------------------------------
\* A source that is fetched was due by the states that know of its last fetch.
LEMMA SpacedStep ==
  ASSUME Intervals, StoreInv, [Next]_vars, NEW s \in Sources,
         tried'[s] # tried[s], tried'[s].at # Never
  PROVE  now - tried[s].at >= IF tried[s].ok THEN RefreshInterval ELSE FailureRetryInterval
<1>1. PICK t \in Sources : Answered(t) \/ NotModified(t) \/ FetchFails(t)
  <2>1. ~Relaunch
    BY DEF Relaunch
  <2>2. tried' # tried
    OBVIOUS
  <2>3. QED
    BY <2>1, <2>2 DEF Next, vars, Tick, Release, HasDueSource, Exchange, BeginPass, StoreStates,
                      LoadPricing, WriteStates, Complete
<1>2. t = s
  <2>1. DOMAIN tried = Sources
    BY DEF StoreInv, StoreTypes
  <2>2. QED
    BY <1>1, <2>1 DEF Answered, NotModified, FetchFails
<1>3. Fetching(s)
  BY <1>1, <1>2 DEF Answered, NotModified, FetchFails
<1>4. Due(states[s]) /\ Knows(states[s], s)
  BY <1>3 DEF Fetching, StoreInv, StatesKnow
<1>5. /\ now \in Nat /\ tried[s].at \in Int /\ states[s].fetched \in Int
      /\ states[s].failed \in Int /\ RefreshInterval \in Nat /\ FailureRetryInterval \in Nat
      /\ FailureRetryInterval <= RefreshInterval /\ Never = -RefreshInterval
  BY DEF StoreInv, StoreTypes, States, Intervals, Never
<1>6. CASE tried[s].ok
  BY <1>4, <1>5, <1>6 DEF Due, Knows
<1>7. CASE ~tried[s].ok
  BY <1>4, <1>5, <1>7 DEF Due, Knows
<1>8. QED
  BY <1>6, <1>7

\* However many refreshes find it due, a source is asked once per interval (current, refresh_due).
THEOREM SourcesAreAskedRarely == ASSUME Intervals PROVE Spec => FetchesAreSpaced
<1>1. StoreInv /\ [Next]_vars
        => [\A s \in Sources :
              tried'[s] # tried[s] /\ tried'[s].at # Never
                => now - tried[s].at >= IF tried[s].ok THEN RefreshInterval
                                                       ELSE FailureRetryInterval]_vars
  BY SpacedStep
<1>2. QED
  BY <1>1, StoreHolds, PTL DEF Spec, FetchesAreSpaced

-----------------------------------------------------------------------------
(* Sums over finite sets, and other facts that are proved by taking a least          *)
(* counterexample.                                                                   *)

LEMMA LeastNat ==
  ASSUME NEW T, T \subseteq Nat, T # {}
  PROVE  \E x \in T : \A y \in T : x <= y
<1> DEFINE R == {ss \in Nat \X Nat : ss[1] < ss[2]}
<1>1. IsWellFoundedOn(R, Nat)
  BY NatLessThanWellFounded DEF OpToRel
<1>2. \A x, y \in Nat : x < y => <<x, y>> \in R
  OBVIOUS
<1> HIDE DEF R
<1>3. PICK q \in T : \A r \in T : ~ (<<r, q>> \in R)
  BY <1>1, WFMin
<1>4. \A r \in T : ~ (r < q)
  BY <1>2, <1>3
<1>5. QED
  BY <1>4

\* Induction, with the set of the numbers of which a statement holds for the statement.
LEMMA NatSets ==
  ASSUME NEW F, 0 \in F, \A n \in Nat \ {0} : n - 1 \in F => n \in F
  PROVE  Nat \subseteq F
<1> SUFFICES ASSUME Nat \ F # {} PROVE FALSE
  OBVIOUS
<1>1. PICK n \in Nat \ F : \A m \in Nat \ F : n <= m
  BY LeastNat
<1>2. n # 0 /\ n - 1 \in Nat
  BY <1>1
<1>3. n - 1 \in F
  BY <1>1, <1>2
<1>4. QED
  BY <1>1, <1>2, <1>3

\* The recursive function of a fold takes One of the elements and folds the others.
One(T) == CHOOSE x \in T : TRUE
Part(S, n) == {T \in SUBSET S : Cardinality(T) <= n}
SumIs(g, w, D) ==
  g = [T \in D |-> IF T = {} THEN 0 ELSE w[One(T)] + g[T \ {One(T)}]]
SumOf(w, S) == CHOOSE g : SumIs(g, w, SUBSET S)

LEMMA OneLeft ==
  ASSUME NEW S, IsFiniteSet(S), NEW T \in SUBSET S, NEW x \in T
  PROVE  /\ T \ {x} \in SUBSET S
         /\ Cardinality(T) \in Nat \ {0} /\ Cardinality(T \ {x}) = Cardinality(T) - 1
<1>1. IsFiniteSet(T)
  BY FS_Subset
<1>2. Cardinality(T) \in Nat /\ Cardinality(T) # 0
  BY <1>1, FS_CardinalityType, FS_EmptySet
<1>3. QED
  BY <1>1, <1>2, FS_RemoveElement

LEMMA OneIsMember == ASSUME NEW T, T # {} PROVE One(T) \in T
BY DEF One

LEMMA EmptyPart ==
  ASSUME NEW S, IsFiniteSet(S) PROVE Part(S, 0) = {{}}
<1>1. ASSUME NEW T \in SUBSET S, Cardinality(T) <= 0 PROVE T = {}
  <2> SUFFICES ASSUME NEW x \in T PROVE FALSE
    OBVIOUS
  <2>1. Cardinality(T) \in Nat \ {0}
    BY OneLeft
  <2>2. QED
    BY <1>1, <2>1
<1>2. Cardinality({}) <= 0
  BY FS_EmptySet
<1>3. QED
  BY <1>1, <1>2 DEF Part

LEMMA SmallerPart ==
  ASSUME NEW S, IsFiniteSet(S), NEW k \in Nat \ {0}
  PROVE  /\ \A T \in Part(S, k - 1) : T \in Part(S, k)
         /\ \A T \in Part(S, k) : \A x \in T : T \ {x} \in Part(S, k - 1)
<1>1. \A T \in SUBSET S : Cardinality(T) \in Nat
  BY FS_CardinalityType, FS_Subset
<1>2. \A T \in Part(S, k - 1) : T \in Part(S, k)
  BY <1>1 DEF Part
<1>3. ASSUME NEW T \in Part(S, k), NEW x \in T PROVE T \ {x} \in Part(S, k - 1)
  BY <1>1, OneLeft DEF Part
<1>4. QED
  BY <1>2, <1>3

LEMMA WholePart ==
  ASSUME NEW S, IsFiniteSet(S)
  PROVE  Cardinality(S) \in Nat /\ Part(S, Cardinality(S)) = SUBSET S
<1>1. Cardinality(S) \in Nat /\ \A T \in SUBSET S : Cardinality(T) <= Cardinality(S)
  BY FS_CardinalityType, FS_Subset
<1>2. QED
  BY <1>1 DEF Part

LEMMA PartSum ==
  ASSUME NEW w, NEW S, IsFiniteSet(S), NEW n \in Nat
  PROVE  \E g : SumIs(g, w, Part(S, n))
<1> DEFINE F == {k \in Nat : \E g : SumIs(g, w, Part(S, k))}
<1>1. 0 \in F
  <2>1. SumIs([T \in {{}} |-> 0], w, Part(S, 0))
    BY EmptyPart DEF SumIs
  <2>2. QED
    BY <2>1
<1>2. ASSUME NEW k \in Nat \ {0}, k - 1 \in F PROVE k \in F
  <2>1. PICK g : SumIs(g, w, Part(S, k - 1))
    BY <1>2
  <2> DEFINE h == [T \in Part(S, k) |-> IF T = {} THEN 0 ELSE w[One(T)] + g[T \ {One(T)}]]
  <2>2. \A T \in Part(S, k - 1) : h[T] = g[T]
    BY <1>2, <2>1, SmallerPart DEF SumIs
  <2>3. \A T \in Part(S, k) : T # {} => h[T \ {One(T)}] = g[T \ {One(T)}]
    BY <1>2, <2>2, OneIsMember, SmallerPart
  <2>4. h = [T \in Part(S, k) |-> IF T = {} THEN 0 ELSE w[One(T)] + g[T \ {One(T)}]]
    OBVIOUS
  <2> HIDE DEF h
  <2>5. SumIs(h, w, Part(S, k))
    BY <2>3, <2>4 DEF SumIs
  <2>6. QED
    BY <2>5
<1> HIDE DEF F
<1>3. n \in F
  BY <1>1, <1>2, NatSets
<1>4. QED
  BY <1>3 DEF F

\* The sum over a subset takes one element and adds the sum over the others.
LEMMA SumSteps ==
  ASSUME NEW w, NEW S, IsFiniteSet(S)
  PROVE  /\ SumOf(w, S)[{}] = 0
         /\ \A T \in SUBSET S : T # {} => SumOf(w, S)[T] = w[One(T)] + SumOf(w, S)[T \ {One(T)}]
<1>1. \E g : SumIs(g, w, SUBSET S)
  <2>1. \E g : SumIs(g, w, Part(S, Cardinality(S)))
    BY WholePart, PartSum
  <2>2. QED
    BY <2>1, WholePart
<1>2. SumIs(SumOf(w, S), w, SUBSET S)
  BY <1>1 DEF SumOf
<1>3. QED
  BY <1>2 DEF SumIs

LEMMA SumUnfolds ==
  ASSUME NEW w PROVE SumFunction(w) = SumOf(w, DOMAIN w)[DOMAIN w]
BY DEF SumFunction, SumFunctionOnSet, FoldFunctionOnSet, MapThenFoldSet, SumOf, SumIs, One

\* The same for the subsets of a finite set.
LEMMA SetsOfSubsets ==
  ASSUME NEW S, IsFiniteSet(S), NEW F, {} \in F,
         \A T \in SUBSET S : T # {} /\ (\A x \in T : T \ {x} \in F) => T \in F
  PROVE  SUBSET S \subseteq F
<1> DEFINE G == {k \in Nat : Part(S, k) \subseteq F}
<1>1. 0 \in G
  BY EmptyPart
<1>2. ASSUME NEW k \in Nat \ {0}, k - 1 \in G PROVE k \in G
  <2>1. Part(S, k - 1) \subseteq F
    BY <1>2
  <2>2. ASSUME NEW T \in Part(S, k), T # {} PROVE T \in F
    <3>1. \A x \in T : T \ {x} \in F
      BY <2>1, SmallerPart
    <3>2. T \in SUBSET S
      BY DEF Part
    <3>3. QED
      BY <2>2, <3>1, <3>2
  <2>3. QED
    BY <2>2
<1> HIDE DEF G
<1>3. Cardinality(S) \in G
  BY <1>1, <1>2, NatSets, WholePart
<1>4. QED
  BY <1>3, WholePart DEF G

LEMMA SumType ==
  ASSUME NEW S, IsFiniteSet(S), NEW w \in [S -> Nat]
  PROVE  \A T \in SUBSET S : SumOf(w, S)[T] \in Nat
<1> DEFINE F == {T \in SUBSET S : SumOf(w, S)[T] \in Nat}
<1>1. {} \in F
  BY SumSteps
<1>2. ASSUME NEW T \in SUBSET S, T # {}, \A x \in T : T \ {x} \in F PROVE T \in F
  <2>1. One(T) \in T
    BY <1>2, OneIsMember
  <2>2. SumOf(w, S)[T \ {One(T)}] \in Nat /\ w[One(T)] \in Nat
    BY <1>2, <2>1
  <2>3. SumOf(w, S)[T] = w[One(T)] + SumOf(w, S)[T \ {One(T)}]
    BY <1>2, SumSteps
  <2>4. QED
    BY <2>2, <2>3
<1> HIDE DEF F
<1>3. SUBSET S \subseteq F
  BY <1>1, <1>2, SetsOfSubsets
<1>4. QED
  BY <1>3 DEF F

\* Which element is taken makes no difference.
LEMMA SumTakesAny ==
  ASSUME NEW S, IsFiniteSet(S), NEW w \in [S -> Nat]
  PROVE  \A T \in SUBSET S : \A x \in T : SumOf(w, S)[T] = w[x] + SumOf(w, S)[T \ {x}]
<1> DEFINE F == {T \in SUBSET S : \A x \in T : SumOf(w, S)[T] = w[x] + SumOf(w, S)[T \ {x}]}
<1>1. {} \in F
  OBVIOUS
<1>2. ASSUME NEW T \in SUBSET S, T # {}, \A x \in T : T \ {x} \in F PROVE T \in F
  <2> SUFFICES ASSUME NEW x \in T PROVE SumOf(w, S)[T] = w[x] + SumOf(w, S)[T \ {x}]
    OBVIOUS
  <2> DEFINE y == One(T)
  <2>1. y \in T
    BY <1>2, OneIsMember
  <2>2. SumOf(w, S)[T] = w[y] + SumOf(w, S)[T \ {y}]
    BY <1>2, SumSteps
  <2> HIDE DEF y
  <2>3. CASE x = y
    BY <2>2, <2>3
  <2>4. CASE x # y
    <3>1. T \ {y} \in F /\ T \ {x} \in F
      BY <1>2, <2>1
    <3>2. SumOf(w, S)[T \ {y}] = w[x] + SumOf(w, S)[(T \ {y}) \ {x}]
      BY <2>4, <3>1
    <3>3. SumOf(w, S)[T \ {x}] = w[y] + SumOf(w, S)[(T \ {x}) \ {y}]
      BY <2>1, <2>4, <3>1
    <3>4. (T \ {x}) \ {y} = (T \ {y}) \ {x}
      OBVIOUS
    <3>5. SumOf(w, S)[(T \ {y}) \ {x}] \in Nat /\ w[x] \in Nat /\ w[y] \in Nat
      BY <2>1, SumType
    <3>6. QED
      BY <2>2, <3>2, <3>3, <3>4, <3>5
  <2>5. QED
    BY <2>3, <2>4
<1> HIDE DEF F
<1>3. SUBSET S \subseteq F
  BY <1>1, <1>2, SetsOfSubsets
<1>4. QED
  BY <1>3 DEF F

\* The sum of ones counts.
LEMMA SumOfOnes ==
  ASSUME NEW S, IsFiniteSet(S), NEW w \in [S -> Nat], \A x \in S : w[x] = 1
  PROVE  SumFunction(w) = Cardinality(S)
<1> DEFINE F == {T \in SUBSET S : SumOf(w, S)[T] = Cardinality(T)}
<1>1. {} \in F
  BY SumSteps, FS_EmptySet
<1>2. ASSUME NEW T \in SUBSET S, T # {}, \A x \in T : T \ {x} \in F PROVE T \in F
  <2>1. PICK x \in T : TRUE
    BY <1>2
  <2>2. SumOf(w, S)[T] = 1 + SumOf(w, S)[T \ {x}]
    BY SumTakesAny
  <2>3. SumOf(w, S)[T \ {x}] = Cardinality(T \ {x})
    BY <1>2
  <2>4. Cardinality(T) \in Nat /\ Cardinality(T \ {x}) = Cardinality(T) - 1
    BY OneLeft
  <2>5. QED
    BY <2>2, <2>3, <2>4
<1> HIDE DEF F
<1>3. S \in F
  BY <1>1, <1>2, SetsOfSubsets
<1>4. QED
  BY <1>3, SumUnfolds DEF F

\* Two sums whose terms correspond are equal.
LEMMA SumsCorrespond ==
  ASSUME NEW S, IsFiniteSet(S), NEW w \in [S -> Nat],
         NEW R, IsFiniteSet(R), NEW v \in [R -> Nat],
         NEW f \in [S -> R], \A x, y \in S : f[x] = f[y] => x = y,
         \A r \in R : \E x \in S : f[x] = r, \A x \in S : w[x] = v[f[x]]
  PROVE  SumFunction(w) = SumFunction(v)
<1> DEFINE Image(T) == {f[x] : x \in T}
           F == {T \in SUBSET S : SumOf(w, S)[T] = SumOf(v, R)[Image(T)]}
<1>1. {} \in F
  <2>1. Image({}) = {}
    OBVIOUS
  <2>2. SumOf(w, S)[{}] = 0 /\ SumOf(v, R)[{}] = 0
    BY SumSteps
  <2>3. QED
    BY <2>1, <2>2
<1>2. ASSUME NEW T \in SUBSET S, T # {}, \A x \in T : T \ {x} \in F PROVE T \in F
  <2>1. PICK x \in T : TRUE
    BY <1>2
  <2>2. SumOf(w, S)[T] = w[x] + SumOf(w, S)[T \ {x}]
    BY SumTakesAny
  <2>3. Image(T) \in SUBSET R /\ f[x] \in Image(T)
    OBVIOUS
  <2>4. Image(T \ {x}) = Image(T) \ {f[x]}
    OBVIOUS
  <2>5. SumOf(w, S)[T \ {x}] = SumOf(v, R)[Image(T \ {x})]
    BY <1>2
  <2> HIDE DEF Image
  <2>6. SumOf(v, R)[Image(T)] = v[f[x]] + SumOf(v, R)[Image(T) \ {f[x]}]
    BY <2>3, SumTakesAny
  <2>7. QED
    BY <2>2, <2>4, <2>5, <2>6
<1>3. Image(S) = R
  OBVIOUS
<1> HIDE DEF F, Image
<1>4. S \in F
  BY <1>1, <1>2, SetsOfSubsets
<1>5. QED
  BY <1>3, <1>4, SumUnfolds DEF F

-----------------------------------------------------------------------------
(* The parser of the session logs: what it knows after each line of a log.           *)

\* The recursive function of FoldLeft takes the Last of the lines and folds the others.
Last(T) == CHOOSE i \in T : \A j \in T : i >= j
Start == [gate |-> U!Open, previous |-> -1, events |-> {}]
WalkIs(g, l, D) ==
  g = [T \in D |-> IF T = {} THEN Start ELSE U!ParseLine(g[T \ {Last(T)}], l[Last(T)])]
Walk(l) == CHOOSE g : WalkIs(g, l, SUBSET DOMAIN l)
State(l, k) == Walk(l)[1..k]

LEMMA LastIsMember ==
  ASSUME NEW n \in Nat, NEW T \in SUBSET (1..n), T # {}
  PROVE  Last(T) \in T
<1> DEFINE D == {n - i : i \in T}
<1>1. D \subseteq Nat /\ D # {}
  <2>1. \A i \in T : n - i \in Nat /\ n - i \in D
    OBVIOUS
  <2>2. QED
    BY <2>1
<1>2. PICK d \in D : \A e \in D : d <= e
  BY <1>1, LeastNat
<1>3. PICK i \in T : d = n - i
  BY <1>2
<1>4. \A j \in T : n - i <= n - j
  BY <1>2, <1>3
<1>5. \A j \in T : i >= j
  BY <1>4
<1>6. QED
  BY <1>3, <1>5 DEF Last

LEMMA PartWalk ==
  ASSUME NEW m \in Nat, NEW l, NEW n \in Nat
  PROVE  \E g : WalkIs(g, l, Part(1..m, n))
<1> DEFINE S == 1..m
           F == {k \in Nat : \E g : WalkIs(g, l, Part(S, k))}
<1>0. IsFiniteSet(S)
  BY FS_Interval
<1>1. 0 \in F
  <2>1. WalkIs([T \in {{}} |-> Start], l, Part(S, 0))
    BY <1>0, EmptyPart DEF WalkIs
  <2>2. QED
    BY <2>1
<1>2. ASSUME NEW k \in Nat \ {0}, k - 1 \in F PROVE k \in F
  <2>1. PICK g : WalkIs(g, l, Part(S, k - 1))
    BY <1>2
  <2> DEFINE h == [T \in Part(S, k) |->
                     IF T = {} THEN Start ELSE U!ParseLine(g[T \ {Last(T)}], l[Last(T)])]
  <2>2. \A T \in Part(S, k - 1) : h[T] = g[T]
    BY <1>0, <1>2, <2>1, SmallerPart DEF WalkIs
  <2>3. \A T \in Part(S, k) : T # {} => Last(T) \in T
    BY LastIsMember DEF Part
  <2>4. \A T \in Part(S, k) : T # {} => h[T \ {Last(T)}] = g[T \ {Last(T)}]
    BY <1>0, <1>2, <2>2, <2>3, SmallerPart
  <2>5. h = [T \in Part(S, k) |->
               IF T = {} THEN Start ELSE U!ParseLine(g[T \ {Last(T)}], l[Last(T)])]
    OBVIOUS
  <2> HIDE DEF h
  <2>6. WalkIs(h, l, Part(S, k))
    BY <2>4, <2>5 DEF WalkIs
  <2>7. QED
    BY <2>6
<1> HIDE DEF F
<1>3. n \in F
  BY <1>1, <1>2, NatSets
<1>4. QED
  BY <1>3 DEF F

LEMMA WalkExists ==
  ASSUME NEW m \in Nat, NEW l, DOMAIN l = 1..m
  PROVE  WalkIs(Walk(l), l, SUBSET (1..m))
<1>1. IsFiniteSet(1..m)
  BY FS_Interval
<1>2. \E g : WalkIs(g, l, Part(1..m, Cardinality(1..m)))
  BY <1>1, WholePart, PartWalk
<1>3. \E g : WalkIs(g, l, SUBSET (1..m))
  BY <1>1, <1>2, WholePart
<1>4. QED
  BY <1>3 DEF Walk

\* The parser starts, takes a line after the other, and returns its events.
LEMMA StateStarts ==
  ASSUME NEW m \in Nat, NEW l, DOMAIN l = 1..m
  PROVE  State(l, 0) = Start
<1>1. 1..0 = {} /\ {} \in SUBSET (1..m)
  OBVIOUS
<1>2. WalkIs(Walk(l), l, SUBSET (1..m))
  BY WalkExists
<1>3. Walk(l)[{}] = Start
  BY <1>1, <1>2 DEF WalkIs
<1>4. QED
  BY <1>1, <1>3 DEF State

LEMMA StateSteps ==
  ASSUME NEW m \in Nat, NEW l, DOMAIN l = 1..m, NEW k \in 1..m
  PROVE  State(l, k) = U!ParseLine(State(l, k - 1), l[k])
<1>1. 1..k \in SUBSET (1..m) /\ 1..k # {} /\ (1..k) \ {k} = 1..(k - 1)
  OBVIOUS
<1>2. Last(1..k) = k
  <2>1. Last(1..k) \in 1..k
    BY LastIsMember, <1>1
  <2>2. \E i \in 1..k : \A j \in 1..k : i >= j
    OBVIOUS
  <2>3. \A j \in 1..k : Last(1..k) >= j
    BY <2>2 DEF Last
  <2>4. QED
    BY <2>1, <2>3
<1>3. Walk(l)[1..k] = IF 1..k = {} THEN Start
                      ELSE U!ParseLine(Walk(l)[(1..k) \ {Last(1..k)}], l[Last(1..k)])
  <2>1. WalkIs(Walk(l), l, SUBSET (1..m))
    BY WalkExists
  <2>2. QED
    BY <1>1, <2>1 DEF WalkIs
<1>4. QED
  BY <1>1, <1>2, <1>3 DEF State

LEMMA ParseIsState ==
  ASSUME NEW m \in Nat, NEW l, DOMAIN l = 1..m
  PROVE  U!Parse(l) = State(l, m).events
<1>1. U!Parse(l) = Walk(l)[DOMAIN l].events
  BY DEF U!Parse, U!FoldLeft, U!MapThenFoldSet, U!Max, Walk, WalkIs, Last, Start
<1>2. QED
  BY <1>1 DEF State

\* It knows the same after the same lines, whatever follows.
LEMMA SamePrefix ==
  ASSUME NEW m \in Nat, NEW l, DOMAIN l = 1..m, NEW n \in Nat, NEW h, DOMAIN h = 1..n,
         NEW k \in 0..m, k <= n, \A i \in 1..k : l[i] = h[i]
  PROVE  State(l, k) = State(h, k)
<1> DEFINE F == {i \in Nat : i <= k => State(l, i) = State(h, i)}
<1>1. 0 \in F
  BY StateStarts
<1>2. ASSUME NEW i \in Nat \ {0}, i - 1 \in F PROVE i \in F
  <2> SUFFICES ASSUME i <= k PROVE State(l, i) = State(h, i)
    OBVIOUS
  <2>1. State(l, i) = U!ParseLine(State(l, i - 1), l[i])
    BY StateSteps
  <2>2. State(h, i) = U!ParseLine(State(h, i - 1), h[i])
    BY StateSteps
  <2>3. State(l, i - 1) = State(h, i - 1) /\ l[i] = h[i]
    BY <1>2
  <2>4. QED
    BY <2>1, <2>2, <2>3
<1> HIDE DEF F
<1>3. k \in F
  BY <1>1, <1>2, NatSets
<1>4. QED
  BY <1>3 DEF F

-----------------------------------------------------------------------------
(* The session logs (UsageLogs).                                                     *)

MetaLines == [kind : {"meta"}, child : BOOLEAN, at : Nat]
TaskLines == [kind : {"task"}, started : Nat, at : Nat]
CountLines == [kind : {"count"}, at : Nat, total : Nat, last : {0, 1}]
LogLines == MetaLines \cup TaskLines \cup CountLines

\* The event of a turn that ended at t.
Turn(t) == [at |-> t, tokens |-> 1]
Turns(T) == {Turn(t) : t \in T}

\* The total of a line is not that of the count before it.
Grows(l, i) == l[i].kind = "count" /\ l[i].total # State(l, i - 1).previous
Base(previous) == IF previous = -1 THEN 0 ELSE previous

\* A replayed line that no task before it makes count: those are older than the fork that wrote
\* them, and than this one.
Frozen(l, i) ==
  /\ l[1].child
  /\ \A j \in 2..(i - 1) : l[j].kind = "task" =>
       l[j].started < l[j].at /\ (l[1].at # 0 => l[j].started < l[1].at)

\* A log of the second n, when turns have ended at the seconds of T: a total grows by one, where a
\* turn ended or where a replayed line cannot count.
LineFits(l, i, n, T) ==
  /\ l[i].kind # "meta" /\ l[i].at \in 1..n
  /\ l[i].kind = "task" => l[i].started <= l[i].at
  /\ Grows(l, i) => /\ l[i].total = Base(State(l, i - 1).previous) + 1
                    /\ l[i].at \in T \/ Frozen(l, i)
LogFits(l, n, T) ==
  /\ l \in Seq(LogLines)
  /\ l # <<>> => l[1].kind = "meta" /\ l[1].at <= n
  /\ \A i \in 2..Len(l) : LineFits(l, i, n, T)

\* The seconds at which a turn ended: of the events of the sessions' logs.
Held(s, t) == Turn(t) \in State(log[s], Len(log[s])).events
Turned == {t \in 1..time : \E s \in U!Sessions : Held(s, t)}

LogsFit ==
  /\ time \in Nat \ {0}
  /\ DOMAIN log = U!Sessions /\ \A s \in U!Sessions : LogFits(log[s], time, Turned)
  /\ places \in [U!Sessions -> SUBSET U!Directories]
  /\ \A s \in U!Sessions : log[s] = <<>> <=> places[s] = {}
  /\ begun \subseteq U!Sessions
  /\ \A s \in begun : log[s] # <<>> /\ State(log[s], Len(log[s])).gate = U!Open
  /\ spent = Cardinality(Turned)

\* The events of a path's file when it had size lines or more.
ReadFrom(p, size, events) ==
  \E k \in 0..Len(log[p[1]]) : size <= k /\ events = State(log[p[1]], k).events
CacheFits ==
  /\ DOMAIN cache = U!Paths
  /\ \A p \in U!Paths : cache[p].size \in Int /\ ReadFrom(p, cache[p].size, cache[p].events)

ScanStates(P, none, E, PE) ==
  [pc : {"idle", "next", "read", "save", "report"}, todo : SUBSET P, seen : SUBSET P,
   path : P \cup {none}, size : Nat, parsed : SUBSET E, events : SUBSET PE, from : Nat,
   missed : BOOLEAN]
ScanTypes ==
  ScanStates(U!Paths, U!NoPath, Turns(Turned), U!Paths \X Turns(Turned))

\* A turn that a scan has to count: the path at which it is found is still to come, or was missed.
Found(r, t) ==
  \E p \in r.seen :
    /\ Held(p[1], t)
    /\ p \notin r.todo => r.missed \/ <<p, Turn(t)>> \in r.events
    /\ r.pc = "save" /\ r.path = p => Turn(t) \in r.parsed

ScanFits(r) ==
  /\ r \in ScanTypes
  /\ r.pc \in {"read", "save"} => r.path \in r.todo /\ r.size <= Len(log[r.path[1]])
  /\ r.pc = "save" => ReadFrom(r.path, r.size, r.parsed)
  /\ r.pc = "report" => r.todo = {}
  /\ r.pc # "idle" => \E F \in SUBSET Turned : Cardinality(F) = r.from /\ \A t \in F : Found(r, t)
ScansFit == DOMAIN scan = Scanners /\ \A w \in Scanners : ScanFits(scan[w])

ScansInv == part = "scans" => LogsFit /\ CacheFits /\ ScansFit

-----------------------------------------------------------------------------
(* What the parser makes of a log.                                                   *)

Gates == [kind : {"open", "selfTimed", "startedAt"}, at : Nat]
ParserStates == [gate : Gates, previous : Nat \cup {-1}, events : SUBSET [at : Nat, tokens : Int]]

LEMMA LineKinds ==
  ASSUME NEW line \in LogLines
  PROVE  \/ line.kind = "meta" /\ line \in MetaLines
         \/ line.kind = "task" /\ line \in TaskLines
         \/ line.kind = "count" /\ line \in CountLines
BY DEF LogLines, MetaLines, TaskLines, CountLines

\* The line's effect on the parser, by its kind.
LEMMA ParseKinds ==
  ASSUME NEW p, NEW line
  PROVE  /\ line.kind = "meta" => U!ParseLine(p, line) = U!ParseMeta(p, line)
         /\ line.kind = "task" => U!ParseLine(p, line) = U!ParseTask(p, line)
         /\ line.kind = "count" => U!ParseLine(p, line) = U!ParseCount(p, line)
<1>1. line.kind = "meta" => U!ParseLine(p, line) = U!ParseMeta(p, line)
  BY DEF U!ParseLine
<1>2. line.kind = "task" => U!ParseLine(p, line) = U!ParseTask(p, line)
  BY DEF U!ParseLine
<1>3. line.kind = "count" => U!ParseLine(p, line) = U!ParseCount(p, line)
  BY DEF U!ParseLine
<1>4. QED
  BY <1>1, <1>2, <1>3

LEMMA MetaParsed ==
  ASSUME NEW p \in ParserStates, NEW line \in MetaLines, NEW q, q = U!ParseLine(p, line)
  PROVE  /\ q \in ParserStates /\ q.previous = p.previous /\ q.events = p.events
         /\ q.gate = IF ~line.child THEN p.gate
                     ELSE IF line.at = 0 THEN [kind |-> "selfTimed", at |-> 0]
                     ELSE [kind |-> "startedAt", at |-> line.at]
<1>1. line.kind = "meta" /\ line.child \in BOOLEAN /\ line.at \in Nat
  BY DEF MetaLines
<1>2. q = U!ParseMeta(p, line)
  BY <1>1, ParseKinds
<1>3. QED
  BY <1>1, <1>2 DEF U!ParseMeta, ParserStates, Gates

LEMMA TaskParsed ==
  ASSUME NEW p \in ParserStates, NEW line \in TaskLines, NEW q, q = U!ParseLine(p, line)
  PROVE  /\ q \in ParserStates /\ q.previous = p.previous /\ q.events = p.events
         /\ q.gate = IF p.gate # U!Open /\ U!Clears(p.gate, line) THEN U!Open ELSE p.gate
<1>1. line.kind = "task"
  BY DEF TaskLines
<1>2. q = U!ParseTask(p, line)
  BY <1>1, ParseKinds
<1>3. U!Open \in Gates
  BY DEF U!Open, Gates
<1>4. QED
  BY <1>2, <1>3 DEF U!ParseTask, ParserStates

LEMMA CountParsed ==
  ASSUME NEW p \in ParserStates, NEW line \in CountLines, NEW q, q = U!ParseLine(p, line)
  PROVE  /\ q \in ParserStates /\ q.previous = line.total /\ q.gate = p.gate
         /\ p.gate # U!Open \/ line.total = p.previous => q.events = p.events
         /\ p.gate = U!Open /\ line.total # p.previous
              => q.events = p.events \cup {[at |-> line.at, tokens |-> U!Usage(p, line)]}
<1>1. line.kind = "count" /\ line.at \in Nat /\ line.total \in Nat /\ line.last \in {0, 1}
  BY DEF CountLines
<1>2. q = U!ParseCount(p, line)
  BY <1>1, ParseKinds
<1>3. p.previous \in Int
  BY DEF ParserStates
<1>4. U!Usage(p, line) \in Int
  BY <1>1, <1>3 DEF U!Usage
<1>5. CASE p.gate # U!Open
  BY <1>1, <1>2, <1>5 DEF U!ParseCount, ParserStates
<1>6. CASE p.gate = U!Open /\ line.total = p.previous
  BY <1>1, <1>2, <1>6 DEF U!ParseCount, ParserStates
<1>7. CASE p.gate = U!Open /\ line.total # p.previous
  <2> DEFINE e == [at |-> line.at, tokens |-> U!Usage(p, line)]
  <2>1. q = [p EXCEPT !.previous = line.total, !.events = @ \cup {e}]
    BY <1>2, <1>7 DEF U!ParseCount
  <2>2. e \in [at : Nat, tokens : Int]
    BY <1>1, <1>4
  <2> HIDE DEF e
  <2>3. q \in ParserStates /\ q.previous = line.total /\ q.gate = p.gate /\ q.events = p.events \cup {e}
    <3> DEFINE E == [at : Nat, tokens : Int]
    <3>1. p \in [gate : Gates, previous : Nat \cup {-1}, events : SUBSET E] /\ e \in E
      BY <2>2 DEF ParserStates
    <3> HIDE DEF E
    <3>2. p.events \cup {e} \in SUBSET E /\ p.gate \in Gates
      BY <3>1
    <3>3. q = [gate |-> p.gate, previous |-> line.total, events |-> p.events \cup {e}]
      BY <2>1, <3>1
    <3>4. q \in [gate : Gates, previous : Nat \cup {-1}, events : SUBSET E]
      BY <1>1, <3>2, <3>3
    <3>5. QED
      BY <3>3, <3>4 DEF E, ParserStates
  <2>4. QED
    BY <1>7, <2>3 DEF e
<1>8. QED
  BY <1>5, <1>6, <1>7

LEMMA StateTypes ==
  ASSUME NEW l \in Seq(LogLines)
  PROVE  \A k \in 0..Len(l) : State(l, k) \in ParserStates
<1> DEFINE F == {k \in Nat : k <= Len(l) => State(l, k) \in ParserStates}
<1>0. DOMAIN l = 1..Len(l) /\ Len(l) \in Nat
  OBVIOUS
<1>1. 0 \in F
  <2>1. State(l, 0) = Start
    BY <1>0, StateStarts
  <2>2. Start \in ParserStates
    BY DEF Start, ParserStates, Gates, U!Open
  <2>3. QED
    BY <2>1, <2>2
<1>2. ASSUME NEW k \in Nat \ {0}, k - 1 \in F PROVE k \in F
  <2> SUFFICES ASSUME k <= Len(l) PROVE State(l, k) \in ParserStates
    OBVIOUS
  <2>1. k \in 1..Len(l) /\ l[k] \in LogLines /\ State(l, k - 1) \in ParserStates
    BY <1>2
  <2>2. State(l, k) = U!ParseLine(State(l, k - 1), l[k])
    BY <1>0, <2>1, StateSteps
  <2>3. QED
    BY <2>1, <2>2, LineKinds, MetaParsed, TaskParsed, CountParsed
<1> HIDE DEF F
<1>3. Nat \subseteq F
  BY <1>1, <1>2, NatSets
<1>4. QED
  BY <1>0, <1>3 DEF F

\* One line of a log.
LEMMA OneLine ==
  ASSUME NEW l \in Seq(LogLines), NEW k \in 1..Len(l)
  PROVE  /\ State(l, k - 1) \in ParserStates /\ State(l, k) \in ParserStates /\ l[k] \in LogLines
         /\ State(l, k) = U!ParseLine(State(l, k - 1), l[k])
<1>1. DOMAIN l = 1..Len(l) /\ Len(l) \in Nat
  OBVIOUS
<1>2. State(l, k) = U!ParseLine(State(l, k - 1), l[k])
  BY <1>1, StateSteps
<1>3. k - 1 \in 0..Len(l) /\ k \in 0..Len(l) /\ l[k] \in LogLines
  BY <1>1
<1>4. QED
  BY <1>2, <1>3, StateTypes

LEMMA LineEffect ==
  ASSUME NEW l \in Seq(LogLines), NEW k \in 1..Len(l)
  PROVE  /\ State(l, k).previous = IF l[k].kind = "count" THEN l[k].total
                                                         ELSE State(l, k - 1).previous
         /\ State(l, k - 1).events \subseteq State(l, k).events
<1> DEFINE p == State(l, k - 1)
           q == State(l, k)
<1>1. p \in ParserStates /\ l[k] \in LogLines /\ q = U!ParseLine(p, l[k])
  BY OneLine
<1> HIDE DEF p, q
<1> SUFFICES /\ q.previous = IF l[k].kind = "count" THEN l[k].total ELSE p.previous
             /\ p.events \subseteq q.events
  BY DEF p, q
<1>2. CASE l[k] \in MetaLines
  BY <1>1, <1>2, MetaParsed DEF MetaLines
<1>3. CASE l[k] \in TaskLines
  BY <1>1, <1>3, TaskParsed DEF TaskLines
<1>4. CASE l[k] \in CountLines
  <2>1. q.previous = l[k].total /\ l[k].kind = "count"
    BY <1>1, <1>4, CountParsed DEF CountLines
  <2>2. p.events \subseteq q.events
    <3>1. CASE p.gate # U!Open \/ l[k].total = p.previous
      BY <1>1, <1>4, <3>1, CountParsed
    <3>2. CASE p.gate = U!Open /\ l[k].total # p.previous
      BY <1>1, <1>4, <3>2, CountParsed
    <3>3. QED
      BY <3>1, <3>2
  <2>3. QED
    BY <2>1, <2>2
<1>5. QED
  BY <1>1, <1>2, <1>3, <1>4 DEF LogLines

LEMMA EventsGrow ==
  ASSUME NEW l \in Seq(LogLines), NEW j \in 0..Len(l)
  PROVE  \A k \in j..Len(l) : State(l, j).events \subseteq State(l, k).events
<1> DEFINE F == {d \in Nat : j + d <= Len(l) => State(l, j).events \subseteq State(l, j + d).events}
<1>1. 0 \in F
  OBVIOUS
<1>2. ASSUME NEW d \in Nat \ {0}, d - 1 \in F PROVE d \in F
  <2> SUFFICES ASSUME j + d <= Len(l)
               PROVE  State(l, j).events \subseteq State(l, j + d).events
    OBVIOUS
  <2> DEFINE k == j + d
  <2>1. k \in 1..Len(l) /\ j + (d - 1) = k - 1
    OBVIOUS
  <2>2. State(l, j).events \subseteq State(l, k - 1).events
    BY <1>2, <2>1
  <2> HIDE DEF k
  <2>3. State(l, k - 1).events \subseteq State(l, k).events
    BY <2>1, LineEffect
  <2>4. QED
    BY <2>2, <2>3 DEF k
<1> HIDE DEF F
<1>3. Nat \subseteq F
  BY <1>1, <1>2, NatSets
<1>4. ASSUME NEW k \in j..Len(l) PROVE State(l, j).events \subseteq State(l, k).events
  <2>1. k - j \in F /\ j + (k - j) = k /\ k <= Len(l)
    BY <1>3
  <2>2. QED
    BY <2>1 DEF F
<1>5. QED
  BY <1>4

\* A task that ends the replay at the head of a child's log.
Opens(l, j) ==
  /\ l[j].kind = "task"
  /\ IF l[1].at # 0 THEN l[j].started >= l[1].at ELSE l[j].started >= l[j].at
Shut(l) == IF l[1].at = 0 THEN [kind |-> "selfTimed", at |-> 0]
                          ELSE [kind |-> "startedAt", at |-> l[1].at]

LEMMA GateOfLog ==
  ASSUME NEW l \in Seq(LogLines), l # <<>>, l[1].kind = "meta",
         \A i \in 2..Len(l) : l[i].kind # "meta"
  PROVE  \A k \in 1..Len(l) :
           State(l, k).gate = IF ~l[1].child \/ \E j \in 2..k : Opens(l, j) THEN U!Open
                                                                           ELSE Shut(l)
<1> DEFINE Opened(k) == ~l[1].child \/ \E j \in 2..k : Opens(l, j)
           Right(k) == State(l, k).gate = IF Opened(k) THEN U!Open ELSE Shut(l)
           F == {k \in Nat : k \in 1..Len(l) => Right(k)}
<1>0. DOMAIN l = 1..Len(l) /\ Len(l) \in Nat \ {0} /\ 1 \in 1..Len(l)
  OBVIOUS
<1>1. Shut(l) # U!Open
  BY DEF Shut, U!Open
<1>2. Right(1)
  <2>1. l[1] \in MetaLines
    BY <1>0, LineKinds
  <2>2. State(l, 0) = Start
    BY <1>0, StateStarts
  <2>3. Start.gate = U!Open
    BY DEF Start
  <2>4. State(l, 1 - 1) \in ParserStates /\ State(l, 1) = U!ParseLine(State(l, 1 - 1), l[1])
    BY <1>0, OneLine
  <2>5. State(l, 1).gate = IF ~l[1].child THEN State(l, 0).gate
                           ELSE IF l[1].at = 0 THEN [kind |-> "selfTimed", at |-> 0]
                           ELSE [kind |-> "startedAt", at |-> l[1].at]
    BY <2>1, <2>4, MetaParsed
  <2>6. Opened(1) <=> ~l[1].child
    OBVIOUS
  <2>7. QED
    BY <2>2, <2>3, <2>5, <2>6 DEF Shut
<1>3. ASSUME NEW k \in 2..Len(l), Right(k - 1) PROVE Right(k)
  <2> DEFINE p == State(l, k - 1)
             q == State(l, k)
  <2>1. k \in 1..Len(l) /\ k - 1 \in 1..Len(l)
    OBVIOUS
  <2>2. p \in ParserStates /\ l[k] \in LogLines /\ l[k].kind # "meta" /\ q = U!ParseLine(p, l[k])
    BY <2>1, OneLine
  <2>3. p.gate = IF Opened(k - 1) THEN U!Open ELSE Shut(l)
    BY <1>3
  <2>4. Opened(k) <=> Opened(k - 1) \/ Opens(l, k)
    <3>1. \A j : j \in 2..k <=> j \in 2..(k - 1) \/ j = k
      OBVIOUS
    <3>2. QED
      BY <3>1
  <2> HIDE DEF p, q, Opened
  <2>5. CASE l[k].kind = "count"
    <3>1. q.gate = p.gate
      BY <2>2, <2>5, LineKinds, CountParsed
    <3>2. ~Opens(l, k)
      BY <2>5 DEF Opens
    <3>3. QED
      BY <2>3, <2>4, <3>1, <3>2 DEF q
  <2>6. CASE l[k].kind = "task"
    <3>1. q.gate = IF p.gate # U!Open /\ U!Clears(p.gate, l[k]) THEN U!Open ELSE p.gate
      BY <2>2, <2>6, LineKinds, TaskParsed
    <3>2. U!Clears(Shut(l), l[k]) <=> Opens(l, k)
      BY <2>6 DEF Shut, Opens, U!Clears
    <3>3. QED
      BY <1>1, <2>3, <2>4, <3>1, <3>2 DEF q
  <2>7. QED
    BY <2>2, <2>5, <2>6, LineKinds
<1> HIDE DEF Right
<1>4. 0 \in F
  OBVIOUS
<1>5. ASSUME NEW k \in Nat \ {0}, k - 1 \in F PROVE k \in F
  <2> SUFFICES ASSUME k \in 1..Len(l) PROVE Right(k)
    OBVIOUS
  <2>1. CASE k = 1
    BY <1>2, <2>1
  <2>2. CASE k # 1
    <3>1. k \in 2..Len(l) /\ k - 1 \in 1..Len(l)
      BY <2>2
    <3>2. Right(k - 1)
      BY <1>5, <3>1
    <3>3. QED
      BY <1>3, <3>1, <3>2
  <2>3. QED
    BY <2>1, <2>2
<1> HIDE DEF F
<1>6. Nat \subseteq F
  BY <1>4, <1>5, NatSets
<1>7. \A k \in 1..Len(l) : Right(k)
  BY <1>0, <1>6 DEF F
<1>8. QED
  BY <1>7 DEF Right

\* Where the gate is open no line is frozen.
LEMMA OpenIsNotFrozen ==
  ASSUME NEW n, NEW T, NEW l, LogFits(l, n, T), NEW k \in 2..Len(l),
         State(l, k - 1).gate = U!Open
  PROVE  ~Frozen(l, k)
<1>1. l \in Seq(LogLines) /\ l # <<>> /\ l[1].kind = "meta"
  BY DEF LogFits
<1>2. \A i \in 2..Len(l) : l[i].kind # "meta"
  BY DEF LogFits, LineFits
<1>3. k - 1 \in 1..Len(l)
  BY <1>1
<1>4. Shut(l) # U!Open
  BY DEF Shut, U!Open
<1>5. ~l[1].child \/ \E j \in 2..(k - 1) : Opens(l, j)
  BY <1>1, <1>2, <1>3, <1>4, GateOfLog
<1>6. ASSUME NEW j \in 2..(k - 1), Opens(l, j), Frozen(l, k) PROVE FALSE
  <2>1. l[j].kind = "task" /\ l[j] \in LogLines /\ l[1] \in LogLines
    BY <1>1, <1>6 DEF Opens
  <2>2. l[j].started \in Nat /\ l[j].at \in Nat /\ l[1].at \in Nat
    BY <1>1, <2>1, LineKinds DEF TaskLines, MetaLines
  <2>3. l[j].started < l[j].at /\ (l[1].at # 0 => l[j].started < l[1].at)
    BY <1>6, <2>1 DEF Frozen
  <2>4. QED
    BY <1>6, <2>2, <2>3 DEF Opens
<1>7. QED
  BY <1>5, <1>6 DEF Frozen

\* The events of a log are turns that have ended.
LEMMA EventsAreTurns ==
  ASSUME NEW n, NEW T, NEW l, LogFits(l, n, T)
  PROVE  \A k \in 0..Len(l) : State(l, k).events \subseteq Turns(T)
<1> DEFINE F == {k \in Nat : k <= Len(l) => State(l, k).events \subseteq Turns(T)}
<1>0. l \in Seq(LogLines) /\ DOMAIN l = 1..Len(l) /\ Len(l) \in Nat
  BY DEF LogFits
<1>1. 0 \in F
  BY <1>0, StateStarts DEF Start
<1>2. ASSUME NEW k \in Nat \ {0}, k - 1 \in F PROVE k \in F
  <2> SUFFICES ASSUME k <= Len(l) PROVE State(l, k).events \subseteq Turns(T)
    OBVIOUS
  <2> DEFINE p == State(l, k - 1)
             q == State(l, k)
  <2>1. k \in 1..Len(l) /\ p.events \subseteq Turns(T)
    BY <1>0, <1>2
  <2>2. p \in ParserStates /\ l[k] \in LogLines /\ q = U!ParseLine(p, l[k])
    BY <1>0, <2>1, OneLine
  <2> HIDE DEF p, q
  <2>3. CASE l[k].kind = "meta"
    <3>1. l[k] \in MetaLines
      BY <2>2, <2>3, LineKinds
    <3>2. q.events = p.events
      BY <2>2, <3>1, MetaParsed
    <3>3. QED
      BY <2>1, <3>2 DEF q
  <2>4. CASE l[k].kind = "task"
    BY <2>1, <2>2, <2>4, LineKinds, TaskParsed DEF q
  <2>5. CASE l[k].kind = "count"
    <3>1. l[k] \in CountLines
      BY <2>2, <2>5, LineKinds
    <3>2. CASE p.gate # U!Open \/ l[k].total = p.previous
      BY <2>1, <2>2, <3>1, <3>2, CountParsed DEF q
    <3>3. CASE p.gate = U!Open /\ l[k].total # p.previous
      <4>1. k # 1
        BY <2>5, <1>0, <2>1 DEF LogFits
      <4>2. k \in 2..Len(l)
        BY <1>0, <2>1, <4>1
      <4>3. LineFits(l, k, n, T) /\ Grows(l, k) /\ ~Frozen(l, k)
        BY <2>5, <3>3, <4>2, OpenIsNotFrozen DEF LogFits, Grows, p
      <4>4. l[k].total = Base(p.previous) + 1 /\ l[k].at \in T
        BY <4>3 DEF LineFits, p
      <4>5. U!Usage(p, l[k]) = 1
        <5>1. l[k].last \in {0, 1} /\ l[k].total \in Nat /\ p.previous \in Int
          BY <2>2, <3>1 DEF CountLines, ParserStates
        <5>2. QED
          BY <4>4, <5>1 DEF Base, U!Usage
      <4>6. q.events = p.events \cup {Turn(l[k].at)}
        BY <2>2, <3>1, <3>3, <4>5, CountParsed DEF Turn
      <4>7. QED
        BY <2>1, <4>4, <4>6 DEF Turns, q
    <3>4. QED
      BY <3>2, <3>3
  <2>6. QED
    BY <2>2, <2>3, <2>4, <2>5, LineKinds
<1> HIDE DEF F
<1>3. Nat \subseteq F
  BY <1>1, <1>2, NatSets
<1>4. QED
  BY <1>0, <1>3 DEF F

\* A line that is appended leaves what the parser knew before it.
Extends(h, l, line) ==
  /\ h \in Seq(LogLines) /\ Len(h) = Len(l) + 1 /\ h[Len(l) + 1] = line
  /\ \A i \in 1..Len(l) : h[i] = l[i]
Continued(h, l) == \A k \in 0..Len(l) : State(h, k) = State(l, k)

LEMMA AppendExtends ==
  ASSUME NEW l \in Seq(LogLines), NEW line \in LogLines
  PROVE  Extends(Append(l, line), l, line)
BY DEF Extends

LEMMA ExtendedState ==
  ASSUME NEW l \in Seq(LogLines), NEW line \in LogLines, NEW h, Extends(h, l, line)
  PROVE  Continued(h, l) /\ State(h, Len(h)) = U!ParseLine(State(l, Len(l)), line)
<1> DEFINE m == Len(l)
<1>1. /\ h \in Seq(LogLines) /\ Len(h) = m + 1 /\ h[m + 1] = line
      /\ \A i \in 1..m : h[i] = l[i]
  BY DEF Extends
<1>2. PICK n : n = m + 1
  OBVIOUS
<1>3. /\ m \in Nat /\ DOMAIN l = 1..m
      /\ n \in Nat /\ DOMAIN h = 1..n /\ n \in 1..n /\ n - 1 = m
  BY <1>1, <1>2
<1> HIDE DEF m
<1>4. ASSUME NEW k \in 0..m PROVE State(h, k) = State(l, k)
  <2>1. \A i \in 1..k : l[i] = h[i]
    BY <1>1, <1>3
  <2>2. k <= n
    BY <1>2, <1>3
  <2>3. QED
    BY <1>3, <2>1, <2>2, SamePrefix
<1>5. State(h, n) = U!ParseLine(State(h, n - 1), h[n])
  BY <1>3, StateSteps
<1>6. State(h, n - 1) = State(l, m)
  BY <1>3, <1>4
<1>7. QED
  BY <1>1, <1>2, <1>4, <1>5, <1>6 DEF m, Continued

LEMMA LogsAge ==
  ASSUME NEW n \in Nat, NEW T, NEW V, T \subseteq V, NEW l, LogFits(l, n, T)
  PROVE  LogFits(l, n + 1, V)
<1>1. l \in Seq(LogLines)
  BY DEF LogFits
<1>2. l # <<>> => l[1].at \in Nat /\ l[1].at <= n /\ l[1].kind = "meta"
  BY LineKinds DEF LogFits, MetaLines
<1>3. ASSUME NEW i \in 2..Len(l) PROVE LineFits(l, i, n + 1, V)
  <2>1. LineFits(l, i, n, T)
    BY DEF LogFits
  <2>2. QED
    BY <2>1 DEF LineFits
<1>4. QED
  BY <1>1, <1>2, <1>3 DEF LogFits

\* A line of the next second, whose total is the last one or counts a turn that ends then.
LEMMA AppendFits ==
  ASSUME NEW n \in Nat, NEW T, NEW V, T \subseteq V, NEW l, LogFits(l, n, T), l # <<>>,
         NEW line \in LogLines, line.kind # "meta", line.at = n + 1,
         line.kind = "task" => line.started <= n + 1,
         line.kind = "count" =>
           \/ line.total = State(l, Len(l)).previous
           \/ line.total = Base(State(l, Len(l)).previous) + 1 /\ n + 1 \in V
  PROVE  LogFits(Append(l, line), n + 1, V)
<1>0. PICK h : h = Append(l, line)
  OBVIOUS
<1>1. l \in Seq(LogLines) /\ LogFits(l, n + 1, V)
  BY LogsAge DEF LogFits
<1>2. Extends(h, l, line)
  BY <1>0, <1>1, AppendExtends
<1>2a. Continued(h, l)
  BY <1>1, <1>2, ExtendedState
<1>3. Len(l) \in Nat \ {0}
  BY <1>1
<1>4. h # <<>> /\ h[1] = l[1]
  BY <1>2, <1>3 DEF Extends
<1>5. ASSUME NEW i \in 2..Len(h) PROVE LineFits(h, i, n + 1, V)
  <2>1. CASE i \in 2..Len(l)
    <3>1. LineFits(l, i, n + 1, V) /\ h[i] = l[i] /\ State(h, i - 1) = State(l, i - 1)
      BY <1>1, <1>2, <1>2a, <1>3, <2>1 DEF LogFits, Extends, Continued
    <3>2. Grows(h, i) <=> Grows(l, i)
      BY <3>1 DEF Grows
    <3>3. \A j \in 2..(i - 1) : h[j] = l[j]
      BY <1>2, <1>3, <2>1 DEF Extends
    <3>4. Frozen(h, i) <=> Frozen(l, i)
      BY <1>4, <3>3 DEF Frozen
    <3>5. QED
      BY <3>1, <3>2, <3>4 DEF LineFits
  <2>2. CASE i = Len(l) + 1
    <3>1. h[i] = line /\ State(h, i - 1) = State(l, Len(l))
      BY <1>2, <1>2a, <1>3, <2>2 DEF Extends, Continued
    <3>2. QED
      BY <3>1 DEF LineFits, Grows
  <2>3. QED
    BY <1>2, <1>3, <2>1, <2>2 DEF Extends
<1>6. QED
  BY <1>0, <1>1, <1>2, <1>4, <1>5 DEF LogFits, Extends

\* The log of a fork of l that begins at n + 1.
Replayed(line, n, times) == IF times = "fork's" THEN [line EXCEPT !.at = n + 1] ELSE line
Fork(l, meta, n, times) ==
  <<meta>> \o [i \in 1..Len(Tail(l)) |-> Replayed(Tail(l)[i], n, times)]

LEMMA ReplayedLine ==
  ASSUME NEW n \in Nat, NEW line \in LogLines, NEW times \in {"fork's", "own"},
         NEW r, r = Replayed(line, n, times)
  PROVE  /\ r \in LogLines /\ r.kind = line.kind
         /\ r.kind = "task" => r.started = line.started
         /\ r.kind = "count" => r.total = line.total
         /\ r.at = IF times = "fork's" THEN n + 1 ELSE line.at
<1>1. CASE line \in MetaLines
  BY <1>1 DEF Replayed, LogLines, MetaLines
<1>2. CASE line \in TaskLines
  BY <1>2 DEF Replayed, LogLines, TaskLines
<1>3. CASE line \in CountLines
  BY <1>3 DEF Replayed, LogLines, CountLines
<1>4. QED
  BY <1>1, <1>2, <1>3 DEF LogLines

Forked(h, l, meta, n, times) ==
  /\ h \in Seq(LogLines) /\ Len(h) = Len(l) /\ h[1] = meta /\ h # <<>>
  /\ \A i \in 2..Len(l) : h[i] = Replayed(l[i], n, times)

LEMMA ForkedLines ==
  ASSUME NEW n \in Nat, NEW l \in Seq(LogLines), l # <<>>, NEW meta \in MetaLines,
         NEW times \in {"fork's", "own"}, NEW h, h = Fork(l, meta, n, times)
  PROVE  Forked(h, l, meta, n, times)
<1> DEFINE t == Tail(l)
           b == [i \in 1..Len(t) |-> Replayed(t[i], n, times)]
<1>1. t \in Seq(LogLines) /\ Len(t) = Len(l) - 1 /\ \A i \in 1..Len(t) : t[i] = l[i + 1]
  OBVIOUS
<1>2. Len(l) \in Nat \ {0} /\ Len(t) \in Nat
  BY <1>1
<1> HIDE DEF t
<1>3. \A i \in 1..Len(t) : b[i] \in LogLines
  <2>1. \A i \in 1..Len(t) : t[i] \in LogLines /\ b[i] = Replayed(t[i], n, times)
    BY <1>1
  <2>2. QED
    BY <2>1, ReplayedLine
<1>4. b \in Seq(LogLines) /\ Len(b) = Len(t) /\ \A i \in 1..Len(t) : b[i] = Replayed(t[i], n, times)
  BY <1>2, <1>3
<1>5. h = <<meta>> \o b
  BY DEF Fork, t
<1> HIDE DEF b
<1>6. meta \in LogLines /\ <<meta>> \in Seq(LogLines) /\ Len(<<meta>>) = 1
  BY DEF LogLines
<1>7. h \in Seq(LogLines) /\ Len(h) = 1 + Len(b) /\ h[1] = meta
  BY <1>4, <1>5, <1>6
<1>8. ASSUME NEW i \in 2..Len(l) PROVE h[i] = Replayed(l[i], n, times)
  <2>1. i - 1 \in 1..Len(t) /\ (i - 1) + 1 = i
    BY <1>1, <1>2
  <2>2. h[i] = b[i - 1]
    BY <1>4, <1>5, <1>6, <2>1
  <2>3. QED
    BY <1>1, <1>4, <2>1, <2>2
<1>9. QED
  BY <1>1, <1>2, <1>4, <1>7, <1>8 DEF Forked

LEMMA ForkedPrevious ==
  ASSUME NEW n \in Nat, NEW l \in Seq(LogLines), l # <<>>, l[1].kind = "meta",
         NEW meta \in MetaLines,
         NEW times \in {"fork's", "own"}, NEW h, Forked(h, l, meta, n, times)
  PROVE  \A k \in 0..Len(l) : State(h, k).previous = State(l, k).previous
<1> DEFINE F == {k \in Nat : k <= Len(l) => State(h, k).previous = State(l, k).previous}
<1>0. /\ h \in Seq(LogLines) /\ Len(h) = Len(l) /\ h[1] = meta
      /\ \A i \in 2..Len(l) : h[i] = Replayed(l[i], n, times)
  BY DEF Forked
<1>1. DOMAIN l = 1..Len(l) /\ DOMAIN h = 1..Len(l) /\ Len(l) \in Nat
  BY <1>0
<1>2. 0 \in F
  BY <1>1, StateStarts
<1>3. ASSUME NEW k \in Nat \ {0}, k - 1 \in F PROVE k \in F
  <2> SUFFICES ASSUME k <= Len(l) PROVE State(h, k).previous = State(l, k).previous
    OBVIOUS
  <2>1. k \in 1..Len(l) /\ k \in 1..Len(h) /\ l[k] \in LogLines
    BY <1>0, <1>1
  <2>2. State(h, k - 1).previous = State(l, k - 1).previous
    BY <1>1, <1>3, <2>1
  <2>3. h[k].kind = l[k].kind /\ (l[k].kind = "count" => h[k].total = l[k].total)
    <3>1. CASE k = 1
      BY <1>0, <3>1 DEF MetaLines
    <3>2. CASE k # 1
      <4>1. h[k] = Replayed(l[k], n, times)
        BY <1>0, <2>1, <3>2
      <4>2. QED
        BY <2>1, <4>1, ReplayedLine
    <3>3. QED
      BY <3>1, <3>2
  <2>4. State(h, k).previous = IF h[k].kind = "count" THEN h[k].total ELSE State(h, k - 1).previous
    BY <1>0, <2>1, LineEffect
  <2>5. State(l, k).previous = IF l[k].kind = "count" THEN l[k].total ELSE State(l, k - 1).previous
    BY <2>1, LineEffect
  <2>6. QED
    BY <2>2, <2>3, <2>4, <2>5
<1> HIDE DEF F
<1>4. Nat \subseteq F
  BY <1>2, <1>3, NatSets
<1>5. QED
  BY <1>1, <1>4 DEF F

\* Nothing of a replay counts that did not count before.
LEMMA ForkFits ==
  ASSUME NEW n \in Nat, NEW T, NEW l, LogFits(l, n, T), l # <<>>,
         NEW meta \in MetaLines, meta.child, meta.at \in {0, n + 1}, NEW times \in {"fork's", "own"}
  PROVE  LogFits(Fork(l, meta, n, times), n + 1, T)
<1>0. PICK h : h = Fork(l, meta, n, times)
  OBVIOUS
<1>1. l \in Seq(LogLines) /\ l[1].kind = "meta" /\ Len(l) \in Nat
  BY DEF LogFits
<1>2a. Forked(h, l, meta, n, times)
  BY <1>0, <1>1, ForkedLines
<1>2. /\ h \in Seq(LogLines) /\ Len(h) = Len(l) /\ h[1] = meta /\ h # <<>>
      /\ \A i \in 2..Len(l) : h[i] = Replayed(l[i], n, times)
  BY <1>2a DEF Forked
<1>3. \A k \in 0..Len(l) : State(h, k).previous = State(l, k).previous
  BY <1>2a, <1>1, ForkedPrevious
<1>4. ASSUME NEW i \in 2..Len(l)
      PROVE  /\ LineFits(l, i, n, T) /\ l[i] \in LogLines /\ i \in 1..Len(l)
             /\ h[i].kind = l[i].kind
             /\ h[i].kind = "task" => h[i].started = l[i].started
             /\ h[i].kind = "count" => h[i].total = l[i].total
             /\ h[i].at = IF times = "fork's" THEN n + 1 ELSE l[i].at
  <2>1. l[i] \in LogLines /\ h[i] = Replayed(l[i], n, times) /\ i \in 1..Len(l)
    BY <1>1, <1>2
  <2>2. LineFits(l, i, n, T)
    BY DEF LogFits
  <2>3. QED
    BY <2>1, <2>2, ReplayedLine
\* A task before is older than the fork.
<1>5. ASSUME NEW j \in 2..Len(l), l[j].kind = "task"
      PROVE  l[j].started \in Nat /\ l[j].at \in Nat /\ l[j].started <= l[j].at /\ l[j].started < n + 1
  BY <1>4, <1>5, LineKinds DEF LineFits, TaskLines
<1>6. ASSUME NEW i \in 2..Len(l) PROVE LineFits(h, i, n + 1, T)
  <2>1. h[i].kind # "meta" /\ h[i].at \in 1..(n + 1)
    BY <1>4 DEF LineFits
  <2>2. h[i].kind = "task" => h[i].started <= h[i].at
    BY <1>4, <1>5
  <2>3. ASSUME Grows(h, i)
        PROVE  h[i].total = Base(State(h, i - 1).previous) + 1 /\ (h[i].at \in T \/ Frozen(h, i))
    <3>1. State(h, i - 1).previous = State(l, i - 1).previous
      BY <1>1, <1>3
    <3>2. Grows(l, i)
      BY <1>4, <2>3, <3>1 DEF Grows
    <3>3. l[i].total = Base(State(l, i - 1).previous) + 1 /\ (l[i].at \in T \/ Frozen(l, i))
      BY <1>4, <3>2 DEF LineFits
    <3>4. ASSUME times = "fork's" \/ Frozen(l, i) PROVE Frozen(h, i)
      <4> SUFFICES ASSUME NEW j \in 2..(i - 1), h[j].kind = "task"
                   PROVE  h[j].started < h[j].at /\ (meta.at # 0 => h[j].started < meta.at)
        BY <1>2 DEF Frozen
      <4>1. j \in 2..Len(l)
        BY <1>1
      <4>2. l[j].kind = "task" /\ h[j].started = l[j].started
        BY <1>4, <4>1
      <4>3. CASE times = "fork's"
        BY <1>4, <1>5, <4>1, <4>2, <4>3
      <4>4. CASE Frozen(l, i) /\ times # "fork's"
        <5>1. l[j].started < l[j].at
          BY <4>2, <4>4 DEF Frozen
        <5>2. QED
          BY <1>4, <1>5, <4>1, <4>2, <4>4, <5>1
      <4>5. QED
        BY <3>4, <4>3, <4>4
    <3>5. QED
      BY <1>4, <2>3, <3>1, <3>3, <3>4 DEF Grows
  <2>4. QED
    BY <2>1, <2>2, <2>3 DEF LineFits
<1>7. QED
  <2>1. meta.kind = "meta" /\ meta.at <= n + 1
    BY DEF MetaLines
  <2>2. LogFits(h, n + 1, T)
    BY <1>2, <1>6, <2>1 DEF LogFits
  <2>3. QED
    BY <1>0, <2>2

\* What the parser remembers is the last total.
LEMMA LastTotal ==
  ASSUME NEW l \in Seq(LogLines)
  PROVE  \A k \in 0..Len(l) :
           \/ State(l, k).previous = -1 /\ \A i \in 1..k : l[i].kind # "count"
           \/ \E i \in 1..k : /\ l[i].kind = "count" /\ State(l, k).previous = l[i].total
                              /\ \A j \in (i + 1)..k : l[j].kind # "count"
<1> DEFINE Right(k) ==
             \/ State(l, k).previous = -1 /\ \A i \in 1..k : l[i].kind # "count"
             \/ \E i \in 1..k : /\ l[i].kind = "count" /\ State(l, k).previous = l[i].total
                                /\ \A j \in (i + 1)..k : l[j].kind # "count"
           F == {k \in Nat : k <= Len(l) => Right(k)}
<1>0. DOMAIN l = 1..Len(l) /\ Len(l) \in Nat
  OBVIOUS
<1>1. Right(0)
  BY <1>0, StateStarts DEF Start
<1>2. ASSUME NEW k \in Nat \ {0}, k <= Len(l), Right(k - 1) PROVE Right(k)
  <2>1. State(l, k).previous = IF l[k].kind = "count" THEN l[k].total ELSE State(l, k - 1).previous
    BY <1>2, LineEffect
  <2>2. CASE l[k].kind = "count"
    <3>1. k \in 1..k /\ (k + 1)..k = {}
      OBVIOUS
    <3>2. QED
      BY <2>1, <2>2, <3>1
  <2>3. CASE l[k].kind # "count"
    <3>1. \A i : i \in 1..k <=> i \in 1..(k - 1) \/ i = k
      OBVIOUS
    <3>2. \A i \in 1..(k - 1) : \A j : j \in (i + 1)..k <=> j \in (i + 1)..(k - 1) \/ j = k
      OBVIOUS
    <3>3. QED
      BY <1>2, <2>1, <2>3, <3>1, <3>2
  <2>4. QED
    BY <2>2, <2>3
<1> HIDE DEF Right
<1>3. 0 \in F
  BY <1>1
<1>4. ASSUME NEW k \in Nat \ {0}, k - 1 \in F PROVE k \in F
  BY <1>0, <1>2, <1>4
<1> HIDE DEF F
<1>5. Nat \subseteq F
  BY <1>3, <1>4, NatSets
<1>6. QED
  BY <1>0, <1>5 DEF F, Right

-----------------------------------------------------------------------------
(* The steps of the CLI.                                                             *)

LEMMA HeldIsTurned ==
  ASSUME LogsFit, NEW s \in U!Sessions, NEW t, Held(s, t)
  PROVE  t \in Turned /\ log[s] # <<>>
<1>1. LogFits(log[s], time, Turned)
  BY DEF LogsFit
<1>2. log[s] \in Seq(LogLines) /\ Len(log[s]) \in 0..Len(log[s]) /\ DOMAIN log[s] = 1..Len(log[s])
  BY <1>1 DEF LogFits
<1>3. Turn(t) \in Turns(Turned)
  BY <1>1, <1>2, EventsAreTurns DEF Held
<1>4. t \in Turned
  BY <1>3 DEF Turns, Turn
<1>5. log[s] # <<>>
  <2>1. ASSUME log[s] = <<>> PROVE FALSE
    <3>1. Len(log[s]) = 0
      BY <2>1
    <3>2. State(log[s], 0) = Start
      BY <1>2, <3>1, StateStarts
    <3>3. QED
      BY <3>1, <3>2 DEF Held, Start
  <2>2. QED
    BY <2>1
<1>6. QED
  BY <1>4, <1>5

LEMMA TurnedIsFinite ==
  ASSUME LogsFit
  PROVE  /\ Turned \subseteq 1..time /\ IsFiniteSet(Turned) /\ spent \in Nat
         /\ \A F \in SUBSET Turned : IsFiniteSet(F) /\ Cardinality(F) \in Nat
<1>1. Turned \subseteq 1..time /\ time \in Nat
  BY DEF Turned, LogsFit
<1>2. IsFiniteSet(1..time)
  BY <1>1, FS_Interval
<1>3. IsFiniteSet(Turned)
  BY <1>1, <1>2, FS_Subset
<1>4. \A F \in SUBSET Turned : IsFiniteSet(F) /\ Cardinality(F) \in Nat
  BY <1>3, FS_Subset, FS_CardinalityType
<1>5. QED
  BY <1>1, <1>3, <1>4 DEF LogsFit

\* The logs only grow.
LogsGrow ==
  \A s \in U!Sessions : /\ log[s] \in Seq(LogLines) /\ log'[s] \in Seq(LogLines)
                        /\ Len(log[s]) <= Len(log'[s]) /\ Continued(log'[s], log[s])

LEMMA HeldIsKept ==
  ASSUME LogsGrow, NEW s \in U!Sessions, NEW t, Held(s, t)
  PROVE  Held(s, t)'
<1> DEFINE l == log[s]
           h == log'[s]
<1>1. l \in Seq(LogLines) /\ h \in Seq(LogLines) /\ Len(l) <= Len(h) /\ Continued(h, l)
  BY DEF LogsGrow
<1>2. Turn(t) \in State(l, Len(l)).events
  BY DEF Held
<1> HIDE DEF l, h
<1>3. Len(l) \in Nat /\ Len(h) \in Nat
  BY <1>1
<1>4. State(h, Len(l)) = State(l, Len(l))
  BY <1>1, <1>3 DEF Continued
<1>5. State(h, Len(l)).events \subseteq State(h, Len(h)).events
  BY <1>1, <1>3, EventsGrow
<1>6. Turn(t) \in State(h, Len(h)).events
  BY <1>2, <1>4, <1>5
<1>7. QED
  BY <1>6 DEF Held, h

\* What was read and found stays so.
LEMMA GrowthKeeps ==
  ASSUME LogsGrow, Turned \subseteq Turned'
  PROVE  /\ \A p \in U!Paths : \A size, events : ReadFrom(p, size, events) => ReadFrom(p, size, events)'
         /\ \A r : ScanFits(r) => ScanFits(r)'
<1>1. \A p \in U!Paths : p[1] \in U!Sessions
  BY DEF U!Paths
<1>2. ASSUME NEW p \in U!Paths, NEW size, NEW events, ReadFrom(p, size, events)
      PROVE  ReadFrom(p, size, events)'
  <2>1. PICK k \in 0..Len(log[p[1]]) : size <= k /\ events = State(log[p[1]], k).events
    BY <1>2 DEF ReadFrom
  <2>2. /\ Len(log[p[1]]) \in Nat /\ Len(log'[p[1]]) \in Nat
        /\ Len(log[p[1]]) <= Len(log'[p[1]]) /\ Continued(log'[p[1]], log[p[1]])
    BY <1>1 DEF LogsGrow
  <2>3. k \in 0..Len(log'[p[1]]) /\ State(log'[p[1]], k) = State(log[p[1]], k)
    BY <2>2 DEF Continued
  <2>4. QED
    BY <2>1, <2>3 DEF ReadFrom
<1>3. ASSUME NEW r, ScanFits(r) PROVE ScanFits(r)'
  <2>1. r \in ScanTypes
    BY <1>3 DEF ScanFits
  <2>2. Turns(Turned) \subseteq Turns(Turned')
    BY DEF Turns
  <2>3. r \in ScanTypes'
    <3>1. U!Paths' = U!Paths /\ U!NoPath' = U!NoPath
      OBVIOUS
    <3>2. QED
      BY <2>1, <2>2, <3>1 DEF ScanTypes, ScanStates
  <2>4. r.path \in U!Paths =>
          Len(log[r.path[1]]) \in Nat /\ Len(log'[r.path[1]]) \in Nat /\ Len(log[r.path[1]]) <= Len(log'[r.path[1]])
    BY <1>1 DEF LogsGrow
  <2>5. r.pc \in {"read", "save"} => r.path \in r.todo /\ r.size <= Len(log[r.path[1]]) /\ r.path \in U!Paths
    BY <1>3, <2>1 DEF ScanFits, ScanTypes, ScanStates
  <2>6. r.pc \in {"read", "save"} => r.path \in r.todo /\ r.size <= Len(log'[r.path[1]])
    <3>1. r.size \in Nat
      BY <2>1 DEF ScanTypes, ScanStates
    <3>2. QED
      BY <2>4, <2>5, <3>1
  <2>7. r.pc = "save" => ReadFrom(r.path, r.size, r.parsed)'
    BY <1>2, <1>3, <2>5 DEF ScanFits
  <2>8. ASSUME NEW t, Found(r, t) PROVE Found(r, t)'
    <3>1. PICK p \in r.seen :
            /\ Held(p[1], t)
            /\ p \notin r.todo => r.missed \/ <<p, Turn(t)>> \in r.events
            /\ r.pc = "save" /\ r.path = p => Turn(t) \in r.parsed
      BY <2>8 DEF Found
    <3>2. p[1] \in U!Sessions
      BY <1>1, <2>1 DEF ScanTypes, ScanStates
    <3>3. Held(p[1], t)'
      BY <3>1, <3>2, HeldIsKept
    <3>4. QED
      BY <3>1, <3>3 DEF Found
  <2>9. r.pc # "idle" =>
          \E F \in SUBSET Turned' : Cardinality(F) = r.from /\ \A t \in F : Found(r, t)'
    BY <1>3, <2>8 DEF ScanFits
  <2>10. QED
    BY <1>3, <2>3, <2>6, <2>7, <2>9 DEF ScanFits
<1>4. QED
  BY <1>2, <1>3

LEMMA SessionTypes ==
  ASSUME LogsFit, NEW s \in U!Sessions
  PROVE  /\ log[s] \in Seq(LogLines) /\ LogFits(log[s], time, Turned) /\ time \in Nat \ {0}
         /\ Len(log[s]) \in Nat /\ State(log[s], Len(log[s])) \in ParserStates
         /\ Continued(log[s], log[s])
<1>1. log[s] \in Seq(LogLines) /\ LogFits(log[s], time, Turned) /\ time \in Nat \ {0}
  BY DEF LogsFit, LogFits
<1>2. Len(log[s]) \in Nat /\ Len(log[s]) \in 0..Len(log[s])
  BY <1>1
<1>3. QED
  BY <1>1, <1>2, StateTypes DEF Continued

\* The turns after a second in which the log of s became h, and N is what h newly holds.
LEMMA TurnedGrows ==
  ASSUME LogsFit, time' = time + 1, NEW s \in U!Sessions, NEW h,
         log' = [log EXCEPT ![s] = h], LogsGrow, NEW N \in SUBSET {time + 1},
         \A t : Turn(t) \in State(h, Len(h)).events => t \in Turned \cup N,
         \A t \in N : Turn(t) \in State(h, Len(h)).events
  PROVE  Turned' = Turned \cup N /\ Cardinality(Turned') = spent + Cardinality(N)
<1>1. time \in Nat \ {0} /\ DOMAIN log = U!Sessions /\ spent = Cardinality(Turned)
  BY DEF LogsFit
<1>2. log'[s] = h /\ \A r \in U!Sessions \ {s} : log'[r] = log[r]
  BY <1>1
<1>3. Turned \subseteq 1..time /\ IsFiniteSet(Turned)
  BY TurnedIsFinite
<1>4. ASSUME NEW t \in Turned' PROVE t \in Turned \cup N
  <2>1. PICK r \in U!Sessions : Held(r, t)'
    BY <1>4 DEF Turned
  <2>2. CASE r = s
    BY <1>2, <2>1, <2>2 DEF Held
  <2>3. CASE r # s
    <3>1. Held(r, t)
      BY <1>2, <2>1, <2>3 DEF Held
    <3>2. QED
      BY <3>1, HeldIsTurned
  <2>4. QED
    BY <2>2, <2>3
<1>5. ASSUME NEW t \in Turned \cup N PROVE t \in Turned'
  <2>1. t \in 1..(time + 1)
    BY <1>1, <1>3
  <2>2. \E r \in U!Sessions : Held(r, t)'
    <3>1. CASE t \in Turned
      BY <3>1, HeldIsKept DEF Turned
    <3>2. CASE t \in N
      BY <1>2, <3>2 DEF Held
    <3>3. QED
      BY <3>1, <3>2
  <2>3. QED
    BY <2>1, <2>2 DEF Turned
<1>6. Turned' = Turned \cup N
  BY <1>4, <1>5
<1>7. CASE N = {}
  BY <1>1, <1>3, <1>6, <1>7, FS_EmptySet, FS_CardinalityType
<1>8. CASE N = {time + 1}
  <2>1. time + 1 \notin Turned
    BY <1>1, <1>3
  <2>2. Cardinality(Turned \cup {time + 1}) = Cardinality(Turned) + 1
    BY <1>3, <2>1, FS_AddElement
  <2>3. Cardinality({time + 1}) = 1
    BY FS_Singleton
  <2>4. QED
    BY <1>1, <1>6, <1>8, <2>2, <2>3
<1>9. QED
  BY <1>6, <1>7, <1>8

\* A line is appended to the log of s.
LEMMA AppendingGrows ==
  ASSUME LogsFit, NEW s \in U!Sessions, NEW line \in LogLines, U!Appending(s, line), NEW h,
         h = Append(log[s], line)
  PROVE  /\ LogsGrow /\ time' = time + 1 /\ log' = [log EXCEPT ![s] = h] /\ log[s] # <<>> /\ h # <<>>
         /\ State(h, Len(h)) = U!ParseLine(State(log[s], Len(log[s])), line)
         /\ Extends(h, log[s], line)
<1>1. /\ places[s] = {"active"} /\ time' = time + 1
      /\ log' = [log EXCEPT ![s] = Append(@, line)]
  BY DEF U!Appending
<1>2. log[s] # <<>> /\ DOMAIN log = U!Sessions
  BY <1>1 DEF LogsFit
<1>3. log' = [log EXCEPT ![s] = h]
  BY <1>1, <1>2
<1>4. Extends(h, log[s], line)
  BY AppendExtends, SessionTypes
<1>5. Continued(h, log[s]) /\ State(h, Len(h)) = U!ParseLine(State(log[s], Len(log[s])), line)
  BY <1>4, ExtendedState, SessionTypes
<1>6. h \in Seq(LogLines) /\ Len(log[s]) <= Len(h) /\ h # <<>>
  BY <1>4, SessionTypes DEF Extends
<1>7. LogsGrow
  <2> SUFFICES ASSUME NEW r \in U!Sessions
               PROVE  /\ log[r] \in Seq(LogLines) /\ log'[r] \in Seq(LogLines)
                      /\ Len(log[r]) <= Len(log'[r]) /\ Continued(log'[r], log[r])
    BY DEF LogsGrow
  <2>1. CASE r = s
    BY <1>2, <1>3, <1>5, <1>6, <2>1, SessionTypes
  <2>2. CASE r # s
    <3>1. log'[r] = log[r]
      BY <1>2, <1>3, <2>2
    <3>2. Len(log[r]) <= Len(log[r])
      BY SessionTypes
    <3>3. QED
      BY <3>1, <3>2, SessionTypes
  <2>3. QED
    BY <2>1, <2>2
<1>8. QED
  BY <1>1, <1>2, <1>3, <1>4, <1>5, <1>6, <1>7

\* What is left to show of a step of the CLI: the new log and the turns fit.
LEMMA CliKeeps ==
  ASSUME LogsFit, CacheFits, ScansFit, time' = time + 1, NEW s \in U!Sessions, NEW h,
         log' = [log EXCEPT ![s] = h], LogsGrow, h # <<>>,
         Turned \subseteq Turned', spent' = Cardinality(Turned'),
         LogFits(h, time + 1, Turned'),
         places' = [places EXCEPT ![s] = {"active"}],
         begun' \subseteq begun \cup {s},
         s \in begun' => State(h, Len(h)).gate = U!Open,
         UNCHANGED <<cache, scan>>
  PROVE  LogsFit' /\ CacheFits' /\ ScansFit'
<1>1. /\ time \in Nat \ {0} /\ DOMAIN log = U!Sessions
      /\ places \in [U!Sessions -> SUBSET U!Directories]
      /\ \A r \in U!Sessions : log[r] = <<>> <=> places[r] = {}
      /\ begun \subseteq U!Sessions
      /\ \A r \in begun : log[r] # <<>> /\ State(log[r], Len(log[r])).gate = U!Open
  BY DEF LogsFit
<1>2. DOMAIN log' = U!Sessions /\ log'[s] = h /\ \A r \in U!Sessions \ {s} : log'[r] = log[r]
  BY <1>1
<1>3. /\ places' \in [U!Sessions -> SUBSET U!Directories] /\ places'[s] = {"active"}
      /\ \A r \in U!Sessions \ {s} : places'[r] = places[r]
  BY <1>1 DEF U!Directories
<1>4. \A r \in U!Sessions : log'[r] = <<>> <=> places'[r] = {}
  BY <1>1, <1>2, <1>3
<1>5. ASSUME NEW r \in U!Sessions PROVE LogFits(log'[r], time', Turned')
  <2>1. CASE r = s
    BY <1>2, <2>1
  <2>2. CASE r # s
    <3>1. LogFits(log[r], time, Turned)
      BY DEF LogsFit
    <3>2. QED
      BY <1>1, <1>2, <2>2, <3>1, LogsAge
  <2>3. QED
    BY <2>1, <2>2
<1>6. begun' \subseteq U!Sessions /\ \A r \in begun' : log'[r] # <<>> /\ State(log'[r], Len(log'[r])).gate = U!Open
  BY <1>1, <1>2
<1>7. LogsFit'
  <2>1. time' \in Nat \ {0}
    BY <1>1
  <2>2. U!Sessions' = U!Sessions /\ U!Directories' = U!Directories /\ U!Open' = U!Open
    OBVIOUS
  <2>3. QED
    BY <1>2, <1>3, <1>4, <1>5, <1>6, <2>1, <2>2 DEF LogsFit
<1>8. CacheFits'
  <2>1. U!Paths' = U!Paths
    OBVIOUS
  <2>2. QED
    BY <2>1, GrowthKeeps DEF CacheFits
<1>9. ScansFit'
  BY GrowthKeeps DEF ScansFit
<1>10. QED
  BY <1>7, <1>8, <1>9

\* An empty log becomes h.
LEMMA FreshGrows ==
  ASSUME LogsFit, NEW s \in U!Sessions, log[s] = <<>>, NEW h \in Seq(LogLines), h # <<>>,
         log' = [log EXCEPT ![s] = h]
  PROVE  LogsGrow
<1>1. DOMAIN log = U!Sessions
  BY DEF LogsFit
<1>2. log'[s] = h /\ \A r \in U!Sessions \ {s} : log'[r] = log[r]
  BY <1>1
<1> SUFFICES ASSUME NEW r \in U!Sessions
             PROVE  /\ log[r] \in Seq(LogLines) /\ log'[r] \in Seq(LogLines)
                    /\ Len(log[r]) <= Len(log'[r]) /\ Continued(log'[r], log[r])
  BY DEF LogsGrow
<1>3. CASE r = s
  <2>1. /\ Len(h) \in Nat /\ DOMAIN h = 1..Len(h)
        /\ log[s] \in Seq(LogLines) /\ Len(log[s]) = 0 /\ DOMAIN log[s] = 1..0
    BY SessionTypes
  <2>2. State(h, 0) = Start /\ State(log[s], 0) = Start
    BY <2>1, StateStarts
  <2>3. Continued(h, log[s])
    BY <2>1, <2>2 DEF Continued
  <2>4. Len(log[s]) <= Len(h)
    BY <2>1
  <2>5. QED
    BY <1>2, <1>3, <2>1, <2>3, <2>4
<1>4. CASE r # s
  <2>1. log'[r] = log[r]
    BY <1>2, <1>4
  <2>2. Len(log[r]) <= Len(log[r])
    BY SessionTypes
  <2>3. QED
    BY <2>1, <2>2, SessionTypes
<1>5. QED
  BY <1>3, <1>4

\* A step after which no other turns have ended.
LEMMA NoTurnEnds ==
  ASSUME LogsFit, time' = time + 1, NEW s \in U!Sessions, NEW h,
         log' = [log EXCEPT ![s] = h], LogsGrow, spent' = spent,
         \A t : Turn(t) \in State(h, Len(h)).events => t \in Turned
  PROVE  Turned' = Turned /\ spent' = Cardinality(Turned')
<1>1. Turned' = Turned \cup {} /\ Cardinality(Turned') = spent + Cardinality({})
  BY TurnedGrows, {} \in SUBSET {time + 1}
<1>2. Cardinality({}) = 0 /\ spent \in Nat
  BY FS_EmptySet, TurnedIsFinite
<1>3. QED
  BY <1>1, <1>2

LEMMA StartSessionKeeps ==
  ASSUME LogsFit, CacheFits, ScansFit, NEW s \in U!Sessions, U!StartSession(s)
  PROVE  LogsFit' /\ CacheFits' /\ ScansFit'
<1> DEFINE meta == [kind |-> "meta", child |-> FALSE, at |-> time + 1]
           h == <<meta>>
<1>1. /\ log[s] = <<>> /\ time' = time + 1 /\ log' = [log EXCEPT ![s] = h]
      /\ places' = [places EXCEPT ![s] = {"active"}] /\ begun' = begun /\ spent' = spent
      /\ UNCHANGED <<cache, scan>>
  BY DEF U!StartSession
<1>2. time \in Nat \ {0} /\ s \notin begun
  BY <1>1 DEF LogsFit
<1>3. meta \in MetaLines /\ meta.kind = "meta" /\ ~meta.child /\ meta.at = time + 1
  BY <1>2 DEF MetaLines
<1> HIDE DEF meta
<1>4. h \in Seq(LogLines) /\ h # <<>> /\ Len(h) = 1 /\ h[1] = meta /\ DOMAIN h = 1..1
  BY <1>3 DEF LogLines
<1> HIDE DEF h
<1>5. LogsGrow
  BY <1>1, <1>4, FreshGrows
<1>6. State(h, 1).events = {}
  <2>1. State(h, 0) = Start
    BY <1>4, StateStarts
  <2>2. 1 \in 1..Len(h) /\ 1 - 1 = 0
    BY <1>4
  <2>3. State(h, 0) \in ParserStates /\ State(h, 1) = U!ParseLine(State(h, 0), meta)
    BY <1>4, <2>2, OneLine
  <2>4. State(h, 1).events = State(h, 0).events
    BY <1>3, <2>3, MetaParsed
  <2>5. QED
    BY <2>1, <2>4 DEF Start
<1>7. Turned' = Turned /\ spent' = Cardinality(Turned')
  BY <1>1, <1>4, <1>5, <1>6, NoTurnEnds
<1>8. LogFits(h, time + 1, Turned')
  BY <1>2, <1>3, <1>4 DEF LogFits
<1>9. QED
  BY <1>1, <1>2, <1>4, <1>5, <1>7, <1>8, CliKeeps

\* A task that starts ends the replay.
LEMMA TaskStartsKeeps ==
  ASSUME LogsFit, CacheFits, ScansFit, NEW s \in U!Sessions, U!TaskStarts(s)
  PROVE  LogsFit' /\ CacheFits' /\ ScansFit'
<1> DEFINE line == [kind |-> "task", started |-> time + 1, at |-> time + 1]
           l == log[s]
           p == State(l, Len(l))
           h == Append(l, line)
           q == State(h, Len(h))
<1>1. U!Appending(s, line) /\ begun' = begun \cup {s} /\ spent' = spent
  BY DEF U!TaskStarts
<1>2. /\ l \in Seq(LogLines) /\ LogFits(l, time, Turned) /\ time \in Nat \ {0}
      /\ Len(l) \in Nat /\ p \in ParserStates
  BY SessionTypes
<1>3. /\ line \in TaskLines /\ line \in LogLines /\ line.kind = "task"
      /\ line.started = time + 1 /\ line.at = time + 1
  BY <1>2 DEF TaskLines, LogLines
<1> HIDE DEF line
<1>4. places[s] = {"active"} /\ UNCHANGED <<places, cache, scan>>
  BY <1>1 DEF U!Appending
<1>5. /\ LogsGrow /\ time' = time + 1 /\ log' = [log EXCEPT ![s] = h] /\ l # <<>> /\ h # <<>>
      /\ q = U!ParseLine(p, line)
  BY <1>1, <1>3, AppendingGrows
<1>6. \A t : Turn(t) \in p.events => t \in Turned
  BY HeldIsTurned DEF Held
<1>7. LogFits(h, time + 1, Turned)
  BY <1>2, <1>3, <1>5, AppendFits
<1>8. p.gate = U!Open \/ U!Clears(p.gate, line)
  <2>1. /\ l[1].kind = "meta" /\ l[1].at <= time /\ \A i \in 2..Len(l) : l[i].kind # "meta"
    BY <1>2, <1>5 DEF LogFits, LineFits
  <2>2. Len(l) \in 1..Len(l) /\ l[1] \in LogLines
    BY <1>2, <1>5
  <2>3. p.gate = U!Open \/ p.gate = Shut(l)
    BY <1>2, <1>5, <2>1, <2>2, GateOfLog
  <2>4. l[1].at \in Nat
    BY <2>1, <2>2, LineKinds DEF MetaLines
  <2>5. U!Clears(Shut(l), line)
    BY <1>2, <1>3, <2>1, <2>4 DEF Shut, U!Clears
  <2>6. QED
    BY <2>3, <2>5
<1> HIDE DEF l, p, h, q
<1>9. q.events = p.events /\ q.gate = U!Open
  BY <1>2, <1>3, <1>5, <1>8, TaskParsed
<1>10. Turned' = Turned /\ spent' = Cardinality(Turned')
  BY <1>1, <1>5, <1>6, <1>9, NoTurnEnds DEF q
<1>11. places' = [places EXCEPT ![s] = {"active"}]
  BY <1>4 DEF LogsFit
<1>12. QED
  BY <1>1, <1>4, <1>5, <1>7, <1>9, <1>10, <1>11, CliKeeps DEF q

\* The last total that the CLI wrote is the one that the parser remembers.
LEMMA RunningTotal ==
  ASSUME LogsFit, NEW s \in U!Sessions, NEW p, p = State(log[s], Len(log[s]))
  PROVE  /\ U!Running(s) = Base(p.previous) /\ U!Running(s) \in Nat
         /\ U!Counts(s) # {} => U!LastCount(s) \in CountLines /\ U!LastCount(s).total = p.previous
<1> DEFINE l == log[s]
           S == U!Counts(s)
<1>1. l \in Seq(LogLines) /\ Len(l) \in Nat /\ Len(l) \in 0..Len(l)
  BY SessionTypes
<1>2. S = {i \in 1..Len(l) : l[i].kind = "count"}
  BY DEF U!Counts
<1>3. \/ p.previous = -1 /\ \A i \in 1..Len(l) : l[i].kind # "count"
      \/ \E i \in 1..Len(l) : /\ l[i].kind = "count" /\ p.previous = l[i].total
                              /\ \A j \in (i + 1)..Len(l) : l[j].kind # "count"
  BY <1>1, LastTotal
<1>4. U!LastCount(s) = l[CHOOSE i \in S : \A j \in S : j <= i]
  BY DEF U!LastCount
<1>5. U!Running(s) = IF S = {} THEN 0 ELSE U!LastCount(s).total
  BY DEF U!Running
<1> HIDE DEF l, S
<1>6. CASE S = {}
  BY <1>2, <1>3, <1>5, <1>6 DEF Base, S
<1>7. CASE S # {}
  <2>1. PICK i \in 1..Len(l) : /\ l[i].kind = "count" /\ p.previous = l[i].total
                               /\ \A j \in (i + 1)..Len(l) : l[j].kind # "count"
    BY <1>2, <1>3, <1>7
  <2>2. i \in S /\ \A j \in S : j <= i
    BY <1>1, <1>2, <2>1
  <2>3. S \subseteq Nat
    BY <1>2
  <2>4. \A k \in S : (\A j \in S : j <= k) => k = i
    BY <2>2, <2>3
  <2>5. (CHOOSE k \in S : \A j \in S : j <= k) = i
    <3> DEFINE Last_(k) == k \in S /\ \A j \in S : j <= k
    <3>1. Last_(i) /\ \A k : Last_(k) => k = i
      BY <2>2, <2>4
    <3> HIDE DEF Last_
    <3>2. (CHOOSE k : Last_(k)) = i
      BY <3>1
    <3>3. QED
      BY <3>2 DEF Last_
  <2>6. l[i] \in CountLines
    BY <1>1, <2>1, LineKinds
  <2>7. U!LastCount(s) \in CountLines /\ U!LastCount(s).total = p.previous
    BY <1>4, <2>1, <2>5, <2>6
  <2>8. p.previous \in Nat
    BY <2>7 DEF CountLines
  <2>9. U!Running(s) = p.previous /\ Base(p.previous) = p.previous
    BY <1>5, <1>7, <2>7, <2>8 DEF Base
  <2>10. QED
    BY <2>7, <2>8, <2>9
<1>8. QED
  BY <1>6, <1>7

\* A turn that ends is an event that no log held before.
LEMMA TurnEndsKeeps ==
  ASSUME LogsFit, CacheFits, ScansFit, NEW s \in U!Sessions, U!TurnEnds(s)
  PROVE  LogsFit' /\ CacheFits' /\ ScansFit'
<1>0. PICK last \in {0, 1} :
        U!Appending(s, [kind |-> "count", at |-> time + 1, total |-> U!Running(s) + 1,
                        last |-> last])
  BY DEF U!TurnEnds
<1> DEFINE line == [kind |-> "count", at |-> time + 1, total |-> U!Running(s) + 1, last |-> last]
           l == log[s]
           p == State(l, Len(l))
           h == Append(l, line)
           q == State(h, Len(h))
           N == {time + 1}
<1>1. U!Appending(s, line) /\ begun' = begun /\ spent' = spent + 1 /\ s \in begun
  BY <1>0 DEF U!TurnEnds
<1>2. /\ l \in Seq(LogLines) /\ LogFits(l, time, Turned) /\ time \in Nat \ {0}
      /\ Len(l) \in Nat /\ p \in ParserStates
  BY SessionTypes
<1>2a. U!Running(s) = Base(p.previous) /\ U!Running(s) \in Nat
  BY RunningTotal
<1>3. /\ line \in CountLines /\ line \in LogLines /\ line.kind = "count"
      /\ line.at = time + 1 /\ line.total = Base(p.previous) + 1 /\ line.last \in {0, 1}
  BY <1>2, <1>2a DEF CountLines, LogLines
<1> HIDE DEF line
<1>4. places[s] = {"active"} /\ UNCHANGED <<places, cache, scan>>
  BY <1>1 DEF U!Appending
<1>5. /\ LogsGrow /\ time' = time + 1 /\ log' = [log EXCEPT ![s] = h] /\ l # <<>> /\ h # <<>>
      /\ q = U!ParseLine(p, line)
  BY <1>1, <1>3, AppendingGrows
<1>6. (\A t : Turn(t) \in p.events => t \in Turned) /\ p.gate = U!Open
  BY <1>1, HeldIsTurned DEF Held, LogsFit
<1>7. LogFits(h, time + 1, Turned \cup N)
  BY <1>2, <1>3, <1>5, AppendFits
<1> HIDE DEF l, p, h, q
<1>8. p.previous \in Nat \cup {-1}
  BY <1>2 DEF ParserStates
<1>9. line.total # p.previous /\ U!Usage(p, line) = 1
  BY <1>3, <1>8 DEF Base, U!Usage
<1>10. q.gate = U!Open /\ q.events = p.events \cup {Turn(time + 1)}
  <2>1. q.gate = p.gate
    BY <1>2, <1>3, <1>5, CountParsed
  <2>2. q.events = p.events \cup {[at |-> line.at, tokens |-> U!Usage(p, line)]}
    BY <1>2, <1>3, <1>5, <1>6, <1>9, CountParsed
  <2>3. QED
    BY <1>3, <1>6, <1>9, <2>1, <2>2 DEF Turn
<1>11. \A t : Turn(t) \in q.events => t \in Turned \cup N
  BY <1>6, <1>10 DEF Turn
<1>12. \A t \in N : Turn(t) \in q.events
  BY <1>10
<1>13. Turned' = Turned \cup N /\ Cardinality(Turned') = spent + Cardinality(N)
  BY <1>5, <1>11, <1>12, TurnedGrows DEF q
<1>14. Cardinality(N) = 1
  BY FS_Singleton
<1>15. places' = [places EXCEPT ![s] = {"active"}]
  BY <1>4 DEF LogsFit
<1>16. QED
  BY <1>1, <1>4, <1>5, <1>7, <1>10, <1>13, <1>14, <1>15, CliKeeps DEF q

\* Figures that are repeated are no event.
LEMMA RepeatsKeeps ==
  ASSUME LogsFit, CacheFits, ScansFit, NEW s \in U!Sessions, U!Repeats(s)
  PROVE  LogsFit' /\ CacheFits' /\ ScansFit'
<1> DEFINE line == [U!LastCount(s) EXCEPT !.at = time + 1]
           l == log[s]
           p == State(l, Len(l))
           h == Append(l, line)
           q == State(h, Len(h))
<1>1. U!Appending(s, line) /\ begun' = begun /\ spent' = spent /\ U!Counts(s) # {}
  BY DEF U!Repeats
<1>2. /\ l \in Seq(LogLines) /\ LogFits(l, time, Turned) /\ time \in Nat \ {0}
      /\ Len(l) \in Nat /\ p \in ParserStates
  BY SessionTypes
<1>2a. U!LastCount(s) \in CountLines /\ U!LastCount(s).total = p.previous
  BY <1>1, RunningTotal
<1>3. /\ line \in CountLines /\ line \in LogLines /\ line.kind = "count"
      /\ line.at = time + 1 /\ line.total = p.previous
  BY <1>2, <1>2a DEF CountLines, LogLines
<1> HIDE DEF line
<1>4. places[s] = {"active"} /\ UNCHANGED <<places, cache, scan>>
  BY <1>1 DEF U!Appending
<1>5. /\ LogsGrow /\ time' = time + 1 /\ log' = [log EXCEPT ![s] = h] /\ l # <<>> /\ h # <<>>
      /\ q = U!ParseLine(p, line)
  BY <1>1, <1>3, AppendingGrows
<1>6. (\A t : Turn(t) \in p.events => t \in Turned) /\ (s \in begun => p.gate = U!Open)
  BY HeldIsTurned DEF Held, LogsFit
<1>7. LogFits(h, time + 1, Turned)
  BY <1>2, <1>3, <1>5, AppendFits
<1> HIDE DEF l, p, h, q
<1>8. q.gate = p.gate /\ q.events = p.events
  BY <1>2, <1>3, <1>5, CountParsed
<1>9. Turned' = Turned /\ spent' = Cardinality(Turned')
  BY <1>1, <1>5, <1>6, <1>8, NoTurnEnds DEF q
<1>10. places' = [places EXCEPT ![s] = {"active"}]
  BY <1>4 DEF LogsFit
<1>11. QED
  BY <1>1, <1>4, <1>5, <1>6, <1>7, <1>8, <1>9, <1>10, CliKeeps DEF q

\* A fork's replay holds no turn that its parent's log does not.
LEMMA ForksKeeps ==
  ASSUME LogsFit, CacheFits, ScansFit, NEW s \in U!Sessions, NEW child \in U!Sessions,
         U!Forks(s, child)
  PROVE  LogsFit' /\ CacheFits' /\ ScansFit'
<1>1. /\ log[child] = <<>> /\ places[s] = {"active"} /\ time' = time + 1
      /\ places' = [places EXCEPT ![child] = {"active"}]
      /\ UNCHANGED <<begun, spent, cache, scan>>
  BY DEF U!Forks
<1>2. PICK meta, times :
        /\ meta \in MetaLines /\ meta.child /\ meta.at \in {0, time + 1}
        /\ times \in {"fork's", "own"}
        /\ log' = [log EXCEPT ![child] = Fork(log[s], meta, time, times)]
  <2>0. time \in Nat
    BY SessionTypes
  <2>1. PICK timed \in BOOLEAN, rewritten \in BOOLEAN :
          log' = [log EXCEPT ![child] =
                    <<[kind |-> "meta", child |-> TRUE, at |-> IF timed THEN time' ELSE 0]>>
                    \o [i \in 1..Len(Tail(log[s])) |->
                          IF rewritten THEN [Tail(log[s])[i] EXCEPT !.at = time']
                                       ELSE Tail(log[s])[i]]]
    BY DEF U!Forks
  <2> DEFINE at == IF timed THEN time + 1 ELSE 0
             meta == [kind |-> "meta", child |-> TRUE, at |-> at]
             times == IF rewritten THEN "fork's" ELSE "own"
  <2>2. at \in {0, time + 1} /\ at \in Nat
    BY <2>0
  <2>3. times \in {"fork's", "own"} /\ (times = "fork's" <=> rewritten)
    OBVIOUS
  <2>4. log' = [log EXCEPT ![child] =
                  <<[kind |-> "meta", child |-> TRUE, at |-> at]>>
                  \o [i \in 1..Len(Tail(log[s])) |->
                          IF times = "fork's" THEN [Tail(log[s])[i] EXCEPT !.at = time + 1]
                                              ELSE Tail(log[s])[i]]]
    <3>1. (IF timed THEN time' ELSE 0) = at
      BY <1>1
    <3>2. [i \in 1..Len(Tail(log[s])) |->
                          IF rewritten THEN [Tail(log[s])[i] EXCEPT !.at = time']
                                       ELSE Tail(log[s])[i]]
          = [i \in 1..Len(Tail(log[s])) |->
                          IF times = "fork's" THEN [Tail(log[s])[i] EXCEPT !.at = time + 1]
                                              ELSE Tail(log[s])[i]]
      BY <1>1, <2>3
    <3>3. QED
      BY <2>1, <3>1, <3>2
  <2> HIDE DEF times, at
  <2>5. meta \in MetaLines /\ meta.child /\ meta.at \in {0, time + 1}
    BY <2>2 DEF MetaLines
  <2>6. log' = [log EXCEPT ![child] = Fork(log[s], meta, time, times)]
    BY <2>4 DEF Fork, Replayed
  <2> HIDE DEF meta
  <2>7. QED
    BY <2>3, <2>5, <2>6
<1>3. PICK h : h = Fork(log[s], meta, time, times)
  OBVIOUS
<1>4. log[s] \in Seq(LogLines) /\ LogFits(log[s], time, Turned) /\ time \in Nat
  BY SessionTypes
<1>5. log[s] # <<>> /\ child \notin begun
  BY <1>1 DEF LogsFit
<1>6. LogFits(h, time + 1, Turned) /\ Forked(h, log[s], meta, time, times)
  BY <1>2, <1>3, <1>4, <1>5, ForkFits, ForkedLines
<1>7. h \in Seq(LogLines) /\ h # <<>>
  BY <1>6 DEF Forked
<1>8. log' = [log EXCEPT ![child] = h]
  BY <1>2, <1>3
<1>9. LogsGrow
  BY <1>1, <1>7, <1>8, FreshGrows
<1>10. \A t : Turn(t) \in State(h, Len(h)).events => t \in Turned
  <2>1. Len(h) \in 0..Len(h)
    BY <1>7
  <2>2. State(h, Len(h)).events \subseteq Turns(Turned)
    BY <1>6, <2>1, EventsAreTurns
  <2>3. QED
    BY <2>2 DEF Turns, Turn
<1>11. Turned' = Turned /\ spent' = Cardinality(Turned')
  BY <1>1, <1>8, <1>9, <1>10, NoTurnEnds
<1>12. QED
  BY <1>1, <1>5, <1>6, <1>7, <1>8, <1>9, <1>11, CliKeeps

\* A file that is copied or removed holds what it held.
LEMMA LogsStay ==
  ASSUME LogsFit, CacheFits, ScansFit, UNCHANGED <<time, log>>
  PROVE  /\ Turned' = Turned
         /\ \A p \in U!Paths : \A size, events : ReadFrom(p, size, events) => ReadFrom(p, size, events)'
         /\ \A r : ScanFits(r) => ScanFits(r)'
<1>1. Turned' = Turned
  BY DEF Turned, Held
<1>2. LogsGrow
  <2>1. \A s \in U!Sessions : Len(log[s]) <= Len(log[s])
    BY SessionTypes
  <2>2. QED
    BY <2>1, SessionTypes DEF LogsGrow
<1>3. Turned \subseteq Turned'
  BY <1>1
<1>4. QED
  BY <1>1, <1>2, <1>3, GrowthKeeps

LEMMA ArchivesKeeps ==
  ASSUME LogsFit, CacheFits, ScansFit, NEW s \in U!Sessions, U!Archives(s)
  PROVE  LogsFit' /\ CacheFits' /\ ScansFit'
<1>1. /\ "active" \in places[s] /\ UNCHANGED <<time, log, begun, spent, cache, scan>>
      /\ places' = [places EXCEPT ![s] = IF "archived" \in @ THEN {"archived"} ELSE U!Directories]
  BY DEF U!Archives
<1>2. Turned' = Turned
  BY <1>1, LogsStay
<1>3. /\ places' \in [U!Sessions -> SUBSET U!Directories] /\ places'[s] # {}
      /\ \A r \in U!Sessions \ {s} : places'[r] = places[r]
  BY <1>1 DEF U!Directories, LogsFit
<1>4. \A r \in U!Sessions : log[r] = <<>> <=> places'[r] = {}
  BY <1>1, <1>3 DEF LogsFit
<1>5. LogsFit'
  BY <1>1, <1>2, <1>3, <1>4 DEF LogsFit
<1>6. CacheFits' /\ ScansFit'
  <2>1. U!Paths' = U!Paths
    OBVIOUS
  <2>2. QED
    BY <1>1, <2>1, LogsStay DEF CacheFits, ScansFit
<1>7. QED
  BY <1>5, <1>6

-----------------------------------------------------------------------------
(* The steps of a scan.                                                              *)

ScanStepped(w, r) ==
  /\ scan' = [scan EXCEPT ![w] = r]
  /\ UNCHANGED <<time, log, places, begun, spent>>

LEMMA ScanSteps ==
  ASSUME LogsFit, CacheFits, ScansFit, NEW w \in Scanners, NEW r, ScanFits(r), ScanStepped(w, r)
  PROVE  LogsFit' /\ ScansFit'
<1>1. UNCHANGED <<time, log, places, begun, spent>> /\ scan' = [scan EXCEPT ![w] = r]
  BY DEF ScanStepped
<1>2. Turned' = Turned /\ \A q : ScanFits(q) => ScanFits(q)'
  BY <1>1, LogsStay
<1>3. LogsFit'
  BY <1>1, <1>2 DEF LogsFit
<1>4. DOMAIN scan' = Scanners /\ \A v \in Scanners : scan'[v] = IF v = w THEN r ELSE scan[v]
  BY <1>1 DEF ScansFit
<1>5. ASSUME NEW v \in Scanners PROVE ScanFits(scan[v])'
  <2>1. PICK q : q = scan'[v]
    OBVIOUS
  <2>2. ScanFits(q)
    BY <1>4, <2>1 DEF ScansFit
  <2>3. ScanFits(q)'
    BY <1>2, <2>2
  <2>4. QED
    BY <2>1, <2>3
<1>6. QED
  BY <1>3, <1>4, <1>5 DEF ScansFit

LEMMA CacheStays ==
  ASSUME LogsFit, CacheFits, ScansFit, NEW w, NEW r, ScanStepped(w, r), NEW D \in SUBSET U!Paths,
         cache' \in [U!Paths -> {cache'[p] : p \in U!Paths}],
         \A p \in U!Paths \ D : cache'[p] = cache[p],
         \A p \in D : cache'[p].size \in Int /\ ReadFrom(p, cache'[p].size, cache'[p].events)
  PROVE  CacheFits'
<1>1. UNCHANGED <<time, log>>
  BY DEF ScanStepped
<1>2. \A p \in U!Paths : \A size, events : ReadFrom(p, size, events) => ReadFrom(p, size, events)'
  BY <1>1, LogsStay
<1>3. \A p \in U!Paths : cache'[p].size \in Int /\ ReadFrom(p, cache'[p].size, cache'[p].events)
  BY DEF CacheFits
<1>4. U!Paths' = U!Paths /\ DOMAIN cache' = U!Paths
  OBVIOUS
<1>5. QED
  BY <1>2, <1>3, <1>4 DEF CacheFits

\* No row holds for any file.
LEMMA NoRowFits ==
  ASSUME LogsFit, NEW p \in U!Paths
  PROVE  U!NoRow.size \in Int /\ ReadFrom(p, U!NoRow.size, U!NoRow.events)
<1>1. p[1] \in U!Sessions
  BY DEF U!Paths
<1>2. /\ log[p[1]] \in Seq(LogLines) /\ Len(log[p[1]]) \in Nat
      /\ DOMAIN log[p[1]] = 1..Len(log[p[1]])
  BY <1>1, SessionTypes
<1>3. State(log[p[1]], 0) = Start
  BY <1>2, StateStarts
<1>4. U!NoRow.size = -1 /\ U!NoRow.events = {} /\ Start.events = {}
  BY DEF U!NoRow, Start
<1>5. 0 \in 0..Len(log[p[1]]) /\ -1 <= 0
  BY <1>2
<1>6. QED
  BY <1>3, <1>4, <1>5 DEF ReadFrom

\* A file that is read now gives every event of its log.
LEMMA ReadNow ==
  ASSUME LogsFit, NEW p \in U!Paths
  PROVE  /\ Len(log[p[1]]) \in Nat
         /\ U!Parse(log[p[1]]) = State(log[p[1]], Len(log[p[1]])).events
         /\ U!Parse(log[p[1]]) \subseteq Turns(Turned)
         /\ \A t : Held(p[1], t) => Turn(t) \in U!Parse(log[p[1]])
         /\ \A size \in Nat : size <= Len(log[p[1]]) => ReadFrom(p, size, U!Parse(log[p[1]]))
<1>1. p[1] \in U!Sessions
  BY DEF U!Paths
<1> DEFINE l == log[p[1]]
<1>2. /\ l \in Seq(LogLines) /\ LogFits(l, time, Turned) /\ Len(l) \in Nat
      /\ DOMAIN l = 1..Len(l) /\ Len(l) \in 0..Len(l)
  BY <1>1, SessionTypes
<1>3. U!Parse(l) = State(l, Len(l)).events
  BY <1>2, ParseIsState
<1>4. U!Parse(l) \subseteq Turns(Turned)
  BY <1>2, <1>3, EventsAreTurns
<1>5. QED
  BY <1>2, <1>3, <1>4 DEF Held, ReadFrom

\* A file that cannot be read is missed.
LEMMA MissedFits ==
  ASSUME NEW r, ScanFits(r), r.pc # "idle", NEW p, NEW q,
         q = [r EXCEPT !.pc = "next", !.todo = @ \ {p}, !.path = U!NoPath, !.size = 0,
                       !.missed = TRUE]
  PROVE  ScanFits(q)
<1>1. r \in ScanTypes
  BY DEF ScanFits
<1>2. q \in ScanTypes /\ q.pc = "next" /\ q.missed /\ q.seen = r.seen /\ q.from = r.from
  BY <1>1 DEF ScanTypes, ScanStates
<1>3. ASSUME NEW t, Found(r, t) PROVE Found(q, t)
  BY <1>2, <1>3 DEF Found
<1>4. \E F \in SUBSET Turned : Cardinality(F) = q.from /\ \A t \in F : Found(q, t)
  BY <1>2, <1>3 DEF ScanFits
<1>5. QED
  BY <1>2, <1>4 DEF ScanFits

LEMMA TakenTypes ==
  ASSUME NEW P, NEW none, NEW E, NEW PE, NEW left \in SUBSET P, NEW all \in SUBSET PE,
         NEW r \in ScanStates(P, none, E, PE), NEW q,
         q = [r EXCEPT !.pc = "next", !.todo = left, !.path = none, !.size = 0, !.parsed = {},
                       !.events = all]
  PROVE  q \in ScanStates(P, none, E, PE)
BY DEF ScanStates

\* A file whose events are taken is no longer to come.
LEMMA TakenFits ==
  ASSUME NEW r, ScanFits(r), r.pc \in {"next", "save"}, NEW p \in r.todo, NEW events,
         events \subseteq Turns(Turned),
         \A t : /\ Held(p[1], t) 
                /\ r.pc = "save" => r.path = p /\ Turn(t) \in r.parsed
                => Turn(t) \in events,
         r.pc = "save" => r.path = p,
         NEW q,
         q = [r EXCEPT !.pc = "next", !.todo = @ \ {p}, !.path = U!NoPath, !.size = 0,
                       !.parsed = {}, !.events = @ \cup {<<p, e>> : e \in events}]
  PROVE  ScanFits(q)
<1>1. r \in ScanTypes /\ p \in U!Paths
  BY DEF ScanFits, ScanTypes, ScanStates
<1> DEFINE E == {<<p, e>> : e \in events}
<1>2. E \subseteq U!Paths \X Turns(Turned)
  BY <1>1
<1>2a. \A e \in events : <<p, e>> \in E
  OBVIOUS
<1> HIDE DEF E
<1>3. q = [r EXCEPT !.pc = "next", !.todo = @ \ {p}, !.path = U!NoPath, !.size = 0,
                    !.parsed = {}, !.events = @ \cup E]
  BY DEF E
<1>4. /\ q.pc = "next" /\ q.todo = r.todo \ {p} /\ q.events = r.events \cup E
      /\ q.seen = r.seen /\ q.from = r.from /\ q.missed = r.missed
  BY <1>1, <1>3 DEF ScanTypes, ScanStates
<1>5. q \in ScanTypes
  <2> DEFINE all == r.events \cup E
             left == r.todo \ {p}
  <2>1. all \in SUBSET (U!Paths \X Turns(Turned)) /\ left \in SUBSET U!Paths
    BY <1>1, <1>2 DEF ScanTypes, ScanStates
  <2>2. q = [r EXCEPT !.pc = "next", !.todo = left, !.path = U!NoPath, !.size = 0,
                      !.parsed = {}, !.events = all]
    BY <1>3
  <2> HIDE DEF all, left
  <2>3. r \in ScanStates(U!Paths, U!NoPath, Turns(Turned), U!Paths \X Turns(Turned))
    BY <1>1 DEF ScanTypes
  <2>4. q \in ScanStates(U!Paths, U!NoPath, Turns(Turned), U!Paths \X Turns(Turned))
    BY ONLY <2>1, <2>2, <2>3, TakenTypes
  <2>5. QED
    BY <2>4 DEF ScanTypes
<1>6. ASSUME NEW t, Found(r, t) PROVE Found(q, t)
  <2>1. PICK f \in r.seen :
          /\ Held(f[1], t)
          /\ f \notin r.todo => r.missed \/ <<f, Turn(t)>> \in r.events
          /\ r.pc = "save" /\ r.path = f => Turn(t) \in r.parsed
    BY <1>6 DEF Found
  <2>2. CASE f = p
    <3>1. Turn(t) \in events
      BY <2>1, <2>2
    <3>2. <<f, Turn(t)>> \in q.events
      BY <1>2a, <1>4, <2>2, <3>1
    <3>3. QED
      BY <1>4, <2>1, <3>2 DEF Found
  <2>3. CASE f # p
    BY <1>4, <2>1, <2>3 DEF Found
  <2>4. QED
    BY <2>2, <2>3
<1>7. \E F \in SUBSET Turned : Cardinality(F) = q.from /\ \A t \in F : Found(q, t)
  BY <1>4, <1>6 DEF ScanFits
<1>8. QED
  BY <1>4, <1>5, <1>7 DEF ScanFits

\* A step of r that leaves what it has found; it is not about to save.
LEMMA GoesOn ==
  ASSUME NEW r, ScanFits(r), r.pc # "idle", NEW q \in ScanTypes, q.pc # "save",
         q.todo = r.todo, q.seen = r.seen, q.events = r.events, q.from = r.from,
         q.missed = r.missed,
         q.pc = "read" => q.path \in q.todo /\ q.size <= Len(log[q.path[1]]),
         q.pc = "report" => q.todo = {}
  PROVE  ScanFits(q)
<1>1. ASSUME NEW t, Found(r, t) PROVE Found(q, t)
  BY <1>1 DEF Found
<1>2. \E F \in SUBSET Turned : Cardinality(F) = q.from /\ \A t \in F : Found(q, t)
  BY <1>1 DEF ScanFits
<1>3. QED
  BY <1>2 DEF ScanFits

LEMMA DiscoverKeeps ==
  ASSUME LogsFit, CacheFits, ScansFit, NEW w \in Scanners, U!Discover(w)
  PROVE  LogsFit' /\ CacheFits' /\ ScansFit'
<1>1. PICK found \in {{p \in U!Paths : U!Exists(p)},
                      {p \in U!Paths : U!Exists(p)
                                       /\ ~(p[2] = "archived" /\ U!Exists(<<p[1], "active">>))}} :
        /\ U!SetScan(w, [U!Idle EXCEPT !.pc = "next", !.todo = found, !.seen = found,
                                       !.from = spent])
        /\ UNCHANGED <<time, log, places, begun, spent, cache>>
  BY DEF U!Discover
<1> DEFINE r == [U!Idle EXCEPT !.pc = "next", !.todo = found, !.seen = found, !.from = spent]
<1>3. found \subseteq U!Paths /\ spent \in Nat
  BY <1>1, TurnedIsFinite
<1>4. U!Idle \in ScanTypes
  BY DEF U!Idle, ScanTypes, ScanStates
<1>5. r \in ScanTypes
  BY <1>3, <1>4 DEF ScanTypes, ScanStates
<1>6. r.pc = "next" /\ r.todo = found /\ r.seen = found /\ r.from = spent
  BY <1>4 DEF ScanTypes, ScanStates
<1> HIDE DEF r
<1>7. ASSUME NEW t \in Turned PROVE Found(r, t)
  <2>1. PICK s \in U!Sessions : Held(s, t)
    BY DEF Turned
  <2>2. places[s] # {} /\ places[s] \subseteq {"active", "archived"}
    BY <2>1, HeldIsTurned DEF LogsFit, U!Directories
  <2> DEFINE d == IF "active" \in places[s] THEN "active" ELSE "archived"
             p == <<s, d>>
  <2>3. d \in places[s] /\ (d = "archived" => "active" \notin places[s]) /\ d \in U!Directories
    BY <2>2 DEF U!Directories
  <2> HIDE DEF d
  <2>4. p \in U!Paths /\ p[1] = s /\ p[2] = d
    BY <2>3 DEF U!Paths
  <2>5. U!Exists(p) /\ ~(p[2] = "archived" /\ U!Exists(<<p[1], "active">>))
    BY <2>3, <2>4 DEF U!Exists
  <2>6. p \in found
    BY <1>1, <2>4, <2>5
  <2> HIDE DEF p
  <2>7. QED
    BY <1>6, <2>1, <2>4, <2>6 DEF Found
<1>8. ScanFits(r)
  <2>1. Turned \in SUBSET Turned /\ Cardinality(Turned) = r.from
    BY <1>6 DEF LogsFit
  <2>2. QED
    BY <1>5, <1>6, <1>7, <2>1 DEF ScanFits
<1>9. ScanStepped(w, r)
  BY <1>1 DEF ScanStepped, U!SetScan, r
<1>10. CacheFits'
  BY <1>1, LogsStay DEF CacheFits
<1>11. QED
  BY <1>8, <1>9, <1>10, ScanSteps

\* The row of p is dropped and the file is missed.
LEMMA MissedKeeps ==
  ASSUME LogsFit, CacheFits, ScansFit, NEW w \in Scanners, NEW p \in U!Paths,
         scan[w].pc # "idle", U!Dropped(p), ScanStepped(w, U!Missed(w, p))
  PROVE  LogsFit' /\ CacheFits' /\ ScansFit'
<1>1. ScanFits(scan[w])
  BY DEF ScansFit
<1>2. ScanFits(U!Missed(w, p))
  BY <1>1, MissedFits DEF U!Missed
<1>3. cache' = [cache EXCEPT ![p] = U!NoRow] /\ DOMAIN cache = U!Paths
  BY DEF U!Dropped, CacheFits
<1>4. cache'[p].size \in Int /\ ReadFrom(p, cache'[p].size, cache'[p].events)
  BY <1>3, NoRowFits
<1>5. /\ cache' \in [U!Paths -> {cache'[f] : f \in U!Paths}]
      /\ \A f \in U!Paths \ {p} : cache'[f] = cache[f]
  BY <1>3
<1>6. CacheFits'
  BY <1>4, <1>5, CacheStays, {p} \in SUBSET U!Paths
<1>7. QED
  BY <1>2, <1>6, ScanSteps

LEMMA GoneKeeps ==
  ASSUME LogsFit, CacheFits, ScansFit, NEW w \in Scanners, NEW p \in U!Paths, U!Gone(w, p)
  PROVE  LogsFit' /\ CacheFits' /\ ScansFit'
<1>1. scan[w].pc # "idle" /\ U!Dropped(p) /\ ScanStepped(w, U!Missed(w, p))
  BY DEF U!Gone, U!At, U!SetScan, ScanStepped
<1>2. QED
  BY <1>1, MissedKeeps

LEMMA ReadFailsKeeps ==
  ASSUME LogsFit, CacheFits, ScansFit, NEW w \in Scanners, U!ReadFails(w)
  PROVE  LogsFit' /\ CacheFits' /\ ScansFit'
<1>1. /\ scan[w].pc = "read" /\ U!Dropped(scan[w].path)
      /\ ScanStepped(w, U!Missed(w, scan[w].path))
  BY DEF U!ReadFails, U!SetScan, ScanStepped
<1>2. scan[w].path \in U!Paths
  BY <1>1 DEF ScansFit, ScanFits, ScanTypes, ScanStates
<1>3. QED
  BY <1>1, <1>2, MissedKeeps

LEMMA HitKeeps ==
  ASSUME LogsFit, CacheFits, ScansFit, NEW w \in Scanners, NEW p \in U!Paths, U!Hit(w, p)
  PROVE  LogsFit' /\ CacheFits' /\ ScansFit'
<1> DEFINE r == scan[w]
           events == cache[p].events
<1>1. /\ r.pc = "next" /\ p \in r.todo /\ cache[p].size = Len(log[p[1]])
      /\ ScanStepped(w, U!Taken(w, p, events)) /\ UNCHANGED cache
  BY DEF U!Hit, U!At, U!SetScan, ScanStepped, U!Lines
<1>2. ScanFits(r)
  BY DEF ScansFit
\* The row that fits the file's size holds all of its events.
<1>3. events = U!Parse(log[p[1]])
  <2>1. PICK k \in 0..Len(log[p[1]]) :
          cache[p].size <= k /\ events = State(log[p[1]], k).events
    BY DEF CacheFits, ReadFrom
  <2>2. k = Len(log[p[1]])
    BY <1>1, <2>1, ReadNow
  <2>3. QED
    BY <2>1, <2>2, ReadNow
<1>4. events \subseteq Turns(Turned) /\ \A t : Held(p[1], t) => Turn(t) \in events
  BY <1>3, ReadNow
<1>5. ScanFits(U!Taken(w, p, events))
  BY <1>1, <1>2, <1>4, TakenFits DEF U!Taken
<1>6. CacheFits'
  BY <1>1, LogsStay DEF CacheFits, ScanStepped
<1>7. QED
  BY <1>1, <1>5, <1>6, ScanSteps

LEMMA MissKeeps ==
  ASSUME LogsFit, CacheFits, ScansFit, NEW w \in Scanners, NEW p \in U!Paths, U!Miss(w, p)
  PROVE  LogsFit' /\ CacheFits' /\ ScansFit'
<1> DEFINE r == scan[w]
           q == [r EXCEPT !.pc = "read", !.path = p, !.size = Len(log[p[1]])]
<1>1. r.pc = "next" /\ p \in r.todo /\ ScanStepped(w, q) /\ UNCHANGED cache
  BY DEF U!Miss, U!At, U!SetScan, ScanStepped, U!Lines
<1>2. ScanFits(r) /\ r \in ScanTypes
  BY DEF ScansFit, ScanFits
<1>3. Len(log[p[1]]) \in Nat
  BY ReadNow
<1>4. /\ q \in ScanTypes /\ q.pc = "read" /\ q.path = p /\ q.size = Len(log[p[1]])
      /\ q.todo = r.todo /\ q.seen = r.seen /\ q.events = r.events /\ q.from = r.from
      /\ q.missed = r.missed
  BY <1>2, <1>3 DEF ScanTypes, ScanStates
<1> HIDE DEF q, r
<1>5. ScanFits(q)
  BY <1>1, <1>2, <1>3, <1>4, GoesOn
<1>6. CacheFits'
  BY <1>1, LogsStay DEF CacheFits, ScanStepped
<1>7. QED
  BY <1>1, <1>5, <1>6, ScanSteps

LEMMA ReadsKeeps ==
  ASSUME LogsFit, CacheFits, ScansFit, NEW w \in Scanners, U!Reads(w)
  PROVE  LogsFit' /\ CacheFits' /\ ScansFit'
<1> DEFINE r == scan[w]
           p == r.path
           parsed == U!Parse(log[p[1]])
           q == [r EXCEPT !.pc = "save", !.parsed = parsed]
<1>1. r.pc = "read" /\ ScanStepped(w, q) /\ UNCHANGED cache
  BY DEF U!Reads, U!SetScan, ScanStepped, U!Lines
<1>2. ScanFits(r) /\ r \in ScanTypes
  BY DEF ScansFit, ScanFits
<1>3. p \in r.todo /\ p \in U!Paths /\ r.size <= Len(log[p[1]]) /\ r.size \in Nat
  BY <1>1, <1>2 DEF ScanFits, ScanTypes, ScanStates
<1>4. /\ parsed \subseteq Turns(Turned) /\ ReadFrom(p, r.size, parsed)
      /\ \A t : Held(p[1], t) => Turn(t) \in parsed
  BY <1>3, ReadNow
<1> HIDE DEF parsed
<1>5. /\ q \in ScanTypes /\ q.pc = "save" /\ q.path = p /\ q.size = r.size /\ q.parsed = parsed
      /\ q.todo = r.todo /\ q.seen = r.seen /\ q.events = r.events /\ q.from = r.from
      /\ q.missed = r.missed
  BY <1>2, <1>4 DEF ScanTypes, ScanStates
<1> HIDE DEF q, r
<1>6. ASSUME NEW t, Found(r, t) PROVE Found(q, t)
  BY <1>4, <1>5, <1>6 DEF Found
<1>7. \E F \in SUBSET Turned : Cardinality(F) = q.from /\ \A t \in F : Found(q, t)
  BY <1>1, <1>2, <1>5, <1>6 DEF ScanFits
<1>8. ScanFits(q)
  BY <1>3, <1>4, <1>5, <1>7 DEF ScanFits
<1>9. CacheFits'
  BY <1>1, LogsStay DEF CacheFits, ScanStepped
<1>10. QED
  BY <1>1, <1>8, <1>9, ScanSteps

\* What is saved was read when the file had the size under which it is saved, or more.
LEMMA SavesKeeps ==
  ASSUME LogsFit, CacheFits, ScansFit, NEW w \in Scanners, U!Saves(w)
  PROVE  LogsFit' /\ CacheFits' /\ ScansFit'
<1> DEFINE r == scan[w]
           p == r.path
<1>1. /\ r.pc = "save" /\ ScanStepped(w, U!Taken(w, p, r.parsed))
      /\ cache' = [cache EXCEPT ![p] = [size |-> r.size, events |-> r.parsed]]
  BY DEF U!Saves, U!SetScan, ScanStepped
<1>2. ScanFits(r) /\ r \in ScanTypes
  BY DEF ScansFit, ScanFits
<1>3. /\ p \in r.todo /\ p \in U!Paths /\ r.size \in Nat /\ r.parsed \subseteq Turns(Turned)
      /\ ReadFrom(p, r.size, r.parsed)
  BY <1>1, <1>2 DEF ScanFits, ScanTypes, ScanStates
<1>4. ScanFits(U!Taken(w, p, r.parsed))
  BY <1>1, <1>2, <1>3, TakenFits DEF U!Taken
<1>5. DOMAIN cache = U!Paths
  BY DEF CacheFits
<1>6. cache'[p].size \in Int /\ ReadFrom(p, cache'[p].size, cache'[p].events)
  BY <1>1, <1>3, <1>5
<1>7. /\ cache' \in [U!Paths -> {cache'[f] : f \in U!Paths}]
      /\ \A f \in U!Paths \ {p} : cache'[f] = cache[f]
  BY <1>1, <1>5
<1>8. CacheFits'
  BY <1>1, <1>3, <1>6, <1>7, CacheStays, {p} \in SUBSET U!Paths
<1>9. QED
  BY <1>1, <1>4, <1>8, ScanSteps

LEMMA PruneKeeps ==
  ASSUME LogsFit, CacheFits, ScansFit, NEW w \in Scanners, U!Prune(w)
  PROVE  LogsFit' /\ CacheFits' /\ ScansFit'
<1> DEFINE r == scan[w]
           q == [r EXCEPT !.pc = "report"]
           D == U!Paths \ r.seen
<1>1. /\ r.pc = "next" /\ r.todo = {} /\ ScanStepped(w, q)
      /\ cache' = [p \in U!Paths |-> IF p \in r.seen THEN cache[p] ELSE U!NoRow]
  BY DEF U!Prune, U!SetScan, ScanStepped
<1>2. ScanFits(r) /\ r \in ScanTypes
  BY DEF ScansFit, ScanFits
<1>3. /\ q \in ScanTypes /\ q.pc = "report"
      /\ q.todo = r.todo /\ q.seen = r.seen /\ q.events = r.events /\ q.from = r.from
      /\ q.missed = r.missed
  BY <1>2 DEF ScanTypes, ScanStates
<1> HIDE DEF q
<1>4. ScanFits(q)
  BY <1>1, <1>2, <1>3, GoesOn
<1>5. /\ cache' \in [U!Paths -> {cache'[p] : p \in U!Paths}]
      /\ \A p \in U!Paths \ D : cache'[p] = cache[p]
      /\ \A p \in D : cache'[p] = U!NoRow
  BY <1>1
<1>6. CacheFits'
  BY <1>1, <1>5, NoRowFits, CacheStays, D \in SUBSET U!Paths
<1>7. QED
  BY <1>1, <1>4, <1>6, ScanSteps

LEMMA IdleFits == ScanFits(U!Idle)
<1>1. U!Idle \in ScanTypes /\ U!Idle.pc = "idle"
  BY DEF U!Idle, ScanTypes, ScanStates
<1>2. QED
  BY <1>1 DEF ScanFits

LEMMA ScanEndsKeeps ==
  ASSUME LogsFit, CacheFits, ScansFit, NEW w \in Scanners, U!ScanEnds(w)
  PROVE  LogsFit' /\ CacheFits' /\ ScansFit'
<1>1. ScanStepped(w, U!Idle) /\ UNCHANGED cache
  BY DEF U!ScanEnds, U!SetScan, ScanStepped
<1>2. CacheFits'
  BY <1>1, LogsStay DEF CacheFits, ScanStepped
<1>3. QED
  BY <1>1, <1>2, IdleFits, ScanSteps

-----------------------------------------------------------------------------
(* Every behaviour of the scans.                                                     *)

\* The first session has ended a turn in the first second.
LEMMA FirstLog ==
  /\ LogFits(U!FirstSession, 1, {1})
  /\ State(U!FirstSession, Len(U!FirstSession)).gate = U!Open
  /\ State(U!FirstSession, Len(U!FirstSession)).events = {Turn(1)}
<1> DEFINE meta == [kind |-> "meta", child |-> FALSE, at |-> 1]
           task == [kind |-> "task", started |-> 1, at |-> 1]
           count == [kind |-> "count", at |-> 1, total |-> 1, last |-> 1]
           l == <<meta, task, count>>
<1>1. U!FirstSession = l
  BY DEF U!FirstSession
<1>2. meta \in MetaLines /\ task \in TaskLines /\ count \in CountLines
  BY DEF MetaLines, TaskLines, CountLines
<1>3. /\ meta.kind = "meta" /\ ~meta.child /\ meta.at = 1
      /\ task.kind = "task" /\ task.started = 1 /\ task.at = 1
      /\ count.kind = "count" /\ count.at = 1 /\ count.total = 1 /\ count.last = 1
  OBVIOUS
<1> HIDE DEF meta, task, count
<1>4. l \in Seq(LogLines) /\ Len(l) = 3 /\ l[1] = meta /\ l[2] = task /\ l[3] = count /\ l # <<>>
  BY <1>2 DEF LogLines
<1> HIDE DEF l
<1>5. State(l, 0) = Start
  BY <1>4, StateStarts
<1>6. Start.gate = U!Open /\ Start.previous = -1 /\ Start.events = {}
  BY DEF Start
<1>7. State(l, 1).gate = U!Open /\ State(l, 1).previous = -1 /\ State(l, 1).events = {}
  <2>1. 1 \in 1..Len(l) /\ 1 - 1 = 0
    BY <1>4
  <2>2. State(l, 0) \in ParserStates /\ State(l, 1) = U!ParseLine(State(l, 0), meta)
    BY <1>4, <2>1, OneLine
  <2>3. QED
    BY <1>2, <1>3, <1>5, <1>6, <2>2, MetaParsed
<1>8. State(l, 2).gate = U!Open /\ State(l, 2).previous = -1 /\ State(l, 2).events = {}
  <2>1. 2 \in 1..Len(l) /\ 2 - 1 = 1
    BY <1>4
  <2>2. State(l, 1) \in ParserStates /\ State(l, 2) = U!ParseLine(State(l, 1), task)
    BY <1>4, <2>1, OneLine
  <2>3. QED
    BY <1>2, <1>7, <2>2, TaskParsed
<1>9. State(l, 3).gate = U!Open /\ State(l, 3).events = {Turn(1)}
  <2>1. 3 \in 1..Len(l) /\ 3 - 1 = 2
    BY <1>4
  <2>2. State(l, 2) \in ParserStates /\ State(l, 3) = U!ParseLine(State(l, 2), count)
    BY <1>4, <2>1, OneLine
  <2>3. U!Usage(State(l, 2), count) = 1
    BY <1>3 DEF U!Usage
  <2>4. State(l, 3).gate = State(l, 2).gate
    BY <1>2, <2>2, CountParsed
  <2>5. State(l, 3).events
          = State(l, 2).events \cup {[at |-> count.at, tokens |-> U!Usage(State(l, 2), count)]}
    BY <1>2, <1>3, <1>8, <2>2, CountParsed
  <2>6. QED
    BY <1>3, <1>8, <2>3, <2>4, <2>5 DEF Turn
<1>10. LogFits(l, 1, {1})
  <2>1. LineFits(l, 2, 1, {1})
    BY <1>3, <1>4 DEF LineFits, Grows
  <2>2. LineFits(l, 3, 1, {1})
    BY <1>3, <1>4, <1>8 DEF LineFits, Grows, Base
  <2>3. \A i \in 2..Len(l) : i = 2 \/ i = 3
    BY <1>4
  <2>4. QED
    BY <1>3, <1>4, <2>1, <2>2, <2>3 DEF LogFits
<1>11. QED
  BY <1>1, <1>4, <1>9, <1>10

LEMMA ScansInitially == ASSUME MCInit PROVE ScansInv
<1>1. /\ time = 1 /\ begun = {1} /\ spent = 1
      /\ log = [s \in U!Sessions |-> IF s = 1 THEN U!FirstSession ELSE <<>>]
      /\ places = [s \in U!Sessions |-> IF s = 1 THEN {"active"} ELSE {}]
      /\ cache = [p \in U!Paths |-> U!NoRow]
      /\ scan = [w \in Scanners |-> U!Idle]
  BY DEF MCInit, U!Init
<1>2. 1 \in U!Sessions
  BY LogsAssumption DEF U!Sessions
<1>3. U!FirstSession # <<>> /\ U!FirstSession \in Seq(LogLines)
  BY FirstLog DEF U!FirstSession, LogFits
<1>4. State(<<>>, Len(<<>>)).events = {}
  <2>1. DOMAIN <<>> = 1..0 /\ Len(<<>>) = 0
    OBVIOUS
  <2>2. State(<<>>, 0) = Start
    BY <2>1, StateStarts
  <2>3. QED
    BY <2>1, <2>2 DEF Start
<1>5. \A s \in U!Sessions : log[s] = IF s = 1 THEN U!FirstSession ELSE <<>>
  BY <1>1
<1>6. Turned = {1}
  <2>1. ASSUME NEW s \in U!Sessions, NEW t, Held(s, t) PROVE t = 1
    <3>1. CASE s = 1
      <4>1. Turn(t) = Turn(1)
        BY <1>5, <2>1, <3>1, FirstLog DEF Held
      <4>2. QED
        BY <4>1 DEF Turn
    <3>2. CASE s # 1
      BY <1>4, <1>5, <2>1, <3>2 DEF Held
    <3>3. QED
      BY <3>1, <3>2
  <2>2. Held(1, 1)
    BY <1>2, <1>5, FirstLog DEF Held
  <2>3. QED
    BY <1>1, <1>2, <2>1, <2>2 DEF Turned
<1>7. LogsFit
  <2>1. \A s \in U!Sessions : LogFits(log[s], time, Turned)
    <3>1. LogFits(<<>>, 1, {1})
      BY DEF LogFits
    <3>2. QED
      BY <1>1, <1>5, <1>6, <3>1, FirstLog
  <2>2. places \in [U!Sessions -> SUBSET U!Directories]
    BY <1>1 DEF U!Directories
  <2>3. \A s \in U!Sessions : log[s] = <<>> <=> places[s] = {}
    BY <1>1, <1>3, <1>5
  <2>4. \A s \in begun : log[s] # <<>> /\ State(log[s], Len(log[s])).gate = U!Open
    BY <1>1, <1>2, <1>3, <1>5, FirstLog
  <2>5. spent = Cardinality(Turned)
    BY <1>1, <1>6, FS_Singleton
  <2>6. QED
    BY <1>1, <1>2, <2>1, <2>2, <2>3, <2>4, <2>5 DEF LogsFit
<1>8. CacheFits
  BY <1>1, <1>7, NoRowFits DEF CacheFits
<1>9. ScansFit
  BY <1>1, IdleFits DEF ScansFit
<1>10. QED
  BY <1>7, <1>8, <1>9 DEF ScansInv

LEMMA ScansStep ==
  ASSUME ScansInv, [MCNext]_<<part, vars, scanVars, eventVars>> PROVE ScansInv'
<1> SUFFICES ASSUME part' = "scans" PROVE LogsFit' /\ CacheFits' /\ ScansFit'
  BY DEF ScansInv
<1>1. CASE UNCHANGED <<part, vars, scanVars, eventVars>>
  <2>1. part = "scans" /\ UNCHANGED <<time, log, places, begun, spent, cache, scan>>
    BY <1>1 DEF scanVars
  <2>2. LogsFit /\ CacheFits /\ ScansFit
    BY <2>1 DEF ScansInv
  <2>3. Turned' = Turned
    BY <2>1, <2>2, LogsStay
  <2>4. LogsFit'
    BY <2>1, <2>2, <2>3 DEF LogsFit
  <2>5. CacheFits' /\ ScansFit'
    BY <2>1, <2>2, LogsStay DEF CacheFits, ScansFit
  <2>6. QED
    BY <2>4, <2>5
<1>2. CASE MCNext
  <2>1. part = "scans"
    BY <1>2 DEF MCNext, Pricing, Scanning, Counting
  <2>2. LogsFit /\ CacheFits /\ ScansFit
    BY <2>1 DEF ScansInv
  <2>3. \/ \E s \in U!Sessions : \/ U!StartSession(s) \/ U!TaskStarts(s) \/ U!TurnEnds(s)
                                 \/ U!Repeats(s) \/ U!Archives(s)
                                 \/ \E child \in U!Sessions : U!Forks(s, child)
        \/ \E w \in Scanners : \/ U!Discover(w) \/ U!ReadFails(w) \/ U!Reads(w) \/ U!Saves(w)
                               \/ U!Prune(w) \/ U!ScanEnds(w)
                               \/ \E p \in U!Paths : \/ U!Gone(w, p) \/ U!Hit(w, p) \/ U!Miss(w, p)
    BY <1>2, <2>1 DEF MCNext, Pricing, Scanning, Counting
  <2>4. ASSUME NEW s \in U!Sessions,
               \/ U!StartSession(s) \/ U!TaskStarts(s) \/ U!TurnEnds(s) \/ U!Repeats(s)
               \/ U!Archives(s)
        PROVE  LogsFit' /\ CacheFits' /\ ScansFit'
    BY <2>2, <2>4, StartSessionKeeps, TaskStartsKeeps, TurnEndsKeeps, RepeatsKeeps, ArchivesKeeps
  <2>5. ASSUME NEW s \in U!Sessions, NEW child \in U!Sessions, U!Forks(s, child)
        PROVE  LogsFit' /\ CacheFits' /\ ScansFit'
    BY <2>2, <2>5, ForksKeeps
  <2>6. ASSUME NEW w \in Scanners,
               \/ U!Discover(w) \/ U!ReadFails(w) \/ U!Reads(w) \/ U!Saves(w) \/ U!Prune(w)
               \/ U!ScanEnds(w)
        PROVE  LogsFit' /\ CacheFits' /\ ScansFit'
    BY <2>2, <2>6, DiscoverKeeps, ReadFailsKeeps, ReadsKeeps, SavesKeeps, PruneKeeps, ScanEndsKeeps
  <2>7. ASSUME NEW w \in Scanners, NEW p \in U!Paths, U!Gone(w, p) \/ U!Hit(w, p) \/ U!Miss(w, p)
        PROVE  LogsFit' /\ CacheFits' /\ ScansFit'
    BY <2>2, <2>7, GoneKeeps, HitKeeps, MissKeeps
  <2>8. QED
    BY <2>3, <2>4, <2>5, <2>6, <2>7
<1>3. QED
  BY <1>1, <1>2

\* What is cached and scanned are the turns that have ended, each once, and none is lost (parse_jsonl,
\* load_or_parse_log, save_log_events).
THEOREM ScansHold == MCSpec => []ScansInv
<1>1. MCInit => ScansInv
  BY ScansInitially
<1>2. ScansInv /\ [MCNext]_<<part, vars, scanVars, eventVars>> => ScansInv'
  BY ScansStep
<1>3. QED
  BY <1>1, <1>2, PTL DEF MCSpec

\* The events that count are one of each of those that were scanned.
LEMMA DistinctEvents ==
  ASSUME NEW P, NEW T, IsFiniteSet(T), NEW events \in SUBSET (P \X Turns(T)),
         NEW D, D = U!Distinct(events)
  PROVE  /\ U!Sum(D) = Cardinality(D) /\ Cardinality(D) <= Cardinality(T)
         /\ \A F \in SUBSET T : (\A t \in F : \E p \in P : <<p, Turn(t)>> \in events)
                                 => Cardinality(F) <= Cardinality(D)
<1> DEFINE First(e) == CHOOSE other \in events : other[2] = e
<1>1. D = {pe \in events : pe = First(pe[2])}
  BY DEF U!Distinct
<1>2. \A e \in events : e[2] \in Turns(T)
  OBVIOUS
<1>3. \A e \in events : First(e[2]) \in events /\ First(e[2])[2] = e[2]
  OBVIOUS
<1> HIDE DEF First
<1>4. \A e \in Turns(T) : e.at \in T /\ e = Turn(e.at) /\ e.tokens = 1
  BY DEF Turns, Turn
<1> DEFINE f == [e \in D |-> e[2].at]
<1>5. f \in [D -> T] /\ \A x, y \in D : f[x] = f[y] => x = y
  BY <1>1, <1>2, <1>4
<1> HIDE DEF f
<1>6. f \in Injection(D, T)
  BY <1>5 DEF Injection, IsInjective
<1>7. IsFiniteSet(D) /\ Cardinality(D) <= Cardinality(T)
  BY <1>6, FS_Injection
<1>8. U!Sum(D) = Cardinality(D)
  <2> DEFINE w == [e \in D |-> e[2].tokens]
  <2>1. w \in [D -> Nat] /\ \A e \in D : w[e] = 1
    BY <1>1, <1>2, <1>4
  <2>2. U!Sum(D) = SumFunction(w)
    BY DEF U!Sum, U!SumFunction, U!SumFunctionOnSet, U!FoldFunctionOnSet, U!MapThenFoldSet,
           SumFunction, SumFunctionOnSet, FoldFunctionOnSet, MapThenFoldSet
  <2> HIDE DEF w
  <2>3. QED
    BY <1>7, <2>1, <2>2, SumOfOnes
<1>9. ASSUME NEW F \in SUBSET T, \A t \in F : \E p \in P : <<p, Turn(t)>> \in events
      PROVE  Cardinality(F) <= Cardinality(D)
  <2> DEFINE g == [t \in F |-> First(Turn(t))]
  <2>1. ASSUME NEW t \in F PROVE First(Turn(t)) \in D /\ First(Turn(t))[2] = Turn(t)
    <3>1. PICK p \in P : <<p, Turn(t)>> \in events
      BY <1>9
    <3>2. <<p, Turn(t)>>[2] = Turn(t)
      OBVIOUS
    <3>3. First(Turn(t)) \in events /\ First(Turn(t))[2] = Turn(t)
      BY <1>3, <3>1, <3>2
    <3>4. QED
      BY <1>1, <3>3
  <2>2. \A t, u \in F : Turn(t) = Turn(u) => t = u
    BY DEF Turn
  <2>3. g \in Injection(F, D)
    BY <2>1, <2>2 DEF Injection, IsInjective
  <2> HIDE DEF g
  <2>4. QED
    BY <1>7, <2>3, FS_Injection
<1>10. QED
  BY <1>7, <1>8, <1>9

\* A scan reports what had been used when it began, if it missed no file, and no more than what has
\* been used by now (parse_jsonl, aggregate_into, load_or_parse_log).
THEOREM TurnsAreCountedOnce == MCSpec => []TurnsCountOnce
<1>1. ASSUME ScansInv PROVE TurnsCountOnce
  <2> SUFFICES ASSUME LogsFit, CacheFits, ScansFit, NEW w \in Scanners, scan[w].pc = "report"
               PROVE  /\ U!Reported(w) <= spent
                      /\ ~scan[w].missed => scan[w].from <= U!Reported(w)
    BY <1>1 DEF ScansInv, TurnsCountOnce, U!TurnsCountOnce
  <2> DEFINE r == scan[w]
             D == U!Distinct(r.events)
  <2>1. ScanFits(r) /\ r \in ScanTypes /\ r.todo = {}
    BY DEF ScansFit, ScanFits
  <2>2. r.events \in SUBSET (U!Paths \X Turns(Turned)) /\ r.seen \subseteq U!Paths
    BY <2>1 DEF ScanTypes, ScanStates
  <2>3. IsFiniteSet(Turned) /\ spent = Cardinality(Turned)
    BY TurnedIsFinite DEF LogsFit
  <2>4. U!Reported(w) = U!Sum(D)
    BY DEF U!Reported
  <2> HIDE DEF r
  <2>5. /\ U!Sum(D) = Cardinality(D) /\ Cardinality(D) <= Cardinality(Turned)
        /\ \A F \in SUBSET Turned :
             (\A t \in F : \E p \in U!Paths : <<p, Turn(t)>> \in r.events)
                => Cardinality(F) <= Cardinality(D)
    BY <2>2, <2>3, DistinctEvents
  <2>6. ASSUME ~r.missed PROVE r.from <= U!Reported(w)
    <3>1. PICK F \in SUBSET Turned : Cardinality(F) = r.from /\ \A t \in F : Found(r, t)
      BY <2>1 DEF ScanFits, r
    <3>2. \A t \in F : \E p \in U!Paths : <<p, Turn(t)>> \in r.events
      BY <2>1, <2>2, <2>6, <3>1 DEF Found
    <3>3. QED
      BY <2>4, <2>5, <3>1, <3>2
  <2>7. QED
    BY <2>3, <2>4, <2>5, <2>6 DEF r
<1>2. QED
  BY <1>1, ScansHold, PTL

-----------------------------------------------------------------------------
(* The deduplication of Claude's events (ClaudeLogs).                                *)

\* One of the two events is all that counts of both: they are of one message, and of one request or
\* one of a side chain.
Meets(e, f) ==
  /\ e.message = f.message
  /\ e.request = f.request \/ e.sidechain \/ f.sidechain
\* f counts for no more than e.
Covers(e, f) ==
  /\ e.message = f.message
  /\ f.sidechain /\ e.sidechain => e.tokens >= f.tokens
  /\ ~f.sidechain => e.request = f.request /\ ~e.sidechain /\ e.tokens >= f.tokens

Entries(o) == 1..Len(o)
KeysFit(o, x) ==
  /\ \A i \in Entries(o) : C!Key(o[i]) \in DOMAIN x /\ x[C!Key(o[i])] = i
  /\ \A k \in DOMAIN x : \E i \in Entries(o) : k = C!Key(o[i])
Lists(s, o, m) ==
  /\ s \in Seq(Nat)
  /\ \A i \in Entries(o) : o[i].message = m => \E j \in 1..Len(s) : s[j] = i
  /\ \A j \in 1..Len(s) : s[j] \in Entries(o) /\ o[s[j]].message = m
ListsFit(o, b) == DOMAIN b = Messages /\ \A m \in Messages : Lists(b[m], o, m)
Apart(o) == \A i, j \in Entries(o) : Meets(o[i], o[j]) => i = j
Covered(o, d) == \A k \in 1..Len(d) : \E i \in Entries(o) : Covers(o[i], d[k])
Drawn(o, d) == \A i \in Entries(o) : \E k \in 1..Len(d) : o[i] = d[k]

EventsFit(o, x, b, d) ==
  /\ o \in Seq(C!Events) /\ d \in Seq(C!Events)
  /\ KeysFit(o, x) /\ ListsFit(o, b) /\ Apart(o) /\ Covered(o, d) /\ Drawn(o, d)
EventsInv == part = "events" => EventsFit(output, exact, byMessage, fed)

LEMMA EventTypes ==
  ASSUME NEW e \in C!Events
  PROVE  /\ e.message \in Messages /\ e.request \in Requests
         /\ e.sidechain \in BOOLEAN /\ e.tokens \in Nat
BY LogsAssumption DEF C!Events

LEMMA ReplacedMeets ==
  ASSUME NEW a \in C!Events, NEW e \in C!Events, NEW f \in C!Events,
         Meets(a, e), C!Replaces(e, a), Meets(f, e)
  PROVE  Meets(f, a)
BY EventTypes DEF Meets, C!Replaces

LEMMA ReplacedCovers ==
  ASSUME NEW a \in C!Events, NEW e \in C!Events, NEW f \in C!Events,
         Meets(a, e), C!Replaces(e, a), Covers(a, f)
  PROVE  Covers(e, f)
BY EventTypes DEF Meets, Covers, C!Replaces

LEMMA KeptCovers ==
  ASSUME NEW a \in C!Events, NEW e \in C!Events, Meets(a, e), ~C!Replaces(e, a)
  PROVE  Covers(a, e)
BY EventTypes DEF Meets, Covers, C!Replaces

LEMMA CoversItself == ASSUME NEW e \in C!Events PROVE Covers(e, e) /\ Meets(e, e)
BY EventTypes DEF Covers, Meets

LEMMA SameKeyMeets ==
  ASSUME NEW e, NEW f, C!Key(e) = C!Key(f) PROVE Meets(e, f)
BY DEF C!Key, Meets

LEMMA MeetingIsMutual == ASSUME NEW e, NEW f, Meets(e, f) PROVE Meets(f, e)
BY DEF Meets

\* The event with which e collides is one that it meets, and there is none if it meets none.
LEMMA CollisionMeets ==
  ASSUME EventsFit(output, exact, byMessage, fed), NEW e \in C!Events, NEW old, old = C!Collision(e)
  PROVE  /\ old # 0 => old \in Entries(output) /\ Meets(output[old], e)
         /\ old = 0 => \A i \in Entries(output) : ~Meets(output[i], e)
<1> DEFINE known == byMessage[e.message]
           S == {j \in 1..Len(known) : e.sidechain \/ output[known[j]].sidechain}
<1>0. e.message \in Messages
  BY EventTypes
<1>1. /\ \A i \in Entries(output) :
           C!Key(output[i]) \in DOMAIN exact /\ exact[C!Key(output[i])] = i
      /\ \A k \in DOMAIN exact : \E i \in Entries(output) : k = C!Key(output[i])
      /\ \A i \in Entries(output) :
           output[i].message = e.message => \E j \in 1..Len(known) : known[j] = i
      /\ \A j \in 1..Len(known) : known[j] \in Entries(output) /\ output[known[j]].message = e.message
  BY <1>0 DEF EventsFit, KeysFit, ListsFit, Lists
<1>2. CASE C!Key(e) \in DOMAIN exact
  <2>1. PICK i \in Entries(output) : C!Key(output[i]) = C!Key(e)
    BY <1>1, <1>2
  <2>2. old = i
    BY <1>1, <1>2, <2>1 DEF C!Collision
  <2>3. QED
    BY <2>1, <2>2, SameKeyMeets DEF Entries
<1>3. CASE C!Key(e) \notin DOMAIN exact
  <2>1. old = LET first == IF S # {} THEN CHOOSE x \in S : \A y \in S : x <= y ELSE 0
              IN IF first = 0 THEN 0 ELSE known[first]
    BY ONLY <1>3, old = C!Collision(e) DEF C!Collision, C!SelectInSeq, C!Min
  <2>2. CASE S = {}
    <3>1. old = 0
      BY <2>1, <2>2
    <3>2. ASSUME NEW i \in Entries(output), Meets(output[i], e) PROVE FALSE
      <4>1. output[i].message = e.message
        BY <3>2 DEF Meets
      <4>2. PICK j \in 1..Len(known) : known[j] = i
        BY <1>1, <4>1
      <4>3. ~e.sidechain /\ ~output[i].sidechain
        BY <2>2, <4>2
      <4>4. output[i].request # e.request
        BY <1>1, <1>3, <4>1 DEF C!Key
      <4>5. QED
        BY <3>2, <4>3, <4>4 DEF Meets
    <3>3. QED
      BY <3>1, <3>2
  <2>3. CASE S # {}
    <3> DEFINE first == CHOOSE x \in S : \A y \in S : x <= y
    <3>1. S \subseteq Nat
      OBVIOUS
    <3>2. \E x \in S : \A y \in S : x <= y
      <4> HIDE DEF S
      <4>1. QED
        BY <2>3, <3>1, LeastNat
    <3>3. first \in S
      BY <3>2
    <3>4. old = IF first = 0 THEN 0 ELSE known[first]
      BY <2>1, <2>3
    <3> HIDE DEF first
    <3>5. first \in 1..Len(known) /\ first # 0 /\ (e.sidechain \/ output[known[first]].sidechain)
      BY <3>3
    <3>6. old = known[first] /\ old \in Entries(output) /\ old # 0
      BY <1>1, <3>4, <3>5 DEF Entries
    <3>7. Meets(output[old], e)
      BY <1>1, <3>5, <3>6 DEF Meets
    <3>8. QED
      BY <3>6, <3>7
  <2>4. QED
    BY <2>2, <2>3
<1>4. QED
  BY <1>2, <1>3

\* The events so far, and one more.
LEMMA OneMore ==
  ASSUME NEW d \in Seq(C!Events), NEW e \in C!Events, NEW f, f = Append(d, e)
  PROVE  /\ f \in Seq(C!Events) /\ Len(d) \in Nat /\ Len(f) = Len(d) + 1 /\ f[Len(d) + 1] = e
         /\ \A k \in 1..Len(d) : f[k] = d[k]
         /\ \A k \in 1..Len(f) : k \in 1..Len(d) \/ k = Len(d) + 1
OBVIOUS

LEMMA StillCovered ==
  ASSUME NEW o, NEW d \in Seq(C!Events), NEW e \in C!Events, NEW f, f = Append(d, e),
         Covered(o, d), \E i \in Entries(o) : Covers(o[i], e)
  PROVE  Covered(o, f)
<1>1. ASSUME NEW k \in 1..Len(f) PROVE \E i \in Entries(o) : Covers(o[i], f[k])
  <2>1. CASE k \in 1..Len(d)
    BY <2>1, OneMore DEF Covered
  <2>2. CASE k = Len(d) + 1
    BY <2>2, OneMore
  <2>3. QED
    BY <2>1, <2>2, OneMore
<1>2. QED
  BY <1>1 DEF Covered

LEMMA StillDrawn ==
  ASSUME NEW o, NEW d \in Seq(C!Events), NEW e \in C!Events, NEW f, f = Append(d, e),
         \A i \in Entries(o) : o[i] = e \/ \E k \in 1..Len(d) : o[i] = d[k]
  PROVE  Drawn(o, f)
<1>1. \A k \in 1..Len(d) : k \in 1..Len(f) /\ f[k] = d[k]
  BY OneMore
<1>2. Len(d) + 1 \in 1..Len(f) /\ f[Len(d) + 1] = e
  BY OneMore
<1>3. QED
  BY <1>1, <1>2 DEF Drawn

\* The keys of D and the key of an event at i; a message's list with one more index.
Entered(x, D, key, i) == [k \in D \cup {key} |-> IF k = key THEN i ELSE x[k]]
Listed(b, m, i) == [b EXCEPT ![m] = Append(@, i)]

\* An event that collides with none is added.
Added(o2, o, n, e) ==
  /\ o2 \in Seq(C!Events) /\ n = Len(o) + 1 /\ n \in Nat \ {0} /\ n \notin Entries(o)
  /\ Entries(o2) = Entries(o) \cup {n} /\ o2[n] = e
  /\ \A i \in Entries(o) : o2[i] = o[i]

LEMMA AppendAdds ==
  ASSUME NEW o \in Seq(C!Events), NEW e \in C!Events, NEW n, n = Len(o) + 1,
         NEW o2, o2 = Append(o, e)
  PROVE  Added(o2, o, n, e)
BY DEF Added, Entries

LEMMA AddedKeys ==
  ASSUME NEW o, NEW o2, NEW n, NEW e, Added(o2, o, n, e), NEW x, KeysFit(o, x),
         \A i \in Entries(o) : C!Key(o[i]) # C!Key(e), NEW x2,
         x2 = Entered(x, DOMAIN x, C!Key(e), n)
  PROVE  KeysFit(o2, x2)
<1>1. /\ Entries(o2) = Entries(o) \cup {n} /\ o2[n] = e
      /\ \A i \in Entries(o) : o2[i] = o[i]
  BY DEF Added
<1>2. /\ \A i \in Entries(o) : C!Key(o[i]) \in DOMAIN x /\ x[C!Key(o[i])] = i
      /\ \A k \in DOMAIN x : \E i \in Entries(o) : k = C!Key(o[i])
  BY DEF KeysFit
<1>3. DOMAIN x2 = DOMAIN x \cup {C!Key(e)} /\ x2[C!Key(e)] = n
  BY DEF Entered
<1>4. \A k \in DOMAIN x : k # C!Key(e) => x2[k] = x[k]
  BY DEF Entered
<1>5. \A i \in Entries(o2) : C!Key(o2[i]) \in DOMAIN x2 /\ x2[C!Key(o2[i])] = i
  BY <1>1, <1>2, <1>3, <1>4
<1>6. \A k \in DOMAIN x2 : \E i \in Entries(o2) : k = C!Key(o2[i])
  BY <1>1, <1>2, <1>3
<1>7. QED
  BY ONLY <1>5, <1>6 DEF KeysFit

LEMMA AddedLists ==
  ASSUME NEW o, NEW o2, NEW n, NEW e, Added(o2, o, n, e), NEW b, ListsFit(o, b),
         e.message \in Messages, NEW b2, b2 = Listed(b, e.message, n)
  PROVE  ListsFit(o2, b2)
<1> DEFINE s == b[e.message]
           s2 == Append(s, n)
<1>1. /\ Entries(o2) = Entries(o) \cup {n} /\ o2[n] = e /\ n \in Nat
      /\ \A i \in Entries(o) : o2[i] = o[i]
  BY DEF Added
<1>2. DOMAIN b = Messages /\ \A m \in Messages : Lists(b[m], o, m)
  BY DEF ListsFit
<1>3. /\ b2[e.message] = s2 /\ DOMAIN b2 = Messages
      /\ \A m \in Messages : m # e.message => b2[m] = b[m]
  BY <1>2 DEF Listed
<1>4. ASSUME NEW m \in Messages, m # e.message PROVE Lists(b2[m], o2, m)
  <2>1. Lists(b[m], o, m) /\ b2[m] = b[m]
    BY <1>2, <1>3, <1>4
  <2>2. Lists(b[m], o2, m)
    BY ONLY <1>1, <1>4, <2>1 DEF Lists
  <2>3. QED
    BY ONLY <2>1, <2>2
<1>5. Lists(s2, o2, e.message)
  <2>1. /\ s \in Seq(Nat)
        /\ \A i \in Entries(o) : o[i].message = e.message => \E j \in 1..Len(s) : s[j] = i
        /\ \A j \in 1..Len(s) : s[j] \in Entries(o) /\ o[s[j]].message = e.message
    BY <1>2 DEF Lists
  <2> HIDE DEF s
  <2>2. /\ s2 \in Seq(Nat) /\ Len(s) + 1 \in 1..Len(s2) /\ s2[Len(s) + 1] = n
        /\ \A j \in 1..Len(s) : s2[j] = s[j] /\ j \in 1..Len(s2)
        /\ \A j \in 1..Len(s2) : j \in 1..Len(s) \/ j = Len(s) + 1
    BY <1>1, <2>1
  <2> HIDE DEF s2
  <2>3. ASSUME NEW i \in Entries(o2), o2[i].message = e.message PROVE \E j \in 1..Len(s2) : s2[j] = i
    <3>1. CASE i = n
      BY <2>2, <3>1
    <3>2. CASE i \in Entries(o)
      <4>1. o[i].message = e.message
        BY <1>1, <2>3, <3>2
      <4>2. PICK j \in 1..Len(s) : s[j] = i
        BY <2>1, <3>2, <4>1
      <4>3. QED
        BY <2>2, <4>2
    <3>3. QED
      BY <1>1, <3>1, <3>2
  <2>4. ASSUME NEW j \in 1..Len(s2) PROVE s2[j] \in Entries(o2) /\ o2[s2[j]].message = e.message
    <3>1. CASE j \in 1..Len(s)
      <4>1. s2[j] = s[j] /\ s[j] \in Entries(o) /\ o[s[j]].message = e.message
        BY <2>1, <2>2, <3>1
      <4>2. QED
        BY ONLY <1>1, <4>1
    <3>2. CASE j = Len(s) + 1
      BY <1>1, <2>2, <3>2
    <3>3. QED
      BY <2>2, <3>1, <3>2
  <2>5. QED
    BY ONLY <2>2, <2>3, <2>4 DEF Lists
<1> HIDE DEF s2
<1>6. QED
  BY ONLY <1>3, <1>4, <1>5 DEF ListsFit

LEMMA AddedApart ==
  ASSUME NEW o, NEW o2, NEW n, NEW e, Added(o2, o, n, e), Apart(o),
         \A i \in Entries(o) : ~Meets(o[i], e)
  PROVE  Apart(o2)
<1>1. /\ Entries(o2) = Entries(o) \cup {n} /\ o2[n] = e
      /\ \A i \in Entries(o) : o2[i] = o[i]
  BY DEF Added
<1> SUFFICES ASSUME NEW i \in Entries(o2), NEW j \in Entries(o2), Meets(o2[i], o2[j]) PROVE i = j
  BY DEF Apart
<1>2. CASE i \in Entries(o) /\ j \in Entries(o)
  BY <1>1, <1>2 DEF Apart
<1>3. CASE i = n /\ j # n
  BY <1>1, <1>3, MeetingIsMutual
<1>4. CASE i # n /\ j = n
  BY <1>1, <1>4
<1>5. QED
  BY <1>1, <1>2, <1>3, <1>4

LEMMA AddedFits ==
  ASSUME NEW o, NEW x, NEW b, NEW d, EventsFit(o, x, b, d), NEW e \in C!Events,
         \A i \in Entries(o) : ~Meets(o[i], e),
         NEW n, NEW o2, Added(o2, o, n, e), NEW d2, d2 = Append(d, e),
         NEW x2, KeysFit(o2, x2), NEW b2, ListsFit(o2, b2)
  PROVE  EventsFit(o2, x2, b2, d2)
<1>1. d \in Seq(C!Events) /\ Apart(o) /\ Covered(o, d) /\ Drawn(o, d)
  BY DEF EventsFit
<1>2. /\ o2 \in Seq(C!Events) /\ o2[n] = e /\ Entries(o2) = Entries(o) \cup {n}
      /\ \A i \in Entries(o) : o2[i] = o[i]
  BY DEF Added
<1>3. Apart(o2)
  BY <1>1, AddedApart
<1>4. Covered(o2, d2)
  <2>1. Covered(o2, d)
    BY <1>1, <1>2 DEF Covered
  <2>2. n \in Entries(o2) /\ Covers(o2[n], e)
    BY <1>2, CoversItself
  <2>3. QED
    BY <1>1, <2>1, <2>2, StillCovered
<1>5. Drawn(o2, d2)
  <2>1. \A i \in Entries(o2) : o2[i] = e \/ \E k \in 1..Len(d) : o2[i] = d[k]
    BY <1>1, <1>2 DEF Drawn
  <2>2. QED
    BY <1>1, <2>1, StillDrawn
<1>6. d2 \in Seq(C!Events)
  BY <1>1, OneMore
<1>7. QED
  BY <1>2, <1>3, <1>4, <1>5, <1>6 DEF EventsFit

\* An event replaces the one with which it collides.
Replaced(o2, o, old, e) ==
  /\ o2 \in Seq(C!Events) /\ old \in Entries(o) /\ Entries(o2) = Entries(o) /\ o2[old] = e
  /\ \A i \in Entries(o) : i # old => o2[i] = o[i]

LEMMA ExceptReplaces ==
  ASSUME NEW o \in Seq(C!Events), NEW e \in C!Events, NEW old \in Entries(o), NEW o2,
         o2 = [o EXCEPT ![old] = e]
  PROVE  Replaced(o2, o, old, e)
BY DEF Replaced, Entries

LEMMA ReplacedKeys ==
  ASSUME NEW o, NEW o2, NEW old, NEW e, Replaced(o2, o, old, e), NEW x, KeysFit(o, x),
         \A i \in Entries(o) : i # old => C!Key(o[i]) # C!Key(e), NEW x2,
         x2 = Entered(x, DOMAIN x \ {C!Key(o[old])}, C!Key(e), old)
  PROVE  KeysFit(o2, x2)
<1>1. /\ Entries(o2) = Entries(o) /\ old \in Entries(o) /\ o2[old] = e
      /\ \A i \in Entries(o) : i # old => o2[i] = o[i]
  BY DEF Replaced
<1>2. /\ \A i \in Entries(o) : C!Key(o[i]) \in DOMAIN x /\ x[C!Key(o[i])] = i
      /\ \A k \in DOMAIN x : \E i \in Entries(o) : k = C!Key(o[i])
  BY DEF KeysFit
<1>3. DOMAIN x2 = (DOMAIN x \ {C!Key(o[old])}) \cup {C!Key(e)} /\ x2[C!Key(e)] = old
  BY DEF Entered
<1>4. \A k \in DOMAIN x2 : k # C!Key(e) => x2[k] = x[k]
  BY DEF Entered
<1>5. ASSUME NEW i \in Entries(o), i # old
      PROVE  C!Key(o2[i]) \in DOMAIN x2 /\ x2[C!Key(o2[i])] = i
  BY <1>1, <1>2, <1>3, <1>4, <1>5
<1>6. \A k \in DOMAIN x2 : \E i \in Entries(o2) : k = C!Key(o2[i])
  BY <1>1, <1>2, <1>3
<1>7. \A i \in Entries(o2) : C!Key(o2[i]) \in DOMAIN x2 /\ x2[C!Key(o2[i])] = i
  BY <1>1, <1>3, <1>5
<1>8. QED
  BY ONLY <1>6, <1>7 DEF KeysFit

LEMMA ReplacedLists ==
  ASSUME NEW o, NEW o2, NEW old, NEW e, Replaced(o2, o, old, e), NEW b, ListsFit(o, b),
         o[old].message = e.message
  PROVE  ListsFit(o2, b)
<1>1. Entries(o2) = Entries(o) /\ \A i \in Entries(o) : o2[i].message = o[i].message
  BY DEF Replaced
<1>2. ASSUME NEW m \in Messages PROVE Lists(b[m], o2, m)
  <2>1. Lists(b[m], o, m)
    BY DEF ListsFit
  <2>2. QED
    BY ONLY <1>1, <2>1 DEF Lists
<1>3. QED
  BY <1>2 DEF ListsFit

LEMMA ReplacedFits ==
  ASSUME NEW o, NEW x, NEW b, NEW d, EventsFit(o, x, b, d), NEW e \in C!Events,
         NEW old \in Entries(o), Meets(o[old], e), C!Replaces(e, o[old]),
         NEW o2, Replaced(o2, o, old, e), NEW d2, d2 = Append(d, e), NEW x2,
         x2 = Entered(x, DOMAIN x \ {C!Key(o[old])}, C!Key(e), old)
  PROVE  EventsFit(o2, x2, b, d2)
<1>1. /\ d \in Seq(C!Events) /\ KeysFit(o, x) /\ ListsFit(o, b) /\ Apart(o)
      /\ Covered(o, d) /\ Drawn(o, d) /\ \A i \in Entries(o) : o[i] \in C!Events
  BY DEF EventsFit, Entries
<1>2. /\ o2 \in Seq(C!Events) /\ Entries(o2) = Entries(o) /\ o2[old] = e
      /\ \A i \in Entries(o) : i # old => o2[i] = o[i]
  BY DEF Replaced
\* What meets the new event met the old one.
<1>3. \A i \in Entries(o) : Meets(o[i], e) => i = old
  BY <1>1, ReplacedMeets DEF Apart
<1>4. Apart(o2)
  <2> SUFFICES ASSUME NEW i \in Entries(o2), NEW j \in Entries(o2), Meets(o2[i], o2[j]) PROVE i = j
    BY DEF Apart
  <2>1. CASE i # old /\ j # old
    BY <1>1, <1>2, <2>1 DEF Apart
  <2>2. CASE i = old /\ j # old
    BY <1>2, <1>3, <2>2, MeetingIsMutual
  <2>3. CASE i # old /\ j = old
    BY <1>2, <1>3, <2>3
  <2>4. QED
    BY <2>1, <2>2, <2>3
<1>5. KeysFit(o2, x2)
  <2>1. \A i \in Entries(o) : i # old => C!Key(o[i]) # C!Key(e)
    BY <1>3, SameKeyMeets
  <2>2. QED
    BY <1>1, <2>1, ReplacedKeys
<1>6. ListsFit(o2, b)
  BY <1>1, ReplacedLists DEF Meets
<1>7. Covered(o2, d2)
  <2>1. ASSUME NEW k \in 1..Len(d) PROVE \E i \in Entries(o2) : Covers(o2[i], d[k])
    <3>1. d[k] \in C!Events
      BY <1>1
    <3>2. PICK i \in Entries(o) : Covers(o[i], d[k])
      BY <1>1 DEF Covered
    <3>3. CASE i = old
      <4>1. o[old] \in C!Events /\ Covers(o[old], d[k])
        BY <1>1, <3>2, <3>3
      <4>2. Covers(e, d[k])
        BY <3>1, <4>1, ReplacedCovers
      <4>3. QED
        BY <1>2, <4>2
    <3>4. CASE i # old
      BY <1>2, <3>2, <3>4
    <3>5. QED
      BY <3>3, <3>4
  <2>2. Covered(o2, d) /\ Covers(o2[old], e) /\ old \in Entries(o2)
    BY <1>2, <2>1, CoversItself DEF Covered
  <2>3. QED
    BY <1>1, <2>2, StillCovered
<1>8. Drawn(o2, d2)
  <2>1. \A i \in Entries(o2) : o2[i] = e \/ \E k \in 1..Len(d) : o2[i] = d[k]
    BY <1>1, <1>2 DEF Drawn
  <2>2. QED
    BY <1>1, <2>1, StillDrawn
<1>9. d2 \in Seq(C!Events)
  BY <1>1, OneMore
<1>10. QED
  BY <1>2, <1>4, <1>5, <1>6, <1>7, <1>8, <1>9 DEF EventsFit

\* An event that counts for no more than the one with which it collides is left out.
LEMMA LeftOutFits ==
  ASSUME NEW o, NEW x, NEW b, NEW d, EventsFit(o, x, b, d), NEW e \in C!Events,
         NEW old \in Entries(o), Meets(o[old], e), ~C!Replaces(e, o[old]),
         NEW d2, d2 = Append(d, e)
  PROVE  EventsFit(o, x, b, d2)
<1>1. /\ o \in Seq(C!Events) /\ d \in Seq(C!Events) /\ Covered(o, d) /\ Drawn(o, d)
  BY DEF EventsFit
<1>2. o[old] \in C!Events
  BY <1>1 DEF Entries
<1>3. Covers(o[old], e)
  BY <1>2, KeptCovers
<1>4. Covered(o, d2)
  BY <1>1, <1>3, StillCovered
<1>5. Drawn(o, d2)
  <2>1. \A i \in Entries(o) : o[i] = e \/ \E k \in 1..Len(d) : o[i] = d[k]
    BY <1>1 DEF Drawn
  <2>2. QED
    BY <1>1, <2>1, StillDrawn
<1>6. d2 \in Seq(C!Events)
  BY <1>1, OneMore
<1>7. QED
  BY <1>4, <1>5, <1>6 DEF EventsFit

LEMMA FeedKeeps ==
  ASSUME EventsFit(output, exact, byMessage, fed), NEW e \in C!Events, C!Feed(e)
  PROVE  EventsFit(output, exact, byMessage, fed)'
<1> DEFINE old == C!Collision(e)
<1>1. /\ old # 0 => old \in Entries(output) /\ Meets(output[old], e)
      /\ old = 0 => \A i \in Entries(output) : ~Meets(output[i], e)
  BY CollisionMeets
<1>2. fed' = Append(fed, e)
  BY DEF C!Feed
<1>3. \/ /\ old = 0 /\ output' = Append(output, e)
         /\ exact' = Entered(exact, DOMAIN exact, C!Key(e), Len(output) + 1)
         /\ byMessage' = Listed(byMessage, e.message, Len(output) + 1)
      \/ /\ old # 0 /\ C!Replaces(e, output[old]) /\ output' = [output EXCEPT ![old] = e]
         /\ exact' = Entered(exact, DOMAIN exact \ {C!Key(output[old])}, C!Key(e), old)
         /\ UNCHANGED byMessage
      \/ /\ old # 0 /\ ~C!Replaces(e, output[old])
         /\ UNCHANGED <<output, exact, byMessage>>
  <2>1. CASE old = 0
    BY <2>1 DEF C!Feed, Entered, Listed
  <2>2. CASE old # 0
    BY <2>2 DEF C!Feed, Entered
  <2>3. QED
    BY <2>1, <2>2
<1> HIDE DEF old
<1> SUFFICES EventsFit(output', exact', byMessage', fed')
  BY DEF EventsFit, KeysFit, ListsFit, Lists, Apart, Covered, Drawn, Entries
<1>3a. /\ output \in Seq(C!Events) /\ KeysFit(output, exact) /\ ListsFit(output, byMessage)
       /\ e.message \in Messages
  BY EventTypes DEF EventsFit
<1>4. CASE old = 0
  <2> DEFINE n == Len(output) + 1
  <2>1. Added(output', output, n, e)
    BY <1>3, <1>3a, <1>4, AppendAdds
  <2>2. \A i \in Entries(output) : ~Meets(output[i], e)
    BY <1>1, <1>4
  <2>3. \A i \in Entries(output) : C!Key(output[i]) # C!Key(e)
    BY <2>2, SameKeyMeets
  <2> HIDE DEF n
  <2>4. exact' = Entered(exact, DOMAIN exact, C!Key(e), n)
    BY <1>3, <1>4 DEF n
  <2>5. KeysFit(output', exact')
    BY <1>3a, <2>1, <2>3, <2>4, AddedKeys
  <2>6. byMessage' = Listed(byMessage, e.message, n)
    BY <1>3, <1>4 DEF n
  <2>7. ListsFit(output', byMessage')
    BY <1>3a, <2>1, <2>6, AddedLists
  <2>8. QED
    BY <1>2, <2>1, <2>2, <2>5, <2>7, AddedFits
<1>5. CASE old # 0 /\ C!Replaces(e, output[old])
  <2>1. Replaced(output', output, old, e)
    BY <1>1, <1>3, <1>3a, <1>5, ExceptReplaces
  <2>2. exact' = Entered(exact, DOMAIN exact \ {C!Key(output[old])}, C!Key(e), old)
    BY <1>3, <1>5
  <2>3. EventsFit(output', exact', byMessage, fed')
    BY <1>1, <1>2, <1>5, <2>1, <2>2, ReplacedFits
  <2>4. QED
    BY <1>3, <1>5, <2>3
<1>6. CASE old # 0 /\ ~C!Replaces(e, output[old])
  BY <1>1, <1>2, <1>3, <1>6, LeftOutFits
<1>7. QED
  BY <1>4, <1>5, <1>6

LEMMA EventsInitially == ASSUME MCInit PROVE EventsInv
<1>1. output = <<>> /\ exact = <<>> /\ byMessage = [m \in Messages |-> <<>>] /\ fed = <<>>
  BY DEF MCInit, C!Init
<1>2. Len(<<>>) = 0 /\ <<>> \in Seq(C!Events) /\ <<>> \in Seq(Nat) /\ 1..0 = {} /\ DOMAIN <<>> = {}
  OBVIOUS
<1>3. KeysFit(output, exact)
  BY <1>1, <1>2 DEF KeysFit, Entries
<1>4. ListsFit(output, byMessage)
  BY <1>1, <1>2 DEF ListsFit, Lists, Entries
<1>5. Apart(output) /\ Covered(output, fed) /\ Drawn(output, fed)
  BY <1>1, <1>2 DEF Apart, Covered, Drawn, Entries
<1>6. QED
  BY <1>1, <1>2, <1>3, <1>4, <1>5 DEF EventsInv, EventsFit

LEMMA EventsStep ==
  ASSUME EventsInv, [MCNext]_<<part, vars, scanVars, eventVars>> PROVE EventsInv'
<1> SUFFICES ASSUME part' = "events" PROVE EventsFit(output, exact, byMessage, fed)'
  BY DEF EventsInv
<1>1. CASE UNCHANGED <<part, vars, scanVars, eventVars>>
  <2>1. part = "events" /\ UNCHANGED <<output, exact, byMessage, fed>>
    BY <1>1 DEF eventVars
  <2>2. EventsFit(output, exact, byMessage, fed)
    BY <2>1 DEF EventsInv
  <2>3. QED
    BY <2>1, <2>2 DEF EventsFit, KeysFit, ListsFit, Lists, Apart, Covered, Drawn, Entries
<1>2. CASE MCNext
  <2>1. part = "events"
    BY <1>2 DEF MCNext, Pricing, Scanning, Counting
  <2>2. \E e \in C!Events : C!Feed(e)
    BY <1>2, <2>1 DEF MCNext, Pricing, Scanning, Counting
  <2>3. QED
    BY <2>1, <2>2, FeedKeeps DEF EventsInv
<1>3. QED
  BY <1>1, <1>2

\* No two of the events that are kept count for the same, and for every event that came there is one
\* that counts for no less (deduplicate).
THEOREM EventsHold == MCSpec => []EventsInv
<1>1. MCInit => EventsInv
  BY EventsInitially
<1>2. EventsInv /\ [MCNext]_<<part, vars, scanVars, eventVars>> => EventsInv'
  BY EventsStep
<1>3. QED
  BY <1>1, <1>2, PTL DEF MCSpec

LEMMA LargestIs ==
  ASSUME NEW S, S \subseteq Nat, NEW n \in S, \A k \in S : k <= n
  PROVE  C!Largest(S) = n
<1> DEFINE Top(k) == k \in S /\ \A j \in S : j <= k
<1>1. Top(n) /\ \A k : Top(k) => k = n
  <2>1. ASSUME NEW k, Top(k) PROVE k = n
    <3>1. k \in Nat /\ n \in Nat /\ k <= n /\ n <= k
      BY <2>1
    <3>2. QED
      BY <3>1
  <2>2. QED
    BY <2>1
<1>2. C!Largest(S) = CHOOSE k : Top(k)
  BY DEF C!Largest
<1> HIDE DEF Top
<1>3. QED
  BY <1>1, <1>2

LEMMA SumOfNone == ASSUME NEW w, DOMAIN w = {} PROVE SumFunction(w) = 0
BY FS_EmptySet, SumUnfolds, SumSteps

LEMMA SumOfOne ==
  ASSUME NEW i, NEW w \in [{i} -> Nat] PROVE SumFunction(w) = w[i]
<1>1. IsFiniteSet({i})
  BY FS_Singleton
<1>2. SumOf(w, {i})[{i}] = w[i] + SumOf(w, {i})[{i} \ {i}]
  <2>1. \A T \in SUBSET {i} : \A x \in T : SumOf(w, {i})[T] = w[x] + SumOf(w, {i})[T \ {x}]
    BY <1>1, SumTakesAny
  <2>2. {i} \in SUBSET {i} /\ i \in {i}
    OBVIOUS
  <2>3. QED
    BY ONLY <2>1, <2>2
<1>3. {i} \ {i} = {} /\ w[i] \in Nat
  OBVIOUS
<1>4. SumOf(w, {i})[{}] = 0
  BY <1>1, SumSteps
<1>5. SumFunction(w) = SumOf(w, {i})[{i}]
  BY SumUnfolds
<1>6. QED
  BY <1>2, <1>3, <1>4, <1>5

\* ClaudeLogs sums with the function that the lemmas are about.
LEMMA SameSum == ASSUME NEW w PROVE C!SumFunction(w) = SumFunction(w)
BY DEF C!SumFunction, C!SumFunctionOnSet, C!FoldFunctionOnSet, C!MapThenFoldSet,
       SumFunction, SumFunctionOnSet, FoldFunctionOnSet, MapThenFoldSet

\* The events of a message that came, those of no side chain, and the ones of a request.
Came(m) == {e \in C!ToSet(fed) : e.message = m}
CameMain(m) == {e \in Came(m) : ~e.sidechain}
Tokens(E) == {e.tokens : e \in E}
OfRequest(m, r) == {e \in CameMain(m) : e.request = r}
EntriesOf(m) == {i \in Entries(output) : output[i].message = m}

LEMMA CameFacts ==
  ASSUME EventsFit(output, exact, byMessage, fed), NEW m \in Messages
  PROVE  /\ \A i \in EntriesOf(m) : output[i] \in Came(m)
         /\ \A e \in Came(m) : e \in C!Events /\ \E i \in EntriesOf(m) : Covers(output[i], e)
         /\ IsFiniteSet(EntriesOf(m))
<1>1. /\ output \in Seq(C!Events) /\ fed \in Seq(C!Events)
      /\ Covered(output, fed) /\ Drawn(output, fed)
  BY DEF EventsFit
<1>2. \A e : e \in C!ToSet(fed) <=> \E k \in 1..Len(fed) : e = fed[k]
  BY <1>1 DEF C!ToSet
<1>3. \A i \in EntriesOf(m) : output[i] \in Came(m)
  BY <1>1, <1>2 DEF Drawn, Came, EntriesOf
<1>4. ASSUME NEW e \in Came(m) PROVE e \in C!Events /\ \E i \in EntriesOf(m) : Covers(output[i], e)
  <2>1. PICK k \in 1..Len(fed) : e = fed[k]
    BY <1>2 DEF Came
  <2>2. e.message = m
    BY DEF Came
  <2>3. PICK i \in Entries(output) : Covers(output[i], e)
    BY <1>1, <2>1 DEF Covered
  <2>4. output[i].message = m
    BY <2>2, <2>3 DEF Covers
  <2>5. e \in C!Events
    BY <1>1, <2>1
  <2>6. QED
    BY <2>3, <2>4, <2>5 DEF EntriesOf
<1>5. IsFiniteSet(EntriesOf(m))
  <2>1. IsFiniteSet(Entries(output))
    BY <1>1, FS_Interval DEF Entries
  <2>2. QED
    BY <2>1, FS_Subset DEF EntriesOf
<1>6. QED
  BY <1>3, <1>4, <1>5

LEMMA ReferenceIs ==
  ASSUME NEW m
  PROVE  C!Reference(m) =
           IF Came(m) = {} THEN 0
           ELSE IF CameMain(m) = {} THEN C!Largest(Tokens(Came(m)))
           ELSE SumFunction([r \in {e.request : e \in CameMain(m)} |->
                               C!Largest(Tokens(OfRequest(m, r)))])
BY SameSum DEF C!Reference, Came, CameMain, Tokens, OfRequest

LEMMA CountedIs ==
  ASSUME NEW m
  PROVE  C!Counted(m) = SumFunction([i \in EntriesOf(m) |-> output[i].tokens])
BY SameSum DEF C!Counted, EntriesOf, Entries

\* What counts of a message whose events are all of side chains is the largest.
LEMMA SideChainsCount ==
  ASSUME EventsFit(output, exact, byMessage, fed), NEW m \in Messages,
         Came(m) # {}, CameMain(m) = {}
  PROVE  C!Counted(m) = C!Reference(m)
<1>1. PICK i \in EntriesOf(m) : output[i] \in Came(m)
  BY CameFacts
<1>2. \A j \in EntriesOf(m) : j \in Entries(output) /\ output[j].message = m /\ output[j].sidechain
  BY CameFacts DEF CameMain, EntriesOf
<1>3. EntriesOf(m) = {i}
  <2>1. Apart(output)
    BY DEF EventsFit
  <2>2. QED
    BY <1>2, <2>1 DEF Apart, Meets
<1>4. ASSUME NEW e \in Came(m) PROVE e.tokens \in Nat /\ e.tokens <= output[i].tokens
  <2>1. e \in C!Events /\ Covers(output[i], e)
    BY <1>3, CameFacts
  <2>2. e.sidechain /\ output[i].sidechain
    BY <1>1 DEF CameMain, Came
  <2>3. output[i] \in C!Events
    BY <1>1, CameFacts
  <2>4. QED
    BY <2>1, <2>2, <2>3, EventTypes DEF Covers
<1>5. C!Largest(Tokens(Came(m))) = output[i].tokens
  <2>1. output[i].tokens \in Tokens(Came(m)) /\ Tokens(Came(m)) \subseteq Nat
    BY <1>1, <1>4 DEF Tokens
  <2>2. \A k \in Tokens(Came(m)) : k <= output[i].tokens
    BY <1>4 DEF Tokens
  <2>3. QED
    BY <2>1, <2>2, LargestIs
<1>6. C!Counted(m) = output[i].tokens
  <2> DEFINE w == [j \in EntriesOf(m) |-> output[j].tokens]
  <2>1. w \in [{i} -> Nat] /\ w[i] = output[i].tokens
    BY <1>1, <1>3, <1>4
  <2>2. C!Counted(m) = SumFunction(w)
    BY CountedIs
  <2> HIDE DEF w
  <2>3. QED
    BY <2>1, <2>2, SumOfOne
<1>7. QED
  BY <1>5, <1>6, ReferenceIs

\* What counts of the others is the largest of each request's main events.
LEMMA RequestsCount ==
  ASSUME EventsFit(output, exact, byMessage, fed), NEW m \in Messages, CameMain(m) # {}
  PROVE  C!Counted(m) = C!Reference(m)
<1> DEFINE S == EntriesOf(m)
           R == {e.request : e \in CameMain(m)}
<1>0. Apart(output) /\ \A i \in S : i \in Entries(output) /\ output[i].message = m
  BY DEF EventsFit, EntriesOf
<1>1. ASSUME NEW e \in CameMain(m)
      PROVE  \E i \in S : /\ output[i].request = e.request /\ ~output[i].sidechain
                          /\ output[i].tokens >= e.tokens
  BY CameFacts DEF CameMain, Covers
<1>2. \A i \in S : ~output[i].sidechain
  <2>1. PICK e \in CameMain(m) : TRUE
    OBVIOUS
  <2>2. PICK i \in S : ~output[i].sidechain
    BY <1>1
  <2>3. ASSUME NEW j \in S, output[j].sidechain PROVE FALSE
    <3>1. Meets(output[i], output[j])
      BY <1>0, <2>3 DEF Meets
    <3>2. QED
      BY <1>0, <2>2, <2>3, <3>1 DEF Apart
  <2>4. QED
    BY <2>3
<1>3. \A i, j \in S : output[i].request = output[j].request => i = j
  BY <1>0 DEF Apart, Meets
<1>4. \A i \in S : output[i] \in CameMain(m) /\ output[i] \in C!Events
  BY <1>2, CameFacts DEF CameMain
<1>5. ASSUME NEW i \in S
      PROVE  C!Largest(Tokens(OfRequest(m, output[i].request))) = output[i].tokens
  <2> DEFINE E == OfRequest(m, output[i].request)
  <2>1. output[i] \in E
    BY <1>4 DEF OfRequest
  <2>2. ASSUME NEW e \in E PROVE e.tokens \in Nat /\ e.tokens <= output[i].tokens
    <3>1. e \in CameMain(m) /\ e.request = output[i].request
      BY DEF OfRequest
    <3>2. PICK j \in S : output[j].request = e.request /\ output[j].tokens >= e.tokens
      BY <1>1, <3>1
    <3>3. j = i
      BY <1>3, <3>1, <3>2
    <3>4. e \in C!Events
      BY <3>1, CameFacts DEF CameMain
    <3>5. QED
      BY <1>4, <3>2, <3>3, <3>4, EventTypes
  <2> HIDE DEF E
  <2>3. output[i].tokens \in Tokens(E) /\ Tokens(E) \subseteq Nat
    BY <2>1, <2>2 DEF Tokens
  <2>4. \A k \in Tokens(E) : k <= output[i].tokens
    BY <2>2 DEF Tokens
  <2>5. C!Largest(Tokens(E)) = output[i].tokens
    BY <2>3, <2>4, LargestIs
  <2>6. QED
    BY <2>5 DEF E
<1> DEFINE w == [i \in S |-> output[i].tokens]
           v == [r \in R |-> C!Largest(Tokens(OfRequest(m, r)))]
           f == [i \in S |-> output[i].request]
<1>6. IsFiniteSet(S) /\ w \in [S -> Nat]
  BY <1>4, CameFacts, EventTypes
<1>7. f \in [S -> R] /\ (\A i, j \in S : f[i] = f[j] => i = j)
  BY <1>3, <1>4
<1>8. \A r \in R : \E i \in S : f[i] = r
  BY <1>1
<1>9. \A i \in S : w[i] = v[f[i]]
  BY <1>4, <1>5
<1>10. v \in [R -> Nat]
  <2>1. ASSUME NEW r \in R PROVE v[r] \in Nat
    <3>1. PICK i \in S : f[i] = r
      BY <1>8
    <3> HIDE DEF w, v, f, S, R
    <3>2. v[r] = w[i] /\ w[i] \in Nat
      BY <1>6, <1>9, <3>1
    <3>3. QED
      BY <3>2
  <2>2. v = [r \in R |-> v[r]]
    OBVIOUS
  <2> HIDE DEF v, R
  <2>3. QED
    BY <2>1, <2>2
<1>11. IsFiniteSet(R)
  <2>1. f \in Surjection(S, R)
    BY <1>7, <1>8 DEF Surjection
  <2> HIDE DEF f, S, R
  <2>2. QED
    BY <1>6, <2>1, FS_Surjection
<1>12. C!Counted(m) = SumFunction(w)
  BY CountedIs
<1>13. C!Reference(m) = SumFunction(v)
  <2>1. Came(m) # {}
    BY DEF CameMain
  <2>2. QED
    BY <2>1, ReferenceIs
<1> HIDE DEF f, w, v, S, R
<1>14. SumFunction(w) = SumFunction(v)
  BY <1>6, <1>7, <1>8, <1>9, <1>10, <1>11, SumsCorrespond
<1>15. QED
  BY <1>12, <1>13, <1>14

\* The tokens that count do not depend on the order in which the events come (deduplicate).
THEOREM EventsCountInAnyOrder == MCSpec => []OrderDoesNotCount
<1>1. ASSUME EventsInv PROVE OrderDoesNotCount
  <2> SUFFICES ASSUME EventsFit(output, exact, byMessage, fed), NEW m \in Messages
               PROVE  C!Counted(m) = C!Reference(m)
    BY <1>1 DEF EventsInv, OrderDoesNotCount, C!OrderDoesNotCount
  <2>1. CASE Came(m) = {}
    <3>1. EntriesOf(m) = {}
      BY <2>1, CameFacts
    <3> DEFINE w == [i \in EntriesOf(m) |-> output[i].tokens]
    <3>2. DOMAIN w = {} /\ C!Counted(m) = SumFunction(w)
      BY <3>1, CountedIs
    <3> HIDE DEF w
    <3>3. C!Counted(m) = 0
      BY <3>2, SumOfNone
    <3>4. QED
      BY <2>1, <3>3, ReferenceIs
  <2>2. CASE Came(m) # {} /\ CameMain(m) = {}
    BY <2>2, SideChainsCount
  <2>3. CASE CameMain(m) # {}
    BY <2>3, RequestsCount
  <2>4. QED
    BY <2>1, <2>2, <2>3
<1>2. QED
  BY <1>1, EventsHold, PTL
=================================================================================
