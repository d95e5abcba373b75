------------------------------ MODULE PricingStore ------------------------------
(* The price catalogues' store: src-tauri/src/pricing/store.rs.                    *)
(* Several provider refreshes ask for prices at once; at most one background       *)
(* thread fetches what is due, writes each answer to its cache file, rebuilds the  *)
(* prices from files and bundle, and writes state.json at last. The application    *)
(* may be stopped between any two of these steps and come back as a newer release. *)
(* A catalogue's content is the number of its edition at the source, which is its  *)
(* ETag too; time is in ticks, and a pass takes no time.                           *)
EXTENDS Integers, Sequences

CONSTANTS
  All,           \* the sources in the order of SourceId::ALL
  Dated,         \* the supplement: its content carries its own date, the catalogues' cache
                 \* files carry the time of their fetch
  Callers,       \* provider refreshes that call current()
  RefreshInterval, FailureRetryInterval,
  MaxTime, MaxEdition, MaxReleases, MaxLaunches

Sources == {All[i] : i \in 1..Len(All)}
Never == -RefreshInterval

VARIABLES
  now,           \* the clock
  edition,       \* edition[s]: what source s serves
  release,       \* the newest release's bundle: [at, content, number], content by source
  launches,      \* how often the application was started
  bundle,        \* the bundle of the release that runs
  file,          \* file[s]: the cache file, [at, content], or NoFile
  saved,         \* state.json: [etag, fetched, failed] by source
  states,        \* source_states
  prices,        \* pricing: the edition in force, by source
  caller,        \* caller[c]: "idle", or "due" between has_due_source and the exchange
  inFlight,      \* refresh_in_flight
  pass,          \* the thread: pc, the sources that are due and not yet fetched, its
                 \* copy of the states, and changed
  tried,         \* history: when this process fetched a source, and whether that succeeded
  seen           \* history: the edition that the source's last answered fetch found
vars == <<now, edition, release, launches, bundle, file, saved, states, prices, caller, inFlight, pass,
          tried, seen>>
world == <<now, edition, release>>
disk == <<launches, bundle, file, saved>>

NoFile == [at |-> Never, content |-> 0]
Unfetched == [s \in Sources |-> [etag |-> 0, fetched |-> Never, failed |-> Never]]
NoPass == [pc |-> "none", due |-> {}, states |-> Unfetched, changed |-> FALSE]

\* is_due
Due(state) == now - state.failed >= FailureRetryInterval /\ now - state.fetched >= RefreshInterval

\* Faulty variant of Winner: a readable cache file always wins.
CacheWins(s, files, b) == IF files[s] = NoFile THEN b.content[s] ELSE files[s].content

\* load_pricing, load_catalog: what is strictly newer wins, by the date of the supplement and by
\* the time a catalogue was retrieved.
Winner(s, files, b) ==
  LET bundled == IF s = Dated THEN b.content[s] > files[s].content ELSE b.at > files[s].at
  IN IF bundled \/ files[s] = NoFile THEN b.content[s] ELSE files[s].content
Load(files, b) == [s \in Sources |-> Winner(s, files, b)]

Init ==
  /\ now = 0
  /\ edition = [s \in Sources |-> 1]
  /\ release = [at |-> 0, content |-> edition, number |-> 0]
  /\ bundle = release /\ launches = 1
  /\ file = [s \in Sources |-> NoFile]
  /\ saved = Unfetched /\ states = saved
  /\ prices = Load(file, bundle)
  /\ caller = [c \in Callers |-> "idle"]
  /\ inFlight = FALSE /\ pass = NoPass
  /\ tried = [s \in Sources |-> [at |-> Never, ok |-> FALSE]]
  /\ seen = prices

-----------------------------------------------------------------------------
\* A pass takes minutes, a tick is half an hour; the sources publish from tick to tick.
Tick ==
  /\ now < MaxTime /\ pass.pc = "none"
  /\ now' = now + 1
  /\ edition' \in {e \in [Sources -> 1..MaxEdition] : \A s \in Sources : e[s] >= edition[s]}
  /\ UNCHANGED <<release, disk, states, prices, caller, inFlight, pass, tried, seen>>

\* A release takes its snapshots of all sources.
Release ==
  /\ release.number < MaxReleases
  /\ release' = [at |-> now, content |-> edition, number |-> release.number + 1]
  /\ UNCHANGED <<now, edition, disk, states, prices, caller, inFlight, pass, tried, seen>>

\* The process ends and starts again, perhaps as the newest release (with_dependencies).
Relaunch ==
  /\ launches < MaxLaunches /\ launches' = launches + 1
  /\ bundle' \in {bundle, release}
  /\ states' = saved
  /\ prices' = Load(file, bundle')
  /\ caller' = [c \in Callers |-> "idle"]
  /\ inFlight' = FALSE /\ pass' = NoPass
  /\ tried' = [s \in Sources |-> [at |-> Never, ok |-> FALSE]]
  /\ seen' = [s \in Sources |-> 0]
  /\ UNCHANGED <<world, file, saved>>

-----------------------------------------------------------------------------
\* current: the prices in force are the answer; what is due is looked at under its own lock.
HasDueSource(c) ==
  /\ caller[c] = "idle"
  /\ \E s \in Sources : Due(states[s])
  /\ caller' = [caller EXCEPT ![c] = "due"]
  /\ UNCHANGED <<world, disk, states, prices, inFlight, pass, tried, seen>>

\* The exchange: whoever wins it starts the thread.
Exchange(c) ==
  /\ caller[c] = "due"
  /\ caller' = [caller EXCEPT ![c] = "idle"]
  /\ inFlight' = TRUE
  /\ pass' = IF inFlight THEN pass ELSE [NoPass EXCEPT !.pc = "begin"]
  /\ UNCHANGED <<world, disk, states, prices, tried, seen>>

\* Faulty variant of BeginPass: whatever made a caller start the thread is fetched.
BeginUnchecked ==
  /\ pass.pc = "begin"
  /\ pass' = [pc |-> "fetch", due |-> Sources, states |-> states, changed |-> FALSE]
  /\ UNCHANGED <<world, disk, states, prices, caller, inFlight, tried, seen>>

\* refresh_due: the states are copied and looked at again.
BeginPass ==
  /\ pass.pc = "begin"
  /\ pass' = [pc |-> "fetch", due |-> {s \in Sources : Due(states[s])}, states |-> states,
              changed |-> FALSE]
  /\ UNCHANGED <<world, disk, states, prices, caller, inFlight, tried, seen>>

Fetching(s) ==
  /\ pass.pc = "fetch" /\ s \in pass.due
  /\ \E i \in 1..Len(All) : All[i] = s /\ \A j \in 1..i - 1 : All[j] \notin pass.due
Fetched(s, state, changed) ==
  pass' = [pass EXCEPT !.due = @ \ {s}, !.states[s] = state, !.changed = changed]

\* fetch_source, 200: the answer is written to the cache file with the time of the pass. The etag
\* differs, or there was none.
Answered(s) ==
  /\ Fetching(s) /\ pass.states[s].etag # edition[s]
  /\ file' = [file EXCEPT ![s] = [at |-> now, content |-> edition[s]]]
  /\ Fetched(s, [etag |-> edition[s], fetched |-> now, failed |-> Never], TRUE)
  /\ tried' = [tried EXCEPT ![s] = [at |-> now, ok |-> TRUE]]
  /\ seen' = [seen EXCEPT ![s] = edition[s]]
  /\ UNCHANGED <<world, launches, bundle, saved, states, prices, caller, inFlight>>

\* Faulty variant of NotModified: the answer of the source that was asked last decides.
NotModifiedResets(s) ==
  /\ Fetching(s) /\ pass.states[s].etag = edition[s]
  /\ Fetched(s, [pass.states[s] EXCEPT !.fetched = now, !.failed = Never], FALSE)
  /\ tried' = [tried EXCEPT ![s] = [at |-> now, ok |-> TRUE]]
  /\ seen' = [seen EXCEPT ![s] = edition[s]]
  /\ UNCHANGED <<world, disk, states, prices, caller, inFlight>>

\* 304
NotModified(s) ==
  /\ Fetching(s) /\ pass.states[s].etag = edition[s]
  /\ Fetched(s, [pass.states[s] EXCEPT !.fetched = now, !.failed = Never], pass.changed)
  /\ tried' = [tried EXCEPT ![s] = [at |-> now, ok |-> TRUE]]
  /\ seen' = [seen EXCEPT ![s] = edition[s]]
  /\ UNCHANGED <<world, disk, states, prices, caller, inFlight>>

\* Faulty variant of FetchFails: the etag of an answer that was not kept is.
FailsWithEtag(s) ==
  /\ Fetching(s)
  /\ Fetched(s, [pass.states[s] EXCEPT !.failed = now, !.etag = edition[s]], pass.changed)
  /\ tried' = [tried EXCEPT ![s] = [at |-> now, ok |-> FALSE]]
  /\ UNCHANGED <<world, disk, states, prices, caller, inFlight, seen>>

\* No answer, another status, a body that does not decode, a file that cannot be written.
FetchFails(s) ==
  /\ Fetching(s)
  /\ Fetched(s, [pass.states[s] EXCEPT !.failed = now], pass.changed)
  /\ tried' = [tried EXCEPT ![s] = [at |-> now, ok |-> FALSE]]
  /\ UNCHANGED <<world, disk, states, prices, caller, inFlight, seen>>

StoreStates ==
  /\ pass.pc = "fetch" /\ pass.due = {}
  /\ states' = pass.states
  /\ pass' = [pass EXCEPT !.pc = IF pass.changed THEN "load" ELSE "write"]
  /\ UNCHANGED <<world, disk, prices, caller, inFlight, tried, seen>>

LoadPricing ==
  /\ pass.pc = "load"
  /\ prices' = Load(file, bundle)
  /\ pass' = [pass EXCEPT !.pc = "write"]
  /\ UNCHANGED <<world, disk, states, caller, inFlight, tried, seen>>

\* write_json_atomic may fail.
WriteStates ==
  /\ pass.pc = "write"
  /\ saved' \in {saved, pass.states}
  /\ pass' = [pass EXCEPT !.pc = "done"]
  /\ UNCHANGED <<world, launches, bundle, file, states, prices, caller, inFlight, tried, seen>>

\* RefreshCompletion is dropped.
Complete ==
  /\ pass.pc = "done"
  /\ inFlight' = FALSE /\ pass' = NoPass
  /\ UNCHANGED <<world, disk, states, prices, caller, tried, seen>>

Next ==
  \/ Tick \/ Release \/ Relaunch
  \/ BeginPass \/ StoreStates \/ LoadPricing \/ WriteStates \/ Complete
  \/ \E c \in Callers : HasDueSource(c) \/ Exchange(c)
  \/ \E s \in Sources : Answered(s) \/ NotModified(s) \/ FetchFails(s)
Spec == Init /\ [][Next]_vars

-----------------------------------------------------------------------------
TypeOK ==
  /\ now \in 0..MaxTime /\ inFlight \in BOOLEAN
  /\ pass.due \subseteq Sources /\ pass.changed \in BOOLEAN
  /\ \A s \in Sources : prices[s] \in 1..MaxEdition /\ file[s].content \in 0..MaxEdition

\* However many refreshes find a source due at once, a process asks it once per interval, and a
\* failed source once per retry interval (current, refresh_due).
FetchesAreSpaced ==
  [][\A s \in Sources :
       tried'[s] # tried[s] /\ tried'[s].at # Never
         => now - tried[s].at >= IF tried[s].ok THEN RefreshInterval
                                                ELSE FailureRetryInterval]_vars

\* The prices in force never go back to an earlier edition: not in a pass that is stopped half
\* way, not at a launch, and not when an update brings newer ones (load_catalog's comment).
PricesNeverOlder ==
  [][\A s \in Sources : prices'[s] >= prices[s] /\ prices'[s] >= bundle'.content[s]]_vars

\* Between passes every source's prices are at least those its last answer found, also when that
\* answer was "not modified" and the states were read from an earlier launch's state.json.
AnswersAreServed == pass.pc = "none" => \A s \in Sources : prices[s] >= seen[s]
=================================================================================
