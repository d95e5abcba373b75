------------------------------- MODULE MCStorage -------------------------------
(* Instances, for TLC, of what is read and kept while the program runs: the price  *)
(* catalogues (PricingStore) and the CLIs' session logs (UsageLogs, ClaudeLogs).   *)
(* They share no state, so a behaviour is one of a component: part says which.     *)
EXTENDS PricingStore, TLC
CONSTANTS Scanners, MaxSessions, MaxSeconds, Messages, Requests, MaxTokens, MaxEvents

\* There is a first session, and a line counts some tokens.
ASSUME LogsAssumption == MaxSessions \in Nat \ {0} /\ MaxTokens \in Nat

MCAll == <<"catalogue", "supplement">>

\* Refreshes that ask for prices are interchangeable.
StorageSymmetry == Permutations(Callers)

VARIABLES part,
          time, log, places, begun, spent, cache, scan,
          output, exact, byMessage, fed
scanVars == <<time, log, places, begun, spent, cache, scan>>
eventVars == <<output, exact, byMessage, fed>>

U == INSTANCE UsageLogs WITH now <- time, MaxTime <- MaxSeconds
C == INSTANCE ClaudeLogs

MCInit ==
  /\ part \in {"prices", "scans", "events"}
  /\ Init /\ U!Init /\ C!Init
Pricing(A) == part = "prices" /\ A /\ UNCHANGED <<part, scanVars, eventVars>>
Scanning(A) == part = "scans" /\ A /\ UNCHANGED <<part, vars, eventVars>>
Counting(A) == part = "events" /\ A /\ UNCHANGED <<part, vars, scanVars>>

MCNext ==
  \/ Pricing(Tick) \/ Pricing(Release) \/ Pricing(Relaunch)
  \/ Pricing(BeginPass) \/ Pricing(StoreStates) \/ Pricing(LoadPricing)
  \/ Pricing(WriteStates) \/ Pricing(Complete)
  \/ \E c \in Callers : Pricing(HasDueSource(c)) \/ Pricing(Exchange(c))
  \/ \E s \in Sources : \/ Pricing(Answered(s)) \/ Pricing(NotModified(s))
                        \/ Pricing(FetchFails(s))
  \/ \E s \in U!Sessions : \/ Scanning(U!StartSession(s)) \/ Scanning(U!TaskStarts(s))
                           \/ Scanning(U!TurnEnds(s)) \/ Scanning(U!Repeats(s))
                           \/ Scanning(U!Archives(s))
                           \/ \E child \in U!Sessions : Scanning(U!Forks(s, child))
  \/ \E w \in Scanners : \/ Scanning(U!Discover(w)) \/ Scanning(U!ReadFails(w))
                         \/ Scanning(U!Reads(w)) \/ Scanning(U!Saves(w)) \/ Scanning(U!Prune(w))
                         \/ Scanning(U!ScanEnds(w))
                         \/ \E p \in U!Paths : \/ Scanning(U!Gone(w, p)) \/ Scanning(U!Hit(w, p))
                                               \/ Scanning(U!Miss(w, p))
  \/ \E e \in C!Events : Counting(C!Feed(e))
MCSpec == MCInit /\ [][MCNext]_<<part, vars, scanVars, eventVars>>

\* The properties of UsageLogs and ClaudeLogs: no turn counts twice or is left out, and the order
\* of the logs decides nothing (parse_jsonl, aggregate_into, deduplicate).
TurnsCountOnce == part = "scans" => U!TurnsCountOnce
OrderDoesNotCount == part = "events" => C!OrderDoesNotCount
=================================================================================
