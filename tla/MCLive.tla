--------------------------------- MODULE MCLive ---------------------------------
(* Instances, for TLC, of what must end or come round: RefreshLoop (a tick is a    *)
(* minute), ProviderService (a named account is refreshed by calls, and removed)   *)
(* and Updates. They share no state, so a behaviour is one of a component: part    *)
(* says which.                                                                     *)
EXTENDS RefreshLoop
CONSTANTS Callers, Flights, NoFlight, Removable, MaxVersion
ASSUME VersionAssumption == MaxVersion \in Nat \ {0}

VARIABLES part, registered, flightOf, used, tracked, view, freshMark, failMark, cached, admin,
          loaded, flight, published, call, run, begun, merged, waived,
          released, version, pending, op, ui, answer, dismissed, offered, failed
serviceVars == <<registered, flightOf, used, tracked, view, freshMark, failMark, cached, admin,
                 loaded, flight, published, call, run, begun, merged, waived>>
updateVars == <<released, version, pending, op, ui, answer, dismissed, offered, failed>>
S == INSTANCE ProviderService
U == INSTANCE Updates

all == <<part, vars, serviceVars, updateVars>>
MCInit ==
  /\ part \in {"loop", "service", "updates"}
  /\ Init /\ S!Init /\ U!Init
  /\ part # "loop" => ~enabled
  /\ part # "updates" => released = 0
Looping(A) == part = "loop" /\ A /\ UNCHANGED <<part, serviceVars, updateVars>>
Serving(A) == part = "service" /\ A /\ UNCHANGED <<part, vars, updateVars>>
Updating(A) == part = "updates" /\ A /\ UNCHANGED <<part, vars, serviceVars>>

MCNext ==
  \/ Looping(Loop) \/ Looping(Tick) \/ Looping(Suspend) \/ Looping(RefreshElsewhere)
  \/ Looping(RefreshFailsElsewhere) \/ Looping(Toggle)
  \/ Serving(S!AdminStep) \/ Serving(S!FreshExpires) \/ Serving(S!BackoffExpires)
  \/ \E c \in Callers : \/ Serving(S!Call(c)) \/ Serving(S!CallerStep(c))
                        \/ Serving(S!RunnerStep(c)) \/ Serving(S!WorkerStep(c))
  \/ Updating(U!User) \/ Updating(U!Server) \/ Updating(U!Installing) \/ Updating(U!AnswerArrives)

\* The fairness of the two specifications.
MCSpec ==
  /\ MCInit /\ [][MCNext]_all
  /\ WF_all(Looping(Loop)) /\ WF_all(Looping(Tick))
  /\ \A c \in Callers : WF_all(Serving(S!CallerStep(c))) /\ WF_all(Serving(S!RunnerStep(c)))

\* What ProviderService promises: a flight ends with everything asked of it settled (service.rs).
FlightsComeToRest == S!FlightsComeToRest
\* What Updates promises: what is installed was offered (updates.rs, updateController.svelte.ts).
OfferedIsInstalled == U!OfferedIsInstalled
=================================================================================
