------------------------------- MODULE MCFrontend -------------------------------
(* Instances, for TLC, of what the frontend and the backend keep in step:          *)
(* PanelHeight and SettingsSync. They share no state, so a behaviour is one of a   *)
(* component: part says which.                                                     *)
EXTENDS PanelHeight
CONSTANTS MaxEdits, MaxChanges, MaxReads, SettingsFaults

VARIABLES part,
          saved, revision, other, events, ui, queue, call, sequence, mutationGeneration, reads,
          left, made, wanted, refused, restored
settingsVars == <<saved, revision, other, events, ui, queue, call, sequence, mutationGeneration,
                  reads, left, made, wanted, refused, restored>>
S == INSTANCE SettingsSync WITH generation <- mutationGeneration, MaxFaults <- SettingsFaults

MCInit ==
  /\ part \in {"settings", "panel"}
  /\ Init /\ S!Init
  /\ part # "panel" => stored.mode = "manual"
Settings(A) == part = "settings" /\ A /\ UNCHANGED <<part, vars>>
Panel(A) == part = "panel" /\ A /\ UNCHANGED <<part, settingsVars>>

MCNext ==
  \/ Settings(S!UserNext) \/ Settings(S!CommandNext) \/ Settings(S!ChangeNext)
  \/ Settings(S!ReadSettings) \/ Settings(S!FrontendNext)
  \/ \E h \in Heights : Panel(Resized(h))
  \/ Panel(WorkerReceives) \/ Panel(WorkerSaves) \/ Panel(Finish) \/ Panel(Focus)
  \/ \E g \in gets : Panel(GetAnswered(g)) \/ Panel(GetArrives(g))
  \/ \E m \in {"automatic", "manual"} : Panel(ChangeMode(m))
  \/ Panel(Invoke) \/ Panel(Execute) \/ Panel(Settle)
  \/ Panel(PressGrip) \/ Panel(BeginActive) \/ Panel(BeginManual) \/ Panel(AcceptManual)
  \/ Panel(DragEnds)
  \/ Panel(ConfirmReset) \/ Panel(BeginReset) \/ Panel(ResetSaved) \/ Panel(Rollback)
  \/ Panel(ResetSettles)
MCVars == <<part, vars, settingsVars>>

\* The fairness of SettingsSync's FairSpec; the panel needs none.
MCSpec ==
  /\ MCInit /\ [][MCNext]_MCVars
  /\ WF_MCVars(Settings(S!CommandNext)) /\ WF_MCVars(Settings(S!ChangeRevision \/ S!ChangeEmitted))
  /\ WF_MCVars(Settings(S!ReadSettings)) /\ WF_MCVars(Settings(S!FrontendNext))

\* The properties of SettingsSync: at rest both sides agree, the last edit is the saved one, a save
\* that waited behind nothing overwrites no change, and the queue drains (settings.rs,
\* settingsController.svelte.ts).
Converged == S!Converged
LastEditKept == S!LastEditKept
LoneSaveKeepsChanges == S!LoneSaveKeepsChanges
QueueDrains == S!QueueDrains
=================================================================================
