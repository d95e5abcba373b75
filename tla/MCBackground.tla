------------------------------ MODULE MCBackground ------------------------------
(* Instances, for TLC, of what the application does without being asked: the       *)
(* session kickstart (Kickstart) and the launch with its files (DataMigration).    *)
(* They share no state, so a behaviour is one of a component: part says which.     *)
EXTENDS Kickstart, TLC
CONSTANTS None, Garbage, Accounts, Schemas, Items

MCAccounts == {"kimi"}
MCItems == {"pricing"}
MCSchemas == {{"tables", "logs"}}
MCNone == {"no database"}
MCGarbage == {"garbage"}

\* Tasks are interchangeable, and so are reset times.
BackgroundSymmetry == Permutations(Tasks) \cup Permutations(Resets)

VARIABLES part,
          fs, items, step, moved, keys, marker, left, source, torn, claim, unmarked, asked
launchVars == <<fs, items, step, moved, keys, marker, left, source, torn, claim, unmarked, asked>>

D == INSTANCE DataMigration WITH pc <- step

\* "No database" and "unreadable" are told from each other and from every set of transactions;
\* earlier programs made the columns of this one or fewer.
ASSUME OutcomeAssumption ==
  None \notin SUBSET D!Txns /\ Garbage \notin SUBSET D!Txns /\ None # Garbage
ASSUME SchemaAssumption == Schemas \subseteq SUBSET D!Columns

MCInit ==
  /\ part \in {"kickstart", "launches"}
  /\ Init /\ D!Init
  /\ part # "kickstart" => setting = "out"
  /\ part # "launches" => /\ \A place \in D!Places : fs[place] = D!Absent
                          /\ \A s \in D!Services, a \in Accounts : keys[s][a] = D!NoKey
Kickstarting(A) == part = "kickstart" /\ A /\ UNCHANGED <<part, launchVars>>
Launching(A) == part = "launches" /\ A /\ UNCHANGED <<part, vars>>

MCNext ==
  \/ Kickstarting(WorldStep)
  \/ \E t \in Tasks : Kickstarting(Batch(t)) \/ Kickstarting(TaskStep(t))
  \/ Launching(D!Launch) \/ Launching(D!Rename) \/ Launching(D!Copy) \/ Launching(D!MigrateKeys)
  \/ Launching(D!Open) \/ Launching(D!Work) \/ Launching(D!Crash) \/ Launching(D!Damage)
MCSpec == MCInit /\ [][MCNext]_<<part, vars, launchVars>>

\* The properties of DataMigration: the launch takes the earlier database over as if in one step,
\* no key is lost or revived, and the schema is complete when the program works (migration.rs,
\* storage.rs).
AdoptsAtomically == D!AdoptsAtomically
KeyFollowsUser == D!KeyFollowsUser
SchemaComplete == D!SchemaComplete
=================================================================================
