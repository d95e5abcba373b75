---------------------------- MODULE DataAdoption ----------------------------
(* What the launch promises about an earlier installation's database,        *)
(* without files: the application's own old database becomes the current     *)
(* one in a single step, with every transaction, however often the program   *)
(* is stopped; a foreign one is taken over whole unless its copy was cut     *)
(* short; nothing else makes transactions appear or disappear.               *)
CONSTANTS Txns,     \* the transactions a database can hold
          None,     \* there is no database
          Garbage   \* a file that SQLite cannot read

VARIABLES old,      \* under the old name in the application's directory
          current,  \* under the current name: what the program works with
          foreign,  \* in the directory of the earlier application
          stale,    \* a stray log under the current name waits for a database
          torn      \* the copy of the foreign database was once cut short
vars == <<old, current, foreign, stale, torn>>

Databases == {None} \cup SUBSET Txns

Init ==
  /\ old \in Databases /\ current \in Databases /\ foreign \in Databases
  /\ stale = FALSE /\ torn = FALSE

\* The old database becomes the current one, at once and complete.
Promote ==
  /\ old # None /\ current = None
  /\ old' = None
  /\ current' = IF stale THEN Garbage ELSE old
  /\ stale' = FALSE
  /\ UNCHANGED <<foreign, torn>>

\* The foreign database is copied, whole or with the knowledge that it is not.
Adopt ==
  /\ old = None /\ current = None /\ foreign # None
  /\ torn' \in (IF torn THEN {TRUE} ELSE BOOLEAN)
  /\ current' \in (IF torn' \/ stale THEN {Garbage} \cup SUBSET foreign ELSE {foreign})
  /\ stale' = FALSE
  /\ UNCHANGED <<old, foreign>>

CopyFails ==
  /\ current = None /\ foreign # None /\ torn' = TRUE
  /\ UNCHANGED <<old, current, foreign, stale>>

\* With nothing to take over the program starts from nothing.
StartEmpty ==
  /\ old = None /\ current = None /\ (foreign = None \/ torn)
  /\ current' = {} /\ stale' = FALSE
  /\ UNCHANGED <<old, foreign, torn>>

\* An unreadable database is put aside for an empty one; stopped in between,
\* the program finds neither, and perhaps a stray log.
Replace ==
  /\ current = Garbage
  /\ \/ current' = None /\ stale' \in BOOLEAN
     \/ current' = {} /\ stale' = FALSE
  /\ UNCHANGED <<old, foreign, torn>>
StaleGone ==
  /\ stale /\ stale' = FALSE /\ UNCHANGED <<old, current, foreign, torn>>

Commit(t) ==
  /\ current \notin {None, Garbage} /\ current' = current \cup {t}
  /\ UNCHANGED <<old, foreign, stale, torn>>

\* The disk damages a file.
Damage ==
  /\ current # None /\ current' = Garbage /\ UNCHANGED <<old, foreign, stale, torn>>

Next ==
  \/ Promote \/ Adopt \/ CopyFails \/ StartEmpty
  \/ Replace \/ StaleGone \/ Damage
  \/ \E t \in Txns : Commit(t)

Spec == Init /\ [][Next]_vars
=============================================================================
