-------------------------- MODULE AccountLifecycle --------------------------
(* The named API-key accounts of a provider family: their records and retired   *)
(* ids in the database, their keys in the credential store, and what the        *)
(* running program keeps of them (the registry, the refresh service's entries,  *)
(* the settings' layouts). The commands of commands/provider.rs and the         *)
(* credential detection run side by side; two locks order parts of them.        *)
EXTENDS Naturals, FiniteSets, Sequences

CONSTANTS Names,       \* account names the user may choose
          Ids,         \* the suffixes of provider ids
          Base,        \* Base[n] \in Ids: the suffix hashed from the name
          Salts,       \* \in Seq(Ids): the suffixes of the later attempts, the same for every name
          Tasks,       \* commands that can be under way at once
          None,        \* neither a name nor a task
          MaxCommands, \* bound on commands
          MaxFailures, \* bound on failures of the database and the credential store
          MaxLaunches  \* bound on crashes or exits, each with the next launch

VARIABLES rows,      \* provider_account_records: the identity is name and suffix
          graveyard, \* provider_account_graveyard: identities, not ids
          keys,      \* credential store: keys[i], the account whose key is saved for the id
          disk,      \* saved settings: ids with a layout, and those marked detected
          cards,     \* the registry: cards[i], the name of the runtime registered for the id
          entries,   \* ids the refresh service has state for
          mem,       \* the settings in memory
          cmd,       \* who holds command_mutation
          cred,      \* who holds credential_mutation
          commit,    \* who holds the commit lock between two steps
          outdated,  \* tasks whose plan has another credential_revision than the settings
          task,      \* the commands under way, each with what it has read
          bounds,    \* commands, failures and launches used up
          owners,    \* history: owners[i], the names that were given the id
          raced      \* history: ids touched by two commands at once, see RacedBy

store == <<rows, graveyard, keys, disk>>
live == <<cards, entries, mem>>
vars == <<store, live, cmd, cred, commit, outdated, task, bounds, owners, raced>>

Rows == [name : Names, id : Ids, named : BOOLEAN]
Layouts == [layouts : SUBSET Ids, detected : SUBSET Ids]
Idle == [at |-> "idle"]
TaskStates ==
  {Idle}
    \cup [at : {"card", "entry", "added", "forget", "bury", "drop", "removed"},
          name : Names, id : Ids]
    \cup [at : {"key", "write", "noted"}, name : Names, id : Ids, saves : BOOLEAN]
    \cup [at : {"rename"}, seen : SUBSET Rows]
    \cup [at : {"probe"}, ids : SUBSET Ids, busy : BOOLEAN]
    \cup [at : {"apply"}, found : SUBSET Ids, absent : SUBSET Ids, busy : BOOLEAN]

TypeOK ==
  /\ rows \subseteq Rows /\ graveyard \subseteq Names \X Ids
  /\ keys \in [Ids -> Names \cup {None}] /\ cards \in [Ids -> Names \cup {None}]
  /\ disk \in Layouts /\ mem \in Layouts
  /\ entries \subseteq Ids /\ raced \subseteq Ids /\ outdated \subseteq Tasks
  /\ cmd \in Tasks \cup {None} /\ cred \in Tasks \cup {None} /\ commit \in Tasks \cup {None}
  /\ task \in [Tasks -> TaskStates]
  /\ bounds \in [commands : 0..MaxCommands, failures : 0..MaxFailures, launches : 0..MaxLaunches]
  /\ owners \in [Ids -> SUBSET Names]

Cards == {i \in Ids : cards[i] # None}
Recorded == {r.id : r \in rows}
Row(n, i) == {r \in rows : r.name = n /\ r.id = i}
Spend(kind) == bounds' = [bounds EXCEPT ![kind] = @ + 1]
CanFail == bounds.failures < MaxFailures
\* A task that is idle takes up a command.
Begins(t) == task[t] = Idle /\ bounds.commands < MaxCommands /\ Spend("commands")
Goes(t, state) == task' = [task EXCEPT ![t] = state]

\* normalize_with_persisted_accounts: a layout for each card, none for ids that are neither
\* registered nor recorded; only registered ids stay detected.
Normalized(s) == [layouts |-> (s.layouts \cap (Cards \cup Recorded)) \cup Cards,
                  detected |-> s.detected \cap Cards]

Init ==
  /\ rows = {} /\ graveyard = {}
  /\ keys = [i \in Ids |-> None] /\ cards = [i \in Ids |-> None]
  /\ disk = [layouts |-> {}, detected |-> {}] /\ mem = disk
  /\ entries = {} /\ raced = {} /\ outdated = {}
  /\ cmd = None /\ cred = None /\ commit = None
  /\ task = [t \in Tasks |-> Idle]
  /\ bounds = [commands |-> 0, failures |-> 0, launches |-> 0]
  /\ owners = [i \in Ids |-> {}]

----------------------------------------------------------------------------
(* add_api_key_account *)

\* The attempts of allocate_api_key_account, in order.
Suffix(n, k) == IF k = 0 THEN Base[n] ELSE Salts[k]
Attempts == 0..Len(Salts)
Refused(n, i) == <<n, i>> \in graveyard \/ i \in Recorded
\* A recorded account keeps its id; a new one gets the first suffix not refused.
Allocated(n) ==
  LET kept == {r.id : r \in {r \in rows : r.name = n}} IN
    IF kept # {} THEN kept
    ELSE {Suffix(n, k) : k \in {k \in Attempts :
            /\ ~Refused(n, Suffix(n, k))
            /\ \A j \in Attempts : j < k => Refused(n, Suffix(n, j))}}

\* The record is made before the command lock is asked for.
AddAllocate(t, n, i) ==
  /\ Begins(t) /\ i \in Allocated(n)
  /\ rows' = IF \E r \in rows : r.name = n THEN rows
             ELSE rows \cup {[name |-> n, id |-> i, named |-> TRUE]}
  /\ owners' = [owners EXCEPT ![i] = @ \cup {n}]
  /\ Goes(t, [at |-> "card", name |-> n, id |-> i])
  /\ UNCHANGED <<graveyard, keys, disk, live, cmd, cred, commit, outdated, raced>>
\* RacedBy 1: a removal took the record away after the allocation found it.
AddCard(t) ==
  LET n == task[t].name  i == task[t].id IN
  /\ task[t].at = "card" /\ cmd = None
  /\ \/ /\ i \in Cards
        /\ Goes(t, Idle)
        /\ UNCHANGED <<cards, cmd, raced>>
     \/ /\ i \notin Cards
        /\ cards' = [cards EXCEPT ![i] = n]
        /\ cmd' = t
        /\ raced' = IF Row(n, i) = {} THEN raced \cup {i} ELSE raced
        /\ Goes(t, [task[t] EXCEPT !.at = "entry"])
  /\ UNCHANGED <<store, entries, mem, cred, commit, outdated, bounds, owners>>
AddEntry(t) ==
  /\ task[t].at = "entry"
  /\ entries' = entries \cup {task[t].id}
  /\ Goes(t, [task[t] EXCEPT !.at = "added"])
  /\ UNCHANGED <<store, cards, mem, cmd, cred, commit, outdated, bounds, owners, raced>>

\* reconcile_registry_change
Reconciled == mem' = Normalized(mem) /\ disk' = IF mem' = mem THEN disk ELSE mem'

AddReconcile(t) ==
  /\ task[t].at = "added" /\ commit = None
  /\ Reconciled
  /\ cmd' = None /\ Goes(t, Idle)
  /\ UNCHANGED <<rows, graveyard, keys, cards, entries, cred, commit, outdated, bounds, owners, raced>>
\* Faulty variant of AddFails: the rollback forgets the refresh service.
AddFailsHalf(t) ==
  LET i == task[t].id IN
  /\ task[t].at = "entry" \/ (task[t].at = "added" /\ commit = None)
  /\ CanFail /\ Spend("failures")
  /\ cards' = [cards EXCEPT ![i] = None]
  /\ cmd' = None /\ Goes(t, Idle)
  /\ UNCHANGED <<store, entries, mem, cred, commit, outdated, owners, raced>>
\* register_provider or the settings fail: the runtime is rolled back, the record stays.
AddFails(t) ==
  LET i == task[t].id IN
  /\ task[t].at = "entry" \/ (task[t].at = "added" /\ commit = None)
  /\ CanFail /\ Spend("failures")
  /\ entries' = entries \ {i}
  /\ cards' = [cards EXCEPT ![i] = None]
  /\ cmd' = None /\ Goes(t, Idle)
  /\ UNCHANGED <<store, mem, cred, commit, outdated, owners, raced>>

----------------------------------------------------------------------------
(* remove_api_key_account *)

\* Offered by a card; the record is looked up by the id.
RemoveFind(t, r) ==
  /\ Begins(t) /\ r \in rows /\ r.id \in Cards
  /\ Goes(t, [at |-> "forget", name |-> r.name, id |-> r.id])
  /\ UNCHANGED <<store, live, cmd, cred, commit, outdated, owners, raced>>
\* Faulty variant of RemoveFails: a failing credential store does not end the command.
RemoveFailsOn(t) ==
  /\ task[t].at \in {"forget", "bury"}
  /\ CanFail /\ Spend("failures")
  /\ Goes(t, IF task[t].at = "forget" THEN [task[t] EXCEPT !.at = "bury"] ELSE Idle)
  /\ UNCHANGED <<store, live, cmd, cred, commit, outdated, owners, raced>>
\* A failure of the credential store or of the database ends the command.
RemoveFails(t) ==
  /\ task[t].at \in {"forget", "bury"}
  /\ CanFail /\ Spend("failures")
  /\ Goes(t, Idle)
  /\ UNCHANGED <<store, live, cmd, cred, commit, outdated, owners, raced>>
RemoveKey(t) ==
  /\ task[t].at = "forget"
  /\ keys' = [keys EXCEPT ![task[t].id] = None]
  /\ Goes(t, [task[t] EXCEPT !.at = "bury"])
  /\ UNCHANGED <<rows, graveyard, disk, live, cmd, cred, commit, outdated, bounds, owners, raced>>
\* delete_provider_account_by_identity, a transaction
RemoveRow(t) ==
  LET n == task[t].name  i == task[t].id IN
  /\ task[t].at = "bury"
  /\ rows' = rows \ Row(n, i)
  /\ graveyard' = graveyard \cup {<<n, i>>}
  /\ Goes(t, [task[t] EXCEPT !.at = "drop"])
  /\ UNCHANGED <<keys, disk, live, cmd, cred, commit, outdated, bounds, owners, raced>>
RemoveCard(t) ==
  /\ task[t].at = "drop" /\ cmd = None
  /\ cmd' = t
  /\ cards' = [cards EXCEPT ![task[t].id] = None]
  /\ entries' = entries \ {task[t].id}
  /\ Goes(t, [task[t] EXCEPT !.at = "removed"])
  /\ UNCHANGED <<store, mem, cred, commit, outdated, bounds, owners, raced>>
RemoveReconcile(t) ==
  /\ task[t].at = "removed" /\ commit = None
  /\ Reconciled
  /\ cmd' = None /\ Goes(t, Idle)
  /\ UNCHANGED <<rows, graveyard, keys, cards, entries, cred, commit, outdated, bounds, owners, raced>>
\* drop_account_layout takes the layout out of memory, not off the disk.
RemoveUnsaved(t) ==
  /\ task[t].at = "removed" /\ commit = None
  /\ CanFail /\ Spend("failures")
  /\ mem' = [layouts |-> mem.layouts \ {task[t].id}, detected |-> mem.detected \ {task[t].id}]
  /\ cmd' = None /\ Goes(t, Idle)
  /\ UNCHANGED <<store, cards, entries, cred, commit, outdated, owners, raced>>

----------------------------------------------------------------------------
(* save_provider_api_key and delete_provider_api_key *)

\* The command holds the runtime from here on, whatever becomes of the card.
KeyAsk(t, i, saves) ==
  /\ Begins(t) /\ i \in Cards
  /\ Goes(t, [at |-> "key", name |-> cards[i], id |-> i, saves |-> saves])
  /\ UNCHANGED <<store, live, cmd, cred, commit, outdated, owners, raced>>
\* Faulty variant of KeyBegin: the change of a key is not counted.
KeyBeginUncounted(t) ==
  /\ task[t].at = "key" /\ cred = None
  /\ cred' = t
  /\ Goes(t, [task[t] EXCEPT !.at = "write"])
  /\ UNCHANGED <<store, live, cmd, commit, outdated, bounds, owners, raced>>
\* record_provider_credential_mutation, before the key is written
KeyBegin(t) ==
  /\ task[t].at = "key" /\ cred = None
  /\ cred' = t
  /\ outdated' = Tasks
  /\ Goes(t, [task[t] EXCEPT !.at = "write"])
  /\ UNCHANGED <<store, live, cmd, commit, bounds, owners, raced>>
\* RacedBy 2: the key is written for an account that is being removed or is gone.
KeyWrite(t) ==
  LET n == task[t].name  i == task[t].id
      leaving == \E u \in Tasks : task[u].at = "bury" /\ task[u].id = i IN
  /\ task[t].at = "write"
  /\ keys' = [keys EXCEPT ![i] = IF task[t].saves THEN n ELSE None]
  /\ raced' = IF task[t].saves /\ (leaving \/ Row(n, i) = {}) THEN raced \cup {i} ELSE raced
  /\ Goes(t, [task[t] EXCEPT !.at = "noted"])
  /\ UNCHANGED <<rows, graveyard, disk, live, cmd, cred, commit, outdated, bounds, owners>>
KeyFails(t) ==
  /\ task[t].at = "write"
  /\ CanFail /\ Spend("failures")
  /\ cred' = None /\ Goes(t, Idle)
  /\ UNCHANGED <<store, live, cmd, commit, outdated, owners, raced>>
\* reconcile_provider_credential_state, under both locks
KeyReconcile(t) ==
  LET i == task[t].id IN
  /\ task[t].at = "noted" /\ cmd = None /\ commit = None
  /\ \/ /\ i \in mem.layouts
        /\ mem' = [mem EXCEPT !.detected = IF task[t].saves THEN @ \cup {i} ELSE @ \ {i}]
        /\ disk' = mem'
        /\ UNCHANGED bounds
     \/ /\ i \in mem.layouts /\ CanFail /\ Spend("failures")
        /\ UNCHANGED <<mem, disk>>
     \/ /\ i \notin mem.layouts
        /\ UNCHANGED <<mem, disk, bounds>>
  /\ cred' = None /\ Goes(t, Idle)
  /\ UNCHANGED <<rows, graveyard, keys, cards, entries, cmd, commit, outdated, owners, raced>>

----------------------------------------------------------------------------
(* The resets of the settings and the detection that follows them or a launch *)

\* reset_detection_plan; busy: a key is being changed while the plan is made.
Planned(t) ==
  /\ Goes(t, [at |-> "probe", ids |-> Cards, busy |-> cred # None])
  /\ outdated' = outdated \ {t}
ResetLayouts == mem' = [layouts |-> Cards, detected |-> mem.detected \cap Cards] /\ disk' = mem'

\* reset_customization
ResetCustomization(t) ==
  /\ Begins(t) /\ cmd = None /\ commit = None
  /\ ResetLayouts /\ Planned(t)
  /\ UNCHANGED <<rows, graveyard, keys, cards, entries, cmd, cred, commit, owners, raced>>
\* reset_all_settings reads every record under the commit lock ...
ResetLoad(t) ==
  /\ Begins(t) /\ cmd = None /\ commit = None
  /\ cmd' = t /\ commit' = t
  /\ Goes(t, [at |-> "rename", seen |-> rows])
  /\ UNCHANGED <<store, live, cred, outdated, owners, raced>>
\* ... and writes each back without its custom name, an account's record as any other.
\* RacedBy 3: a record that was deleted in between comes back.
ResetSave(t) ==
  LET seen == {<<r.name, r.id>> : r \in task[t].seen} IN
  /\ task[t].at = "rename"
  /\ rows' = {r \in rows : <<r.name, r.id>> \notin seen}
               \cup {[r EXCEPT !.named = FALSE] : r \in task[t].seen}
  /\ raced' = raced \cup {r.id : r \in {r \in task[t].seen : Row(r.name, r.id) = {}}}
  /\ ResetLayouts /\ Planned(t)
  /\ cmd' = None /\ commit' = None
  /\ UNCHANGED <<graveyard, keys, cards, entries, cred, bounds, owners>>
ResetFails(t) ==
  /\ task[t].at = "rename"
  /\ CanFail /\ Spend("failures")
  /\ cmd' = None /\ commit' = None /\ Goes(t, Idle)
  /\ UNCHANGED <<store, live, cred, outdated, owners, raced>>

\* detect_local_credentials: a probe that reaches its time limit tells nothing.
DetectProbe(t, unknown) ==
  LET probed == (task[t].ids \cap Cards) \ unknown IN
  /\ task[t].at = "probe"
  /\ IF unknown = {} THEN UNCHANGED bounds ELSE CanFail /\ Spend("failures")
  /\ Goes(t, [at |-> "apply", busy |-> task[t].busy,
              found |-> {i \in probed : keys[i] # None},
              absent |-> {i \in probed : keys[i] = None}])
  /\ UNCHANGED <<store, live, cmd, cred, commit, outdated, owners, raced>>
\* apply_credential_detection, under the command lock
WithProbes(t) ==
  IF t \in outdated THEN mem
  ELSE [mem EXCEPT !.detected = (@ \cup task[t].found) \ task[t].absent]
DetectApply(t) ==
  /\ task[t].at = "apply" /\ cmd = None /\ commit = None
  /\ mem' = Normalized(WithProbes(t))
  /\ disk' = IF mem' = mem THEN disk ELSE mem'
  /\ outdated' = IF mem'.detected = mem.detected THEN outdated ELSE Tasks
  /\ Goes(t, Idle)
  /\ UNCHANGED <<rows, graveyard, keys, cards, entries, cmd, cred, commit, bounds, owners, raced>>
DetectUnsaved(t) ==
  /\ task[t].at = "apply" /\ cmd = None /\ commit = None
  /\ CanFail /\ Spend("failures")
  /\ Goes(t, Idle)
  /\ UNCHANGED <<store, live, cmd, cred, commit, outdated, owners, raced>>

\* The program ends at any point; the next launch registers the recorded accounts that have a
\* name (the first record of an id decides), normalises the settings and starts a detection.
Launched(named) == [i \in Ids |-> IF i \in DOMAIN named THEN named[i].name ELSE None]
FirstRows == {f \in [Recorded -> rows] : \A i \in Recorded : f[i].id = i}
Relaunch(t, first) ==
  LET shown == {i \in Recorded : first[i].named} IN
  /\ bounds.launches < MaxLaunches /\ Spend("launches")
  /\ first \in FirstRows
  /\ cards' = Launched([i \in shown |-> first[i]])
  /\ entries' = shown
  /\ mem' = [layouts |-> (disk.layouts \cap Recorded) \cup shown,
             detected |-> disk.detected \cap shown]
  /\ disk' = mem'
  /\ cmd' = None /\ cred' = None /\ commit' = None /\ outdated' = {}
  /\ task' = [u \in Tasks |-> IF u = t THEN [at |-> "probe", ids |-> shown, busy |-> FALSE]
                              ELSE Idle]
  /\ UNCHANGED <<rows, graveyard, keys, owners, raced>>

Add(t) == (\E n \in Names, i \in Ids : AddAllocate(t, n, i))
            \/ AddCard(t) \/ AddEntry(t) \/ AddReconcile(t) \/ AddFails(t)
Remove(t) == (\E r \in rows : RemoveFind(t, r)) \/ RemoveFails(t) \/ RemoveKey(t)
               \/ RemoveRow(t) \/ RemoveCard(t) \/ RemoveReconcile(t) \/ RemoveUnsaved(t)
ChangeKey(t) == (\E i \in Ids, saves \in BOOLEAN : KeyAsk(t, i, saves)) \/ KeyBegin(t)
                  \/ KeyWrite(t) \/ KeyFails(t) \/ KeyReconcile(t)
Reset(t) == ResetCustomization(t) \/ ResetLoad(t) \/ ResetSave(t) \/ ResetFails(t)
Detect(t) == (\E unknown \in SUBSET Ids : DetectProbe(t, unknown))
               \/ DetectApply(t) \/ DetectUnsaved(t)
Next == \E t \in Tasks : \/ Add(t) \/ Remove(t) \/ ChangeKey(t) \/ Reset(t) \/ Detect(t)
                         \/ \E first \in FirstRows : Relaunch(t, first)

Spec == Init /\ [][Next]_vars

----------------------------------------------------------------------------
\* The record is deleted, the card not yet.
Leaving(i) == \E t \in Tasks : task[t].at = "drop" /\ task[t].id = i

\* While no command holds the lock, the registry, the refresh service and the settings agree:
\* the service has state for exactly the registered cards, each card has a layout, and a layout
\* without a card belongs to a recorded account or one whose removal is under way. No failure
\* of a command leaves a ghost card or a card that cannot be configured (the rollback of
\* add_api_key_account, drop_account_layout).
CardsAgree ==
  cmd = None => /\ entries = Cards
                /\ Cards \subseteq mem.layouts
                /\ mem.layouts \subseteq Cards \cup Recorded \cup {i \in Ids : Leaving(i)}

\* A key in the credential store belongs to the account that is recorded for the id: no failed,
\* interrupted or repeated command loses track of a secret or hands it to another account, unless
\* the key was saved while the account was being removed (remove_api_key_account takes no
\* credential lock) or the card had lost its record.
KeysAreOwned ==
  \A i \in Ids \ raced : keys[i] # None => Row(keys[i], i) # {}

\* apply_credential_detection never marks a card keyless whose key is in the store: a probe from
\* before a key was saved is discarded by the revision. The exception is a plan made while a
\* key was being changed, whose revision the command had already counted.
StaleProbeDiscarded ==
  [][\A t \in Tasks : DetectApply(t) /\ ~task[t].busy =>
       \A i \in mem.detected \ mem'.detected : keys[i] = None \/ i \notin Cards]_vars

\* "the account is graveyarded so its id cannot be reallocated to a different logical account"
\* (remove_api_key_account): an id is only ever given to one name.
RetiredIdsStayRetired == \A i \in Ids : Cardinality(owners[i]) <= 1
=============================================================================
