------------------------------- MODULE UsageLogs -------------------------------
(* The scan of Codex's session logs: src-tauri/src/providers/codex/local_usage.rs, *)
(* log_usage.rs and the log cache of storage.rs.                                   *)
(* The CLI appends to its sessions' files, forks a session (the child's file       *)
(* begins with a replay of its parent's lines) and moves files to the archive,     *)
(* while scans, one of which may be left over from a fetch that timed out, parse   *)
(* the files or take the events that an earlier scan cached under the file's size. *)
(* A turn uses one token; a line and an event carry the second they were written.  *)
EXTENDS Integers, SequencesExt

CONSTANTS MaxSessions, Scanners, MaxTime
Sessions == 1..MaxSessions

VARIABLES
  now,      \* the clock, in seconds; the CLI writes at most one line at a time
  log,      \* log[s]: the lines of session s
  places,   \* places[s]: the directories that hold its file
  begun,    \* the sessions that have begun a task of their own
  spent,    \* the tokens used so far
  cache,    \* log_file_cache: [size, events] by path, or NoRow
  scan      \* scan[w]: pc, paths to go, all paths, the one at hand and its size, its events,
            \* the events so far by path, spent at its beginning, and whether a file was missed
vars == <<now, log, places, begun, spent, cache, scan>>

Directories == {"active", "archived"}
Paths == Sessions \X Directories
\* The order of discover_session_files.
Before(p, q) == \/ p[2] = "active" /\ q[2] = "archived"
                \/ p[2] = q[2] /\ p[1] < q[1]
NoRow == [size |-> -1, events |-> {}]
NoPath == <<>>
Idle == [pc |-> "idle", todo |-> {}, seen |-> {}, path |-> NoPath, size |-> 0, parsed |-> {},
         events |-> {}, from |-> 0, missed |-> FALSE]

\* A first session has ended a turn.
FirstSession == << [kind |-> "meta", child |-> FALSE, at |-> 1],
                   [kind |-> "task", started |-> 1, at |-> 1],
                   [kind |-> "count", at |-> 1, total |-> 1, last |-> 1] >>
Init ==
  /\ now = 1 /\ begun = {1} /\ spent = 1
  /\ log = [s \in Sessions |-> IF s = 1 THEN FirstSession ELSE <<>>]
  /\ places = [s \in Sessions |-> IF s = 1 THEN {"active"} ELSE {}]
  /\ cache = [p \in Paths |-> NoRow]
  /\ scan = [w \in Scanners |-> Idle]

-----------------------------------------------------------------------------
(* parse_jsonl. A line is a session_meta (child, and its time at, 0 for none), a     *)
(* task_started, or a token_count with the running total and, if last > 0, the turn's *)
(* own usage. The state of the parser: the gate of a child's replay, the total of the *)
(* line before (-1 for none), the events.                                             *)
Open == [kind |-> "open", at |-> 0]

Clears(gate, line) ==
  IF gate.kind = "startedAt" THEN line.started >= gate.at ELSE line.started >= line.at

ParseMeta(p, line) ==
  IF ~line.child THEN p
  ELSE [p EXCEPT !.gate = IF line.at = 0 THEN [kind |-> "selfTimed", at |-> 0]
                                         ELSE [kind |-> "startedAt", at |-> line.at]]

ParseTask(p, line) ==
  IF p.gate # Open /\ Clears(p.gate, line) THEN [p EXCEPT !.gate = Open] ELSE p

Usage(p, line) ==
  IF line.last > 0 THEN line.last
  ELSE IF p.previous = -1 THEN line.total ELSE line.total - p.previous

\* Faulty variant of ParseCount: the replay does not set the baseline.
ParseUnseeded(p, line) ==
  IF p.gate # Open \/ line.total = p.previous THEN p
  ELSE [p EXCEPT !.previous = line.total,
                 !.events = @ \cup {[at |-> line.at, tokens |-> Usage(p, line)]}]

\* A replayed line sets the baseline only; a repeated total is no usage.
ParseCount(p, line) ==
  IF p.gate # Open THEN [p EXCEPT !.previous = line.total]
  ELSE IF line.total = p.previous THEN p
  ELSE [p EXCEPT !.previous = line.total,
                 !.events = @ \cup {[at |-> line.at, tokens |-> Usage(p, line)]}]

ParseLine(p, line) ==
  CASE line.kind = "meta" -> ParseMeta(p, line)
    [] line.kind = "task" -> ParseTask(p, line)
    [] line.kind = "count" -> ParseCount(p, line)
Parse(lines) ==
  FoldLeft(ParseLine, [gate |-> Open, previous |-> -1, events |-> {}], lines).events

-----------------------------------------------------------------------------
(* The CLI.                                                                          *)
Counts(s) == {i \in 1..Len(log[s]) : log[s][i].kind = "count"}
LastCount(s) == log[s][CHOOSE i \in Counts(s) : \A j \in Counts(s) : j <= i]
Running(s) == IF Counts(s) = {} THEN 0 ELSE LastCount(s).total
Appending(s, line) ==
  /\ places[s] = {"active"} /\ now < MaxTime
  /\ now' = now + 1
  /\ log' = [log EXCEPT ![s] = Append(@, line)]
  /\ UNCHANGED <<places, cache, scan>>

StartSession(s) ==
  /\ log[s] = <<>> /\ now < MaxTime
  /\ now' = now + 1
  /\ log' = [log EXCEPT ![s] = <<[kind |-> "meta", child |-> FALSE, at |-> now']>>]
  /\ places' = [places EXCEPT ![s] = {"active"}]
  /\ UNCHANGED <<begun, spent, cache, scan>>

TaskStarts(s) ==
  /\ Appending(s, [kind |-> "task", started |-> now + 1, at |-> now + 1])
  /\ log[s] # <<>>
  /\ begun' = begun \cup {s}
  /\ UNCHANGED spent

\* A turn of the task ends; older versions write the total only.
TurnEnds(s) ==
  /\ s \in begun
  /\ \E last \in {0, 1} :
       Appending(s, [kind |-> "count", at |-> now + 1, total |-> Running(s) + 1, last |-> last])
  /\ spent' = spent + 1
  /\ UNCHANGED begun

\* The same figures are written again.
Repeats(s) ==
  /\ Counts(s) # {}
  /\ Appending(s, [LastCount(s) EXCEPT !.at = now + 1])
  /\ UNCHANGED <<begun, spent>>

\* The parent's lines after its first are replayed; they keep their time or get the fork's.
Forks(s, child) ==
  /\ log[child] = <<>> /\ places[s] = {"active"} /\ now < MaxTime
  /\ now' = now + 1
  /\ \E timed, rewritten \in BOOLEAN :
       LET meta == [kind |-> "meta", child |-> TRUE, at |-> IF timed THEN now' ELSE 0]
           Replayed(line) == IF rewritten THEN [line EXCEPT !.at = now'] ELSE line
           body == Tail(log[s])
       IN log' = [log EXCEPT ![child] =
                    <<meta>> \o [i \in 1..Len(body) |-> Replayed(body[i])]]
  /\ places' = [places EXCEPT ![child] = {"active"}]
  /\ UNCHANGED <<begun, spent, cache, scan>>

\* A session is archived: copied, then removed.
Archives(s) ==
  /\ "active" \in places[s]
  /\ places' = [places EXCEPT ![s] = IF "archived" \in @ THEN {"archived"} ELSE Directories]
  /\ UNCHANGED <<now, log, begun, spent, cache, scan>>

-----------------------------------------------------------------------------
(* A scan.                                                                           *)
Exists(p) == p[2] \in places[p[1]]
Lines(p) == log[p[1]]
SetScan(w, state) == scan' = [scan EXCEPT ![w] = state]
Dropped(p) == cache' = [cache EXCEPT ![p] = NoRow]

\* discover_session_files: of a session that is found twice under one relative path the active
\* file is taken.
Discover(w) ==
  /\ scan[w].pc = "idle"
  /\ \E found \in {{p \in Paths : Exists(p)},
                   {p \in Paths : Exists(p) /\ ~(p[2] = "archived" /\ Exists(<<p[1], "active">>))}} :
       SetScan(w, [Idle EXCEPT !.pc = "next", !.todo = found, !.seen = found, !.from = spent])
  /\ UNCHANGED <<now, log, places, begun, spent, cache>>

Taken(w, p, events) ==
  [scan[w] EXCEPT !.pc = "next", !.todo = @ \ {p}, !.path = NoPath, !.size = 0, !.parsed = {},
                  !.events = @ \cup {<<p, e>> : e \in events}]
Missed(w, p) ==
  [scan[w] EXCEPT !.pc = "next", !.todo = @ \ {p}, !.path = NoPath, !.size = 0, !.missed = TRUE]
At(w, p) ==
  /\ scan[w].pc = "next"
  /\ p \in scan[w].todo /\ \A q \in scan[w].todo \ {p} : Before(p, q)

\* load_or_parse_log: the metadata, and the row that fits them.
Gone(w, p) ==
  /\ At(w, p)
  /\ ~Exists(p)
  /\ Dropped(p)
  /\ SetScan(w, Missed(w, p))
  /\ UNCHANGED <<now, log, places, begun, spent>>

Hit(w, p) ==
  /\ At(w, p)
  /\ Exists(p) /\ cache[p].size = Len(Lines(p))
  /\ SetScan(w, Taken(w, p, cache[p].events))
  /\ UNCHANGED <<now, log, places, begun, spent, cache>>

Miss(w, p) ==
  /\ At(w, p)
  /\ Exists(p) /\ cache[p].size # Len(Lines(p))
  /\ SetScan(w, [scan[w] EXCEPT !.pc = "read", !.path = p, !.size = Len(Lines(p))])
  /\ UNCHANGED <<now, log, places, begun, spent, cache>>

\* The file cannot be opened, or reading it fails half way.
ReadFails(w) ==
  LET p == scan[w].path IN
  /\ scan[w].pc = "read"
  /\ Dropped(p)
  /\ SetScan(w, Missed(w, p))
  /\ UNCHANGED <<now, log, places, begun, spent>>

Reads(w) ==
  /\ scan[w].pc = "read" /\ Exists(scan[w].path)
  /\ SetScan(w, [scan[w] EXCEPT !.pc = "save", !.parsed = Parse(Lines(scan[w].path))])
  /\ UNCHANGED <<now, log, places, begun, spent, cache>>

\* Faulty variant of Saves: the row gets the file's size of now.
SavesLate(w) ==
  LET p == scan[w].path IN
  /\ scan[w].pc = "save"
  /\ cache' = [cache EXCEPT ![p] = [size |-> Len(Lines(p)), events |-> scan[w].parsed]]
  /\ SetScan(w, Taken(w, p, scan[w].parsed))
  /\ UNCHANGED <<now, log, places, begun, spent>>

\* save_log_events, under the size that was read before the file.
Saves(w) ==
  LET p == scan[w].path IN
  /\ scan[w].pc = "save"
  /\ cache' = [cache EXCEPT ![p] = [size |-> scan[w].size, events |-> scan[w].parsed]]
  /\ SetScan(w, Taken(w, p, scan[w].parsed))
  /\ UNCHANGED <<now, log, places, begun, spent>>

\* prune_log_events
Prune(w) ==
  /\ scan[w].pc = "next" /\ scan[w].todo = {}
  /\ cache' = [p \in Paths |-> IF p \in scan[w].seen THEN cache[p] ELSE NoRow]
  /\ SetScan(w, [scan[w] EXCEPT !.pc = "report"])
  /\ UNCHANGED <<now, log, places, begun, spent>>

Sum(events) == SumFunction([e \in events |-> e[2].tokens])

\* Faulty variant of Distinct: every file's events count.
AllEvents(events) == events

\* aggregate_into: an event that was seen in another file is skipped.
Distinct(events) ==
  {pe \in events : pe = CHOOSE other \in events : other[2] = pe[2]}
Reported(w) == Sum(Distinct(scan[w].events))

ScanEnds(w) ==
  /\ scan[w].pc = "report"
  /\ SetScan(w, Idle)
  /\ UNCHANGED <<now, log, places, begun, spent, cache>>

Next ==
  \/ \E s \in Sessions : \/ StartSession(s) \/ TaskStarts(s) \/ TurnEnds(s) \/ Repeats(s)
                         \/ Archives(s) \/ \E child \in Sessions : Forks(s, child)
  \/ \E w \in Scanners : \/ Discover(w) \/ ReadFails(w) \/ Reads(w) \/ Saves(w) \/ Prune(w)
                         \/ ScanEnds(w)
                         \/ \E p \in Paths : Gone(w, p) \/ Hit(w, p) \/ Miss(w, p)
Spec == Init /\ [][Next]_vars

-----------------------------------------------------------------------------
\* What a scan reports lies between what was used when it began and what has been used now, if it
\* missed no file: no turn is counted twice or left out, through repeated totals, forks and copies
\* in the archive (parse_jsonl, aggregate_into).
TurnsCountOnce ==
  \A w \in Scanners : scan[w].pc = "report" =>
    /\ Reported(w) <= spent
    /\ ~scan[w].missed => scan[w].from <= Reported(w)
=================================================================================
