------------------------------- MODULE Updates -------------------------------
(***************************************************************************)
(* New versions of the program (update_check.py, updater.py): the check at *)
(* start whether the package index has a newer release, with its cache;    *)
(* the release notes of the versions since the last start; and the update  *)
(* command, which on Windows is handed to a script that waits for the      *)
(* process to end.  Both files are read and written in place by whatever   *)
(* processes are starting, of whatever versions, and may be cut short.     *)
(***************************************************************************)
EXTENDS Integers, FiniteSetsExt

CONSTANTS
  Slots,       \* how many programs may be starting at the same time
  Versions,    \* versions, 0 standing for none
  Interval,    \* UPDATE_CHECK_INTERVAL
  Settings,    \* how the starts are made: [disabled, printing]
  MaxTime,     \* bound: the clock
  MaxStarts,   \* bound: starts
  MaxChanges   \* bound: releases made or withdrawn, reinstallations and updates

ASSUME UpdatesAssumption ==
  /\ Versions \subseteq Nat \ {0} /\ 1 \in Versions /\ Settings \subseteq [disabled : BOOLEAN, printing : BOOLEAN]
  /\ {Slots, Interval, MaxTime, MaxStarts, MaxChanges} \subseteq Nat

VARIABLES
  setting,    \* the check is disabled in the environment, the starts are in print mode
  now,        \* the time
  releases,   \* versions on the index: [version, kind], "stable" or "withheld"
  latestAt,   \* for each time, the releases that were the latest then
  installed,  \* the version installed
  changes,    \* how often the two changed
  cache,      \* update-check.json: [checked, latest], [checked |-> -1] when there is none to read
  lastSeen,   \* release-notes-state.json: a version, 0 when there is none, -1 when it is cut short
  starts,     \* starts so far
  start,      \* the latest start of each slot: [at, version, time, latest, previous]
  notice,     \* each start's update notice: the version it names, 0 for none
  first,      \* the first version that recorded itself as seen
  reached,    \* the latest version that started completely
  read,       \* versions whose notes the user was shown
  broken,     \* a start was killed or failed after it recorded itself, or a record was cut short
  update      \* the update command: [at, target, waits, staged]

updateVars == <<setting, now, releases, latestAt, installed, changes, cache, lastSeen, starts, start, notice, first,
                reached, read, broken, update>>
starting == <<cache, lastSeen, starts, start, notice, first, reached, read, broken>>

NoCache == [checked |-> -1, latest |-> 0]
OverAt(time) == [at |-> "over", version |-> 0, time |-> time, latest |-> 0, previous |-> 0]
NoUpdate == [at |-> "none", target |-> 0, waits |-> FALSE, staged |-> {}]

\* fetch_latest_pypi_version, _stable_release_versions: the highest stable release with files.
Latest(index) == Max({0} \cup {r.version : r \in {s \in index : s.kind = "stable"}})

UpdatesInit ==
  /\ setting \in Settings /\ now = 0 /\ releases = {[version |-> 1, kind |-> "stable"]}
  /\ latestAt = [t \in 0 .. MaxTime |-> IF t = 0 THEN {1} ELSE {}]
  /\ installed = 1 /\ changes = 0 /\ cache = NoCache /\ lastSeen = 0
  /\ starts = 0 /\ start = [p \in 1 .. Slots |-> OverAt(0)] /\ notice = [p \in 1 .. Slots |-> 0]
  /\ first = 0 /\ reached = 0 /\ read = {} /\ broken = FALSE /\ update = NoUpdate

\* --- around the program ---
\* Time matters to the check only.
Tick ==
  /\ now < MaxTime /\ ~setting.disabled /\ now' = now + 1
  /\ latestAt' = [latestAt EXCEPT ![now + 1] = {Latest(releases)}]
  /\ UNCHANGED <<setting, releases, installed, changes, starting, update>>

\* A release appears, or is withheld: a preliminary one, one without files, one deleted.
Release(v, kind) ==
  /\ changes < MaxChanges /\ changes' = changes + 1
  /\ releases' = {r \in releases : r.version # v} \cup {[version |-> v, kind |-> kind]}
  /\ latestAt' = [latestAt EXCEPT ![now] = @ \cup {Latest(releases')}]
  /\ UNCHANGED <<setting, now, installed, starting, update>>

Reinstall(v) ==
  /\ changes < MaxChanges /\ changes' = changes + 1 /\ installed' = v /\ v # installed
  /\ UNCHANGED <<setting, now, releases, latestAt, starting, update>>

\* --- startup_update_notice ---
At(p, step) == start[p].at = step
Outside == UNCHANGED <<setting, now, releases, latestAt, installed, changes, update>>
Around == Outside /\ UNCHANGED starts
StateKept == UNCHANGED <<lastSeen, first, reached, read, broken>>

\* _update_check_disabled, _cached_update_check_result: the time is taken first of all.
CacheIsFresh == cache.checked >= 0 /\ now - cache.checked <= Interval
Check(p) ==
  /\ At(p, "over") /\ \A q \in 1 .. p - 1 : ~At(q, "over")   \* a start takes the first free slot
  /\ starts < MaxStarts /\ starts' = starts + 1
  /\ start' = [start EXCEPT ![p] =
       [at |-> CASE setting.disabled -> "notes" [] ~setting.disabled /\ CacheIsFresh -> "notice" [] OTHER -> "fetch",
        version |-> installed, time |-> now, latest |-> IF CacheIsFresh THEN cache.latest ELSE 0,
        previous |-> 0]]
  /\ notice' = [notice EXCEPT ![p] = 0] /\ UNCHANGED cache /\ StateKept /\ Outside
Fetch(p) ==
  /\ At(p, "fetch")
  /\ \/ start' = [start EXCEPT ![p].at = "notes"]
     \/ start' = [start EXCEPT ![p].at = "store", ![p].latest = Latest(releases)]
  /\ UNCHANGED <<cache, notice>> /\ StateKept /\ Around

CheckedAt(p) == start[p].time

\* _write_update_check_cache: the file is emptied and then written; failing is ignored.
EmptyCache(p) ==
  /\ At(p, "store") /\ cache' \in {NoCache, cache}
  /\ start' = [start EXCEPT ![p].at = IF cache' = NoCache THEN "write" ELSE "notice"]
  /\ UNCHANGED notice /\ StateKept /\ Around
WriteCache(p) ==
  /\ At(p, "write") /\ start' = [start EXCEPT ![p].at = "notice"]
  /\ cache' \in {cache, [checked |-> CheckedAt(p), latest |-> start[p].latest]}
  /\ UNCHANGED notice /\ StateKept /\ Around
Notice(p) ==
  /\ At(p, "notice") /\ start' = [start EXCEPT ![p].at = "notes"]
  /\ notice' = [notice EXCEPT ![p] = IF start[p].latest <= start[p].version THEN 0 ELSE start[p].latest]
  /\ UNCHANGED cache /\ StateKept /\ Around

\* --- startup_release_notes_notice, which print mode leaves out ---
\* _read_last_seen_version: what cannot be read counts as none.
Readable(v) == IF v < 0 THEN 0 ELSE v
ReadLastSeen(p) ==
  /\ At(p, "notes")
  /\ \/ setting.printing /\ start' = [start EXCEPT ![p] = OverAt(@.time)] /\ UNCHANGED <<first, broken>>
     \/ /\ ~setting.printing
        /\ start' = [start EXCEPT ![p].at = "record", ![p].previous = Readable(lastSeen)]
        /\ first' = IF lastSeen = 0 THEN Max({first, start[p].version}) ELSE first
        /\ broken' = (broken \/ lastSeen < 0)
  /\ UNCHANGED <<cache, notice, lastSeen, reached, read>> /\ Around

\* _write_release_notes_state, in the same two steps.
EmptyState(p) ==
  /\ At(p, "record") /\ lastSeen' \in {-1, lastSeen}
  /\ start' = [start EXCEPT ![p].at = IF lastSeen' = -1 THEN "recording" ELSE "show"]
  /\ UNCHANGED <<cache, notice, first, reached, read, broken>> /\ Around
WriteState(p) ==
  /\ At(p, "recording") /\ start' = [start EXCEPT ![p].at = "show"]
  /\ lastSeen' \in {lastSeen, start[p].version}
  /\ UNCHANGED <<cache, notice, first, reached, read, broken>> /\ Around

\* Seeded fault: the notes of the installed version itself are left out.
NotesBelow(previous, current) == {v \in Versions : previous < v /\ v < current}

\* release_notes_between.
NotesBetween(previous, current) == {v \in Versions : previous < v /\ v <= current}

\* The application shows the notices; it may yet fail to start.
Show(p) ==
  /\ At(p, "show") /\ start' = [start EXCEPT ![p] = OverAt(@.time)]
  /\ read' = IF start[p].previous = 0 THEN read
             ELSE read \cup NotesBetween(start[p].previous, start[p].version)
  /\ reached' = Max({reached, start[p].version})
  /\ UNCHANGED <<cache, notice, lastSeen, first, broken>> /\ Around
Ends(p) ==
  /\ ~At(p, "over") /\ start' = [start EXCEPT ![p] = OverAt(@.time)]
  /\ broken' = (broken \/ start[p].at \in {"recording", "show"})
  /\ UNCHANGED <<cache, notice, lastSeen, first, reached, read>> /\ Around

\* --- update_le_agent ---
\* detect_install_method, _update_command: uv's tools are pinned to the release looked up; the other
\* installers take the latest when they run.
UpdateSteps == UNCHANGED <<setting, now, releases, latestAt, starting>>
BeginUpdate ==
  /\ update.at = "none" /\ changes < MaxChanges /\ changes' = changes + 1
  /\ \/ update' = [update EXCEPT !.at = "over"]                                \* not ours to update
     \/ update' = [update EXCEPT !.at = "install"]
     \/ /\ Latest(releases) # 0
        /\ \E windows \in BOOLEAN : update' =
             [update EXCEPT !.at = IF windows THEN "stage" ELSE "install", !.target = Latest(releases)]
  /\ UNCHANGED installed /\ UpdateSteps

\* _handoff_windows_update: a directory, a script in it and the process that runs the script;
\* _cleanup_windows_handoff when one of them fails.
Stage ==
  /\ update.at = "stage"
  /\ \/ update' = [update EXCEPT !.at = "launch", !.staged = {"directory", "script"}]
     \/ \E made \in {{}, {"directory"}, {"directory", "script"}} : update' = [update EXCEPT !.at = "cleanup", !.staged = made]
  /\ UNCHANGED <<installed, changes>> /\ UpdateSteps
Launch ==
  /\ update.at = "launch"
  /\ update' \in {[update EXCEPT !.at = "handed", !.waits = TRUE], [update EXCEPT !.at = "cleanup"]}
  /\ UNCHANGED <<installed, changes>> /\ UpdateSteps
CleanupHandoff ==
  /\ update.at = "cleanup" /\ update' = [update EXCEPT !.at = "over", !.staged = {}]
  /\ UNCHANGED <<installed, changes>> /\ UpdateSteps

\* The process ends; only then does the script run the command, and it removes itself.
ParentExits ==
  /\ update.at = "handed" /\ update.waits /\ update' = [update EXCEPT !.waits = FALSE]
  /\ UNCHANGED <<installed, changes>> /\ UpdateSteps
Install ==
  /\ update.at \in {"install", "handed"} /\ ~update.waits
  /\ installed' \in {installed, IF update.target # 0 THEN update.target ELSE Max({installed, Latest(releases)})}
  /\ update' = [update EXCEPT !.at = "over", !.staged = @ \ {"script"}]
  /\ UNCHANGED changes /\ UpdateSteps

StartStep(p) ==
  \/ Check(p) \/ Fetch(p) \/ EmptyCache(p) \/ WriteCache(p) \/ Notice(p) \/ ReadLastSeen(p)
  \/ EmptyState(p) \/ WriteState(p) \/ Show(p) \/ Ends(p)

UpdatesNext ==
  \/ Tick
  \/ \E v \in Versions : Reinstall(v) \/ \E kind \in {"stable", "withheld"} : Release(v, kind)
  \/ \E p \in 1 .. Slots : StartStep(p)
  \/ BeginUpdate \/ Stage \/ Launch \/ CleanupHandoff \/ ParentExits \/ Install
-----------------------------------------------------------------------------
\* Notices are true and arrive.  An update notice names a release that was the latest at some moment
\* not longer than the interval before the start, however long the lookup took, whichever process
\* wrote the cache, and whatever was released or deleted since.  And the user is shown the notes of
\* every version between the first that was started and the latest, or a start is about to show
\* them, through any order of updates and downgrades and starts that overlap, unless a start was cut
\* short after it had recorded its version.
NoticeIsFresh ==
  \A p \in 1 .. Slots : notice[p] # 0 =>
    \E t \in Max({0, start[p].time - Interval}) .. now : notice[p] \in latestAt[t]

AboutToShow(p) ==
  IF start[p].at \in {"record", "recording", "show"} /\ start[p].previous # 0
    THEN NotesBetween(start[p].previous, start[p].version) ELSE {}
NotesReachUser ==
  ~broken => \A v \in Versions :
    first < v /\ v <= reached => v \in read \cup UNION {AboutToShow(p) : p \in 1 .. Slots}

NoticesArrive == NoticeIsFresh /\ NotesReachUser
=============================================================================
