---------------------------- MODULE SessionIndex ----------------------------
(***************************************************************************)
(* The index of one project's sessions (session_manager.py), shared by     *)
(* processes that read it, change it and write it back whole, without a    *)
(* lock, and the exclusive reservation of a session's transcript file.     *)
(* One operation of a process:                                             *)
(*                                                                         *)
(*   look -> [open ->] read -> truncate -> write                           *)
(*              |        any failure of a reservation                      *)
(*              +-> undo_read -> undo_truncate -> undo_write -> unlink     *)
(*                                                                         *)
(* A file is read in one step and written in two: opening it for writing   *)
(* empties it.  The legacy global index is read and never written.         *)
(***************************************************************************)
EXTENDS Naturals, FiniteSets

CONSTANTS
  Procs,      \* processes working on the project
  Ids,        \* session ids asked for
  Titles,     \* titles sessions are given
  Legacy,     \* ids of the legacy global index
  MaxOps      \* bound: operations begun, all processes together

ASSUME IndexAssumption == Legacy \subseteq Ids /\ MaxOps \in Nat

VARIABLES
  index,      \* records of the project's index file
  files,      \* ids whose transcript file exists
  proc,       \* what each process is doing
  holder,     \* for each id, the processes whose reservation created its file
  serial,     \* the index had every operation been done in one step
  disturbed,  \* two operations overlapped, or one failed or was killed half-way
  ops         \* operations begun

indexVars == <<index, files, proc, holder, serial, disturbed, ops>>

Untitled == "untitled"
Record(id, title) == [id |-> id, title |-> title]
Records == {Record(id, t) : id \in Ids, t \in Titles \cup {Untitled}}
LegacyRecords == {Record(id, Untitled) : id \in Legacy}

Idle == [at |-> "idle"]
Kinds == {"reserve", "ensure", "touch"}
Steps == {"look", "open", "read", "truncate", "write",
          "undo_read", "undo_truncate", "undo_write", "unlink"}

\* validate_session_id and the check of prepare_session: names of the manager's
\* own files are refused.
ValidId(id) == id \notin {"default", "index"}

WithId(records, id) == {r \in records : r.id = id}
Without(records, id) == {r \in records : r.id # id}

\* get_session: the newest record of any index; the legacy one is never newer.
Lookup(id) ==
  IF WithId(index, id) # {} THEN WithId(index, id) ELSE WithId(LegacyRecords, id)

\* _upsert on a list of records.
Upserted(records, r) == Without(records, r.id) \cup {r}

IndexInit ==
  /\ index = {}
  /\ files = Legacy
  /\ proc = [p \in Procs |-> Idle]
  /\ holder = [id \in Ids |-> {}]
  /\ serial = {}
  /\ disturbed = FALSE
  /\ ops = 0

At(p, step) == proc[p].at = step
Goto(p, step) == proc' = [proc EXCEPT ![p].at = step]
Done(p) == proc' = [proc EXCEPT ![p] = Idle]

\* Operations of two processes overlap when one begins inside the other.
Busy == {p \in Procs : ~At(p, "idle")}

\* create_session_exclusive, _index_current_session, touch_session: the call.
Begin(p, kind, id, title) ==
  /\ At(p, "idle") /\ ops < MaxOps
  /\ kind # "touch" => ValidId(id)
  /\ proc' = [proc EXCEPT ![p] = [at |-> "look", kind |-> kind, id |-> id,
                                  asked |-> title, title |-> title, seen |-> {}]]
  /\ disturbed' = (disturbed \/ Busy # {})
  /\ ops' = ops + 1
  /\ UNCHANGED <<index, files, holder, serial>>

\* touch_session: "title if title is not None else existing.title".
KeptTitle(found) == (CHOOSE r \in found : TRUE).title

\* The first look at the index: a reservation wants the id unused, indexing has
\* nothing to do when it is there, and touching when it is not.  A touch without
\* a title keeps the one it saw.
Look(p) ==
  LET c == proc[p]  found == Lookup(c.id)
  IN /\ At(p, "look")
     /\ CASE c.kind = "reserve" -> IF found = {} THEN Goto(p, "open") ELSE Done(p)
          [] c.kind = "ensure" -> IF found = {} THEN Goto(p, "read") ELSE Done(p)
          [] c.kind = "touch" ->
               IF found = {} THEN Done(p)
               ELSE proc' = [proc EXCEPT ![p].at = "read",
                      ![p].title = IF @ = Untitled THEN KeptTitle(found) ELSE @]
     /\ UNCHANGED <<index, files, holder, serial, disturbed, ops>>

\* path.open("x"): fails when the file exists, and nothing is undone then.
Open(p) ==
  /\ At(p, "open")
  /\ IF proc[p].id \in files
     THEN Done(p) /\ UNCHANGED <<files, holder>>
     ELSE /\ files' = files \cup {proc[p].id}
          /\ holder' = [holder EXCEPT ![proc[p].id] = @ \cup {p}]
          /\ Goto(p, "read")
  /\ UNCHANGED <<index, serial, disturbed, ops>>

\* Any other failure to create the file.
OpenFails(p) ==
  /\ At(p, "open") /\ proc[p].id \notin files
  /\ Done(p)
  /\ UNCHANGED <<index, files, holder, serial, disturbed, ops>>

Read(p) ==
  /\ At(p, "read") \/ At(p, "undo_read")
  /\ proc' = [proc EXCEPT ![p].seen = index,
                          ![p].at = IF @ = "read" THEN "truncate" ELSE "undo_truncate"]
  /\ UNCHANGED <<index, files, holder, serial, disturbed, ops>>

\* write_text opens the file: it is empty until the content is written.
Truncate(p) ==
  /\ At(p, "truncate") \/ At(p, "undo_truncate")
  /\ index' = {}
  /\ Goto(p, IF At(p, "truncate") THEN "write" ELSE "undo_write")
  /\ UNCHANGED <<files, holder, serial, disturbed, ops>>

\* What the operation of p writes back.
Written(p) == Upserted(proc[p].seen, Record(proc[p].id, proc[p].title))

\* What the operation means: a touch without a new title keeps the title.
Meant(p) ==
  LET c == proc[p]
      keeps == c.kind = "touch" /\ c.asked = Untitled
  IN Upserted(serial,
       Record(c.id, IF keeps /\ \E r \in serial : r.id = c.id
                    THEN (CHOOSE r \in serial : r.id = c.id).title ELSE c.asked))

\* Seeded fault: the index is written with the new record alone.
WriteOwn(p) ==
  /\ At(p, "write")
  /\ index' = {Record(proc[p].id, proc[p].title)}
  /\ serial' = Meant(p)
  /\ Done(p)
  /\ UNCHANGED <<files, holder, disturbed, ops>>

Write(p) ==
  /\ At(p, "write")
  /\ index' = Written(p)
  /\ serial' = Meant(p)
  /\ Done(p)
  /\ UNCHANGED <<files, holder, disturbed, ops>>

\* Reading or writing the index fails, before or after the content reached the
\* file.  A reservation is undone, the other operations raise.
Fail(p) ==
  /\ proc[p].at \in {"read", "truncate", "write"}
  /\ IF At(p, "write") THEN index' \in {index, Written(p)} ELSE UNCHANGED index
  /\ IF proc[p].kind = "reserve" THEN Goto(p, "undo_read") ELSE Done(p)
  /\ disturbed' = TRUE
  /\ UNCHANGED <<files, holder, serial, ops>>

\* _remove writes the index without the record.
UndoWrite(p) ==
  /\ At(p, "undo_write")
  /\ index' = Without(proc[p].seen, proc[p].id)
  /\ serial' = Without(serial, proc[p].id)
  /\ Goto(p, "unlink")
  /\ UNCHANGED <<files, holder, disturbed, ops>>

\* A failure of _remove is suppressed.
UndoFails(p) ==
  /\ proc[p].at \in {"undo_read", "undo_truncate", "undo_write"}
  /\ Goto(p, "unlink")
  /\ UNCHANGED <<index, files, holder, serial, disturbed, ops>>

Unlink(p) ==
  /\ At(p, "unlink")
  /\ files' = files \ {proc[p].id}
  /\ holder' = [holder EXCEPT ![proc[p].id] = @ \ {p}]
  /\ Done(p)
  /\ UNCHANGED <<index, serial, disturbed, ops>>

\* The process is killed half-way.
Killed(p) ==
  /\ ~At(p, "idle")
  /\ Done(p)
  /\ disturbed' = TRUE
  /\ UNCHANGED <<index, files, holder, serial, ops>>

IndexNext ==
  \E p \in Procs :
    \/ \E kind \in Kinds, id \in Ids :
         \E title \in (IF kind = "touch" THEN Titles ELSE {}) \cup {Untitled} :
           Begin(p, kind, id, title)
    \/ Look(p) \/ Open(p) \/ OpenFails(p) \/ Read(p) \/ Truncate(p) \/ Write(p)
    \/ Fail(p) \/ UndoWrite(p) \/ UndoFails(p) \/ Unlink(p) \/ Killed(p)

------------------------------------------------------------------------------
\* The index is kept, whatever processes do to it and wherever they fail.  An
\* exclusive reservation (create_session_exclusive) is exclusive: one process at
\* most has created the transcript of an id, and the file it created is there.
\* And as long as no two operations overlapped and none failed or was killed, the
\* index holds what the operations asked for: the records of all sessions, each
\* with the last title it was given (touch_session writes back the whole record
\* it read before).  With overlaps this is false: that is the lost update of an
\* index without a lock.
ReservedOnce ==
  \A id \in Ids :
    /\ Cardinality(holder[id]) <= 1
    /\ holder[id] # {} => id \in files
LostOnlyByOverlap ==
  (~disturbed /\ \A p \in Procs : ~At(p, "write") /\ ~At(p, "undo_write"))
    => index = serial

IndexIsKept == ReservedOnce /\ LostOnlyByOverlap
=============================================================================
