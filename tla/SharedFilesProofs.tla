--------------------------- MODULE SharedFilesProofs ---------------------------
(***************************************************************************)
(* Theorems about SharedFiles: the index of sessions, for any number of    *)
(* processes, sessions and operations, the credentials, for any number of  *)
(* tasks and tokens, and the choice of a model, for any providers, models, *)
(* levels, releases and edits of the catalog.                              *)
(*                                                                         *)
(* IndexIsKept needs two things to be inductive.  Held: a reservation that *)
(* got past the creation of its file holds the id, so what it undoes is    *)
(* its own.  Alone: while nothing overlapped and nothing failed, what the  *)
(* one operation under way has read is the whole truth, and the title it   *)
(* will write is the one it was asked for.                                 *)
(*                                                                         *)
(* SpentOnce is not inductive: nothing in it says why a task that is about *)
(* to send a token does not send one that was spent.  NotOffered does: a   *)
(* token that was spent, and whose answer was not lost, is not about to be *)
(* sent, and is in the store only while the task that holds the lock has   *)
(* the answer on its way.  Remembered is about the credential that the     *)
(* Codex resolver falls back on, and Traded says that the server refuses   *)
(* only tokens that were spent.                                            *)
(*                                                                         *)
(* SentIsShown and OfferIsExact are one invariant, ChoiceInv, because what *)
(* a session sends is built from what it was offered.  Sensible holds of   *)
(* every session, also of one that has not seen the last change of a file: *)
(* limits are of the model they were asked for, and the level is one that  *)
(* the model offers.  Agrees and BuiltAsShown hold while the session has   *)
(* read what is in the files: its settings are those the file and the      *)
(* catalog give, entry by entry, so the level it keeps is still offered    *)
(* when they are read again.  Carried says that a provider of the older    *)
(* file is never without a definition while its migration is half-way.     *)
(***************************************************************************)
EXTENDS SharedFiles, SequenceLemmas

------------------------------------------------------------------------------
(* The index of sessions *)


AnyTitle == Titles \cup {Untitled}
Rows == [id : Ids, title : AnyTitle]
Undoing == {"undo_read", "undo_truncate", "undo_write", "unlink"}
Writing == {"read", "truncate", "write"}
Operation == [at : Steps, kind : Kinds, id : Ids, asked : AnyTitle, title : AnyTitle,
              seen : SUBSET Rows]

IndexType ==
  /\ index \in SUBSET Rows /\ serial \in SUBSET Rows
  /\ proc \in [Procs -> {Idle} \cup Operation]
  /\ holder \in [Ids -> SUBSET Procs]
  /\ disturbed \in BOOLEAN

Held ==
  /\ \A p \in Procs :
       /\ proc[p].at \in {"open"} \cup Undoing => proc[p].kind = "reserve"
       /\ proc[p].at \in Writing \cup Undoing /\ proc[p].kind = "reserve" => p \in holder[proc[p].id]
  /\ \A id \in Ids :
       /\ \A p, q \in holder[id] : p = q
       /\ holder[id] # {} => id \in files

OneEach(rows) == \A r, s \in rows : r.id = s.id => r = s

\* The title an operation is about to write.
Titled(p) ==
  LET c == proc[p]
      keeps == c.kind = "touch" /\ c.asked = Untitled
  IN /\ keeps => \A r \in serial : r.id = c.id => c.title = r.title
     /\ ~keeps \/ (\A r \in serial : r.id # c.id) => c.title = c.asked

Alone ==
  ~disturbed =>
    /\ \A p, q \in Busy : p = q
    /\ OneEach(serial)
    /\ (\A p \in Procs : proc[p].at # "write") => index = serial
    /\ \A p \in Procs :
         /\ proc[p].at \notin Undoing
         /\ proc[p].at \in {"truncate", "write"} => proc[p].seen = serial
         /\ proc[p].at \in {"look", "open"} => proc[p].title = proc[p].asked
         /\ proc[p].at = "open" => proc[p].kind # "touch"
         /\ proc[p].at \in Writing => Titled(p)

IndexInv == IndexType /\ Held /\ Alone

------------------------------------------------------------------------------
LEMMA RecordIsRow ==
  ASSUME NEW id \in Ids, NEW t \in AnyTitle
  PROVE  Record(id, t) \in Rows /\ Record(id, t).id = id /\ Record(id, t).title = t
  BY DEF Record, Rows

LEMMA UpsertedKeepsOne ==
  ASSUME NEW rows \in SUBSET Rows, OneEach(rows), NEW r \in Rows
  PROVE  Upserted(rows, r) \in SUBSET Rows /\ OneEach(Upserted(rows, r))
  BY DEF Upserted, Without, OneEach

LEMMA IndexInitInv == IndexInit => IndexInv
<1> SUFFICES ASSUME IndexInit PROVE IndexInv
  OBVIOUS
<1>1. \A p \in Procs : proc[p] = Idle /\ proc[p].at = "idle"
  BY DEF IndexInit, Idle
<1>2. IndexType
  BY DEF IndexInit, IndexType
<1>3. Held
  BY <1>1 DEF IndexInit, Held, Writing, Undoing
<1>4. Alone
  BY <1>1 DEF IndexInit, Alone, OneEach, Busy, At, Writing, Undoing
<1> QED
  BY <1>2, <1>3, <1>4 DEF IndexInv

\* An operation that is over, or was killed, leaves all but the process as it is.
LEMMA DoneKeeps ==
  ASSUME IndexInv, NEW p \in Procs, proc' = [proc EXCEPT ![p] = Idle],
         index' \in SUBSET Rows, serial' = serial, holder' = holder, files' = files,
         disturbed' \in BOOLEAN, disturbed => disturbed', disturbed' \/ index' = index,
         proc[p].at = "write" => disturbed'
  PROVE  IndexInv'
<1> USE DEF IndexInv
<1>1. proc'[p] = Idle /\ proc'[p].at = "idle" /\ \A q \in Procs \ {p} : proc'[q] = proc[q]
  BY DEF IndexType, Idle
<1>2. IndexType'
  BY DEF IndexType
<1>3. Held'
  BY <1>1 DEF Held, Writing, Undoing
<1>4. Alone'
  <2> SUFFICES ASSUME ~disturbed' PROVE Alone'
    BY DEF Alone
  <2>1. Busy' \subseteq Busy
    BY <1>1 DEF Busy, At
  <2>2. \A q \in Procs : proc'[q].at # "idle" => proc'[q] = proc[q] /\ (Titled(q) => Titled(q)')
    BY <1>1 DEF Titled
  <2> QED
    BY <1>1, <2>1, <2>2 DEF Alone, Writing, Undoing
<1> QED
  BY <1>2, <1>3, <1>4

LEMMA BeginStep ==
  ASSUME IndexInv, NEW p \in Procs, NEW kind \in Kinds, NEW id \in Ids,
         NEW title \in (IF kind = "touch" THEN Titles ELSE {}) \cup {Untitled},
         Begin(p, kind, id, title)
  PROVE  IndexInv'
<1> USE DEF IndexInv
<1> DEFINE op == [at |-> "look", kind |-> kind, id |-> id, asked |-> title, title |-> title, seen |-> {}]
<1>1. /\ proc[p].at = "idle" /\ proc' = [proc EXCEPT ![p] = op]
      /\ disturbed' = (disturbed \/ Busy # {}) /\ UNCHANGED <<index, files, holder, serial>>
  BY DEF Begin, At
<1>2. op \in Operation
  BY DEF Operation, Steps, AnyTitle
<1>3. proc'[p] = op /\ proc'[p].at = "look" /\ \A q \in Procs \ {p} : proc'[q] = proc[q]
  BY <1>1 DEF IndexType
<1>4. op.title = op.asked
  OBVIOUS
<1> HIDE DEF op
<1>5. IndexType'
  BY <1>1, <1>2 DEF IndexType
<1>6. Held'
  BY <1>1, <1>3 DEF Held, Writing, Undoing
<1>7. Alone'
  <2> SUFFICES ASSUME ~disturbed' PROVE Alone'
    BY DEF Alone
  <2>1. ~disturbed /\ \A q \in Procs : proc[q].at = "idle"
    BY <1>1 DEF Busy, At
  <2>2. \A q \in Busy' : q = p
    BY <1>3, <2>1 DEF Busy, At
  <2> QED
    BY <1>1, <1>3, <1>4, <2>1, <2>2 DEF Alone, Writing, Undoing
<1> QED
  BY <1>5, <1>6, <1>7

\* The title a touch keeps is that of the one record it found.
LEMMA LookStep ==
  ASSUME IndexInv, NEW p \in Procs, Look(p)
  PROVE  IndexInv'
<1> USE DEF IndexInv
<1> DEFINE c == proc[p]
           found == Lookup(c.id)
<1>1. /\ c.at = "look" /\ c \in Operation
      /\ UNCHANGED <<index, files, holder, serial, disturbed, ops>>
  BY DEF Look, At, IndexType, Idle
<1>2. CASE proc' = [proc EXCEPT ![p] = Idle]
  BY <1>1, <1>2, DoneKeeps DEF IndexType
<1>3. CASE c.kind = "reserve" /\ proc' = [proc EXCEPT ![p].at = "open"]
  <2>1. /\ proc'[p] = [c EXCEPT !.at = "open"] /\ proc'[p] \in Operation
        /\ \A q \in Procs \ {p} : proc'[q] = proc[q]
    BY <1>1, <1>3 DEF IndexType, Operation, Steps
  <2>2. IndexType'
    BY <1>1, <1>3, <2>1 DEF IndexType
  <2>3. Held'
    BY <1>1, <1>3, <2>1 DEF Held, Writing, Undoing, Operation
  <2>4. Alone'
    <3> SUFFICES ASSUME ~disturbed' PROVE Alone'
      BY DEF Alone
    <3>1. Busy' = Busy
      BY <1>1, <2>1 DEF Busy, At, Operation
    <3>2. proc'[p].at = "open" /\ proc'[p].kind = "reserve" /\ proc'[p].title = proc'[p].asked
      BY <1>1, <1>3, <2>1 DEF Alone, Operation
    <3>3. \A q \in Procs \ {p} : Titled(q) => Titled(q)'
      BY <1>1, <2>1 DEF Titled
    <3> QED
      BY <1>1, <2>1, <3>1, <3>2, <3>3, ZenonT(30) DEF Alone, Writing, Undoing
  <2> QED
    BY <2>2, <2>3, <2>4
<1>4. CASE /\ c.kind \in {"ensure", "touch"} /\ (c.kind = "touch" => found # {})
           /\ proc' = [proc EXCEPT ![p].at = "read",
                ![p].title = IF c.kind = "touch" /\ c.title = Untitled THEN KeptTitle(found) ELSE @]
  <2> DEFINE title == IF c.kind = "touch" /\ c.title = Untitled THEN KeptTitle(found) ELSE c.title
  <2>0. found \subseteq index \/ \A r \in found : r.title = Untitled
    BY RecordIsRow DEF Lookup, WithId, LegacyRecords, Record
  <2>1. found \in SUBSET Rows
    BY <2>0, RecordIsRow, IndexAssumption DEF IndexType, Lookup, WithId, LegacyRecords, AnyTitle
  <2>2. c.kind = "touch" => \E r \in found : KeptTitle(found) = r.title
    BY <1>4 DEF KeptTitle
  <2>3. title \in AnyTitle
    BY <1>1, <2>1, <2>2 DEF Rows, Operation
  <2>4. proc'[p] = [c EXCEPT !.at = "read", !.title = title] /\ \A q \in Procs \ {p} : proc'[q] = proc[q]
    BY <1>1, <1>4 DEF IndexType
  <2>5. ~disturbed /\ index = serial =>
          LET keeps == c.kind = "touch" /\ c.asked = Untitled
          IN /\ keeps => \A r \in serial : r.id = c.id => title = r.title
             /\ ~keeps \/ (\A r \in serial : r.id # c.id) => title = c.asked
    <3> SUFFICES ASSUME ~disturbed, index = serial
                 PROVE  LET keeps == c.kind = "touch" /\ c.asked = Untitled
                        IN /\ keeps => \A r \in serial : r.id = c.id => title = r.title
                           /\ ~keeps \/ (\A r \in serial : r.id # c.id) => title = c.asked
      OBVIOUS
    <3>1. c.title = c.asked /\ OneEach(serial)
      BY <1>1 DEF Alone
    <3>2. CASE c.kind = "touch" /\ c.asked = Untitled
      <4>1. PICK r \in found : title = r.title
        BY <2>2, <3>1, <3>2
      <4>2. ASSUME NEW q \in serial, q.id = c.id PROVE title = q.title
        <5>1. found = WithId(index, c.id)
          BY <4>2 DEF Lookup, WithId
        <5> QED
          BY <3>1, <4>1, <4>2, <5>1 DEF OneEach, WithId
      <4>3. ASSUME \A q \in serial : q.id # c.id PROVE title = Untitled
        <5>1. found = WithId(LegacyRecords, c.id)
          BY <4>3 DEF Lookup, WithId
        <5> QED
          BY <4>1, <5>1 DEF WithId, LegacyRecords, Record
      <4> QED
        BY <3>2, <4>2, <4>3
    <3>3. CASE ~(c.kind = "touch" /\ c.asked = Untitled)
      BY <3>1, <3>3
    <3> QED
      BY <3>2, <3>3
  <2> HIDE DEF title, found
  <2>6. proc'[p] \in Operation
    BY <1>1, <2>3, <2>4 DEF Operation, Steps
  <2>7. IndexType'
    BY <1>1, <1>4, <2>4, <2>6 DEF IndexType
  <2>8. Held'
    <3>1. proc'[p].at = "read" /\ proc'[p].kind # "reserve"
      BY <1>1, <1>4, <2>4, ZenonT(60) DEF Operation
    <3> QED
      BY <1>1, <2>4, <3>1, ZenonT(30) DEF Held, Writing, Undoing
  <2>9. Alone'
    <3> SUFFICES ASSUME ~disturbed' PROVE Alone'
      BY DEF Alone
    <3>1. Busy' = Busy
      BY <1>1, <2>4 DEF Busy, At, Operation
    <3>2. \A q \in Procs : proc[q].at # "write"
      BY <1>1 DEF Alone, Busy, At
    <3>3. Titled(p)'
      BY <1>1, <2>4, <2>5, <3>2 DEF Titled, Alone, Operation
    <3>4. \A q \in Procs \ {p} : Titled(q) => Titled(q)'
      BY <1>1, <2>4 DEF Titled
    <3>5. proc'[p].at = "read"
      BY <1>1, <2>4 DEF Operation
    <3> QED
      BY <1>1, <2>4, <3>1, <3>2, <3>3, <3>4, <3>5, ZenonT(60) DEF Alone, Writing, Undoing
  <2> QED
    BY <2>7, <2>8, <2>9
<1> QED
  <2>1. CASE c.kind = "reserve"
    BY <1>2, <1>3, <2>1 DEF Look, Goto, Done
  <2>2. CASE c.kind = "ensure"
    <3>1. found = {} => proc' = [proc EXCEPT ![p].at = "read"]
      BY <2>2 DEF Look, Goto
    <3>2. [proc EXCEPT ![p].at = "read"] = [proc EXCEPT ![p].at = "read", ![p].title = c.title]
      BY <1>1 DEF IndexType, Operation
    <3> QED
      BY <1>2, <1>4, <2>2, <3>1, <3>2 DEF Look, Done
  <2>3. CASE c.kind = "touch"
    BY <1>2, <1>4, <2>3 DEF Look, Done
  <2> QED
    BY <1>1, <2>1, <2>2, <2>3 DEF Operation, Kinds

\* The file is created when it was not there, so nobody held the id.
LEMMA OpenStep ==
  ASSUME IndexInv, NEW p \in Procs, Open(p)
  PROVE  IndexInv'
<1> USE DEF IndexInv
<1> DEFINE c == proc[p]
<1>1. c.at = "open" /\ c \in Operation /\ UNCHANGED <<index, serial, disturbed, ops>>
  BY DEF Open, At, IndexType, Idle
<1>2. CASE c.id \in files
  BY <1>1, <1>2, DoneKeeps DEF Open, Done, IndexType
<1>3. CASE c.id \notin files
  <2>1. /\ files' = files \cup {c.id} /\ holder' = [holder EXCEPT ![c.id] = @ \cup {p}]
        /\ proc' = [proc EXCEPT ![p].at = "read"]
    BY <1>3 DEF Open, Goto
  <2>2. /\ proc'[p] = [c EXCEPT !.at = "read"] /\ proc'[p] \in Operation
        /\ \A q \in Procs \ {p} : proc'[q] = proc[q]
    BY <1>1, <2>1 DEF IndexType, Operation, Steps
  <2>3. c.id \in Ids /\ holder[c.id] = {}
    BY <1>1, <1>3 DEF Held, Operation
  <2>4. holder'[c.id] = {p} /\ \A id \in Ids \ {c.id} : holder'[id] = holder[id]
    BY <2>1, <2>3 DEF IndexType
  <2>5. IndexType'
    BY <1>1, <2>1, <2>2, <2>3 DEF IndexType
  <2>6. Held'
    <3>1. proc'[p].at = "read" /\ proc'[p].id = c.id
      BY <1>1, <2>2 DEF Operation
    <3>2. \A q \in Procs \ {p} : proc[q] = Idle \/ proc[q].id \in Ids
      BY DEF IndexType, Operation
    <3>3. Idle.at \notin Writing \cup Undoing \cup {"open"}
      BY DEF Idle, Writing, Undoing
    <3>4. ASSUME NEW q \in Procs
          PROVE  /\ proc'[q].at \in {"open"} \cup Undoing => proc'[q].kind = "reserve"
                 /\ proc'[q].at \in Writing \cup Undoing /\ proc'[q].kind = "reserve"
                      => q \in holder'[proc'[q].id]
      <4>1. CASE q = p
        BY <2>4, <3>1, <4>1 DEF Undoing
      <4>2. CASE q # p
        BY <2>2, <2>3, <2>4, <3>2, <3>3, <4>2 DEF Held
      <4> QED
        BY <4>1, <4>2
    <3>5. ASSUME NEW id \in Ids
          PROVE  /\ \A q, r \in holder'[id] : q = r
                 /\ holder'[id] # {} => id \in files'
      BY <2>1, <2>4 DEF Held
    <3> QED
      BY <3>4, <3>5 DEF Held
  <2>7. Alone'
    <3> SUFFICES ASSUME ~disturbed' PROVE Alone'
      BY DEF Alone
    <3>1. Busy' = Busy
      BY <1>1, <2>2 DEF Busy, At, Operation
    <3>2. \A q \in Procs : proc[q].at # "write"
      BY <1>1 DEF Alone, Busy, At
    <3>3. Titled(p)'
      BY <1>1, <2>2 DEF Titled, Alone, Operation
    <3>4. \A q \in Procs \ {p} : Titled(q) => Titled(q)'
      BY <1>1, <2>2 DEF Titled
    <3>5. proc'[p].at = "read"
      BY <1>1, <2>2 DEF Operation
    <3> QED
      BY <1>1, <2>2, <3>1, <3>2, <3>3, <3>4, <3>5, ZenonT(30) DEF Alone, Writing, Undoing
  <2> QED
    BY <2>5, <2>6, <2>7
<1> QED
  BY <1>2, <1>3

\* A step of an operation that goes on, with what it read.
LEMMA MoveKeeps ==
  ASSUME IndexInv, NEW p \in Procs, NEW s \in Steps, NEW seen \in SUBSET Rows,
         proc[p].at \in Writing \cup Undoing,
         proc' = [proc EXCEPT ![p].at = s, ![p].seen = seen],
         UNCHANGED <<files, holder>>, index' \in SUBSET Rows, serial' \in SUBSET Rows,
         disturbed' \in BOOLEAN, disturbed => disturbed', disturbed' \/ serial' = serial,
         s \in Writing \cup Undoing,
         s \in Undoing => proc[p].kind = "reserve" /\ disturbed',
         ~disturbed' => /\ proc[p].at # "write"
                        /\ s # "write" => index' = index
                        /\ s \in {"truncate", "write"} => seen = serial
  PROVE  IndexInv'
<1> USE DEF IndexInv
<1> DEFINE c == proc[p]
<1>1. c \in Operation
  BY DEF IndexType, Idle, Writing, Undoing
<1>2. /\ proc'[p] = [c EXCEPT !.at = s, !.seen = seen] /\ proc'[p] \in Operation
      /\ \A q \in Procs \ {p} : proc'[q] = proc[q]
  BY <1>1 DEF IndexType, Operation
<1> DEFINE d == [c EXCEPT !.at = s, !.seen = seen]
<1>3a. /\ d.at = s /\ d.kind = c.kind /\ d.id = c.id /\ d.seen = seen
       /\ d.title = c.title /\ d.asked = c.asked
  BY <1>1 DEF Operation
<1> HIDE DEF d
<1>3. /\ proc'[p].at = s /\ proc'[p].kind = c.kind /\ proc'[p].id = c.id /\ proc'[p].seen = seen
      /\ proc'[p].title = c.title /\ proc'[p].asked = c.asked
  BY <1>2, <1>3a DEF d
<1>4. IndexType'
  BY <1>2 DEF IndexType
<1>5. Held'
  <2>1. ASSUME NEW q \in Procs
        PROVE  /\ proc'[q].at \in {"open"} \cup Undoing => proc'[q].kind = "reserve"
               /\ proc'[q].at \in Writing \cup Undoing /\ proc'[q].kind = "reserve"
                    => q \in holder[proc'[q].id]
    <3>1. CASE q = p
      BY <1>3, <3>1 DEF Held, Writing, Undoing
    <3>2. CASE q # p
      BY <1>2, <3>2 DEF Held
    <3> QED
      BY <3>1, <3>2
  <2> QED
    BY <2>1 DEF Held
<1>6. Alone'
  <2> SUFFICES ASSUME ~disturbed' PROVE Alone'
    BY DEF Alone
  <2>1. Busy' = Busy
    BY <1>2, <1>3, ZenonT(30) DEF Busy, At, Writing, Undoing
  <2>2. \A q \in Procs \ {p} : proc[q].at = "idle"
    BY DEF Alone, Busy, At, Writing, Undoing
  <2>3. c.at \in Writing /\ s \in Writing /\ Titled(p) /\ Titled(p)'
    BY <1>3, ZenonT(30) DEF Alone, Titled
  <2>4. index = serial /\ (s # "write" => index' = serial')
    BY <2>2, <2>3 DEF Alone
  <2> QED
    BY <1>2, <1>3, <2>1, <2>2, <2>3, <2>4, ZenonT(30) DEF Alone, Writing, Undoing
<1> QED
  BY <1>4, <1>5, <1>6

LEMMA GotoIsMove ==
  ASSUME IndexType, NEW p \in Procs, proc[p].at # "idle", NEW s
  PROVE  /\ proc[p].seen \in SUBSET Rows
         /\ [proc EXCEPT ![p].at = s] = [proc EXCEPT ![p].at = s, ![p].seen = proc[p].seen]
<1>1. proc[p] \in Operation
  BY DEF IndexType, Idle
<1> QED
  BY <1>1 DEF IndexType, Operation

LEMMA ReadStep ==
  ASSUME IndexInv, NEW p \in Procs, Read(p)
  PROVE  IndexInv'
<1> USE DEF IndexInv
<1> DEFINE s == IF proc[p].at = "read" THEN "truncate" ELSE "undo_truncate"
<1>1. /\ proc[p].at \in {"read", "undo_read"} /\ proc[p] \in Operation
      /\ UNCHANGED <<index, files, holder, serial, disturbed, ops>>
  BY DEF Read, At, IndexType, Idle
<1>2. proc' = [proc EXCEPT ![p].at = s, ![p].seen = index]
  BY <1>1 DEF Read, IndexType, Operation
<1>3. proc[p].at = "undo_read" => disturbed /\ proc[p].kind = "reserve"
  BY DEF Alone, Held, Undoing
<1>4. ~disturbed => index = serial
  BY <1>1 DEF Alone, Busy, At
<1>5. s \in Steps /\ s \in Writing \cup Undoing /\ s # "write" /\ (s \in Undoing => proc[p].at = "undo_read")
  BY <1>1 DEF Steps, Writing, Undoing
<1> HIDE DEF s
<1> QED
  BY <1>1, <1>2, <1>3, <1>4, <1>5, MoveKeeps DEF IndexType, Writing, Undoing

LEMMA TruncateStep ==
  ASSUME IndexInv, NEW p \in Procs, Truncate(p)
  PROVE  IndexInv'
<1> USE DEF IndexInv
<1> DEFINE s == IF proc[p].at = "truncate" THEN "write" ELSE "undo_write"
<1>1. /\ proc[p].at \in {"truncate", "undo_truncate"} /\ index' = {}
      /\ UNCHANGED <<files, holder, serial, disturbed, ops>>
  BY DEF Truncate, At
<1>2. proc' = [proc EXCEPT ![p].at = s, ![p].seen = proc[p].seen] /\ proc[p].seen \in SUBSET Rows
  <2>1. proc' = [proc EXCEPT ![p].at = s]
    BY DEF Truncate, Goto, At
  <2> HIDE DEF s
  <2> QED
    BY <1>1, <2>1, GotoIsMove
<1>3. proc[p].at = "undo_truncate" => disturbed /\ proc[p].kind = "reserve"
  BY DEF Alone, Held, Undoing
<1>4. ~disturbed => proc[p].seen = serial
  BY <1>1, <1>3 DEF Alone
<1>5. s \in Steps /\ s \in Writing \cup Undoing /\ (s = "write" \/ proc[p].at = "undo_truncate")
      /\ (s \in Undoing => proc[p].at = "undo_truncate")
  BY <1>1 DEF Steps, Writing, Undoing
<1> HIDE DEF s
<1> QED
  BY <1>1, <1>2, <1>3, <1>4, <1>5, MoveKeeps DEF IndexType, Writing, Undoing

LEMMA WrittenIsRows ==
  ASSUME IndexType, NEW p \in Procs, proc[p].at # "idle"
  PROVE  /\ Written(p) \in SUBSET Rows
         /\ Record(proc[p].id, proc[p].title) \in Rows
<1>1. proc[p] \in Operation
  BY DEF IndexType, Idle
<1> QED
  BY <1>1, RecordIsRow DEF Operation, Written, Upserted, Without

\* What an undisturbed operation writes is what it means.
LEMMA WriteStep ==
  ASSUME IndexInv, NEW p \in Procs, Write(p)
  PROVE  IndexInv'
<1> USE DEF IndexInv
<1> DEFINE c == proc[p]
           row == Record(c.id, c.title)
<1>1. /\ c.at = "write" /\ c \in Operation /\ index' = Written(p) /\ serial' = Meant(p)
      /\ proc' = [proc EXCEPT ![p] = Idle] /\ UNCHANGED <<files, holder, disturbed, ops>>
  BY DEF Write, At, Done, IndexType, Idle
<1>2. proc'[p] = Idle /\ proc'[p].at = "idle" /\ \A q \in Procs \ {p} : proc'[q] = proc[q]
  BY <1>1 DEF IndexType, Idle
<1>3. row \in Rows /\ Written(p) \in SUBSET Rows
  BY <1>1, WrittenIsRows
<1>4. Meant(p) \in SUBSET Rows
  <2> DEFINE t == IF (c.kind = "touch" /\ c.asked = Untitled) /\ \E r \in serial : r.id = c.id
                  THEN (CHOOSE r \in serial : r.id = c.id).title ELSE c.asked
  <2>1. t \in AnyTitle
    BY <1>1 DEF IndexType, Rows, Operation
  <2>2. Record(c.id, t) \in Rows
    BY <1>1, <2>1, RecordIsRow DEF Operation
  <2>3. Meant(p) = Upserted(serial, Record(c.id, t))
    BY DEF Meant
  <2> HIDE DEF t
  <2> QED
    BY <2>2, <2>3 DEF Upserted, Without, IndexType
<1>5. IndexType'
  BY <1>1, <1>3, <1>4 DEF IndexType
<1>6. Held'
  BY <1>1, <1>2 DEF Held, Writing, Undoing
<1>7. Alone'
  <2> SUFFICES ASSUME ~disturbed' PROVE Alone'
    BY DEF Alone
  <2>1. /\ ~disturbed /\ c.seen = serial /\ OneEach(serial) /\ Titled(p)
        /\ \A q \in Procs \ {p} : proc[q].at = "idle"
    BY <1>1 DEF Alone, Busy, At, Writing
  <2>2. Meant(p) = Upserted(serial, row)
    <3>1. CASE (c.kind = "touch" /\ c.asked = Untitled) /\ \E r \in serial : r.id = c.id
      <4>1. (CHOOSE r \in serial : r.id = c.id).title = c.title
        BY <2>1, <3>1 DEF Titled
      <4> QED
        BY <3>1, <4>1 DEF Meant
    <3>2. CASE ~((c.kind = "touch" /\ c.asked = Untitled) /\ \E r \in serial : r.id = c.id)
      <4>1. c.title = c.asked
        BY <2>1, <3>2 DEF Titled
      <4> QED
        BY <3>2, <4>1 DEF Meant
    <3> QED
      BY <3>1, <3>2
  <2>3. index' = serial'
    BY <1>1, <2>1, <2>2 DEF Written
  <2>4. OneEach(serial')
    BY <1>1, <1>3, <2>1, <2>2, UpsertedKeepsOne DEF IndexType
  <2>5. Busy' = {}
    BY <1>2, <2>1 DEF Busy, At
  <2> QED
    BY <1>2, <2>1, <2>3, <2>4, <2>5 DEF Alone, Busy, At, Writing, Undoing
<1> QED
  BY <1>5, <1>6, <1>7

\* Only a reservation has something to undo.
LEMMA FailStep ==
  ASSUME IndexInv, NEW p \in Procs, Fail(p)
  PROVE  IndexInv'
<1> USE DEF IndexInv
<1>1. /\ proc[p].at \in Writing /\ disturbed' = TRUE /\ UNCHANGED <<files, holder, serial, ops>>
      /\ index' \in SUBSET Rows
  BY WrittenIsRows, SMTT(30) DEF Fail, At, Writing, IndexType
<1>2. CASE proc[p].kind = "reserve"
  <2>1. proc' = [proc EXCEPT ![p].at = "undo_read", ![p].seen = proc[p].seen]
        /\ proc[p].seen \in SUBSET Rows
    BY <1>1, <1>2, GotoIsMove, SMTT(30) DEF Fail, Goto, Writing
  <2> QED
    BY <1>1, <1>2, <2>1, MoveKeeps DEF IndexType, Steps, Undoing
<1>3. CASE proc[p].kind # "reserve"
  BY <1>1, <1>3, DoneKeeps DEF Fail, Done
<1> QED
  BY <1>2, <1>3

LEMMA UndoStep ==
  ASSUME IndexInv, NEW p \in Procs, UndoWrite(p) \/ UndoFails(p)
  PROVE  IndexInv'
<1> USE DEF IndexInv
<1>1. proc[p].at \in Undoing /\ UNCHANGED <<files, holder, disturbed>>
  BY DEF UndoWrite, UndoFails, At, Undoing
<1>2. disturbed /\ proc[p].kind = "reserve"
  BY <1>1 DEF Alone, Held
<1>3. proc' = [proc EXCEPT ![p].at = "unlink", ![p].seen = proc[p].seen] /\ proc[p].seen \in SUBSET Rows
  BY <1>1, GotoIsMove DEF UndoWrite, UndoFails, Goto, Undoing
<1>4. index' \in SUBSET Rows /\ serial' \in SUBSET Rows
  BY <1>3 DEF UndoWrite, UndoFails, Without, IndexType
<1> QED
  BY <1>1, <1>2, <1>3, <1>4, MoveKeeps DEF IndexType, Steps, Undoing

\* The file that is removed is the one the process created.
LEMMA UnlinkStep ==
  ASSUME IndexInv, NEW p \in Procs, Unlink(p)
  PROVE  IndexInv'
<1> USE DEF IndexInv
<1> DEFINE mine == proc[p].id
<1>1. /\ proc[p].at = "unlink" /\ proc[p] \in Operation
      /\ files' = files \ {mine} /\ holder' = [holder EXCEPT ![mine] = @ \ {p}]
      /\ proc' = [proc EXCEPT ![p] = Idle] /\ UNCHANGED <<index, serial, disturbed, ops>>
  BY DEF Unlink, At, Done, IndexType, Idle
<1>2. proc'[p] = Idle /\ proc'[p].at = "idle" /\ \A q \in Procs \ {p} : proc'[q] = proc[q]
  BY <1>1 DEF IndexType, Idle
<1>3. mine \in Ids /\ disturbed /\ holder[mine] = {p}
  BY <1>1 DEF Held, Alone, Undoing, Operation
<1>4. holder'[mine] = {} /\ \A id \in Ids \ {mine} : holder'[id] = holder[id]
  BY <1>1, <1>3 DEF IndexType
<1>5. IndexType'
  BY <1>1, <1>3 DEF IndexType
<1>6. Held'
  <2>1. ASSUME NEW q \in Procs
        PROVE  /\ proc'[q].at \in {"open"} \cup Undoing => proc'[q].kind = "reserve"
               /\ proc'[q].at \in Writing \cup Undoing /\ proc'[q].kind = "reserve"
                    => q \in holder'[proc'[q].id]
    <3>1. CASE q = p
      BY <1>2, <3>1 DEF Writing, Undoing
    <3>2. CASE q # p
      <4>1. proc[q] = Idle \/ proc[q].id \in Ids
        BY DEF IndexType, Operation
      <4>2. Idle.at \notin Writing \cup Undoing \cup {"open"}
        BY DEF Idle, Writing, Undoing
      <4> QED
        BY <1>2, <1>3, <1>4, <3>2, <4>1, <4>2 DEF Held
    <3> QED
      BY <3>1, <3>2
  <2>2. ASSUME NEW id \in Ids
        PROVE  /\ \A q, r \in holder'[id] : q = r
               /\ holder'[id] # {} => id \in files'
    BY <1>1, <1>4 DEF Held
  <2> QED
    BY <2>1, <2>2 DEF Held
<1>7. Alone'
  BY <1>1, <1>3 DEF Alone
<1> QED
  BY <1>5, <1>6, <1>7

LEMMA IndexStepInv == IndexInv /\ [IndexNext]_indexVars => IndexInv'
<1> SUFFICES ASSUME IndexInv, [IndexNext]_indexVars PROVE IndexInv'
  OBVIOUS
<1>1. CASE UNCHANGED indexVars
  BY <1>1 DEF indexVars, IndexInv, IndexType, Held, Alone, OneEach, Titled, Busy, At
<1>2. ASSUME NEW p \in Procs, NEW kind \in Kinds, NEW id \in Ids,
             NEW title \in (IF kind = "touch" THEN Titles ELSE {}) \cup {Untitled},
             Begin(p, kind, id, title)
      PROVE  IndexInv'
  BY <1>2, BeginStep
<1>3. ASSUME NEW p \in Procs, OpenFails(p) \/ Killed(p) PROVE IndexInv'
  BY <1>3, DoneKeeps DEF OpenFails, Killed, Done, At, IndexInv, IndexType
<1>4. ASSUME NEW p \in Procs, Look(p) PROVE IndexInv'
  BY <1>4, LookStep
<1>5. ASSUME NEW p \in Procs, Open(p) PROVE IndexInv'
  BY <1>5, OpenStep
<1>6. ASSUME NEW p \in Procs, Read(p) PROVE IndexInv'
  BY <1>6, ReadStep
<1>7. ASSUME NEW p \in Procs, Truncate(p) PROVE IndexInv'
  BY <1>7, TruncateStep
<1>8. ASSUME NEW p \in Procs, Write(p) PROVE IndexInv'
  BY <1>8, WriteStep
<1>9. ASSUME NEW p \in Procs, Fail(p) PROVE IndexInv'
  BY <1>9, FailStep
<1>10. ASSUME NEW p \in Procs, UndoWrite(p) \/ UndoFails(p) PROVE IndexInv'
  BY <1>10, UndoStep
<1>11. ASSUME NEW p \in Procs, Unlink(p) PROVE IndexInv'
  BY <1>11, UnlinkStep
<1> QED
  BY <1>1, <1>2, <1>3, <1>4, <1>5, <1>6, <1>7, <1>8, <1>9, <1>10, <1>11 DEF IndexNext

\* The writers of the other files leave the index alone.
LEMMA IndexHolds == Spec => []IndexInv
<1>1. Init => IndexInv
  BY IndexInitInv DEF Init
<1>2. IndexInv /\ [Next]_vars => IndexInv'
  BY IndexStepInv DEF Next, vars
<1> QED
  BY <1>1, <1>2, PTL DEF Spec

\* A reservation is exclusive, its file is there, and a record or a title is lost only when two
\* operations overlapped or one failed half-way: for any number of processes on one project,
\* however their reads, truncations, writes and undo steps interleave (session_manager.py).
THEOREM IndexIsSafe == Spec => []IndexIsKept
<1>1. IndexInv => IndexIsKept
  <2> SUFFICES ASSUME IndexInv PROVE ReservedOnce /\ LostOnlyByOverlap
    BY DEF IndexIsKept
  <2>1. ReservedOnce
    <3> SUFFICES ASSUME NEW id \in Ids
                 PROVE  Cardinality(holder[id]) <= 1 /\ (holder[id] # {} => id \in files)
      BY DEF ReservedOnce
    <3>1. holder[id] = {} \/ \E p \in holder[id] : holder[id] = {p}
      BY DEF IndexInv, Held
    <3>2. Cardinality({}) = 0 /\ \A p \in Procs : Cardinality({p}) = 1
      BY FS_EmptySet, FS_Singleton
    <3>3. Cardinality(holder[id]) <= 1
      BY <3>1, <3>2 DEF IndexInv, IndexType
    <3> QED
      BY <3>3 DEF IndexInv, Held
  <2>2. LostOnlyByOverlap
    BY DEF LostOnlyByOverlap, IndexInv, Alone, At
  <2> QED
    BY <2>1, <2>2
<1> QED
  BY <1>1, IndexHolds, PTL

------------------------------------------------------------------------------
(* Credentials *)


OAuthCredential == [kind : {"oauth"}, token : Nat, expired : BOOLEAN]

CredentialsType ==
  /\ resolver \in {"codex", "runtime"}
  /\ store \in {None, ApiKey} \cup OAuthCredential
  /\ lock \in Tasks \cup {None}
  /\ task \in [Tasks -> [at : {"idle", "waiting", "asked", "answered", "refused"},
                         token : Nat, sent : Nat]]
  /\ made \in Nat
  /\ spent \in [Token -> {0, 1, 2}]

\* A task that asked the server holds the lock.
Locked == \A t \in Tasks : task[t].at \in {"asked", "answered", "refused"} => lock = t

\* A token in the store, with a task or spent was given out.
KnownTokens ==
  /\ Stored # None => Stored.token \in 1..made
  /\ \A t \in Tasks :
       \/ task[t].at \in {"asked", "answered"}
       \/ task[t].at = "waiting" /\ resolver = "codex"
       => task[t].token \in 1..made
  /\ \A k \in Token : spent[k] # 0 => k <= made

Traded == \A k \in 1..made : k \in live \/ (k \in Token /\ spent[k] # 0)

Gone(k) == spent[k] # 0 /\ k \notin excused

NotOffered ==
  \A k \in Token : Gone(k) =>
    /\ \A t \in Tasks : task[t].at \in {"asked", "answered"} => task[t].token # k
    /\ Stored # None /\ Stored.token = k =>
         \E t \in Tasks : task[t].at = "answered" /\ task[t].sent = k

Remembered ==
  resolver = "codex" /\ Stored = None =>
    \A t \in Tasks : task[t].at = "waiting" => task[t].token \in excused

CredentialsInv ==
  CredentialsType /\ Locked /\ KnownTokens /\ Traded /\ NotOffered /\ Remembered /\ SpentOnce

------------------------------------------------------------------------------
LEMMA StoredIs ==
  ASSUME NEW c \in {None, ApiKey} \cup OAuthCredential, store = c
  PROVE  /\ Stored # None <=> c \in OAuthCredential
         /\ c \in OAuthCredential => Stored = c
<1>1. None \notin OAuthCredential
  BY CredentialsAssumption DEF OAuthCredential
<1>2. ApiKey \in [kind : {"oauth", "api_key"}, token : Nat, expired : BOOLEAN]
  BY DEF ApiKey
<1>3. None # ApiKey
  BY <1>2, CredentialsAssumption
<1>4. ApiKey \notin OAuthCredential
  BY DEF OAuthCredential, ApiKey
<1> QED
  BY <1>1, <1>3, <1>4 DEF Stored

LEMMA Minted ==
  ASSUME NEW k \in Nat
  PROVE  /\ Credential(k) \in OAuthCredential /\ Credential(k).token = k
         /\ Expired(k) \in OAuthCredential /\ Expired(k).token = k
  BY DEF Credential, Expired, OAuthCredential

LEMMA CredentialsInitInv == CredentialsInit => CredentialsInv
<1> SUFFICES ASSUME CredentialsInit PROVE CredentialsInv
  OBVIOUS
<1> USE DEF CredentialsInit
<1>1. store \in {None, ApiKey} \cup OAuthCredential /\ (store \in OAuthCredential => store.token = 1)
  BY Minted, CredentialsAssumption DEF OAuthCredential
<1>2. task \in [Tasks -> [at : {"idle"}, token : {0}, sent : {0}]]
  BY DEF Resting
<1>3. CredentialsType
  BY <1>1, <1>2 DEF CredentialsType
<1>4. KnownTokens
  BY <1>1, <1>2, StoredIs DEF KnownTokens
<1>5. Locked /\ Traded /\ NotOffered /\ Remembered /\ SpentOnce
  BY <1>2 DEF Locked, Traded, NotOffered, Remembered, SpentOnce, Gone
<1> QED
  BY <1>3, <1>4, <1>5 DEF CredentialsInv


(* Each action preserves the invariant.                                      *)

\* Only where a task is changes, not to a place where it sends.
LEMMA ResolveStep ==
  ASSUME CredentialsInv, NEW t \in Tasks, Resolve(t)
  PROVE  CredentialsInv'
<1> USE DEF CredentialsInv
<1> DEFINE found == IF resolver = "codex" THEN Stored.token ELSE 0
<1>1. resolver = "codex" => Stored # None /\ Stored.token \in 1..made
  BY DEF Resolve, KnownTokens
<1>2. found \in Nat
  BY <1>1 DEF CredentialsType
<1>3. /\ task' = [task EXCEPT ![t] = [at |-> "waiting", sent |-> 0, token |-> found]]
      /\ UNCHANGED <<resolver, store, lock, live, made, spent, excused>> /\ Stored' = Stored
  BY DEF Resolve, Stored
<1> HIDE DEF found
<1>4. CredentialsType'
  BY <1>2, <1>3 DEF CredentialsType
<1>5. KnownTokens'
  BY <1>1, <1>3 DEF KnownTokens, CredentialsType, found
<1>6. task[t].at = "idle"
  BY DEF Resolve
<1>7. NotOffered'
  BY <1>3, <1>6 DEF NotOffered, Gone, CredentialsType
<1>8. Locked' /\ Traded' /\ SpentOnce'
  BY <1>3 DEF Locked, Traded, SpentOnce, CredentialsType
<1>9. Remembered'
  BY <1>1, <1>3 DEF Remembered, CredentialsType
<1> QED
  BY <1>4, <1>5, <1>7, <1>8, <1>9

\* Under the lock a task takes what is stored, or falls back on what a logout excused.
LEMMA AcquireStep ==
  ASSUME CredentialsInv, NEW t \in Tasks, Acquire(t)
  PROVE  CredentialsInv'
<1> USE DEF CredentialsInv
<1> DEFINE found == Reread(t)
<1>1. /\ task[t].at = "waiting" /\ lock = None
      /\ UNCHANGED <<resolver, store, live, made, spent, excused>> /\ Stored' = Stored
  BY DEF Acquire, Stored
<1>2. \A u \in Tasks : task[u].at \notin {"asked", "answered", "refused"}
  BY <1>1, CredentialsAssumption DEF Locked
<1>3. CASE found # None /\ found.expired
  <2>1. /\ lock' = t
        /\ task' = [task EXCEPT ![t] = [at |-> "asked", token |-> found.token, sent |-> found.token]]
    BY <1>3 DEF Acquire
  <2>2. /\ found.token \in 1..made
        /\ \A k \in Token : Gone(k) => found.token # k
    <3>1. CASE Stored # None
      <4>1. found = Stored
        BY <3>1 DEF Reread
      <4>2. \A k \in Token : Gone(k) => Stored.token # k
        BY <1>2, <3>1 DEF NotOffered
      <4> QED
        BY <3>1, <4>1, <4>2 DEF KnownTokens
    <3>2. CASE Stored = None
      <4>1. resolver = "codex" /\ found = Expired(task[t].token)
        BY <1>3, <3>2, CredentialsAssumption DEF Reread, CredentialsType
      <4>2. found.token = task[t].token
        BY <4>1, Minted DEF CredentialsType
      <4>3. task[t].token \in 1..made /\ task[t].token \in excused
        BY <1>1, <3>2, <4>1 DEF KnownTokens, Remembered
      <4> QED
        BY <4>2, <4>3 DEF Gone
    <3> QED
      BY <3>1, <3>2
  <2> HIDE DEF found
  <2>3. CredentialsType'
    BY <1>1, <2>1, <2>2 DEF CredentialsType
  <2>4. Locked'
    BY <1>2, <2>1 DEF Locked, CredentialsType
  <2>5. KnownTokens'
    BY <1>1, <2>1, <2>2 DEF KnownTokens, CredentialsType
  <2>6. NotOffered'
    BY <1>1, <1>2, <2>1, <2>2 DEF NotOffered, Gone, CredentialsType
  <2>7. Traded' /\ SpentOnce' /\ Remembered'
    BY <1>1, <2>1 DEF Traded, SpentOnce, Remembered, CredentialsType
  <2> QED
    BY <2>3, <2>4, <2>5, <2>6, <2>7
<1>4. CASE ~(found # None /\ found.expired)
  <2>1. task' = [task EXCEPT ![t] = Resting] /\ UNCHANGED lock
    BY <1>4 DEF Acquire
  <2> HIDE DEF found
  <2> QED
    BY <1>1, <1>2, <2>1 DEF CredentialsType, Resting, Locked, KnownTokens, Traded, NotOffered, Gone,
       Remembered, SpentOnce
<1> QED
  BY <1>3, <1>4

\* What is sent was not spent, or its answer was lost; what is given out is new.
LEMMA AnswerStep ==
  ASSUME CredentialsInv, NEW t \in Tasks, Answer(t)
  PROVE  CredentialsInv'
<1> USE DEF CredentialsInv
<1> DEFINE k == task[t].token
<1>1. /\ task[t].at = "asked" /\ made < MaxTokens /\ lock = t
      /\ UNCHANGED <<resolver, store, lock, excused>> /\ Stored' = Stored
  BY DEF Answer, Stored, Locked
<1>2. k \in 1..made /\ k \in Token /\ made + 1 \in Token /\ made + 1 \in Nat
  BY <1>1, CredentialsAssumption DEF KnownTokens, Token, CredentialsType
<1>3. spent' = [spent EXCEPT ![k] = IF @ = 0 THEN 1 ELSE 2]
  BY DEF Answer
<1>4. ~Gone(k)
  BY <1>1, <1>2 DEF NotOffered
<1>5. /\ spent' \in [Token -> {0, 1, 2}] /\ spent'[k] # 0
      /\ \A j \in Token \ {k} : spent'[j] = spent[j]
  BY <1>2, <1>3 DEF CredentialsType
<1>6. SpentOnce'
  BY <1>1, <1>2, <1>3, <1>4 DEF SpentOnce, Gone, CredentialsType
<1>7. \A u \in Tasks \ {t} : task[u].at \notin {"asked", "answered", "refused"}
  BY <1>1 DEF Locked
<1>8. CASE k \in live
  <2>1. /\ made' = made + 1 /\ live' = (live \ {k}) \cup {made + 1}
        /\ task' = [task EXCEPT ![t] = [at |-> "answered", token |-> made + 1, sent |-> k]]
    BY <1>8 DEF Answer
  <2>2. task'[t] = [at |-> "answered", token |-> made + 1, sent |-> k]
        /\ \A u \in Tasks \ {t} : task'[u] = task[u]
    BY <2>1 DEF CredentialsType
  <2>3. CredentialsType'
    BY <1>1, <1>2, <1>5, <2>1 DEF CredentialsType
  <2>4. Locked' /\ Remembered'
    BY <1>1, <2>2 DEF Locked, Remembered
  <2>5. KnownTokens'
    BY <1>1, <1>2, <1>5, <2>1, <2>2 DEF KnownTokens, CredentialsType, Token
  <2>6. Traded'
    BY <1>2, <1>5, <2>1 DEF Traded, CredentialsType
  <2>7. spent[made + 1] = 0
    BY <1>2 DEF KnownTokens, CredentialsType
  <2>8. NotOffered'
    <3> SUFFICES ASSUME NEW j \in Token, Gone(j)'
                 PROVE  /\ \A u \in Tasks : task'[u].at \in {"asked", "answered"} => task'[u].token # j
                        /\ Stored # None /\ Stored.token = j =>
                             \E u \in Tasks : task'[u].at = "answered" /\ task'[u].sent = j
      BY <1>1 DEF NotOffered
    <3>1. j # made + 1
      BY <1>2, <1>5, <2>7 DEF Gone, CredentialsType
    <3>2. CASE j = k
      BY <1>7, <2>2, <3>1, <3>2
    <3>3. CASE j # k
      <4>1. Gone(j)
        BY <1>1, <1>5, <3>3 DEF Gone
      <4> QED
        BY <1>7, <2>2, <3>1, <4>1, <1>1 DEF NotOffered
    <3> QED
      BY <3>2, <3>3
  <2> QED
    BY <1>6, <2>3, <2>4, <2>5, <2>6, <2>8
<1>9. CASE k \notin live
  <2>1. task' = [task EXCEPT ![t].at = "refused"] /\ UNCHANGED <<made, live>>
    BY <1>9 DEF Answer
  <2>2. task'[t].at = "refused" /\ \A u \in Tasks \ {t} : task'[u] = task[u]
    BY <2>1 DEF CredentialsType
  <2>3. spent[k] # 0 /\ k \in excused
    BY <1>2, <1>4, <1>9 DEF Traded, Gone
  <2>4. CredentialsType'
    BY <1>1, <1>5, <2>1 DEF CredentialsType
  <2>5. Locked' /\ Remembered' /\ Traded'
    BY <1>1, <1>5, <2>1, <2>2 DEF Locked, Remembered, Traded
  <2>6. KnownTokens'
    BY <1>1, <1>2, <1>5, <2>1, <2>2 DEF KnownTokens, CredentialsType, Token
  <2>7. \A j \in Token : Gone(j)' => Gone(j) /\ j # k
    BY <1>1, <1>5, <2>3 DEF Gone
  <2>8. NotOffered'
    BY <1>1, <1>7, <2>2, <2>7 DEF NotOffered
  <2> QED
    BY <1>6, <2>4, <2>5, <2>6, <2>8
<1> QED
  BY <1>8, <1>9

\* The new credential replaces whatever is stored.
LEMMA ReceiveStep ==
  ASSUME CredentialsInv, NEW t \in Tasks, Receive(t)
  PROVE  CredentialsInv'
<1> USE DEF CredentialsInv
<1> DEFINE n == task[t].token
<1>1. /\ task[t].at = "answered" /\ lock = t /\ n \in 1..made /\ n \in Nat
      /\ store' = Credential(n) /\ task' = [task EXCEPT ![t] = Resting] /\ lock' = None
      /\ UNCHANGED <<resolver, live, made, spent, excused>>
  BY DEF Receive, Locked, KnownTokens, CredentialsType
<1>2. Stored' # None /\ Stored'.token = n /\ store' \in OAuthCredential
  <2>1. Credential(n) \in OAuthCredential /\ Credential(n).token = n
    BY <1>1, Minted
  <2> QED
    BY <1>1, <2>1, CredentialsAssumption DEF Stored, OAuthCredential, ApiKey
<1>3. task'[t] = Resting /\ \A u \in Tasks \ {t} : task'[u] = task[u]
  BY <1>1 DEF CredentialsType
<1>4. \A u \in Tasks : task'[u].at \notin {"asked", "answered", "refused"}
  BY <1>1, <1>3 DEF Locked, Resting
<1>5. CredentialsType'
  BY <1>1, <1>2 DEF CredentialsType, Resting
<1>6. Locked' /\ Traded' /\ SpentOnce' /\ Remembered'
  BY <1>1, <1>2, <1>4 DEF Locked, Traded, SpentOnce, Remembered
<1>7. KnownTokens'
  BY <1>1, <1>2, <1>3, <1>4 DEF KnownTokens, Resting
<1>8. \A k \in Token : Gone(k)' => Gone(k) /\ n # k
  BY <1>1 DEF Gone, NotOffered
<1>9. NotOffered'
  BY <1>2, <1>4, <1>8 DEF NotOffered
<1> QED
  BY <1>5, <1>6, <1>7, <1>9

\* An answer that is lost excuses its token.
LEMMA RaiseStep ==
  ASSUME CredentialsInv, NEW t \in Tasks, Raise(t)
  PROVE  CredentialsInv'
<1> USE DEF CredentialsInv
<1>1. /\ excused' = excused \cup Unheard(t) /\ lock' = Released(t)
      /\ task' = [task EXCEPT ![t] = Resting] /\ Stored' = Stored
      /\ UNCHANGED <<resolver, store, live, made, spent>>
  BY DEF Raise, Stored
<1>2. task'[t] = Resting /\ \A u \in Tasks \ {t} : task'[u] = task[u]
  BY <1>1 DEF CredentialsType
<1>3. lock' \in {None, lock} /\ (lock' # lock => lock = t)
  BY <1>1 DEF Released
<1>4. CredentialsType'
  BY <1>1, <1>3 DEF CredentialsType, Resting
<1>5. Locked'
  BY <1>2, <1>3 DEF Locked, Resting
<1>6. KnownTokens' /\ Remembered'
  BY <1>1, <1>2 DEF KnownTokens, Remembered, Resting
<1>7. Traded' /\ SpentOnce'
  BY <1>1 DEF Traded, SpentOnce
<1>8. \A k \in Token : Gone(k)' => Gone(k) /\ ~(task[t].at = "answered" /\ task[t].sent = k)
  BY <1>1 DEF Gone, Unheard
<1>9. NotOffered'
  BY <1>1, <1>2, <1>8 DEF NotOffered, Resting
<1> QED
  BY <1>4, <1>5, <1>6, <1>7, <1>9

LEMMA ExpireStep ==
  ASSUME CredentialsInv, Expire
  PROVE  CredentialsInv'
<1> USE DEF CredentialsInv
<1>1. Stored # None /\ store \in OAuthCredential /\ Stored = store
  BY StoredIs DEF Expire, CredentialsType
<1>2. /\ store' \in OAuthCredential /\ store'.token = store.token
      /\ UNCHANGED <<resolver, lock, task, live, made, spent, excused>>
  BY <1>1 DEF Expire, OAuthCredential
<1>3. Stored' # None /\ Stored'.token = Stored.token
  BY <1>1, <1>2, CredentialsAssumption DEF Stored, OAuthCredential, ApiKey
<1>4. CredentialsType'
  BY <1>2 DEF CredentialsType
<1> QED
  BY <1>1, <1>2, <1>3, <1>4 DEF Locked, KnownTokens, Traded, NotOffered, Gone, Remembered, SpentOnce

LEMMA ForgetStep ==
  ASSUME CredentialsInv, Forget
  PROVE  CredentialsInv'
<1> USE DEF CredentialsInv
<1>1. /\ store' \in {None, ApiKey} /\ Stored' = None
      /\ excused' = excused \cup {task[t].token : t \in {u \in Tasks : task[u].at = "waiting"}}
      /\ UNCHANGED <<resolver, lock, task, live, made, spent>>
  BY DEF Forget, Stored
<1>2. CredentialsType'
  BY <1>1 DEF CredentialsType
<1>3. \A k \in Token : Gone(k)' => Gone(k)
  BY <1>1 DEF Gone
<1>4. Remembered'
  BY <1>1 DEF Remembered
<1>5. NotOffered'
  BY <1>1, <1>3 DEF NotOffered
<1> QED
  BY <1>1, <1>2, <1>4, <1>5 DEF Locked, KnownTokens, Traded, SpentOnce

\* A login stores a token that nobody had before.
LEMMA ExchangeStep ==
  ASSUME CredentialsInv, Exchange(TRUE)
  PROVE  CredentialsInv'
<1> USE DEF CredentialsInv
<1> DEFINE n == made + 1
<1>1. /\ made < MaxTokens /\ made' = n /\ store' = Credential(n) /\ live' = live \cup {n}
      /\ UNCHANGED <<resolver, lock, task, spent, excused>>
  BY DEF Exchange
<1>2. n \in Nat /\ n \in 1..n /\ 1..n = (1..made) \cup {n}
  BY DEF CredentialsType
<1>3. Stored' # None /\ Stored'.token = n /\ store' \in OAuthCredential
  <2>1. Credential(n) \in OAuthCredential /\ Credential(n).token = n
    BY <1>2, Minted
  <2> QED
    BY <1>1, <2>1, CredentialsAssumption DEF Stored, OAuthCredential, ApiKey
<1>4. CredentialsType'
  BY <1>1, <1>2, <1>3 DEF CredentialsType
<1>5. KnownTokens'
  BY <1>1, <1>2, <1>3 DEF KnownTokens, CredentialsType, Token
<1>6. Traded'
  BY <1>1, <1>2 DEF Traded
<1>7. \A k \in Token : spent[k] # 0 => k # n
  BY <1>2 DEF KnownTokens, CredentialsType, Token
<1>8. NotOffered'
  BY <1>1, <1>3, <1>7 DEF NotOffered, Gone
<1>9. Locked' /\ Remembered' /\ SpentOnce'
  BY <1>1, <1>3 DEF Locked, Remembered, SpentOnce
<1> QED
  BY <1>4, <1>5, <1>6, <1>8, <1>9

\* Everything else a login does leaves the credential alone.
requestVars == <<resolver, store, lock, task, live, made, spent, excused>>

LEMMA LoginLeavesAlone ==
  ASSUME LoginStep
  PROVE  Exchange(TRUE) \/ UNCHANGED requestVars
<1> USE DEF KeepRequests, requestVars
<1>1. ASSUME NEW ok \in BOOLEAN, Exchange(ok) PROVE Exchange(TRUE) \/ UNCHANGED requestVars
  BY <1>1 DEF Exchange
<1>2. CASE \E served, manual \in BOOLEAN : BrowserLogin(served, manual)
  BY <1>2 DEF BrowserLogin
<1>3. CASE \E right \in BOOLEAN : Callback(right)
  BY <1>3 DEF Callback
<1>4. CASE \E answer \in Pasted : FirstAnswer(answer) \/ Prompted(answer)
  BY <1>4 DEF FirstAnswer, Prompted
<1>5. ASSUME NEW asked \in 0..MaxInterval, DeviceLogin(asked) PROVE UNCHANGED requestVars
  BY <1>5 DEF DeviceLogin
<1>6. ASSUME NEW status, NEW asked, Poll(status, asked) PROVE UNCHANGED requestVars
  BY <1>6 DEF Poll
<1>7. CASE Tick \/ TimedOut \/ LoginCancelled \/ LoginClosed
  BY <1>7 DEF Tick, TimedOut, LoginCancelled, LoginClosed
<1> QED
  BY <1>1, <1>2, <1>3, <1>4, <1>5, <1>6, <1>7 DEF LoginStep

LEMMA UnchangedStep ==
  ASSUME CredentialsInv, UNCHANGED requestVars
  PROVE  CredentialsInv'
<1>1. Stored' = Stored
  BY DEF requestVars, Stored
<1> QED
  BY <1>1 DEF requestVars, CredentialsInv, CredentialsType, Locked, KnownTokens, Traded, NotOffered,
     Gone, Remembered, SpentOnce

LEMMA CredentialsStepInv == CredentialsInv /\ [CredentialsNext]_credVars => CredentialsInv'
<1> SUFFICES ASSUME CredentialsInv, [CredentialsNext]_credVars PROVE CredentialsInv'
  OBVIOUS
<1>1. ASSUME NEW t \in Tasks, RequestStep(t) PROVE CredentialsInv'
  BY <1>1, ResolveStep, AcquireStep, AnswerStep, ReceiveStep, RaiseStep DEF RequestStep
<1>2. CASE Expire
  BY <1>2, ExpireStep
<1>3. CASE Forget
  BY <1>3, ForgetStep
<1>4. CASE LoginStep
  BY <1>4, LoginLeavesAlone, ExchangeStep, UnchangedStep
<1>5. CASE UNCHANGED credVars
  BY <1>5, UnchangedStep DEF credVars, requestVars
<1> QED
  BY <1>1, <1>2, <1>3, <1>4, <1>5 DEF CredentialsNext

\* The writers of the other files leave the credentials alone.
LEMMA CredentialsHold == Spec => []CredentialsInv
<1>1. Init => CredentialsInv
  BY CredentialsInitInv DEF Init
<1>2. CredentialsInv /\ [Next]_vars => CredentialsInv'
  BY CredentialsStepInv DEF Next, vars
<1> QED
  BY <1>1, <1>2, PTL DEF Spec

\* However many tasks find the token expired, and whatever logins, logouts, failures and
\* cancellations come between, a refresh token is sent twice only if its first answer was lost or
\* a logout came while a task waited: the lock and the second look are enough (_refresh_lock).
THEOREM TokensAreSpentOnce == Spec => []SpentOnce
<1>1. CredentialsInv => SpentOnce
  BY DEF CredentialsInv
<1> QED
  BY <1>1, CredentialsHold, PTL
------------------------------------------------------------------------------
(* The clock of a device login *)

\* The next poll is due an interval after the last one, or when the code expires.
Timed ==
  /\ clock \in [now : Nat, last : Nat, interval : Nat, due : Nat, deadline : Nat]
  /\ clock.now <= clock.due
  /\ clock.due = Least(clock.last + clock.interval, clock.deadline)

LEMMA PollTimed ==
  ASSUME Timed, NEW status, NEW asked \in 0 .. MaxInterval, Poll(status, asked)
  PROVE  /\ Timed'
         /\ clock'.last < clock.deadline
         /\ clock'.last - clock.last >= clock.interval
<1> DEFINE interval == IF status = "slow_down" THEN Slowed(asked) ELSE clock.interval
<1>1. /\ clock.now = clock.due /\ clock.now < clock.deadline
      /\ clock' = [clock EXCEPT !.last = clock.now, !.interval = interval,
                               !.due = NextPoll(interval)]
  BY DEF Poll
<1>2. interval \in Nat
  BY CredentialsAssumption DEF Timed, Slowed, Least
<1> HIDE DEF interval
<1>3. /\ clock.now \in Nat /\ clock.last \in Nat /\ clock.interval \in Nat
      /\ clock.deadline \in Nat /\ NextPoll(interval) \in Nat
  BY <1>2 DEF Timed, NextPoll, Least
<1>4. /\ clock' \in [now : Nat, last : Nat, interval : Nat, due : Nat, deadline : Nat]
      /\ clock'.now = clock.now /\ clock'.last = clock.now /\ clock'.interval = interval
      /\ clock'.due = NextPoll(interval) /\ clock'.deadline = clock.deadline
  BY <1>1, <1>2, <1>3 DEF Timed
<1>5. clock.now = clock.last + clock.interval
  BY <1>1, <1>3 DEF Timed, Least
<1>6. Timed'
  BY <1>1, <1>2, <1>3, <1>4 DEF Timed, NextPoll, Least
<1> QED
  BY <1>1, <1>3, <1>4, <1>5, <1>6

LEMMA LoginTimed ==
  ASSUME Timed, LoginStep
  PROVE  /\ Timed'
         /\ clock'.last > clock.last => /\ clock'.last < clock.deadline
                                       /\ clock'.last - clock.last >= clock.interval
<1>1. CASE UNCHANGED clock
  BY <1>1 DEF Timed
<1>2. ASSUME NEW asked \in 0 .. MaxInterval, DeviceLogin(asked)
      PROVE  Timed' /\ clock'.last = 0
  BY <1>2, CredentialsAssumption DEF DeviceLogin, Timed, PollInterval, Least
<1>3. ASSUME NEW status, NEW asked \in 0 .. MaxInterval, Poll(status, asked)
      PROVE  /\ Timed'
             /\ clock'.last < clock.deadline
             /\ clock'.last - clock.last >= clock.interval
  BY <1>3, PollTimed
<1>4. CASE Tick
  BY <1>4 DEF Tick, Timed, Least
<1>5. CASE LoginClosed
  BY <1>5 DEF LoginClosed, NoClock, Timed, Least
<1>6. clock.last \in Nat
  BY DEF Timed
<1>7. \/ UNCHANGED clock \/ Tick \/ LoginClosed
      \/ \E asked \in 0 .. MaxInterval :
           DeviceLogin(asked)
             \/ \E status \in {"complete", "pending", "slow_down", "failed"} : Poll(status, asked)
  BY DEF LoginStep, BrowserLogin, Callback, FirstAnswer, Prompted, Exchange, TimedOut,
     LoginCancelled
<1>8. CASE LoginClosed
  BY <1>5, <1>6, <1>8 DEF LoginClosed, NoClock
<1>9. CASE Tick
  BY <1>4, <1>6, <1>9 DEF Tick, Timed
<1> QED
  BY <1>1, <1>2, <1>3, <1>5, <1>6, <1>7, <1>8, <1>9

(* A device code is polled at most once in the interval the server last      *)
(* asked for, and never when it has expired, whatever intervals the server   *)
(* asks for and in whatever order it slows the program down                  *)
(* (poll_oauth_device_code).                                                 *)
THEOREM PollsAreInTime == Spec => PolledInTime
<1>1. Init => Timed
  BY DEF Init, CredentialsInit, NoClock, Timed, Least
<1>2. ASSUME Timed, [Next]_vars
      PROVE  /\ Timed'
             /\ clock'.last > clock.last => /\ clock'.last < clock.deadline
                                           /\ clock'.last - clock.last >= clock.interval
  <2>1. CASE UNCHANGED clock
    BY <1>2, <2>1 DEF Timed
  <2>2. CASE LoginStep
    BY <1>2, <2>2, LoginTimed
  <2>3. UNCHANGED clock \/ LoginStep
    BY <1>2 DEF Next, vars, CredentialsNext, credVars, RequestStep, Resolve, Acquire, Answer,
       Receive, Raise, Expire, Forget, UNCHANGED_LOGIN
  <2> QED
    BY <2>1, <2>2, <2>3
<1>3. Timed /\ [Next]_vars => Timed'
  BY <1>2
<1>4. Timed /\ [Next]_vars
        => [clock'.last > clock.last => /\ clock'.last < clock.deadline
                                       /\ clock'.last - clock.last >= clock.interval]_credVars
  BY <1>2
<1> QED
  BY <1>1, <1>3, <1>4, PTL DEF Spec, PolledInTime


------------------------------------------------------------------------------
(* The choice of a model *)

Maps(S) == UNION {[D -> S] : D \in SUBSET Names}
Settings == [default : Names, providers : Maps(Configs), scoped : Seq(Names \X Models)]
Whole == {d \in Definitions : d.default \in d.models}
Overlays == {f \in Maps(Definitions) : \A n \in DOMAIN f : Accepted(n, f[n])}
Preferences == [default : Models, chosen : [Models -> Levels \cup {Null}]]
CurrentFiles == [is : {"current"}, default : Names, scoped : Seq(Names \X Models),
                 prefs : Maps(Preferences)]
Pairs == {NoChoice} \cup (Names \X Models)
Sessions == [up : {TRUE}, conv : Conversations, settings : Settings, name : Names, model : Models,
             level : Levels, conf : Configs \cup {NoConfig},
             built : {NoChoice} \cup (Names \X Models \X Levels),
             asked : Pairs, limits : Pairs, waiting : Pairs]

Recorded(rs, js, s) ==
  /\ rs \in [Conversations -> Pairs]
  /\ js \in [Conversations -> {NoChoice} \cup (Models \X Levels)]
  /\ \A c \in Conversations : rs[c] # NoChoice => js[c] # NoChoice
  /\ s.up => rs[s.conv] # NoChoice

ChoiceType ==
  /\ file \in {NoFile, LegacyFile(LegacySettings)} \cup CurrentFiles
  /\ overlay \in Overlays
  /\ release \in DOMAIN Bundled
  /\ session \in {Down} \cup Sessions
  /\ Recorded(records, journals, session)
  /\ migrating \in {NoConfig} \cup Settings

\* The levels a model is offered with, and what is remembered of them.
Fits(l, offered) == offered = {} \/ l \in offered
Remembers(config) == \A m \in Models : \/ config.chosen[m] = Null
                                       \/ m \in config.models /\ config.chosen[m] \in config.levels[m]
\* A config offers of its definition nothing that is not there, and the levels that are there.
Within(config, def) == /\ config.models \subseteq def.models
                       /\ \A m \in config.models : config.levels[m] = def.levels[m]
Exact(config, def) == /\ config.models = def.models /\ config.levels = def.levels
                      /\ Remembers(config)

\* The level in use is offered, and what is known of limits is of the model they were asked for.
AsAsked(s) ==
  s.asked # NoChoice => s.limits \in {NoChoice, s.asked} /\ s.waiting \in {NoChoice, s.asked}
Sensible(s) == AsAsked(s) /\ (Known(s) => Fits(s.level, Active(s).levels[s.model]))

\* What a session has in mind is what the files say.
Agrees(s, f, eff, can) ==
  /\ Readable(f, eff)
  /\ \A n \in DOMAIN s.settings.providers :
       n \in DOMAIN eff /\ Within(s.settings.providers[n], eff[n])
  /\ f = NoFile => /\ DOMAIN s.settings.providers = DOMAIN eff
                   /\ \A n \in DOMAIN eff : Exact(s.settings.providers[n], eff[n])
  /\ s.conf # NoConfig /\ s.name \in DOMAIN eff =>
       /\ Known(s) \/ s.name \notin can
       /\ s.model \in eff[s.name].models
       /\ Fits(s.level, eff[s.name].levels[s.model])

BuiltAsShown(s, can) ==
  s.conf # NoConfig /\ s.name \in can => s.built = <<s.name, s.model, s.level>>

Defining == DOMAIN LegacySettings.providers \ (Builtin \cup dropped)
Carried ==
  /\ session.up => file # LegacyFile(LegacySettings)
  /\ migrating # NoConfig => /\ ~session.up /\ file = LegacyFile(LegacySettings)
                             /\ Defining \subseteq DOMAIN overlay
  /\ file = LegacyFile(LegacySettings) \/ Defining \subseteq DOMAIN overlay

ChoiceInv ==
  /\ ChoiceType /\ Carried
  /\ session.up => Sensible(session)
  /\ session.up /\ ~unread => Agrees(session, file, Eff, creds) /\ BuiltAsShown(session, creds)

\* The first of the chosen in an order is one of them.
LEMMA FirstIs ==
  ASSUME NEW T, NEW order \in Seq(T), NEW chosen, NEW x \in chosen,
         \E i \in DOMAIN order : order[i] = x
  PROVE  FirstOf(order, chosen) \in chosen /\ FirstOf(order, chosen) \in T
<1> DEFINE I == {i \in DOMAIN order : order[i] \in chosen}
<1>1. I \in SUBSET Nat /\ I # {}
  OBVIOUS
<1>2. PICK n \in I : \A m \in I : n <= m
  <2> HIDE DEF I
  <2> QED
    BY <1>1, LeastNumber
<1>3. n \in DOMAIN order /\ order[n] \in chosen /\ \A j \in 1 .. n - 1 : order[j] \notin chosen
  <2>1. SUFFICES ASSUME NEW j \in 1 .. n - 1, order[j] \in chosen PROVE FALSE
    BY <1>2
  <2>2. j \in I
    BY <2>1
  <2> QED
    BY <1>2, <2>1, <2>2
<1> DEFINE P(i) == order[i] \in chosen /\ \A j \in 1 .. i - 1 : order[j] \notin chosen
<1>4. /\ (CHOOSE i \in DOMAIN order : P(i)) \in DOMAIN order
      /\ P(CHOOSE i \in DOMAIN order : P(i))
  BY <1>3
<1> QED
  BY <1>4 DEF FirstOf

LEMMA NamesListed == \A n \in Names : \E i \in DOMAIN NameOrder : NameOrder[i] = n
  BY DEF Names

LEMMA LevelsListed == \A l \in Levels : \E i \in DOMAIN LevelOrder : LevelOrder[i] = l
  BY DEF Levels

LEMMA DefaultLevelIs ==
  ASSUME NEW offered \in SUBSET Levels, offered # {}
  PROVE  DefaultLevelOf(offered) \in offered
<1>1. PICK l \in offered : TRUE
  OBVIOUS
<1>2. FirstOf(LevelOrder, offered) \in offered
  BY <1>1, LevelsListed, FirstIs, SettingsAssumption
<1> QED
  BY <1>2 DEF DefaultLevelOf

\* A level is adapted to one that the model offers.
LEMMA CoercedIs ==
  ASSUME NEW config \in Configs, NEW m \in Models, NEW l \in Levels, NEW p \in Levels \cup {Null}
  PROVE  /\ CoercedLevel(config, m, l, p) \in Levels
         /\ Fits(CoercedLevel(config, m, l, p), config.levels[m])
         /\ Fits(l, config.levels[m]) => CoercedLevel(config, m, l, p) = l
<1>1. config.levels[m] \in SUBSET Levels
  BY DEF Configs
<1> QED
  BY <1>1, DefaultLevelIs DEF CoercedLevel, Fits

LEMMA PreferredIs ==
  ASSUME NEW config \in Configs, NEW m \in Models, NEW l \in Levels
  PROVE  /\ PreferredLevel(config, m, l) \in Levels
         /\ Fits(PreferredLevel(config, m, l), config.levels[m])
<1>1. config.levels[m] \in SUBSET Levels
  BY DEF Configs
<1> QED
  BY <1>1, DefaultLevelIs DEF PreferredLevel, Fits

------------------------------------------------------------------------------
(* Mappings *)

LEMMA MapIs ==
  ASSUME NEW S, NEW D \in SUBSET Names, NEW f \in [D -> S]
  PROVE  f \in Maps(S)
  BY DEF Maps

LEMMA MapOf ==
  ASSUME NEW S, NEW f \in Maps(S)
  PROVE  DOMAIN f \subseteq Names /\ f \in [DOMAIN f -> S] /\ \A n \in DOMAIN f : f[n] \in S
<1>1. PICK D \in SUBSET Names : f \in [D -> S]
  BY DEF Maps
<1> QED
  BY <1>1

Overlaid(f, over, base) ==
  /\ DOMAIN f = DOMAIN over \cup DOMAIN base
  /\ \A n \in DOMAIN over : f[n] = over[n]
  /\ \A n \in DOMAIN base \ DOMAIN over : f[n] = base[n]

LEMMA LaidIs ==
  ASSUME NEW S, NEW over \in Maps(S), NEW base \in Maps(S)
  PROVE  Laid(over, base) \in Maps(S) /\ Overlaid(Laid(over, base), over, base)
<1>1. /\ DOMAIN over \subseteq Names /\ DOMAIN base \subseteq Names
      /\ \A n \in DOMAIN over : over[n] \in S
      /\ \A n \in DOMAIN base : base[n] \in S
      /\ base \in [DOMAIN base -> S]
  BY MapOf
<1>2. Laid(over, base) \in [DOMAIN over \cup DOMAIN base -> S]
  BY <1>1 DEF Laid
<1>3. Laid(over, base) \in Maps(S)
  BY <1>1, <1>2, MapIs
<1> QED
  BY <1>3 DEF Laid, Overlaid

LEMMA LaidNothing ==
  ASSUME NEW S, NEW over, NEW base \in Maps(S), DOMAIN over = {}
  PROVE  Laid(over, base) = base
<1>1. base \in [DOMAIN base -> S]
  BY MapOf
<1> QED
  BY <1>1 DEF Laid

Placed(f, base, n, v) ==
  /\ DOMAIN f = {n} \cup DOMAIN base
  /\ f[n] = v
  /\ \A k \in DOMAIN base \ {n} : f[k] = base[k]

LEMMA WithIs ==
  ASSUME NEW S, NEW base \in Maps(S), NEW n \in Names, NEW v \in S
  PROVE  With(base, n, v) \in Maps(S) /\ Placed(With(base, n, v), base, n, v)
<1> DEFINE one == [k \in {n} |-> v]
<1>1. one \in Maps(S)
  <2>1. one \in [{n} -> S]
    OBVIOUS
  <2> QED
    BY <2>1, MapIs
<1>2. DOMAIN one = {n} /\ one[n] = v
  OBVIOUS
<1>3. With(base, n, v) = Laid(one, base)
  BY DEF With
<1> HIDE DEF one
<1>4. Laid(one, base) \in Maps(S) /\ Overlaid(Laid(one, base), one, base)
  BY <1>1, LaidIs
<1> QED
  BY <1>2, <1>3, <1>4 DEF Overlaid, Placed

------------------------------------------------------------------------------
(* The catalog *)

LEMMA TombstonedIs ==
  ASSUME NEW def \in Definitions, NEW base \in Definitions, Complete(def)
  PROVE  /\ Tombstoned(def, base) \in Whole
         /\ Tombstoned(def, base).models = def.models \ def.removed
         /\ Tombstoned(def, base).levels = def.levels
<1> DEFINE left == def.models \ def.removed
           d == IF def.default \notin def.removed THEN def.default
                ELSE IF base.default \in left THEN base.default
                ELSE CHOOSE m \in left : TRUE
<1>1. left # {} /\ left \in SUBSET Models
  BY DEF Complete, Definitions
<1>2. d \in left
  BY <1>1 DEF Complete
<1>3. Tombstoned(def, base) = [models |-> left, default |-> d, levels |-> def.levels,
                               removed |-> def.removed]
  <2>1. def = [models |-> def.models, default |-> def.default, levels |-> def.levels,
               removed |-> def.removed]
    BY DEF Definitions
  <2>2. Tombstoned(def, base) = [[def EXCEPT !.models = left] EXCEPT !.default = d]
    BY <2>1 DEF Tombstoned
  <2> HIDE DEF d, left
  <2> QED
    BY <2>1, <2>2
<1> HIDE DEF d, left
<1>4. Tombstoned(def, base) \in Whole
  BY <1>1, <1>2, <1>3 DEF Whole, Definitions
<1> QED
  BY <1>3, <1>4 DEF left

LEMMA BundledIs ==
  ASSUME NEW r \in DOMAIN Bundled, NEW n \in Builtin
  PROVE  Bundled[r][n] \in Definitions /\ Complete(Bundled[r][n]) /\ n \in Names
  BY SettingsAssumption

LEMMA MergedIs ==
  ASSUME NEW base \in Definitions, NEW over \in Definitions
  PROVE  MergeDefinition(base, over) \in Definitions
  BY DEF MergeDefinition, Definitions

LEMMA BuiltinIs ==
  ASSUME NEW r \in DOMAIN Bundled, NEW n \in Builtin
  PROVE  /\ BuiltinEntry(r, n) \in Whole
         /\ BuiltinEntry(r, n).models = Bundled[r][n].models \ Bundled[r][n].removed
         /\ BuiltinEntry(r, n).levels = Bundled[r][n].levels
  BY BundledIs, TombstonedIs DEF BuiltinEntry

\* What is in force of each provider.
LEMMA EffectiveIs ==
  ASSUME NEW r \in DOMAIN Bundled, NEW over \in Overlays
  PROVE  /\ Effective(r, over) \in Maps(Whole)
         /\ DOMAIN Effective(r, over) = Builtin \cup DOMAIN over
         /\ \A n \in Builtin \ DOMAIN over : Effective(r, over)[n] = BuiltinEntry(r, n)
         /\ \A n \in Builtin \cap DOMAIN over :
              LET def == MergeDefinition(Bundled[r][n], over[n]) IN
              /\ Effective(r, over)[n].models = def.models \ def.removed
              /\ Effective(r, over)[n].levels = def.levels
         /\ \A n \in DOMAIN over \ Builtin :
              /\ Effective(r, over)[n].models = over[n].models \ over[n].removed
              /\ Effective(r, over)[n].levels = over[n].levels
<1> DEFINE E == Effective(r, over)
           D == Builtin \cup DOMAIN over
<1>1. /\ DOMAIN over \subseteq Names
      /\ \A n \in DOMAIN over : over[n] \in Definitions /\ Accepted(n, over[n])
  BY MapOf DEF Overlays
<1>2. DOMAIN E = D /\ D \subseteq Names
  BY <1>1, SettingsAssumption DEF Effective
<1>3. ASSUME NEW n \in Builtin \ DOMAIN over
      PROVE  E[n] = BuiltinEntry(r, n) /\ E[n] \in Whole
  <2>1. E[n] = BuiltinEntry(r, n)
    BY DEF Effective
  <2> QED
    BY <2>1, BuiltinIs
<1>4. ASSUME NEW n \in Builtin \cap DOMAIN over
      PROVE  LET def == MergeDefinition(Bundled[r][n], over[n]) IN
             E[n] \in Whole /\ E[n].models = def.models \ def.removed /\ E[n].levels = def.levels
  <2> DEFINE def == MergeDefinition(Bundled[r][n], over[n])
  <2>1. E[n] = Tombstoned(def, Bundled[r][n])
    BY DEF Effective
  <2>2. def \in Definitions /\ Bundled[r][n] \in Definitions
    BY <1>1, BundledIs, MergedIs
  <2>3. Complete(def)
    BY <1>1 DEF Accepted
  <2> HIDE DEF def
  <2>4. E[n] \in Whole /\ E[n].models = def.models \ def.removed /\ E[n].levels = def.levels
    BY <2>1, <2>2, <2>3, TombstonedIs
  <2> QED
    BY <2>4 DEF def
<1>5. ASSUME NEW n \in DOMAIN over \ Builtin
      PROVE  /\ E[n] \in Whole /\ E[n].models = over[n].models \ over[n].removed
             /\ E[n].levels = over[n].levels
  <2>1. E[n] = Tombstoned(over[n], over[n])
    BY DEF Effective
  <2>2. over[n] \in Definitions /\ Complete(over[n])
    BY <1>1 DEF Accepted
  <2> QED
    BY <2>1, <2>2, TombstonedIs
<1>6. \A n \in D : E[n] \in Whole
  <2> SUFFICES ASSUME NEW n \in D PROVE E[n] \in Whole
    OBVIOUS
  <2>1. CASE n \in Builtin \ DOMAIN over
    BY <2>1, <1>3
  <2>2. CASE n \in Builtin \cap DOMAIN over
    BY <2>2, <1>4
  <2>3. CASE n \in DOMAIN over \ Builtin
    BY <2>3, <1>5
  <2> QED
    BY <2>1, <2>2, <2>3
<1>7. E \in Maps(Whole)
  <2>1. E \in [D -> Whole]
    BY <1>6 DEF Effective
  <2> HIDE DEF E, D
  <2> QED
    BY <1>2, <2>1, MapIs
<1> QED
  BY <1>2, <1>3, <1>4, <1>5, <1>7
------------------------------------------------------------------------------
(* Configs and settings *)

\* Settings that were read offer what is in force, and remember levels that are offered.
Reads(s, eff, can) ==
  /\ s \in Settings
  /\ \A n \in DOMAIN s.providers : n \in DOMAIN eff /\ Exact(s.providers[n], eff[n])
  /\ \A n \in DOMAIN eff : n \notin Builtin \/ n \in can => n \in DOMAIN s.providers

LEMMA ConfigIs ==
  ASSUME NEW d \in Whole
  PROVE  ConfigOf(d) \in Configs /\ Exact(ConfigOf(d), d)
  BY DEF ConfigOf, Whole, Definitions, Configs, Exact, Remembers

LEMMA AppliedIs ==
  ASSUME NEW c \in Configs, NEW p \in Preferences
  PROVE  /\ ApplyPreference(c, p) \in Configs
         /\ ApplyPreference(c, p).models = c.models
         /\ ApplyPreference(c, p).levels = c.levels
         /\ PreferenceFits(c, p) => Remembers(ApplyPreference(c, p))
<1> DEFINE d == IF p.default \in c.models THEN p.default ELSE c.default
           ch == [m \in Models |-> IF m \in c.models THEN p.chosen[m] ELSE Null]
<1>1. c = [models |-> c.models, default |-> c.default, levels |-> c.levels, chosen |-> c.chosen]
  BY DEF Configs
<1>2. /\ c.models \in SUBSET Models /\ c.default \in c.models /\ c.levels \in [Models -> SUBSET Levels]
      /\ p.default \in Models /\ p.chosen \in [Models -> Levels \cup {Null}]
  BY DEF Configs, Preferences
<1>3. ApplyPreference(c, p) = [models |-> c.models, default |-> d, levels |-> c.levels, chosen |-> ch]
  <2>1. ApplyPreference(c, p) = [[c EXCEPT !.default = d] EXCEPT !.chosen = ch]
    BY <1>1 DEF ApplyPreference
  <2> HIDE DEF d, ch
  <2> QED
    BY <1>1, <2>1
<1>4. d \in c.models /\ ch \in [Models -> Levels \cup {Null}]
  BY <1>2
<1>5. PreferenceFits(c, p) => \A m \in Models : \/ ch[m] = Null
                                                \/ m \in c.models /\ ch[m] \in c.levels[m]
  BY <1>2 DEF PreferenceFits
<1> HIDE DEF d, ch
<1>6. ApplyPreference(c, p) \in Configs
  BY <1>2, <1>3, <1>4 DEF Configs
<1> QED
  BY <1>3, <1>5, <1>6 DEF Remembers

LEMMA PreferenceIs ==
  ASSUME NEW c \in Configs
  PROVE  Preference(c) \in Preferences
  BY DEF Preference, Configs, Preferences

LEMMA SettingsAre ==
  ASSUME NEW s \in Settings
  PROVE  /\ s.default \in Names /\ s.providers \in Maps(Configs) /\ s.scoped \in Seq(Names \X Models)
         /\ DOMAIN s.providers \subseteq Names
         /\ \A n \in DOMAIN s.providers : s.providers[n] \in Configs
<1>1. s.default \in Names /\ s.providers \in Maps(Configs) /\ s.scoped \in Seq(Names \X Models)
  BY DEF Settings
<1> QED
  BY <1>1, MapOf

LEMMA DefaultGiven ==
  ASSUME NEW default \in Names, NEW providers \in Maps(Configs), NEW first \in SUBSET DOMAIN providers,
         NEW scoped \in Seq(Names \X Models)
  PROVE  /\ WithDefault(default, providers, first, scoped) \in Settings
         /\ WithDefault(default, providers, first, scoped).providers = providers
<1> DEFINE from == IF first # {} THEN first ELSE DOMAIN providers
           d == IF default \in DOMAIN providers THEN default
                ELSE IF DOMAIN providers = {} THEN DefaultName
                ELSE FirstOf(NameOrder, from)
<1>1. DOMAIN providers \subseteq Names
  BY MapOf
<1>2. DOMAIN providers # {} => FirstOf(NameOrder, from) \in Names
  <2> SUFFICES ASSUME DOMAIN providers # {} PROVE FirstOf(NameOrder, from) \in Names
    OBVIOUS
  <2>1. PICK n \in from : n \in Names
    BY <1>1
  <2> QED
    BY <2>1, NamesListed, FirstIs, SettingsAssumption
<1>3. d \in Names
  BY <1>2, SettingsAssumption
<1>4. WithDefault(default, providers, first, scoped)
        = [default |-> d, providers |-> providers, scoped |-> scoped]
  BY DEF WithDefault
<1> HIDE DEF d
<1> QED
  BY <1>3, <1>4 DEF Settings

\* The configs of a mapping, with those the catalog adds.
Appended(all, configs, eff, can) ==
  /\ all \in Maps(Configs)
  /\ \A n \in DOMAIN configs : n \in DOMAIN all /\ all[n] = configs[n]
  /\ \A n \in DOMAIN all \ DOMAIN configs : n \in DOMAIN eff /\ all[n] = ConfigOf(eff[n])
  /\ \A n \in DOMAIN eff : n \notin Builtin \/ n \in can => n \in DOMAIN all

LEMMA AppendedIs ==
  ASSUME NEW eff \in Maps(Whole), NEW can, NEW configs \in Maps(Configs)
  PROVE  Appended(AppendCatalog(configs, eff, can), configs, eff, can)
<1> DEFINE wanted == {n \in DOMAIN eff : n \notin Builtin \/ n \in can}
           added == [n \in wanted |-> ConfigOf(eff[n])]
           all == AppendCatalog(configs, eff, can)
<1>1. DOMAIN eff \subseteq Names /\ \A n \in DOMAIN eff : eff[n] \in Whole
  BY MapOf
<1>2. added \in [wanted -> Configs] /\ wanted \in SUBSET Names
  BY <1>1, ConfigIs
<1>3. added \in Maps(Configs)
  <2> HIDE DEF added, wanted
  <2> QED
    BY <1>2, MapIs
<1>4. all = Laid(configs, added) /\ DOMAIN added = wanted
  BY DEF AppendCatalog
<1>5. \A n \in wanted : added[n] = ConfigOf(eff[n])
  OBVIOUS
<1> HIDE DEF added
<1>6. all \in Maps(Configs) /\ Overlaid(all, configs, added)
  BY <1>3, <1>4, LaidIs
<1> HIDE DEF all
<1>7. Appended(all, configs, eff, can)
  BY <1>4, <1>5, <1>6 DEF Overlaid, Appended
<1> QED
  BY <1>7 DEF all

LEMMA FileIs ==
  ASSUME NEW f \in CurrentFiles
  PROVE  /\ f.prefs \in Maps(Preferences) /\ DOMAIN f.prefs \subseteq Names
         /\ \A n \in DOMAIN f.prefs : f.prefs[n] \in Preferences
         /\ f.default \in Names /\ f.scoped \in Seq(Names \X Models) /\ f.is = "current"
<1>1. f.prefs \in Maps(Preferences)
  BY DEF CurrentFiles
<1> QED
  BY <1>1, MapOf DEF CurrentFiles

\* What the current file, or none, is read as.
LEMMA LoadedIs ==
  ASSUME NEW eff \in Maps(Whole), NEW can, NEW f \in {NoFile} \cup CurrentFiles, Readable(f, eff)
  PROVE  /\ Reads(LoadSettings(f, eff, can), eff, can)
         /\ f = NoFile => DOMAIN LoadSettings(f, eff, can).providers = DOMAIN eff
<1> DEFINE S == LoadSettings(f, eff, can)
<1>1. DOMAIN eff \subseteq Names /\ \A n \in DOMAIN eff : eff[n] \in Whole
  BY MapOf
<1>2. CASE f = NoFile
  <2> DEFINE all == [n \in DOMAIN eff |-> ConfigOf(eff[n])]
  <2>1. S = [default |-> DefaultName, scoped |-> <<>>, providers |-> all]
    BY <1>2 DEF LoadSettings, NoFile
  <2>2. all \in [DOMAIN eff -> Configs] /\ \A n \in DOMAIN eff : Exact(all[n], eff[n])
    BY <1>1, ConfigIs
  <2>3. DOMAIN all = DOMAIN eff
    OBVIOUS
  <2> HIDE DEF all
  <2>4. all \in Maps(Configs)
    BY <1>1, <2>2, MapIs
  <2>5. <<>> \in Seq(Names \X Models)
    OBVIOUS
  <2>6. S \in Settings
    BY <2>1, <2>4, <2>5, SettingsAssumption DEF Settings
  <2> HIDE DEF S
  <2>7. Reads(S, eff, can) /\ DOMAIN S.providers = DOMAIN eff
    BY <2>1, <2>2, <2>3, <2>6 DEF Reads
  <2> QED
    BY <2>7 DEF S
<1>3. CASE f \in CurrentFiles
  <2> DEFINE known == DOMAIN f.prefs \cap DOMAIN eff
             configs == [n \in known |-> ApplyPreference(ConfigOf(eff[n]), f.prefs[n])]
             all == AppendCatalog(configs, eff, can)
  <2>1. /\ f.is = "current" /\ f.default \in Names /\ f.scoped \in Seq(Names \X Models)
        /\ \A n \in DOMAIN f.prefs : f.prefs[n] \in Preferences
    BY <1>3, FileIs
  <2>2. S = WithDefault(f.default, all, known, f.scoped)
    BY <2>1 DEF LoadSettings, LoadedCurrent
  <2>3. \A n \in known : configs[n] \in Configs /\ Exact(configs[n], eff[n])
    <3> SUFFICES ASSUME NEW n \in known PROVE configs[n] \in Configs /\ Exact(configs[n], eff[n])
      OBVIOUS
    <3> DEFINE c == ConfigOf(eff[n])
    <3>1. c \in Configs /\ Exact(c, eff[n]) /\ f.prefs[n] \in Preferences
      BY <1>1, <2>1, ConfigIs
    <3>2. PreferenceFits(c, f.prefs[n])
      BY <2>1 DEF Readable
    <3>3. configs[n] = ApplyPreference(c, f.prefs[n])
      OBVIOUS
    <3> HIDE DEF c, configs
    <3> QED
      BY <3>1, <3>2, <3>3, AppliedIs DEF Exact
  <2>4. DOMAIN configs = known
    OBVIOUS
  <2>5. configs \in Maps(Configs)
    <3>1. configs \in [known -> Configs]
      BY <2>3
    <3>2. known \in SUBSET Names
      BY <1>1
    <3> HIDE DEF configs, known
    <3> QED
      BY <3>1, <3>2, MapIs
  <2> HIDE DEF configs
  <2>6. Appended(all, configs, eff, can)
    BY <2>5, AppendedIs
  <2> HIDE DEF all
  <2>7. S \in Settings /\ S.providers = all
    <3>1. all \in Maps(Configs) /\ known \in SUBSET DOMAIN all
      BY <2>4, <2>6 DEF Appended
    <3> HIDE DEF known
    <3> QED
      BY <2>1, <2>2, <3>1, DefaultGiven
  <2>8. \A n \in DOMAIN all : n \in DOMAIN eff /\ Exact(all[n], eff[n])
    <3> SUFFICES ASSUME NEW n \in DOMAIN all PROVE n \in DOMAIN eff /\ Exact(all[n], eff[n])
      OBVIOUS
    <3>1. CASE n \in known
      BY <2>3, <2>4, <2>6, <3>1 DEF Appended
    <3>2. CASE n \notin known
      <4>1. n \in DOMAIN eff /\ all[n] = ConfigOf(eff[n])
        BY <2>4, <2>6, <3>2 DEF Appended
      <4> QED
        BY <1>1, <4>1, ConfigIs
    <3> QED
      BY <3>1, <3>2
  <2>9. f # NoFile
    BY <2>1 DEF NoFile
  <2>10. Reads(S, eff, can)
    <3> HIDE DEF S
    <3> QED
      BY <2>6, <2>7, <2>8 DEF Reads, Appended
  <2> QED
    BY <2>9, <2>10
<1> QED
  BY <1>2, <1>3
LEMMA AmongAre ==
  ASSUME NEW T, NEW list \in Seq(T), NEW S
  PROVE  /\ Among(list, S) \in Seq(T)
         /\ \A i \in DOMAIN Among(list, S) : Among(list, S)[i] \in S
<1> DEFINE K == {i \in DOMAIN list : list[i] \in S}
           F == FlattenSeq(Selecting(list, K))
<1>1. Among(list, S) = F
  BY DEF Among, Selecting
<1>2. K \in SUBSET DOMAIN list
  OBVIOUS
<1>3. F \in Seq(T) /\ \E at : Picks(at, list, K)
  <2> HIDE DEF K
  <2> QED
    BY <1>2, SelectedAre
<1>4. PICK at : Picks(at, list, K)
  BY <1>3
<1>5. ASSUME NEW i \in DOMAIN F PROVE F[i] \in S
  <2>1. i \in 1 .. Len(F)
    BY <1>3, <1>5
  <2>2. at[i] \in K /\ F[i] = list[at[i]]
    <3> HIDE DEF K
    <3> QED
      BY <1>4, <2>1 DEF Picks
  <2> QED
    BY <2>2
<1> HIDE DEF F
<1> QED
  BY <1>1, <1>3, <1>5

LEMMA LegacyIs == LegacySettings \in Settings
<1>1. /\ DOMAIN LegacySettings.providers \in SUBSET Names
      /\ LegacySettings.providers \in [DOMAIN LegacySettings.providers -> Configs]
      /\ LegacySettings.default \in Names /\ LegacySettings.scoped \in Seq(Names \X Models)
      /\ LegacySettings = [default |-> LegacySettings.default, scoped |-> LegacySettings.scoped,
                           providers |-> LegacySettings.providers]
  BY ChoiceAssumption
<1>2. LegacySettings.providers \in Maps(Configs)
  BY <1>1, MapIs
<1> QED
  BY <1>1, <1>2 DEF Settings

LEMMA MigratedConfigIs ==
  ASSUME NEW legacy \in Configs, NEW d \in Whole
  PROVE  MigratedConfig(legacy, d) \in Configs
<1> DEFINE p == [default |-> IF legacy.default \in d.models THEN legacy.default ELSE d.default,
                 chosen  |-> [m \in Models |->
                                IF m \in d.models /\ legacy.chosen[m] \in d.levels[m]
                                THEN legacy.chosen[m] ELSE Null]]
<1>1. p \in Preferences
  BY DEF Preferences, Configs, Whole, Definitions
<1>2. MigratedConfig(legacy, d) = ApplyPreference(ConfigOf(d), p)
  BY DEF MigratedConfig
<1> HIDE DEF p
<1> QED
  BY <1>1, <1>2, ConfigIs, AppliedIs

\* What the older file is read as: no provider of it is left out.
LEMMA MigratedIs ==
  ASSUME NEW eff \in Maps(Whole), NEW can
  PROVE  LET S == LoadSettings(LegacyFile(LegacySettings), eff, can) IN
         S \in Settings /\ DOMAIN LegacySettings.providers \subseteq DOMAIN S.providers
<1> DEFINE old == LegacySettings
           S == LoadSettings(LegacyFile(LegacySettings), eff, can)
           configs == [n \in DOMAIN old.providers |->
                         IF n \in DOMAIN eff THEN MigratedConfig(old.providers[n], eff[n])
                                             ELSE old.providers[n]]
           all == AppendCatalog(configs, eff, can)
           kept == ScopedKept(old.scoped, all)
<1>1. \A n \in DOMAIN eff : eff[n] \in Whole
  BY MapOf
<1>2. /\ old.default \in Names /\ old.scoped \in Seq(Names \X Models)
      /\ DOMAIN old.providers \subseteq Names
      /\ \A n \in DOMAIN old.providers : old.providers[n] \in Configs
  BY LegacyIs, SettingsAre
<1>3. S = WithDefault(old.default, all, DOMAIN configs, kept)
  BY DEF LoadSettings, Migrated, LegacyFile
<1>4. DOMAIN configs = DOMAIN old.providers
  OBVIOUS
<1>5. configs \in [DOMAIN old.providers -> Configs]
  BY <1>1, <1>2, MigratedConfigIs
<1> HIDE DEF configs
<1>6. configs \in Maps(Configs)
  BY <1>2, <1>5, MapIs
<1>7. Appended(all, configs, eff, can)
  BY <1>6, AppendedIs
<1>8. kept \in Seq(Names \X Models)
  BY <1>2, AmongAre DEF ScopedKept
<1> HIDE DEF all, kept
<1>9. all \in Maps(Configs) /\ DOMAIN configs \in SUBSET DOMAIN all
  BY <1>7 DEF Appended
<1>10. S \in Settings /\ S.providers = all
  BY <1>2, <1>3, <1>8, <1>9, DefaultGiven
<1> QED
  BY <1>4, <1>9, <1>10

------------------------------------------------------------------------------
(* What is saved *)

LEMMA EntryIs ==
  ASSUME NEW c \in Configs, NEW eff \in Maps(Whole), NEW n \in Names
  PROVE  /\ EntryOf(c, eff, n) \in Definitions /\ Accepted(n, EntryOf(c, eff, n))
         /\ EntryOf(c, eff, n).models = c.models /\ EntryOf(c, eff, n).levels = c.levels
         /\ EntryOf(c, eff, n).removed = {}
<1> DEFINE e == EntryOf(c, eff, n)
<1>1. /\ c.models \in SUBSET Models /\ c.default \in c.models /\ c.levels \in [Models -> SUBSET Levels]
  BY DEF Configs
<1>2. PICK d \in c.models : e = [models |-> c.models, levels |-> c.levels, removed |-> {}, default |-> d]
  BY <1>1 DEF EntryOf
<1> HIDE DEF e
<1>3. e \in Definitions
  BY <1>1, <1>2 DEF Definitions
<1>4. ASSUME n \in Builtin, NEW r \in DOMAIN Bundled
      PROVE  Complete(MergeDefinition(Bundled[r][n], e))
  <2> DEFINE base == Bundled[r][n]
  <2>1. base \in Definitions /\ base.default \in base.models /\ ~(base.models \subseteq base.removed)
    BY <1>4, BundledIs DEF Complete
  <2> HIDE DEF base
  <2>2. Complete(MergeDefinition(base, e))
    BY <1>2, <2>1 DEF MergeDefinition, Complete
  <2> QED
    BY <2>2 DEF base
<1>5. n \notin Builtin => Complete(e)
  BY <1>2 DEF Complete
<1>6. Accepted(n, e)
  BY <1>4, <1>5 DEF Accepted
<1>7. e \in Definitions /\ Accepted(n, e) /\ e.models = c.models /\ e.levels = c.levels /\ e.removed = {}
  BY <1>2, <1>3, <1>6
<1> QED
  BY <1>7 DEF e

LEMMA OverlayIs ==
  ASSUME NEW over \in Overlays
  PROVE  /\ over \in Maps(Definitions) /\ DOMAIN over \subseteq Names
         /\ \A n \in DOMAIN over : over[n] \in Definitions /\ Accepted(n, over[n])
<1>1. over \in Maps(Definitions) /\ \A n \in DOMAIN over : Accepted(n, over[n])
  BY DEF Overlays
<1> QED
  BY <1>1, MapOf

\* Entries written over a catalog.
Entries(settings, eff, W) == [n \in W |-> EntryOf(settings.providers[n], eff, n)]

LEMMA EntriesAre ==
  ASSUME NEW S \in Settings, NEW eff \in Maps(Whole), NEW over \in Overlays,
         NEW W \in SUBSET DOMAIN S.providers
  PROVE  /\ Laid(Entries(S, eff, W), over) \in Overlays
         /\ Overlaid(Laid(Entries(S, eff, W), over), Entries(S, eff, W), over)
         /\ DOMAIN Entries(S, eff, W) = W
         /\ W = {} => Laid(Entries(S, eff, W), over) = over
<1> DEFINE new == Entries(S, eff, W)
           laid == Laid(new, over)
<1>1. /\ DOMAIN S.providers \subseteq Names
      /\ \A n \in DOMAIN S.providers : S.providers[n] \in Configs
  BY SettingsAre
<1>2. DOMAIN new = W
  BY DEF Entries
<1>3. \A n \in W : new[n] \in Definitions /\ Accepted(n, new[n])
  BY <1>1, EntryIs DEF Entries
<1>4. new \in [W -> Definitions]
  BY <1>3 DEF Entries
<1> HIDE DEF new
<1>5. new \in Maps(Definitions)
  BY <1>1, <1>4, MapIs
<1>6. laid \in Maps(Definitions) /\ Overlaid(laid, new, over)
  BY <1>5, OverlayIs, LaidIs
<1>7. W = {} => laid = over
  BY <1>2, OverlayIs, LaidNothing
<1> HIDE DEF laid
<1>8. \A n \in DOMAIN laid : Accepted(n, laid[n])
  BY <1>2, <1>3, <1>6, OverlayIs DEF Overlaid
<1>9. laid \in Overlays
  BY <1>6, <1>8 DEF Overlays
<1> QED
  BY <1>2, <1>6, <1>7, <1>9 DEF laid, new
LEMMA SavedIs ==
  ASSUME NEW S \in Settings, NEW eff \in Maps(Whole), NEW over \in Overlays
  PROVE  /\ SavedOverlay(S, eff, over) \in Overlays
         /\ DOMAIN over \subseteq DOMAIN SavedOverlay(S, eff, over)
         /\ (\A n \in DOMAIN S.providers : n \in DOMAIN eff /\ ~DefinitionDiffers(S.providers[n], eff[n]))
              => SavedOverlay(S, eff, over) = over
<1> DEFINE W == {n \in DOMAIN S.providers : n \in DOMAIN eff => DefinitionDiffers(S.providers[n], eff[n])}
<1>1. SavedOverlay(S, eff, over) = Laid(Entries(S, eff, W), over)
  BY DEF SavedOverlay, Entries
<1>2. W \in SUBSET DOMAIN S.providers
  OBVIOUS
<1>3. (\A n \in DOMAIN S.providers : n \in DOMAIN eff /\ ~DefinitionDiffers(S.providers[n], eff[n]))
        => W = {}
  OBVIOUS
<1> HIDE DEF W
<1>4. /\ Laid(Entries(S, eff, W), over) \in Overlays
      /\ Overlaid(Laid(Entries(S, eff, W), over), Entries(S, eff, W), over)
      /\ W = {} => Laid(Entries(S, eff, W), over) = over
  BY <1>2, EntriesAre
<1> QED
  BY <1>1, <1>3, <1>4 DEF Overlaid

LEMMA PreferencesAre ==
  ASSUME NEW S \in Settings
  PROVE  /\ PreferencesFile(S) \in CurrentFiles
         /\ PreferencesFile(S).prefs = [n \in DOMAIN S.providers |-> Preference(S.providers[n])]
<1> DEFINE prefs == [n \in DOMAIN S.providers |-> Preference(S.providers[n])]
<1>1. /\ S.default \in Names /\ S.scoped \in Seq(Names \X Models) /\ DOMAIN S.providers \subseteq Names
      /\ \A n \in DOMAIN S.providers : S.providers[n] \in Configs
  BY SettingsAre
<1>2. prefs \in [DOMAIN S.providers -> Preferences]
  BY <1>1, PreferenceIs
<1>3. PreferencesFile(S) = [is |-> "current", default |-> S.default, scoped |-> S.scoped, prefs |-> prefs]
  BY DEF PreferencesFile
<1> HIDE DEF prefs
<1>4. prefs \in Maps(Preferences)
  BY <1>1, <1>2, MapIs
<1>5. PreferencesFile(S) \in CurrentFiles /\ PreferencesFile(S).prefs = prefs
  BY <1>1, <1>3, <1>4 DEF CurrentFiles
<1> QED
  BY <1>5 DEF prefs

\* What the settings remember can be read where the levels that they hold are offered.
LEMMA ReadableIs ==
  ASSUME NEW S \in Settings, NEW eff \in Maps(Whole),
         \A n \in DOMAIN S.providers \cap DOMAIN eff :
           /\ Remembers(S.providers[n])
           /\ \A m \in S.providers[n].models :
                m \in eff[n].models => S.providers[n].levels[m] = eff[n].levels[m]
  PROVE  Readable(PreferencesFile(S), eff)
<1> SUFFICES ASSUME NEW n \in DOMAIN S.providers \cap DOMAIN eff
             PROVE  PreferenceFits(ConfigOf(eff[n]), Preference(S.providers[n]))
  BY PreferencesAre DEF Readable
<1>1. S.providers[n] \in Configs /\ eff[n] \in Whole
  BY SettingsAre, MapOf
<1>2. eff[n].models \in SUBSET Models
  BY <1>1 DEF Whole, Definitions
<1> QED
  BY <1>2 DEF PreferenceFits, ConfigOf, Preference, Remembers

LEMMA ReadsAre ==
  ASSUME NEW eff \in Maps(Whole), NEW can, NEW over \in Overlays, NEW S, Reads(S, eff, can)
  PROVE  /\ S \in Settings
         /\ PreferencesFile(S) \in CurrentFiles
         /\ Readable(PreferencesFile(S), eff)
         /\ SavedOverlay(S, eff, over) = over
<1>1. /\ S \in Settings
      /\ \A n \in DOMAIN S.providers : n \in DOMAIN eff /\ Exact(S.providers[n], eff[n])
  BY DEF Reads
<1>2. \A n \in DOMAIN S.providers : n \in DOMAIN eff /\ ~DefinitionDiffers(S.providers[n], eff[n])
  BY <1>1 DEF Exact, DefinitionDiffers
<1>3. SavedOverlay(S, eff, over) = over
  BY <1>1, <1>2, SavedIs
<1>4. \A n \in DOMAIN S.providers \cap DOMAIN eff :
           /\ Remembers(S.providers[n])
           /\ \A m \in S.providers[n].models :
                m \in eff[n].models => S.providers[n].levels[m] = eff[n].levels[m]
  BY <1>1 DEF Exact
<1>5. Readable(PreferencesFile(S), eff)
  BY <1>1, <1>4, ReadableIs
<1> QED
  BY <1>1, <1>3, <1>5, PreferencesAre

\* Changing a preference changes nothing that is offered.
Retains(new, S) ==
  /\ new \in Settings
  /\ DOMAIN new.providers = DOMAIN S.providers
  /\ \A n \in DOMAIN S.providers :
       /\ new.providers[n].models = S.providers[n].models
       /\ new.providers[n].levels = S.providers[n].levels
       /\ Remembers(S.providers[n]) => Remembers(new.providers[n])

LEMMA RetainedReads ==
  ASSUME NEW eff, NEW can, NEW S, NEW new, Reads(S, eff, can), Retains(new, S)
  PROVE  Reads(new, eff, can)
  BY DEF Reads, Retains, Exact

LEMMA ConfigSet ==
  ASSUME NEW S \in Settings, NEW n \in DOMAIN S.providers, NEW c \in Configs,
         c.models = S.providers[n].models, c.levels = S.providers[n].levels,
         Remembers(S.providers[n]) => Remembers(c), NEW d \in Names
  PROVE  Retains([default |-> d, scoped |-> S.scoped, providers |-> [S.providers EXCEPT ![n] = c]], S)
<1> DEFINE ps == [S.providers EXCEPT ![n] = c]
           new == [default |-> d, scoped |-> S.scoped, providers |-> ps]
<1>1. /\ S.providers \in Maps(Configs) /\ S.scoped \in Seq(Names \X Models)
      /\ DOMAIN S.providers \subseteq Names
      /\ \A k \in DOMAIN S.providers : S.providers[k] \in Configs
  BY SettingsAre
<1>2. ps \in [DOMAIN S.providers -> Configs]
  BY <1>1
<1>3. /\ DOMAIN ps = DOMAIN S.providers /\ ps[n] = c
      /\ \A k \in DOMAIN S.providers \ {n} : ps[k] = S.providers[k]
  OBVIOUS
<1> HIDE DEF ps
<1>4. ps \in Maps(Configs)
  BY <1>1, <1>2, MapIs
<1>5. new \in Settings
  BY <1>1, <1>4 DEF Settings
<1>6. \A k \in DOMAIN S.providers :
       /\ ps[k].models = S.providers[k].models
       /\ ps[k].levels = S.providers[k].levels
       /\ Remembers(S.providers[k]) => Remembers(ps[k])
  BY <1>3
<1>7. Retains(new, S)
  BY <1>3, <1>5, <1>6 DEF Retains
<1> QED
  BY <1>7 DEF ps

LEMMA SettingsRecord ==
  ASSUME NEW S \in Settings
  PROVE  S = [default |-> S.default, scoped |-> S.scoped, providers |-> S.providers]
  BY DEF Settings

LEMMA DefaultSet ==
  ASSUME NEW S \in Settings, NEW n \in DOMAIN S.providers, NEW m \in S.providers[n].models
  PROVE  Retains(SetDefault(S, n, m), S)
<1> DEFINE c == [S.providers[n] EXCEPT !.default = m]
<1>1. S.providers[n] \in Configs /\ n \in Names
  BY SettingsAre
<1>2. /\ c \in Configs /\ c.models = S.providers[n].models /\ c.levels = S.providers[n].levels
      /\ c.chosen = S.providers[n].chosen
  BY <1>1 DEF Configs
<1>3. Remembers(S.providers[n]) => Remembers(c)
  <2> HIDE DEF c
  <2> QED
    BY <1>2 DEF Remembers
<1>4. SetDefault(S, n, m) = [default |-> n, scoped |-> S.scoped, providers |-> [S.providers EXCEPT ![n] = c]]
  <2>1. [S.providers EXCEPT ![n].default = m] = [S.providers EXCEPT ![n] = c]
    OBVIOUS
  <2> HIDE DEF c
  <2> DEFINE ps == [S.providers EXCEPT ![n] = c]
  <2>2. SetDefault(S, n, m) = [[S EXCEPT !.default = n] EXCEPT !.providers = ps]
    BY <2>1, SettingsRecord DEF SetDefault
  <2> HIDE DEF ps
  <2>3. SetDefault(S, n, m) = [default |-> n, scoped |-> S.scoped, providers |-> ps]
    BY <2>2, SettingsRecord, ZenonT(30)
  <2> QED
    BY <2>3 DEF ps
<1> HIDE DEF c
<1> QED
  BY <1>1, <1>2, <1>3, <1>4, ConfigSet

LEMMA ChosenSet ==
  ASSUME NEW S \in Settings, NEW n \in DOMAIN S.providers, NEW m \in S.providers[n].models,
         NEW l \in S.providers[n].levels[m]
  PROVE  Retains(SetChosen(S, n, m, l), S)
<1> DEFINE c == [S.providers[n] EXCEPT !.chosen[m] = l]
<1>1. S.providers[n] \in Configs /\ n \in Names /\ S.default \in Names
  BY SettingsAre
<1>2. m \in Models /\ l \in Levels
  BY <1>1 DEF Configs
<1>3. /\ c \in Configs /\ c.models = S.providers[n].models /\ c.levels = S.providers[n].levels
      /\ c.chosen = [S.providers[n].chosen EXCEPT ![m] = l]
  BY <1>1, <1>2 DEF Configs
<1>4. Remembers(S.providers[n]) => Remembers(c)
  <2>1. S.providers[n].chosen \in [Models -> Levels \cup {Null}]
    BY <1>1 DEF Configs
  <2> HIDE DEF c
  <2> QED
    BY <1>2, <1>3, <2>1 DEF Remembers
<1>5. SetChosen(S, n, m, l) = [default |-> S.default, scoped |-> S.scoped,
                               providers |-> [S.providers EXCEPT ![n] = c]]
  <2>1. [S.providers EXCEPT ![n].chosen[m] = l] = [S.providers EXCEPT ![n] = c]
    OBVIOUS
  <2> HIDE DEF c
  <2> DEFINE ps == [S.providers EXCEPT ![n] = c]
  <2>2. SetChosen(S, n, m, l) = [S EXCEPT !.providers = ps]
    BY <2>1, SettingsRecord DEF SetChosen
  <2> HIDE DEF ps
  <2>3. SetChosen(S, n, m, l) = [default |-> S.default, scoped |-> S.scoped, providers |-> ps]
    BY <2>2, SettingsRecord
  <2> QED
    BY <2>3 DEF ps
<1> HIDE DEF c
<1> QED
  BY <1>1, <1>3, <1>4, <1>5, ConfigSet

LEMMA ScopedToggled ==
  ASSUME NEW S \in Settings, NEW n \in Names, NEW m \in Models
  PROVE  Retains(ToggleScoped(S, n, m), S)
<1> DEFINE rest == Among(S.scoped, ToSet(S.scoped) \ {<<n, m>>})
           more == Append(S.scoped, <<n, m>>)
           scoped == IF \E i \in DOMAIN S.scoped : S.scoped[i] = <<n, m>> THEN rest ELSE more
<1>1. S.scoped \in Seq(Names \X Models) /\ S.default \in Names /\ S.providers \in Maps(Configs)
  BY SettingsAre
<1>2. rest \in Seq(Names \X Models)
  BY <1>1, AmongAre
<1>3. more \in Seq(Names \X Models)
  <2>1. <<n, m>> \in Names \X Models
    OBVIOUS
  <2> QED
    BY <1>1, <2>1
<1> HIDE DEF rest, more
<1>4. ToggleScoped(S, n, m) = [S EXCEPT !.scoped = scoped]
  BY SettingsRecord DEF ToggleScoped, rest, more
<1>5. scoped \in Seq(Names \X Models)
  BY <1>2, <1>3
<1> HIDE DEF scoped
<1>6. ToggleScoped(S, n, m) = [default |-> S.default, scoped |-> scoped, providers |-> S.providers]
  BY <1>4, SettingsRecord
<1>7. ToggleScoped(S, n, m) \in Settings
  BY <1>1, <1>5, <1>6 DEF Settings
<1> QED
  BY <1>6, <1>7 DEF Retains
------------------------------------------------------------------------------
(* A login: what it writes of a provider extends what was in force. *)

Extends(eff, more) ==
  \A n \in DOMAIN eff :
    /\ n \in DOMAIN more /\ eff[n].models \subseteq more[n].models
    /\ \A m \in eff[n].models : more[n].levels[m] = eff[n].levels[m]

LEMMA MergedConfigIs ==
  ASSUME NEW c \in Configs, NEW new \in Configs
  PROVE  /\ MergeConfig(c, new) \in Configs
         /\ MergeConfig(c, new).models = new.models \cup c.models
         /\ MergeConfig(c, new).levels = [m \in Models |-> IF m \in c.models THEN c.levels[m]
                                                                            ELSE new.levels[m]]
         /\ Remembers(c) => Remembers(MergeConfig(c, new))
<1> DEFINE d == MergeConfig(c, new)
           levels == [m \in Models |-> IF m \in c.models THEN c.levels[m] ELSE new.levels[m]]
<1>1. /\ c.models \in SUBSET Models /\ c.default \in c.models /\ c.levels \in [Models -> SUBSET Levels]
      /\ c.chosen \in [Models -> Levels \cup {Null}]
      /\ new.models \in SUBSET Models /\ new.levels \in [Models -> SUBSET Levels]
  BY DEF Configs
<1>2. levels \in [Models -> SUBSET Levels] /\ \A m \in c.models : levels[m] = c.levels[m]
  BY <1>1
<1>3. d = [models |-> new.models \cup c.models, default |-> c.default, levels |-> levels,
           chosen |-> c.chosen]
  BY <1>1 DEF MergeConfig
<1> HIDE DEF levels, d
<1>4. d \in Configs
  BY <1>1, <1>2, <1>3 DEF Configs
<1>5. Remembers(c) => Remembers(d)
  BY <1>1, <1>2, <1>3 DEF Remembers
<1>6. d \in Configs /\ d.models = new.models \cup c.models /\ d.levels = levels
  BY <1>3, <1>4
<1> QED
  BY <1>5, <1>6 DEF d, levels

\* A provider that no table is written for stays as it was.
LEMMA EffectiveKept ==
  ASSUME NEW r \in DOMAIN Bundled, NEW over \in Overlays, NEW laid \in Overlays, NEW k,
         k \in DOMAIN laid <=> k \in DOMAIN over,
         k \in DOMAIN over => laid[k] = over[k],
         k \in DOMAIN Effective(r, over)
  PROVE  k \in DOMAIN Effective(r, laid) /\ Effective(r, laid)[k] = Effective(r, over)[k]
  BY DEF Effective

\* What a table holds is in force, except for what the release withdraws.
LEMMA EffectiveOf ==
  ASSUME NEW r \in DOMAIN Bundled, NEW over \in Overlays, NEW n \in Builtin \cap DOMAIN over,
         over[n].removed = {}
  PROVE  LET base == Bundled[r][n]  e == Effective(r, over)[n] IN
         /\ e.models = (over[n].models \cup base.models) \ base.removed
         /\ \A m \in over[n].models : m \in Models => e.levels[m] = over[n].levels[m]
<1> DEFINE base == Bundled[r][n]
           def == MergeDefinition(base, over[n])
           e == Effective(r, over)[n]
<1>1. e.models = def.models \ def.removed /\ e.levels = def.levels
  BY EffectiveIs, ZenonT(30)
<1>2. /\ def.models = over[n].models \cup base.models /\ def.removed = base.removed \cup over[n].removed
      /\ def.levels = [m \in Models |-> IF m \in over[n].models THEN over[n].levels[m]
                                                                ELSE base.levels[m]]
  BY DEF MergeDefinition
<1> HIDE DEF def, base, e
<1>3. e.models = (over[n].models \cup base.models) \ base.removed
  BY <1>1, <1>2
<1>4. \A m \in over[n].models : m \in Models => e.levels[m] = over[n].levels[m]
  BY <1>1, <1>2
<1> QED
  BY <1>3, <1>4 DEF base, e

\* No builtin is in force with a model its release withdrew.
LEMMA WithdrawnIs ==
  ASSUME NEW r \in DOMAIN Bundled, NEW over \in Overlays, NEW n \in Builtin
  PROVE  Effective(r, over)[n].models \cap Bundled[r][n].removed = {}
<1>1. CASE n \notin DOMAIN over
  <2>1. Effective(r, over)[n] = BuiltinEntry(r, n)
    BY <1>1, EffectiveIs, ZenonT(60)
  <2>2. BuiltinEntry(r, n).models = Bundled[r][n].models \ Bundled[r][n].removed
    BY BuiltinIs
  <2> QED
    BY <2>1, <2>2
<1>2. CASE n \in DOMAIN over
  <2> DEFINE def == MergeDefinition(Bundled[r][n], over[n])
  <2>1. Effective(r, over)[n].models = def.models \ def.removed
    BY <1>2, EffectiveIs, ZenonT(60)
  <2>2. Bundled[r][n].removed \subseteq def.removed
    BY DEF MergeDefinition
  <2> HIDE DEF def
  <2> QED
    BY <2>1, <2>2
<1> QED
  BY <1>1, <1>2

LEMMA LoginSaves ==
  ASSUME NEW r \in DOMAIN Bundled, NEW over \in Overlays, NEW can, NEW n \in Builtin, n \in can,
         NEW L, Reads(L, Effective(r, over), can)
  PROVE  LET eff == Effective(r, over)
             new == UpsertProvider(L, n, ConfigOf(BuiltinEntry(r, n)))
             laid == SavedOverlay(new, eff, over)
             more == Effective(r, laid)
         IN  /\ new \in Settings
             /\ laid \in Overlays /\ DOMAIN over \subseteq DOMAIN laid
             /\ PreferencesFile(new) \in CurrentFiles
             /\ Readable(PreferencesFile(new), more)
             /\ DOMAIN more = DOMAIN eff /\ Extends(eff, more)
<1> DEFINE eff == Effective(r, over)
           incoming == ConfigOf(BuiltinEntry(r, n))
           c == MergeConfig(L.providers[n], incoming)
           ps == With(L.providers, n, c)
           new == UpsertProvider(L, n, incoming)
           W == {k \in DOMAIN new.providers : k \in DOMAIN eff => DefinitionDiffers(new.providers[k], eff[k])}
           laid == SavedOverlay(new, eff, over)
           more == Effective(r, laid)
<1>1. eff \in Maps(Whole) /\ DOMAIN eff = Builtin \cup DOMAIN over
  BY EffectiveIs
<1>2. /\ L \in Settings /\ n \in DOMAIN L.providers
      /\ \A k \in DOMAIN L.providers : k \in DOMAIN eff /\ Exact(L.providers[k], eff[k])
  BY <1>1 DEF Reads
<1>3. /\ L.providers \in Maps(Configs) /\ L.default \in Names /\ L.scoped \in Seq(Names \X Models)
      /\ DOMAIN L.providers \subseteq Names /\ n \in Names
      /\ \A k \in DOMAIN L.providers : L.providers[k] \in Configs
  BY <1>2, SettingsAre, BundledIs
<1>4. incoming \in Configs
  BY BuiltinIs, ConfigIs
<1> HIDE DEF incoming
<1>5. /\ c \in Configs /\ c.models = incoming.models \cup L.providers[n].models
      /\ \A m \in L.providers[n].models : c.levels[m] = L.providers[n].levels[m]
      /\ Remembers(L.providers[n]) => Remembers(c)
  <2>1. L.providers[n] \in Configs
    BY <1>2, <1>3
  <2>2. L.providers[n].models \in SUBSET Models
    BY <2>1 DEF Configs
  <2> DEFINE d == MergeConfig(L.providers[n], incoming)
  <2>3. /\ d \in Configs /\ d.models = incoming.models \cup L.providers[n].models
        /\ d.levels = [m \in Models |-> IF m \in L.providers[n].models THEN L.providers[n].levels[m]
                                                                      ELSE incoming.levels[m]]
        /\ Remembers(L.providers[n]) => Remembers(d)
    BY <1>4, <2>1, MergedConfigIs
  <2>4. c = d
    OBVIOUS
  <2> HIDE DEF c, d
  <2> QED
    BY <2>2, <2>3, <2>4
<1>6. new = [default |-> L.default, scoped |-> L.scoped, providers |-> ps]
  <2>1. new = [L EXCEPT !.providers = ps]
    BY <1>2, SettingsRecord DEF UpsertProvider
  <2> HIDE DEF ps
  <2> QED
    BY <1>2, <2>1, SettingsRecord
<1> HIDE DEF c
<1>7. /\ ps \in Maps(Configs) /\ DOMAIN ps = DOMAIN L.providers
      /\ ps[n] = c /\ \A k \in DOMAIN L.providers \ {n} : ps[k] = L.providers[k]
  <2>1. ps \in Maps(Configs) /\ Placed(ps, L.providers, n, c)
    BY <1>3, <1>5, WithIs
  <2> HIDE DEF ps
  <2> QED
    BY <1>2, <2>1 DEF Placed
<1> HIDE DEF ps
<1>8. new \in Settings /\ new.providers = ps
  BY <1>3, <1>6, <1>7 DEF Settings
<1> HIDE DEF new
<1>9. laid \in Overlays /\ DOMAIN over \subseteq DOMAIN laid
  BY <1>1, <1>8, SavedIs
<1>10. W \subseteq {n}
  BY <1>2, <1>7, <1>8 DEF Exact, DefinitionDiffers
<1>11. laid = Laid(Entries(new, eff, W), over)
  BY DEF SavedOverlay, Entries
<1>12. W \in SUBSET DOMAIN new.providers
  OBVIOUS
<1> HIDE DEF W
<1>13. /\ Overlaid(Laid(Entries(new, eff, W), over), Entries(new, eff, W), over)
       /\ DOMAIN Entries(new, eff, W) = W
  BY <1>1, <1>8, <1>12, EntriesAre
<1>14. /\ DOMAIN laid = W \cup DOMAIN over
       /\ \A k \in DOMAIN over \ W : laid[k] = over[k]
       /\ \A k \in W : laid[k] = EntryOf(new.providers[k], eff, k)
  BY <1>11, <1>13 DEF Overlaid, Entries
<1> HIDE DEF laid
<1>15. more \in Maps(Whole) /\ DOMAIN more = DOMAIN eff
  <2>1. more \in Maps(Whole) /\ DOMAIN more = Builtin \cup DOMAIN laid
    BY <1>9, EffectiveIs
  <2> HIDE DEF more, eff
  <2> QED
    BY <1>1, <1>10, <1>14, <2>1
<1>16. ASSUME NEW k \in DOMAIN eff, k \notin W PROVE more[k] = eff[k]
  BY <1>9, <1>14, <1>16, EffectiveKept
<1>17. ASSUME n \in W
       PROVE  /\ eff[n].models \subseteq more[n].models
              /\ \A m \in eff[n].models : more[n].levels[m] = eff[n].levels[m]
  <2> DEFINE base == Bundled[r][n]
  <2>1. /\ laid[n].models = c.models /\ laid[n].levels = c.levels /\ laid[n].removed = {}
        /\ n \in DOMAIN laid
    BY <1>1, <1>3, <1>5, <1>7, <1>8, <1>14, <1>17, EntryIs
  <2>2. /\ more[n].models = (laid[n].models \cup base.models) \ base.removed
        /\ \A m \in laid[n].models : m \in Models => more[n].levels[m] = laid[n].levels[m]
    BY <1>9, <2>1, EffectiveOf
  <2>3. eff[n].models \cap base.removed = {}
    BY WithdrawnIs
  <2>4. eff[n].models \subseteq Models
    <3>1. n \in DOMAIN eff /\ eff[n] \in Whole
      BY <1>1, MapOf
    <3> QED
      BY <3>1 DEF Whole, Definitions
  <2>5. L.providers[n].models = eff[n].models /\ L.providers[n].levels = eff[n].levels
    BY <1>2 DEF Exact
  <2> HIDE DEF eff, more, base
  <2>6. eff[n].models \subseteq more[n].models
    BY <1>5, <2>1, <2>2, <2>3, <2>5
  <2>7. \A m \in eff[n].models : more[n].levels[m] = eff[n].levels[m]
    BY <1>5, <2>1, <2>2, <2>4, <2>5
  <2> QED
    BY <2>6, <2>7
<1> HIDE DEF eff, more
<1>18. Extends(eff, more)
  BY <1>10, <1>15, <1>16, <1>17 DEF Extends
<1>19. Readable(PreferencesFile(new), more)
  <2>1. ASSUME NEW k \in DOMAIN new.providers \cap DOMAIN more
        PROVE  /\ Remembers(new.providers[k])
               /\ \A m \in new.providers[k].models :
                    m \in more[k].models => new.providers[k].levels[m] = more[k].levels[m]
    <3>1. CASE k \notin W
      <4>1. more[k] = eff[k] /\ k \in DOMAIN eff
        BY <1>15, <1>16, <2>1, <3>1
      <4>2. ~DefinitionDiffers(new.providers[k], eff[k])
        BY <2>1, <3>1, <4>1 DEF W
      <4>3. Remembers(new.providers[k])
        BY <1>2, <1>5, <1>7, <1>8, <2>1 DEF Exact
      <4> QED
        BY <4>1, <4>2, <4>3 DEF DefinitionDiffers
    <3>2. CASE k \in W
      <4>1. k = n /\ new.providers[k] = c /\ Remembers(c)
        BY <1>2, <1>5, <1>7, <1>8, <1>10, <3>2 DEF Exact
      <4>2. /\ laid[n].models = c.models /\ laid[n].levels = c.levels /\ laid[n].removed = {}
            /\ n \in DOMAIN laid
        BY <1>1, <1>3, <1>5, <1>7, <1>8, <1>14, <3>2, <4>1, EntryIs
      <4>3. \A m \in laid[n].models : m \in Models => more[n].levels[m] = laid[n].levels[m]
        BY <1>9, <4>2, EffectiveOf DEF more
      <4>4. c.models \subseteq Models
        BY <1>5 DEF Configs
      <4> QED
        BY <4>1, <4>2, <4>3, <4>4
    <3> QED
      BY <3>1, <3>2
  <2> QED
    BY <1>8, <1>15, <2>1, ReadableIs
<1>20. PreferencesFile(new) \in CurrentFiles
  BY <1>8, PreferencesAre
<1> QED
  BY <1>8, <1>9, <1>15, <1>18, <1>19, <1>20 DEF eff, more, laid, new, incoming
------------------------------------------------------------------------------
(* Sessions *)

LEMMA NoConfigIs == NoConfig \notin Configs
<1> SUFFICES ASSUME NoConfig \in Configs PROVE FALSE
  OBVIOUS
<1>1. "models" \in DOMAIN NoConfig
  BY DEF Configs
<1> QED
  BY <1>1 DEF NoConfig

LEMMA ConfigsHold ==
  ASSUME NEW c \in Configs
  PROVE  /\ c.models \in SUBSET Models /\ c.default \in c.models
         /\ c.levels \in [Models -> SUBSET Levels] /\ c.chosen \in [Models -> Levels \cup {Null}]
  BY DEF Configs

LEMMA SessionsHold ==
  ASSUME NEW s \in Sessions
  PROVE  /\ s.up = TRUE /\ s.conv \in Conversations /\ s.settings \in Settings /\ s.name \in Names
         /\ s.model \in Models /\ s.level \in Levels /\ s.conf \in Configs \cup {NoConfig}
         /\ s.built \in {NoChoice} \cup (Names \X Models \X Levels)
         /\ s.asked \in Pairs /\ s.limits \in Pairs /\ s.waiting \in Pairs
         /\ s = [up |-> TRUE, conv |-> s.conv, settings |-> s.settings, name |-> s.name,
                 model |-> s.model, level |-> s.level, conf |-> s.conf, built |-> s.built,
                 asked |-> s.asked, limits |-> s.limits, waiting |-> s.waiting]
  BY DEF Sessions

LEMMA SessionOf ==
  ASSUME NEW c \in Conversations, NEW settings \in Settings, NEW n \in Names, NEW m \in Models,
         NEW l \in Levels, NEW conf \in Configs \cup {NoConfig},
         NEW built \in {NoChoice} \cup (Names \X Models \X Levels),
         NEW a \in Pairs, NEW b \in Pairs, NEW d \in Pairs
  PROVE  [up |-> TRUE, conv |-> c, settings |-> settings, name |-> n, model |-> m, level |-> l,
          conf |-> conf, built |-> built, asked |-> a, limits |-> b, waiting |-> d] \in Sessions
  BY DEF Sessions

LEMMA KnownIs ==
  ASSUME NEW s \in Sessions, Known(s)
  PROVE  /\ s.name \in DOMAIN s.settings.providers
         /\ Active(s) = s.settings.providers[s.name] /\ Active(s) \in Configs
<1>1. s.settings \in Settings
  BY SessionsHold
<1> QED
  BY <1>1, SettingsAre DEF Known, Active

LEMMA ActiveIs ==
  ASSUME NEW s \in Sessions, s.conf # NoConfig
  PROVE  Active(s) \in Configs
<1>1. CASE Known(s)
  BY <1>1, KnownIs
<1>2. CASE ~Known(s)
  BY <1>2, SessionsHold DEF Active
<1> QED
  BY <1>1, <1>2

\* Sessions that differ at most in their level.
Alike(t, s) ==
  /\ t.conv = s.conv /\ t.settings = s.settings /\ t.name = s.name /\ t.model = s.model
  /\ t.conf = s.conf /\ t.built = s.built
  /\ t.asked = s.asked /\ t.limits = s.limits /\ t.waiting = s.waiting

LEMMA SyncedIs ==
  ASSUME NEW s \in Sessions
  PROVE  LET t == Synced(s) IN
         /\ t \in Sessions /\ Alike(t, s)
         /\ Known(t) <=> Known(s)
         /\ Active(t) = Active(s)
         /\ Known(s) => Fits(t.level, Active(s).levels[s.model])
         /\ (Known(s) => Fits(s.level, Active(s).levels[s.model])) => t = s
<1> DEFINE t == Synced(s)
<1>1. CASE ~Known(s)
  <2>1. t = s
    BY <1>1 DEF Synced
  <2> QED
    BY <1>1, <2>1 DEF Alike
<1>2. CASE Known(s)
  <2> DEFINE p == Active(s).chosen[s.model]
             l == CoercedLevel(Active(s), s.model, s.level, p)
  <2>1. Active(s) \in Configs /\ s.model \in Models /\ s.level \in Levels
    BY <1>2, KnownIs, SessionsHold
  <2>2. p \in Levels \cup {Null}
    BY <2>1, ConfigsHold
  <2> HIDE DEF p
  <2>3. /\ l \in Levels /\ Fits(l, Active(s).levels[s.model])
        /\ Fits(s.level, Active(s).levels[s.model]) => l = s.level
    BY <2>1, <2>2, CoercedIs
  <2>4. t = [s EXCEPT !.level = l]
    BY <1>2 DEF Synced, p
  <2> HIDE DEF l, t
  <2>5. t \in Sessions /\ t.level = l /\ Alike(t, s) /\ (l = s.level => t = s)
    <3>1. t = [up |-> TRUE, conv |-> s.conv, settings |-> s.settings, name |-> s.name,
               model |-> s.model, level |-> l, conf |-> s.conf, built |-> s.built,
               asked |-> s.asked, limits |-> s.limits, waiting |-> s.waiting]
      BY <2>4 DEF Sessions
    <3>2. t \in Sessions
      BY <2>3, <3>1, SessionsHold, SessionOf, ZenonT(60)
    <3>3. l = s.level => t = s
      BY <3>1, SessionsHold
    <3> QED
      BY <3>1, <3>2, <3>3 DEF Alike
  <2>6. (Known(t) <=> Known(s)) /\ Active(t) = Active(s)
    BY <2>5 DEF Alike, Known, Active
  <2>7. /\ t \in Sessions /\ Alike(t, s)
        /\ Known(t) <=> Known(s)
        /\ Active(t) = Active(s)
        /\ Known(s) => Fits(t.level, Active(s).levels[s.model])
        /\ (Known(s) => Fits(s.level, Active(s).levels[s.model])) => t = s
    BY <1>2, <2>3, <2>5, <2>6
  <2> QED
    BY <2>7 DEF t
<1> QED
  BY <1>1, <1>2

LEMMA RefreshedIs ==
  ASSUME NEW s \in Sessions
  PROVE  LET t == Refreshed(s) IN
         /\ t \in Sessions
         /\ t.conv = s.conv /\ t.settings = s.settings /\ t.name = s.name /\ t.model = s.model
         /\ t.level = s.level /\ t.waiting = s.waiting
         /\ s.conf = NoConfig => t = s
         /\ s.conf # NoConfig => /\ t.conf = Active(s) /\ t.conf # NoConfig
                                 /\ t.built = <<s.name, s.model, s.level>>
                                 /\ t.asked = NoChoice /\ t.limits = NoChoice
<1> DEFINE t == Refreshed(s)
<1>1. CASE s.conf = NoConfig
  BY <1>1 DEF Refreshed
<1>2. CASE s.conf # NoConfig
  <2> DEFINE b == <<s.name, s.model, s.level>>
             a == Active(s)
  <2>1. t = [s EXCEPT !.built = b, !.conf = a, !.asked = NoChoice, !.limits = NoChoice]
    BY <1>2 DEF Refreshed
  <2>2. a \in Configs /\ a # NoConfig
    BY <1>2, ActiveIs, NoConfigIs
  <2>3. b \in {NoChoice} \cup (Names \X Models \X Levels) /\ NoChoice \in Pairs
    BY SessionsHold DEF Pairs
  <2> HIDE DEF a, b
  <2>4. t = [up |-> TRUE, conv |-> s.conv, settings |-> s.settings, name |-> s.name,
             model |-> s.model, level |-> s.level, conf |-> a, built |-> b,
             asked |-> NoChoice, limits |-> NoChoice, waiting |-> s.waiting]
    BY <2>1, ZenonT(30) DEF Sessions
  <2> HIDE DEF t
  <2>5. t \in Sessions
    BY <2>2, <2>3, <2>4, SessionsHold, SessionOf, ZenonT(30)
  <2>6. /\ t \in Sessions
        /\ t.conv = s.conv /\ t.settings = s.settings /\ t.name = s.name /\ t.model = s.model
        /\ t.level = s.level /\ t.waiting = s.waiting
        /\ t.conf = a /\ t.conf # NoConfig /\ t.built = b
        /\ t.asked = NoChoice /\ t.limits = NoChoice
    BY <2>2, <2>4, <2>5
  <2> QED
    BY <1>2, <2>6 DEF t, a, b
<1> QED
  BY <1>1, <1>2

LEMMA SwitchedIs ==
  ASSUME NEW s \in Sessions, NEW n \in DOMAIN s.settings.providers,
         NEW m \in s.settings.providers[n].models
  PROVE  LET t == Switched(s, n, m) IN
         /\ t \in Sessions
         /\ t.conv = s.conv /\ t.settings = s.settings /\ t.name = n /\ t.model = m
         /\ t.waiting = s.waiting /\ t.conf # NoConfig
         /\ Fits(t.level, s.settings.providers[n].levels[m])
         /\ t.built = <<n, m, t.level>> /\ t.asked = NoChoice /\ t.limits = NoChoice
<1> DEFINE c == s.settings.providers[n]
           l == CoercedLevel(c, m, s.level, Null)
           b == <<n, m, l>>
           t == Switched(s, n, m)
<1>1. c \in Configs /\ n \in Names
  BY SessionsHold, SettingsAre
<1>2. m \in Models
  BY <1>1, ConfigsHold
<1>3. l \in Levels /\ Fits(l, c.levels[m])
  BY <1>1, <1>2, SessionsHold, CoercedIs
<1>4. t = [s EXCEPT !.name = n, !.model = m, !.level = l, !.conf = c,
                  !.built = b, !.asked = NoChoice, !.limits = NoChoice]
  BY DEF Switched
<1>5. c # NoConfig
  BY <1>1, NoConfigIs
<1> HIDE DEF l, t, c
<1>6. b \in {NoChoice} \cup (Names \X Models \X Levels) /\ NoChoice \in Pairs
  BY <1>1, <1>2, <1>3 DEF Pairs
<1> HIDE DEF b
<1>7. t = [up |-> TRUE, conv |-> s.conv, settings |-> s.settings, name |-> n,
           model |-> m, level |-> l, conf |-> c, built |-> b,
           asked |-> NoChoice, limits |-> NoChoice, waiting |-> s.waiting]
  BY <1>4 DEF Sessions
<1>8. t \in Sessions
  BY <1>1, <1>2, <1>3, <1>6, <1>7, SessionsHold, SessionOf, ZenonT(30)
<1>9. /\ t \in Sessions
      /\ t.conv = s.conv /\ t.settings = s.settings /\ t.name = n /\ t.model = m
      /\ t.waiting = s.waiting /\ t.conf # NoConfig
      /\ Fits(t.level, c.levels[m])
      /\ t.built = <<n, m, t.level>> /\ t.asked = NoChoice /\ t.limits = NoChoice
  BY <1>3, <1>5, <1>7, <1>8 DEF b
<1> QED
  BY <1>9 DEF t, c
------------------------------------------------------------------------------
(* Steps of a session *)

LEMMA EffIs ==
  ASSUME ChoiceInv
  PROVE  Eff \in Maps(Whole) /\ DOMAIN Eff = Builtin \cup DOMAIN overlay
  BY EffectiveIs DEF ChoiceInv, ChoiceType, Eff

LEMMA Up ==
  ASSUME ChoiceInv, session.up
  PROVE  session \in Sessions /\ file \in {NoFile} \cup CurrentFiles
  BY DEF ChoiceInv, ChoiceType, Carried, Down

\* The settings that a change starts from.
LEMMA LatestIs ==
  ASSUME ChoiceInv, session.up, NEW s \in Sessions, NEW n, NEW m, CanSave(s, n, m)
  PROVE  /\ Latest(s) \in Settings
         /\ file # NoFile \/ Agrees(s, file, Eff, creds) => Reads(Latest(s), Eff, creds)
<1>1. Eff \in Maps(Whole)
  BY EffIs
<1>2. CASE file = NoFile
  <2>1. Latest(s) = s.settings /\ s.settings \in Settings
    BY <1>2, SessionsHold DEF Latest
  <2>2. Agrees(s, file, Eff, creds) => Reads(s.settings, Eff, creds)
    BY <1>2, <2>1 DEF Agrees, Reads
  <2> QED
    BY <1>2, <2>1, <2>2
<1>3. CASE file # NoFile
  <2>1. file \in CurrentFiles /\ Readable(file, Eff)
    BY <1>3, Up DEF CanSave, CanLoad
  <2>2. Reads(OnDisk, Eff, creds)
    BY <1>1, <2>1, LoadedIs DEF OnDisk
  <2>3. Latest(s) = OnDisk
    BY <1>3 DEF Latest
  <2> QED
    BY <2>2, <2>3 DEF Reads
<1> QED
  BY <1>2, <1>3

\* A session that has just read what is in force agrees with the files.
LEMMA ReaderAgrees ==
  ASSUME NEW eff \in Maps(Whole), NEW can, NEW f, NEW s, Reads(s.settings, eff, can), Readable(f, eff),
         f = NoFile => DOMAIN s.settings.providers = DOMAIN eff,
         s.conf # NoConfig /\ s.name \in DOMAIN eff =>
           /\ s.model \in eff[s.name].models
           /\ Fits(s.level, eff[s.name].levels[s.model])
  PROVE  Agrees(s, f, eff, can)
<1>1. \A n \in DOMAIN s.settings.providers :
        n \in DOMAIN eff /\ Exact(s.settings.providers[n], eff[n])
  BY DEF Reads
<1>2. \A n \in DOMAIN s.settings.providers :
        n \in DOMAIN eff /\ Within(s.settings.providers[n], eff[n])
  BY <1>1 DEF Exact, Within
<1>3. s.name \in DOMAIN eff => Known(s) \/ s.name \notin can \/ s.name \in Builtin
  BY DEF Reads, Known
<1>4. s.name \in DOMAIN eff => Known(s) \/ s.name \notin can
  BY DEF Reads, Known
<1> QED
  BY <1>1, <1>2, <1>4 DEF Agrees

LEMMA SaveIs ==
  ASSUME ChoiceInv, NEW S \in Settings, Save(S)
  PROVE  /\ file' \in CurrentFiles /\ file' # NoFile
         /\ overlay' \in Overlays /\ DOMAIN overlay \subseteq DOMAIN overlay'
         /\ Reads(S, Eff, creds) => overlay' = overlay /\ Readable(file', Eff)
<1>1. Eff \in Maps(Whole) /\ overlay \in Overlays
  BY EffIs DEF ChoiceInv, ChoiceType
<1>2. file' = PreferencesFile(S) /\ overlay' = SavedOverlay(S, Eff, overlay)
  BY DEF Save
<1>3. file' \in CurrentFiles
  BY <1>2, PreferencesAre
<1>4. file' # NoFile
  BY <1>3, FileIs DEF NoFile
<1>5. overlay' \in Overlays /\ DOMAIN overlay \subseteq DOMAIN overlay'
  BY <1>1, <1>2, SavedIs
<1>6. Reads(S, Eff, creds) => overlay' = overlay /\ Readable(file', Eff)
  BY <1>1, <1>2, ReadsAre
<1> QED
  BY <1>3, <1>4, <1>5, <1>6

\* What a step of the session, or one that starts it, must show.
LEMMA ProgramStep ==
  ASSUME ChoiceInv, file # LegacyFile(LegacySettings),
         session' \in Sessions, file' \in {NoFile} \cup CurrentFiles,
         overlay' \in Overlays, DOMAIN overlay \subseteq DOMAIN overlay',
         Recorded(records', journals', session'),
         UNCHANGED <<release, migrating, dropped>>,
         Sensible(session'),
         ~unread' => Agrees(session', file', Eff', creds') /\ BuiltAsShown(session', creds')
  PROVE  ChoiceInv'
<1>1. ChoiceType'
  BY DEF ChoiceInv, ChoiceType
<1>2. migrating = NoConfig
  BY DEF ChoiceInv, Carried
<1>3. file' # LegacyFile(LegacySettings)
  BY FileIs DEF NoFile, LegacyFile
<1>4. Defining' = Defining
  BY DEF Defining
<1>5. Carried'
  BY <1>2, <1>3, <1>4 DEF ChoiceInv, Carried
<1> QED
  BY <1>1, <1>5 DEF ChoiceInv

LEMMA UserStep ==
  ASSUME ChoiceInv, session.up, session' \in Sessions, file' \in {NoFile} \cup CurrentFiles,
         overlay' \in Overlays, DOMAIN overlay \subseteq DOMAIN overlay',
         Recorded(records', journals', session'),
         UNCHANGED <<release, migrating, dropped>>,
         Sensible(session'),
         ~unread' => Agrees(session', file', Eff', creds') /\ BuiltAsShown(session', creds')
  PROVE  ChoiceInv'
<1>1. file # LegacyFile(LegacySettings)
  BY DEF ChoiceInv, Carried
<1> QED
  BY <1>1, ProgramStep

\* A config holds what is in force, if the session agrees with the files.
LEMMA AgreedConfig ==
  ASSUME NEW s, NEW f, NEW eff, NEW can, Agrees(s, f, eff, can), NEW n \in DOMAIN s.settings.providers,
         NEW m \in s.settings.providers[n].models
  PROVE  /\ n \in DOMAIN eff /\ m \in eff[n].models
         /\ s.settings.providers[n].levels[m] = eff[n].levels[m]
  BY DEF Agrees, Within

\* New settings are taken over and written: while the session agrees with the files, they are
\* what the files say, and the level stays as it was.
LEMMA SettleIs ==
  ASSUME ChoiceInv, session.up, NEW s \in Sessions, AsAsked(s), NEW new \in Settings,
         ~unread => /\ Agrees(s, file, Eff, creds) /\ BuiltAsShown(s, creds)
                    /\ Reads(new, Eff, creds),
         session' = Synced([s EXCEPT !.settings = new]), Save(new),
         UNCHANGED <<release, creds>>
  PROVE  /\ session' \in Sessions /\ session'.conv = s.conv
         /\ Sensible(session')
         /\ file' \in CurrentFiles /\ overlay' \in Overlays /\ DOMAIN overlay \subseteq DOMAIN overlay'
         /\ ~unread => Agrees(session', file', Eff', creds') /\ BuiltAsShown(session', creds')
<1> DEFINE t == [s EXCEPT !.settings = new]
<1>1. Eff \in Maps(Whole)
  BY EffIs
<1>2. t \in Sessions /\ t.settings = new /\ t.name = s.name /\ t.model = s.model /\ t.level = s.level
      /\ t.conv = s.conv /\ t.conf = s.conf /\ t.built = s.built
      /\ t.asked = s.asked /\ t.limits = s.limits /\ t.waiting = s.waiting
  BY DEF Sessions
<1>3. session' = Synced(t)
  OBVIOUS
<1> HIDE DEF t
<1>4. /\ session' \in Sessions /\ Alike(session', t)
      /\ Known(session') <=> Known(t)
      /\ Active(session') = Active(t)
      /\ Known(t) => Fits(session'.level, Active(t).levels[t.model])
      /\ (Known(t) => Fits(t.level, Active(t).levels[t.model])) => session' = t
  BY <1>2, <1>3, SyncedIs
<1>5. /\ file' \in CurrentFiles /\ file' # NoFile /\ overlay' \in Overlays
      /\ DOMAIN overlay \subseteq DOMAIN overlay'
      /\ ~unread => overlay' = overlay /\ Readable(file', Eff)
  BY SaveIs
<1>6. Sensible(session')
  BY <1>2, <1>4 DEF Sensible, AsAsked, Alike
<1>7. ASSUME ~unread
      PROVE  Agrees(session', file', Eff', creds') /\ BuiltAsShown(session', creds')
  <2>1. Eff' = Eff /\ Readable(file', Eff) /\ Reads(new, Eff, creds)
    BY <1>5, <1>7 DEF Eff
  <2>2. Agrees(s, file, Eff, creds) /\ BuiltAsShown(s, creds)
    BY <1>7
  <2>3. s.conf # NoConfig /\ s.name \in DOMAIN Eff =>
          /\ s.model \in Eff[s.name].models
          /\ Fits(s.level, Eff[s.name].levels[s.model])
    BY <2>2 DEF Agrees
  <2>4. Known(t) => /\ Active(t) = new.providers[s.name] /\ s.name \in DOMAIN Eff
                    /\ Exact(new.providers[s.name], Eff[s.name])
    BY <1>2, <2>1 DEF Known, Active, Reads
  <2>5. s.conf # NoConfig => session' = t
    BY <1>2, <1>4, <2>3, <2>4 DEF Exact
  <2>6. BuiltAsShown(session', creds')
    BY <1>2, <1>4, <2>2, <2>5 DEF BuiltAsShown, Alike
  <2>7. session'.settings = new /\ session'.name = s.name /\ session'.conf = s.conf
    BY <1>2, <1>4 DEF Alike
  <2>8. session'.conf # NoConfig /\ session'.name \in DOMAIN Eff =>
          /\ session'.model \in Eff[session'.name].models
          /\ Fits(session'.level, Eff[session'.name].levels[session'.model])
    BY <1>2, <2>3, <2>5, <2>7
  <2>9. Agrees(session', file', Eff, creds)
    BY <1>1, <1>5, <2>1, <2>7, <2>8, ReaderAgrees
  <2> QED
    BY <2>1, <2>6, <2>9
<1> QED
  BY <1>2, <1>4, <1>5, <1>6, <1>7 DEF Alike

LEMMA PairIs ==
  ASSUME NEW A, NEW B, NEW a \in A, NEW b \in B
  PROVE  <<a, b>> \in A \X B /\ <<a, b>> # NoChoice
  BY DEF NoChoice

\* The choice is remembered: the settings that are written are those that were read.
LEMMA PersistStep ==
  ASSUME ChoiceInv, session.up, NEW s \in Sessions, s.conv = session.conv, Sensible(s),
         ~unread => Agrees(s, file, Eff, creds) /\ BuiltAsShown(s, creds),
         PersistDefault(s),
         UNCHANGED <<release, creds, journals, migrating, unread, dropped>>
  PROVE  ChoiceInv'
<1>1. /\ Recorded(records, journals, session) /\ overlay \in Overlays /\ Eff \in Maps(Whole)
      /\ file \in {NoFile} \cup CurrentFiles
  BY Up, EffIs DEF ChoiceInv, ChoiceType
<1>2. CASE ~CanSave(s, s.name, s.model)
  <2>1. session' = s /\ UNCHANGED <<file, overlay, records>>
    BY <1>2 DEF PersistDefault, settingsFiles
  <2>2. Recorded(records', journals', session')
    BY <1>1, <2>1, SessionsHold DEF Recorded
  <2>3. Eff' = Eff
    BY <2>1 DEF Eff
  <2> QED
    BY <1>1, <2>1, <2>2, <2>3, UserStep
<1>3. CASE CanSave(s, s.name, s.model)
  <2> DEFINE S == Latest(s)
             new == SetDefault(S, s.name, s.model)
  <2>1. /\ session' = Synced([s EXCEPT !.settings = new]) /\ Save(new)
        /\ records' = [records EXCEPT ![s.conv] = <<s.name, s.model>>]
    BY <1>3 DEF PersistDefault, Touched
  <2>2. /\ S \in Settings /\ s.name \in DOMAIN S.providers /\ s.model \in S.providers[s.name].models
        /\ ~unread => Reads(S, Eff, creds)
    BY <1>3, LatestIs DEF CanSave
  <2>3. Retains(new, S)
    BY <2>2, DefaultSet
  <2>4. new \in Settings /\ (~unread => Reads(new, Eff, creds))
    BY <2>2, <2>3, RetainedReads DEF Retains
  <2> HIDE DEF new, S
  <2>5. /\ session' \in Sessions /\ session'.conv = s.conv
        /\ Sensible(session')
        /\ file' \in CurrentFiles /\ overlay' \in Overlays /\ DOMAIN overlay \subseteq DOMAIN overlay'
        /\ ~unread => Agrees(session', file', Eff', creds') /\ BuiltAsShown(session', creds')
    BY <2>1, <2>4, SettleIs DEF Sensible
  <2>6. Recorded(records', journals', session')
    <3>1. <<s.name, s.model>> \in Pairs /\ <<s.name, s.model>> # NoChoice
      BY SessionsHold, PairIs, ZenonT(30) DEF Pairs
    <3>2. session'.conv = s.conv /\ s.conv \in Conversations
      BY <2>5, SessionsHold
    <3>3. journals[s.conv] # NoChoice
      BY <1>1, <3>2 DEF Recorded
    <3> QED
      BY <1>1, <2>1, <3>1, <3>2, <3>3 DEF Recorded
  <2> QED
    BY <2>5, <2>6, UserStep
<1> QED
  BY <1>2, <1>3

LEMMA RefreshKeeps ==
  ASSUME NEW s \in Sessions, NEW f, NEW eff, NEW can
  PROVE  LET t == Refreshed(s) IN
         /\ t \in Sessions /\ t.conv = s.conv
         /\ Sensible(s) => Sensible(t)
         /\ Agrees(s, f, eff, can) => Agrees(t, f, eff, can)
         /\ BuiltAsShown(t, can)
<1> DEFINE t == Refreshed(s)
<1>1. /\ t \in Sessions
      /\ t.conv = s.conv /\ t.settings = s.settings /\ t.name = s.name /\ t.model = s.model
      /\ t.level = s.level /\ t.waiting = s.waiting
      /\ s.conf = NoConfig => t = s
      /\ s.conf # NoConfig => /\ t.conf = Active(s) /\ t.conf # NoConfig
                              /\ t.built = <<s.name, s.model, s.level>>
                              /\ t.asked = NoChoice /\ t.limits = NoChoice
  BY RefreshedIs
<1> HIDE DEF t
<1>2. BuiltAsShown(t, can)
  BY <1>1 DEF BuiltAsShown
<1>3. (Known(t) <=> Known(s)) /\ (Known(s) => Active(t) = Active(s))
  BY <1>1 DEF Known, Active
<1>4. Sensible(s) => Sensible(t)
  BY <1>1, <1>3 DEF Sensible, AsAsked
<1>5. Agrees(s, f, eff, can) => Agrees(t, f, eff, can)
  BY <1>1, <1>3 DEF Agrees
<1> QED
  BY <1>1, <1>2, <1>4, <1>5 DEF t
\* Choosing another model of the session's own provider.
LEMMA SetModelStep ==
  ASSUME ChoiceInv, session.up, NEW m \in Models, ~Known(session) => m = session.model, SetModel(m),
         UNCHANGED <<release, creds, journals, migrating, unread, dropped>>
  PROVE  ChoiceInv'
<1> DEFINE r == [session EXCEPT !.model = m]
           named == Synced(r)
<1>1. /\ session \in Sessions /\ file \in {NoFile} \cup CurrentFiles /\ Sensible(session)
      /\ Recorded(records, journals, session) /\ overlay \in Overlays
      /\ ~unread => Agrees(session, file, Eff, creds) /\ BuiltAsShown(session, creds)
  BY Up DEF ChoiceInv, ChoiceType
<1>2. /\ r \in Sessions /\ r.settings = session.settings /\ r.name = session.name /\ r.model = m
      /\ r.level = session.level
      /\ r.conv = session.conv /\ r.conf = session.conf /\ r.built = session.built
      /\ r.asked = session.asked /\ r.limits = session.limits /\ r.waiting = session.waiting
      /\ m = session.model => r = session
  BY <1>1 DEF Sessions
<1>3. /\ Known(session) => m \in Active(session).models
      /\ IF RefreshFails(named)
         THEN session' = named /\ UNCHANGED <<file, overlay, records>>
         ELSE PersistDefault(Refreshed(named))
  BY DEF SetModel, settingsFiles
<1> HIDE DEF r
<1>4. /\ named \in Sessions /\ Alike(named, r)
      /\ Known(named) <=> Known(r)
      /\ Active(named) = Active(r)
      /\ Known(r) => Fits(named.level, Active(r).levels[r.model])
      /\ (Known(r) => Fits(r.level, Active(r).levels[r.model])) => named = r
  BY <1>2, SyncedIs
<1> HIDE DEF named
<1>5. (Known(r) <=> Known(session)) /\ Active(r) = Active(session)
  BY <1>2 DEF Known, Active
<1>6. Sensible(named) /\ named.conv = session.conv
  BY <1>1, <1>2, <1>4 DEF Sensible, AsAsked, Alike
<1>7. ~Known(session) => named = session
  BY <1>2, <1>4, <1>5
<1>8. ASSUME ~unread PROVE Agrees(named, file, Eff, creds)
  <2>1. CASE ~Known(session)
    BY <1>1, <1>7, <1>8, <2>1
  <2>2. CASE Known(session)
    <3>1. /\ session.name \in DOMAIN session.settings.providers
          /\ Active(session) = session.settings.providers[session.name]
      BY <2>2 DEF Known, Active
    <3>2. m \in Eff[session.name].models /\ Active(session).levels[m] = Eff[session.name].levels[m]
      BY <1>1, <1>3, <1>8, <2>2, <3>1, AgreedConfig
    <3>3. Fits(named.level, Eff[session.name].levels[m])
      BY <1>2, <1>4, <1>5, <2>2, <3>2
    <3> QED
      BY <1>1, <1>2, <1>4, <1>5, <1>8, <2>2, <3>2, <3>3 DEF Agrees, Alike
  <2> QED
    BY <2>1, <2>2
<1>9. CASE RefreshFails(named)
  <2>1. session' = named /\ UNCHANGED <<file, overlay, records>>
    BY <1>3, <1>9
  <2>2. Recorded(records', journals', session')
    BY <1>1, <1>6, <2>1 DEF Recorded
  <2>3. Eff' = Eff
    BY <2>1 DEF Eff
  <2>4. ~unread => BuiltAsShown(named, creds)
    <3>1. named.model \notin Active(named).models \/ named.name \notin creds
      BY <1>9 DEF RefreshFails
    <3>2. CASE Known(session)
      BY <1>2, <1>3, <1>4, <1>5, <3>1, <3>2 DEF Alike, BuiltAsShown
    <3> QED
      BY <1>1, <1>7, <3>2
  <2> QED
    BY <1>1, <1>4, <1>6, <1>8, <2>1, <2>2, <2>3, <2>4, UserStep
<1>10. CASE ~RefreshFails(named)
  <2> DEFINE t == Refreshed(named)
  <2>1. PersistDefault(t)
    BY <1>3, <1>10
  <2>2. /\ t \in Sessions /\ t.conv = session.conv /\ Sensible(t)
        /\ ~unread => Agrees(t, file, Eff, creds) /\ BuiltAsShown(t, creds)
    BY <1>4, <1>6, <1>8, RefreshKeeps
  <2> HIDE DEF t
  <2> QED
    BY <2>1, <2>2, PersistStep
<1> QED
  BY <1>9, <1>10

LEMMA SwitchKeeps ==
  ASSUME NEW s \in Sessions, NEW n \in DOMAIN s.settings.providers,
         NEW m \in s.settings.providers[n].models, NEW f, NEW eff, NEW can
  PROVE  LET t == Switched(s, n, m) IN
         /\ t \in Sessions /\ t.conv = s.conv
         /\ t.name = n /\ t.model = m
         /\ Sensible(t)
         /\ Agrees(s, f, eff, can) => Agrees(t, f, eff, can)
         /\ BuiltAsShown(t, can)
<1> DEFINE t == Switched(s, n, m)
<1>1. /\ t \in Sessions
      /\ t.conv = s.conv /\ t.settings = s.settings /\ t.name = n /\ t.model = m
      /\ t.waiting = s.waiting /\ t.conf # NoConfig
      /\ Fits(t.level, s.settings.providers[n].levels[m])
      /\ t.built = <<n, m, t.level>> /\ t.asked = NoChoice /\ t.limits = NoChoice
  BY SwitchedIs
<1> HIDE DEF t
<1>2. BuiltAsShown(t, can)
  BY <1>1 DEF BuiltAsShown
<1>3. Known(t) /\ Active(t) = s.settings.providers[n]
  BY <1>1 DEF Known, Active
<1>4. Sensible(t)
  BY <1>1, <1>3 DEF Sensible, AsAsked
<1>5. Agrees(s, f, eff, can) => Agrees(t, f, eff, can)
  <2> SUFFICES ASSUME Agrees(s, f, eff, can) PROVE Agrees(t, f, eff, can)
    OBVIOUS
  <2>1. /\ n \in DOMAIN eff /\ m \in eff[n].models
        /\ s.settings.providers[n].levels[m] = eff[n].levels[m]
    BY AgreedConfig
  <2> QED
    BY <1>1, <1>3, <2>1 DEF Agrees
<1> QED
  BY <1>1, <1>2, <1>4, <1>5 DEF t

\* Choosing a model of another provider.
LEMMA SetProviderModelStep ==
  ASSUME ChoiceInv, session.up, NEW n, NEW m, SetProviderModel(n, m),
         UNCHANGED <<release, creds, journals, migrating, unread, dropped>>
  PROVE  ChoiceInv'
<1> DEFINE t == Switched(session, n, m)
<1>1. /\ session \in Sessions
      /\ ~unread => Agrees(session, file, Eff, creds) /\ BuiltAsShown(session, creds)
  BY Up DEF ChoiceInv
<1>2. /\ n \in DOMAIN session.settings.providers /\ m \in session.settings.providers[n].models
      /\ PersistDefault(t)
  BY DEF SetProviderModel
<1>3. /\ t \in Sessions /\ t.conv = session.conv /\ Sensible(t) /\ BuiltAsShown(t, creds)
      /\ Agrees(session, file, Eff, creds) => Agrees(t, file, Eff, creds)
  BY <1>1, <1>2, SwitchKeeps
<1> HIDE DEF t
<1> QED
  BY <1>1, <1>2, <1>3, PersistStep

LEMMA ChoiceStep ==
  ASSUME ChoiceInv, session.up, NEW n, NEW m \in Models, SetModelChoice(n, m),
         n = session.name /\ ~Known(session) => m = session.model,
         UNCHANGED <<release, creds, journals, migrating, unread, dropped>>
  PROVE  ChoiceInv'
  BY SetModelStep, SetProviderModelStep DEF SetModelChoice

LEMMA CycleStep ==
  ASSUME ChoiceInv, session.up, NEW reverse \in BOOLEAN, CycleScopedModel(reverse),
         UNCHANGED <<release, creds, journals, migrating, unread, dropped>>
  PROVE  ChoiceInv'
<1> DEFINE scoped == ScopedChoices(session)
           here == {i \in DOMAIN scoped : scoped[i] = <<session.name, session.model>>}
           from == IF here # {} THEN CHOOSE i \in here : TRUE ELSE IF reverse THEN 1 ELSE 0
           to == ((from + (IF reverse THEN Len(scoped) - 2 ELSE 0)) % Len(scoped)) + 1
<1>1. scoped # <<>> /\ SetModelChoice(scoped[to][1], scoped[to][2])
  BY DEF CycleScopedModel
<1>2. session \in Sessions /\ session.settings.scoped \in Seq(Names \X Models)
  BY Up, SessionsHold, SettingsAre
<1>3. scoped \in Seq(Names \X Models) /\ \A i \in DOMAIN scoped : scoped[i] \in AvailableChoices(session)
  BY <1>2, AmongAre DEF ScopedChoices
<1> HIDE DEF scoped
<1>4. Len(scoped) \in Nat /\ Len(scoped) > 0 /\ DOMAIN scoped = 1 .. Len(scoped)
  BY <1>1, <1>3
<1>5. from \in Nat /\ (reverse => from >= 1)
  BY <1>4
<1> HIDE DEF from
<1>6. to \in DOMAIN scoped
  <2> DEFINE x == from + (IF reverse THEN Len(scoped) - 2 ELSE 0)
  <2>1. x \in Int
    BY <1>4, <1>5
  <2> HIDE DEF x
  <2>2. x % Len(scoped) \in 0 .. Len(scoped) - 1
    BY <1>4, <2>1
  <2>3. to = (x % Len(scoped)) + 1
    BY DEF x
  <2> QED
    BY <1>4, <2>2, <2>3
<1> HIDE DEF to
<1>7. /\ scoped[to][1] \in DOMAIN session.settings.providers /\ scoped[to][2] \in Models
  BY <1>3, <1>6 DEF AvailableChoices
<1>8. scoped[to][1] = session.name => Known(session)
  BY <1>7 DEF Known
<1> QED
  BY <1>1, <1>7, <1>8, ChoiceStep, SMTT(30)

LEMMA ToggleStep ==
  ASSUME ChoiceInv, session.up, NEW n \in Names, NEW m \in Models, ToggleScopedModel(n, m),
         UNCHANGED <<release, creds, journals, migrating, unread, dropped>>
  PROVE  ChoiceInv'
<1> DEFINE S == Latest(session)
           new == ToggleScoped(S, n, m)
<1>1. /\ session' = Synced([session EXCEPT !.settings = new]) /\ Save(new)
      /\ UNCHANGED records /\ CanSave(session, n, m)
  BY DEF ToggleScopedModel
<1>2. /\ session \in Sessions /\ Sensible(session)
      /\ Recorded(records, journals, session)
      /\ ~unread => Agrees(session, file, Eff, creds) /\ BuiltAsShown(session, creds)
  BY Up DEF ChoiceInv, ChoiceType
<1>3. S \in Settings /\ (~unread => Reads(S, Eff, creds))
  BY <1>1, <1>2, LatestIs
<1>4. Retains(new, S)
  BY <1>3, ScopedToggled
<1>5. new \in Settings /\ (~unread => Reads(new, Eff, creds))
  BY <1>3, <1>4, RetainedReads DEF Retains
<1> HIDE DEF new, S
<1>6. /\ session' \in Sessions /\ session'.conv = session.conv
      /\ Sensible(session')
      /\ file' \in CurrentFiles /\ overlay' \in Overlays /\ DOMAIN overlay \subseteq DOMAIN overlay'
      /\ ~unread => Agrees(session', file', Eff', creds') /\ BuiltAsShown(session', creds')
  BY <1>1, <1>2, <1>5, SettleIs DEF Sensible
<1>7. Recorded(records', journals', session')
  BY <1>1, <1>2, <1>6 DEF Recorded
<1> QED
  BY <1>6, <1>7, UserStep

LEMMA PairExcept ==
  ASSUME NEW A, NEW B, NEW p \in A \X B, NEW b \in B
  PROVE  [p EXCEPT ![2] = b] \in A \X B
  OBVIOUS

\* Choosing a level: the provider is rebuilt with it before it is remembered.
LEMMA LevelStep ==
  ASSUME ChoiceInv, session.up, NEW l \in Levels, SetThinkingLevel(l),
         UNCHANGED <<release, creds, records, migrating, unread, dropped>>
  PROVE  ChoiceInv'
<1> DEFINE s == [session EXCEPT !.level = l]
           t == Refreshed(s)
<1>1. /\ session \in Sessions /\ file \in {NoFile} \cup CurrentFiles /\ Sensible(session)
      /\ Recorded(records, journals, session) /\ overlay \in Overlays /\ Eff \in Maps(Whole)
      /\ ~unread => Agrees(session, file, Eff, creds) /\ BuiltAsShown(session, creds)
  BY Up, EffIs DEF ChoiceInv, ChoiceType
<1>2. s \in Sessions /\ s.settings = session.settings /\ s.name = session.name
      /\ s.model = session.model /\ s.level = l
      /\ s.conv = session.conv /\ s.conf = session.conf /\ s.built = session.built
      /\ s.asked = session.asked /\ s.limits = session.limits /\ s.waiting = session.waiting
  BY <1>1 DEF Sessions
<1>3. /\ Known(session) /\ l \in Active(session).levels[session.model]
      /\ ~RefreshFails(s)
      /\ journals' = [journals EXCEPT ![s.conv][2] = l]
      /\ \/ /\ CanSave(s, s.name, s.model) /\ l \in Latest(s).providers[s.name].levels[s.model]
            /\ session' = [t EXCEPT !.settings = SetChosen(Latest(s), s.name, s.model, l)]
            /\ Save(SetChosen(Latest(s), s.name, s.model, l))
         \/ session' = t /\ UNCHANGED <<file, overlay>>
  BY DEF SetThinkingLevel, settingsFiles
<1> HIDE DEF s
<1>4. (Known(s) <=> Known(session)) /\ Active(s) = Active(session)
  BY <1>2 DEF Known, Active
<1>5. Sensible(s)
  BY <1>1, <1>2, <1>3, <1>4 DEF Sensible, AsAsked, Fits
<1>6. ASSUME ~unread PROVE Agrees(s, file, Eff, creds)
  <2>1. /\ session.name \in DOMAIN session.settings.providers
        /\ Active(session) = session.settings.providers[session.name]
    BY <1>3 DEF Known, Active
  <2>2. s.conf # NoConfig => session.model \in Active(session).models
    BY <1>2, <1>3, <1>4 DEF RefreshFails
  <2>3. s.conf # NoConfig => /\ session.model \in Eff[session.name].models
                             /\ l \in Eff[session.name].levels[session.model]
    BY <1>1, <1>3, <1>6, <2>1, <2>2, AgreedConfig
  <2> QED
    BY <1>1, <1>2, <1>3, <1>4, <1>6, <2>3 DEF Agrees, Fits
<1>7. /\ t \in Sessions /\ t.conv = session.conv /\ Sensible(t)
      /\ ~unread => Agrees(t, file, Eff, creds) /\ BuiltAsShown(t, creds)
  BY <1>2, <1>5, <1>6, RefreshKeeps
<1>8. t.settings = session.settings /\ t.name = session.name /\ t.model = session.model /\ t.level = l
  BY <1>2, RefreshedIs
<1> HIDE DEF t
<1>9. ASSUME NEW u, u.conv = session.conv, u.up PROVE Recorded(records, journals', u)
  <2>1. /\ session.conv \in Conversations /\ records[session.conv] # NoChoice
        /\ journals[session.conv] # NoChoice
    BY <1>1, SessionsHold DEF Recorded
  <2>2. journals[session.conv] \in Models \X Levels
    BY <1>1, <2>1 DEF Recorded
  <2> DEFINE j == [journals[session.conv] EXCEPT ![2] = l]
  <2>3. j \in Models \X Levels
    BY <2>2, PairExcept
  <2>4. j # NoChoice
    <3>1. j = <<j[1], j[2]>>
      BY <2>3
    <3> QED
      BY <3>1 DEF NoChoice
  <2>5. journals' = [journals EXCEPT ![session.conv] = j]
    BY <1>2, <1>3
  <2> HIDE DEF j
  <2> QED
    BY <1>1, <1>9, <2>1, <2>3, <2>4, <2>5 DEF Recorded
<1>10. CASE session' = t /\ UNCHANGED <<file, overlay>>
  <2>1. Recorded(records', journals', session')
    BY <1>7, <1>9, <1>10, SessionsHold
  <2>2. Eff' = Eff
    BY <1>10 DEF Eff
  <2> QED
    BY <1>1, <1>7, <1>10, <2>1, <2>2, UserStep
<1>11. CASE /\ CanSave(s, s.name, s.model) /\ l \in Latest(s).providers[s.name].levels[s.model]
            /\ session' = [t EXCEPT !.settings = SetChosen(Latest(s), s.name, s.model, l)]
            /\ Save(SetChosen(Latest(s), s.name, s.model, l))
  <2> DEFINE S == Latest(s)
             new == SetChosen(S, s.name, s.model, l)
  <2>1. /\ S \in Settings /\ s.name \in DOMAIN S.providers /\ s.model \in S.providers[s.name].models
        /\ l \in S.providers[s.name].levels[s.model]
        /\ ~unread => Reads(S, Eff, creds)
    BY <1>2, <1>6, <1>11, LatestIs DEF CanSave
  <2>2. Retains(new, S)
    BY <2>1, ChosenSet
  <2>3. new \in Settings /\ (~unread => Reads(new, Eff, creds)) /\ s.name \in DOMAIN new.providers
        /\ l \in new.providers[s.name].levels[s.model]
    BY <2>1, <2>2, RetainedReads DEF Retains
  <2>4. session' = [t EXCEPT !.settings = new] /\ Save(new)
    BY <1>11
  <2> HIDE DEF new, S
  <2>5. session' \in Sessions /\ session'.settings = new /\ session'.name = t.name
        /\ session'.model = t.model /\ session'.level = t.level
        /\ session'.conv = t.conv /\ session'.conf = t.conf /\ session'.built = t.built
        /\ session'.asked = t.asked /\ session'.limits = t.limits /\ session'.waiting = t.waiting
    BY <1>7, <2>3, <2>4 DEF Sessions
  <2>6. /\ file' \in CurrentFiles /\ file' # NoFile /\ overlay' \in Overlays
        /\ DOMAIN overlay \subseteq DOMAIN overlay'
        /\ ~unread => overlay' = overlay /\ Readable(file', Eff)
    BY <2>3, <2>4, SaveIs
  <2>7. Known(session') /\ Active(session') = new.providers[s.name]
    BY <1>2, <1>8, <2>3, <2>5 DEF Known, Active
  <2>8. Sensible(session')
    BY <1>2, <1>7, <1>8, <2>3, <2>5, <2>7 DEF Sensible, AsAsked, Fits
  <2>9. Recorded(records', journals', session')
    BY <1>7, <1>9, <2>5, SessionsHold
  <2>10. ASSUME ~unread
         PROVE  Agrees(session', file', Eff', creds') /\ BuiltAsShown(session', creds')
    <3>1. Eff' = Eff /\ Readable(file', Eff) /\ Reads(new, Eff, creds)
      BY <2>3, <2>6, <2>10 DEF Eff
    <3>2. Agrees(t, file, Eff, creds) /\ BuiltAsShown(t, creds)
      BY <1>7, <2>10
    <3>3. session'.conf # NoConfig /\ session'.name \in DOMAIN Eff =>
            /\ session'.model \in Eff[session'.name].models
            /\ Fits(session'.level, Eff[session'.name].levels[session'.model])
      BY <2>5, <3>2 DEF Agrees
    <3>4. Agrees(session', file', Eff, creds)
      BY <1>1, <2>5, <2>6, <3>1, <3>3, ReaderAgrees
    <3> QED
      BY <2>5, <3>1, <3>2, <3>4 DEF BuiltAsShown
  <2> QED
    BY <2>5, <2>6, <2>8, <2>9, <2>10, UserStep
<1> QED
  BY <1>3, <1>10, <1>11
\* The settings are taken over and the provider is rebuilt.
LEMMA ReloadedIs ==
  ASSUME NEW s \in Sessions, AsAsked(s), NEW S, NEW eff \in Maps(Whole), NEW can, NEW f,
         Reads(S, eff, can), Readable(f, eff), f = NoFile => DOMAIN S.providers = DOMAIN eff,
         LET back == Synced([s EXCEPT !.settings = S]) IN
         back.conf # NoConfig => back.name \in can /\ back.model \in Active(back).models
  PROVE  LET t == Refreshed(Synced([s EXCEPT !.settings = S])) IN
         /\ t \in Sessions /\ t.conv = s.conv /\ t.settings = S
         /\ Sensible(t) /\ Agrees(t, f, eff, can) /\ BuiltAsShown(t, can)
<1> DEFINE r == [s EXCEPT !.settings = S]
           back == Synced(r)
           t == Refreshed(back)
<1>1. S \in Settings
  BY DEF Reads
<1>2. r \in Sessions /\ r.settings = S /\ r.conv = s.conv
      /\ r.asked = s.asked /\ r.limits = s.limits /\ r.waiting = s.waiting
  BY <1>1 DEF Sessions
<1> HIDE DEF r
<1>3. /\ back \in Sessions /\ Alike(back, r)
      /\ Known(back) <=> Known(r)
      /\ Active(back) = Active(r)
      /\ Known(r) => Fits(back.level, Active(r).levels[r.model])
  BY <1>2, SyncedIs
<1>4. back.conf # NoConfig => back.name \in can /\ back.model \in Active(back).models
  BY DEF r
<1> HIDE DEF back
<1>5. Sensible(back) /\ back.settings = S
  BY <1>2, <1>3 DEF Sensible, AsAsked, Alike
<1>6. ASSUME back.conf # NoConfig, back.name \in DOMAIN eff
      PROVE  /\ back.model \in eff[back.name].models
             /\ Fits(back.level, eff[back.name].levels[back.model])
  <2>1. back.name \in DOMAIN S.providers /\ Exact(S.providers[back.name], eff[back.name])
    BY <1>4, <1>6 DEF Reads
  <2>2. Known(back) /\ Active(back) = S.providers[back.name]
    BY <1>5, <2>1 DEF Known, Active
  <2> QED
    BY <1>4, <1>5, <1>6, <2>1, <2>2 DEF Exact, Sensible
<1>7. Agrees(back, f, eff, can)
  BY <1>5, <1>6, ReaderAgrees
<1>8. /\ t \in Sessions /\ t.conv = back.conv /\ t.settings = back.settings
      /\ Sensible(t) /\ Agrees(t, f, eff, can) /\ BuiltAsShown(t, can)
  BY <1>3, <1>5, <1>7, RefreshKeeps, RefreshedIs
<1> HIDE DEF t
<1>9. /\ t \in Sessions /\ t.conv = s.conv /\ t.settings = S
      /\ Sensible(t) /\ Agrees(t, f, eff, can) /\ BuiltAsShown(t, can)
  BY <1>2, <1>3, <1>5, <1>8 DEF Alike
<1> QED
  BY <1>9 DEF t, back, r

LEMMA ReloadStep ==
  ASSUME ChoiceInv, session.up, ReloadProviderSettings, UNCHANGED <<release, migrating, dropped>>
  PROVE  ChoiceInv'
<1> DEFINE back == Synced([session EXCEPT !.settings = OnDisk])
           t == Refreshed(back)
<1>1. /\ session \in Sessions /\ file \in {NoFile} \cup CurrentFiles /\ AsAsked(session)
      /\ Recorded(records, journals, session) /\ overlay \in Overlays /\ Eff \in Maps(Whole)
  BY Up, EffIs DEF ChoiceInv, ChoiceType, Sensible
<1>2. /\ Readable(file, Eff) /\ ~RefreshFails(back) /\ session' = t
      /\ unread' = FALSE /\ UNCHANGED <<file, overlay, creds, records, journals>>
  BY DEF ReloadProviderSettings, CanLoad, ReloadFails, Reloaded, settingsFiles
<1>3. Reads(OnDisk, Eff, creds) /\ (file = NoFile => DOMAIN OnDisk.providers = DOMAIN Eff)
  BY <1>1, <1>2, LoadedIs DEF OnDisk
<1>4. back.conf # NoConfig => back.name \in creds /\ back.model \in Active(back).models
  BY <1>2 DEF RefreshFails
<1>5. /\ t \in Sessions /\ t.conv = session.conv
      /\ Sensible(t) /\ Agrees(t, file, Eff, creds) /\ BuiltAsShown(t, creds)
  BY <1>1, <1>2, <1>3, <1>4, ReloadedIs
<1> HIDE DEF t, back
<1>6. Recorded(records', journals', session')
  BY <1>1, <1>2, <1>5 DEF Recorded
<1>7. Eff' = Eff
  BY <1>2 DEF Eff
<1> QED
  BY <1>1, <1>2, <1>5, <1>6, <1>7, UserStep

\* Logging out: what fails leaves the session as it was, with one credential less.
LEMMA LogoutStep ==
  ASSUME ChoiceInv, session.up, NEW n, Logout(n), UNCHANGED <<release, migrating, dropped>>
  PROVE  ChoiceInv'
<1> DEFINE left == creds \ {n}
           read == LoadSettings(file, Eff, left)
           back == Synced([session EXCEPT !.settings = read])
           t == Refreshed(back)
           fails == back.conf # NoConfig /\ (back.name \notin left \/ back.model \notin Active(back).models)
<1>1. /\ session \in Sessions /\ file \in {NoFile} \cup CurrentFiles /\ Sensible(session)
      /\ Recorded(records, journals, session) /\ overlay \in Overlays /\ Eff \in Maps(Whole)
      /\ ~unread => Agrees(session, file, Eff, creds) /\ BuiltAsShown(session, creds)
  BY Up, EffIs DEF ChoiceInv, ChoiceType
<1>2. /\ creds' = left /\ UNCHANGED <<file, overlay, records, journals>>
      /\ \/ UNCHANGED <<session, unread>>
         \/ Readable(file, Eff) /\ ~fails /\ session' = t /\ unread' = FALSE
  BY DEF Logout, CanLoad, settingsFiles
<1>3. Eff' = Eff
  BY <1>2 DEF Eff
<1>4. CASE UNCHANGED <<session, unread>>
  <2>1. ~unread => Agrees(session, file, Eff, left) /\ BuiltAsShown(session, left)
    BY <1>1 DEF Agrees, BuiltAsShown
  <2> QED
    BY <1>1, <1>2, <1>3, <1>4, <2>1, UserStep
<1>5. CASE Readable(file, Eff) /\ ~fails /\ session' = t /\ unread' = FALSE
  <2>1. Reads(read, Eff, left) /\ (file = NoFile => DOMAIN read.providers = DOMAIN Eff)
    BY <1>1, <1>5, LoadedIs
  <2>2. back.conf # NoConfig => back.name \in left /\ back.model \in Active(back).models
    BY <1>5
  <2> HIDE DEF read, left
  <2>3. /\ t \in Sessions /\ t.conv = session.conv
        /\ Sensible(t) /\ Agrees(t, file, Eff, left) /\ BuiltAsShown(t, left)
    BY <1>1, <1>5, <2>1, <2>2, ReloadedIs DEF Sensible
  <2> HIDE DEF t, back
  <2>4. Recorded(records', journals', session')
    BY <1>1, <1>2, <1>5, <2>3 DEF Recorded
  <2> QED
    BY <1>1, <1>2, <1>3, <1>5, <2>3, <2>4, UserStep
<1> QED
  BY <1>2, <1>4, <1>5

\* Logging in: the files that are written extend what was in force.
LEMMA LoginStepHolds ==
  ASSUME ChoiceInv, session.up, NEW n \in Builtin, Login(n), UNCHANGED <<release, migrating, dropped>>
  PROVE  ChoiceInv'
<1> DEFINE can == creds \cup {n}
           L == LoadSettings(file, Eff, can)
           new == UpsertProvider(L, n, ConfigOf(BuiltinEntry(release, n)))
           laid == SavedOverlay(new, Eff, overlay)
           f == PreferencesFile(new)
           more == Effective(release, laid)
           read == LoadSettings(f, more, can)
           back == Synced([session EXCEPT !.settings = read])
           t == Refreshed(back)
           s == Switched(t, n, read.providers[n].default)
           fails == back.conf # NoConfig /\ (back.name \notin can \/ back.model \notin Active(back).models)
<1>1. /\ session \in Sessions /\ file \in {NoFile} \cup CurrentFiles /\ Sensible(session)
      /\ Recorded(records, journals, session) /\ overlay \in Overlays /\ Eff \in Maps(Whole)
      /\ release \in DOMAIN Bundled
      /\ ~unread => Agrees(session, file, Eff, creds) /\ BuiltAsShown(session, creds)
  BY Up, EffIs, SMTT(30) DEF ChoiceInv, ChoiceType
<1>2. /\ creds' = can /\ UNCHANGED journals
      /\ \/ ~Readable(file, Eff) /\ UNCHANGED <<file, overlay, session, records, unread>>
         \/ /\ Readable(file, Eff) /\ file' = f /\ overlay' = laid
            /\ \/ fails /\ UNCHANGED <<session, records, unread>>
               \/ /\ ~fails /\ session' = s /\ unread' = FALSE
                  /\ records' = [records EXCEPT ![s.conv] = <<s.name, s.model>>]
  BY DEF Login, CanLoad, settingsFiles, Touched
<1>3. CASE ~Readable(file, Eff) /\ UNCHANGED <<file, overlay, session, records, unread>>
  <2>1. unread'
    BY <1>1, <1>3 DEF Agrees
  <2> QED
    BY <1>1, <1>2, <1>3, <2>1, UserStep
<1>4. CASE Readable(file, Eff) /\ file' = f /\ overlay' = laid
  <2>1. Reads(L, Eff, can)
    BY <1>1, <1>4, LoadedIs
  <2> HIDE DEF L
  <2>2. /\ new \in Settings
        /\ laid \in Overlays /\ DOMAIN overlay \subseteq DOMAIN laid
        /\ f \in CurrentFiles /\ Readable(f, more)
        /\ DOMAIN more = DOMAIN Eff /\ Extends(Eff, more)
    BY <1>1, <2>1, LoginSaves DEF Eff
  <2>3. more \in Maps(Whole) /\ DOMAIN more = Builtin \cup DOMAIN laid
    BY <1>1, <2>2, EffectiveIs
  <2>4. Eff' = more
    BY <1>4 DEF Eff
  <2> HIDE DEF new, laid, more, f
  <2>5. f # NoFile
    BY <2>2, FileIs DEF NoFile
  <2>6. Reads(read, more, can)
    BY <2>2, <2>3, LoadedIs
  <2>7. n \in DOMAIN read.providers /\ n \in DOMAIN more /\ Exact(read.providers[n], more[n])
    BY <2>3, <2>6 DEF Reads
  <2> HIDE DEF read
  <2>8. CASE fails /\ UNCHANGED <<session, records, unread>>
    <3>1. ASSUME ~unread
          PROVE  Agrees(session, f, more, can) /\ BuiltAsShown(session, can)
      <4>1. Agrees(session, file, Eff, creds) /\ BuiltAsShown(session, creds)
        BY <1>1, <3>1
      <4>2. read \in Settings
        BY <2>6 DEF Reads
      <4> DEFINE r == [session EXCEPT !.settings = read]
      <4>3. r \in Sessions /\ r.settings = read /\ r.name = session.name /\ r.model = session.model
            /\ r.conf = session.conf
        BY <1>1, <4>2 DEF Sessions
      <4> HIDE DEF r
      <4>4. Alike(Synced(r), r)
        BY <4>3, SyncedIs
      <4>5. /\ back.settings = read /\ back.name = session.name /\ back.model = session.model
            /\ back.conf = session.conf
        BY <4>3, <4>4 DEF Alike, r
      <4> HIDE DEF back
      <4>6. session.conf # NoConfig /\ (back.name \notin can \/ back.model \notin Active(back).models)
        BY <2>8, <4>5
      <4>7. session.name # n
        <5> SUFFICES ASSUME session.name = n PROVE FALSE
          OBVIOUS
        <5>1. Active(back).models = more[n].models
          BY <2>7, <4>5 DEF Active, Known, Exact
        <5>2. n \in DOMAIN Eff /\ session.model \in Eff[n].models
          BY <2>2, <2>7, <4>1, <4>6 DEF Agrees
        <5>3. session.model \in more[n].models
          BY <2>2, <5>2 DEF Extends
        <5> QED
          BY <4>5, <4>6, <5>1, <5>3
      <4>8. BuiltAsShown(session, can)
        BY <4>1, <4>7 DEF BuiltAsShown
      <4>9. \A k \in DOMAIN session.settings.providers :
              k \in DOMAIN more /\ Within(session.settings.providers[k], more[k])
        BY <2>2, <4>1 DEF Agrees, Within, Extends
      <4>10. session.name \in DOMAIN more =>
               /\ session.model \in more[session.name].models
               /\ Fits(session.level, more[session.name].levels[session.model])
        BY <2>2, <4>1, <4>6 DEF Agrees, Extends
      <4>11. session.name \in DOMAIN more => Known(session) \/ session.name \notin can
        BY <2>2, <4>1, <4>6, <4>7 DEF Agrees
      <4> QED
        BY <2>2, <2>5, <4>8, <4>9, <4>10, <4>11 DEF Agrees
    <3> QED
      BY <1>1, <1>2, <1>4, <2>2, <2>4, <2>8, <3>1, UserStep
  <2>9. CASE ~fails /\ session' = s /\ unread' = FALSE
             /\ records' = [records EXCEPT ![s.conv] = <<s.name, s.model>>]
    <3>1. back.conf # NoConfig => back.name \in can /\ back.model \in Active(back).models
      BY <2>9
    <3>2. /\ t \in Sessions /\ t.conv = session.conv /\ t.settings = read
          /\ Sensible(t) /\ Agrees(t, f, more, can) /\ BuiltAsShown(t, can)
      BY <1>1, <2>2, <2>3, <2>5, <2>6, <3>1, ReloadedIs DEF Sensible
    <3> HIDE DEF t, back
    <3>3. read.providers[n].default \in read.providers[n].models
      <4>1. read.providers[n] \in Configs
        BY <2>6, <2>7, SettingsAre DEF Reads
      <4> QED
        BY <4>1, ConfigsHold
    <3>4. /\ s \in Sessions /\ s.conv = session.conv
          /\ Sensible(s) /\ Agrees(s, f, more, can) /\ BuiltAsShown(s, can)
      BY <2>7, <3>2, <3>3, SwitchKeeps
    <3> HIDE DEF s
    <3>5. Recorded(records', journals', session')
      <4>1. <<s.name, s.model>> \in Pairs /\ <<s.name, s.model>> # NoChoice
        BY <3>4, SessionsHold, PairIs, ZenonT(30) DEF Pairs
      <4>2. s.conv \in Conversations /\ journals[s.conv] # NoChoice
        BY <1>1, <3>4, SessionsHold DEF Recorded
      <4> QED
        BY <1>1, <1>2, <2>9, <4>1, <4>2 DEF Recorded
    <3> QED
      BY <1>2, <1>4, <2>2, <2>4, <2>9, <3>4, <3>5, UserStep
  <2> QED
    BY <1>2, <1>4, <2>8, <2>9
<1> QED
  BY <1>2, <1>3, <1>4
\* A session that chose among the settings of one that agrees with the files.
LEMMA ChooserAgrees ==
  ASSUME NEW s, NEW t, NEW f, NEW eff, NEW can, Agrees(s, f, eff, can), t.settings = s.settings,
         t.name \in DOMAIN s.settings.providers, t.model \in s.settings.providers[t.name].models,
         Fits(t.level, s.settings.providers[t.name].levels[t.model])
  PROVE  Agrees(t, f, eff, can)
<1>1. /\ t.name \in DOMAIN eff /\ t.model \in eff[t.name].models
      /\ s.settings.providers[t.name].levels[t.model] = eff[t.name].levels[t.model]
  BY AgreedConfig
<1> QED
  BY <1>1, SMTT(30) DEF Agrees, Known

LEMMA FreshIs ==
  ASSUME NEW c \in Conversations, NEW settings \in Settings, NEW n \in DOMAIN settings.providers,
         NEW m \in settings.providers[n].models, NEW l \in Levels, NEW conf \in Configs \cup {NoConfig},
         NEW built \in {NoChoice} \cup (Names \X Models \X Levels)
  PROVE  LET s == Fresh(c, settings, n, m, l, conf, built) IN
         /\ s \in Sessions /\ s.conv = c /\ s.settings = settings /\ s.name = n /\ s.model = m
         /\ s.level = l /\ s.conf = conf /\ s.built = built
         /\ s.asked = NoChoice
         /\ Known(s) /\ Active(s) = settings.providers[n]
<1> DEFINE s == Fresh(c, settings, n, m, l, conf, built)
<1>1. s = [up |-> TRUE, conv |-> c, settings |-> settings, name |-> n, model |-> m,
           level |-> l, conf |-> conf, built |-> built,
           asked |-> NoChoice, limits |-> NoChoice, waiting |-> NoChoice]
  BY DEF Fresh
<1>2. n \in Names /\ settings.providers[n] \in Configs
  BY SettingsAre
<1>3. m \in Models /\ NoChoice \in Pairs
  BY <1>2, ConfigsHold DEF Pairs
<1> HIDE DEF s
<1>4. s \in Sessions
  BY <1>1, <1>2, <1>3, SessionOf
<1>5. Known(s) /\ Active(s) = settings.providers[n]
  BY <1>1 DEF Known, Active
<1> QED
  BY <1>1, <1>4, <1>5 DEF s

LEMMA AdoptedIs ==
  ASSUME session \in Sessions, Sensible(session), NEW s \in Sessions, NEW f, NEW eff, NEW can
  PROVE  LET t == Adopted(s) IN
         /\ t \in Sessions /\ t.conv = s.conv
         /\ Sensible(s) => Sensible(t)
         /\ Agrees(s, f, eff, can) => Agrees(t, f, eff, can)
         /\ BuiltAsShown(s, can) => BuiltAsShown(t, can)
<1> DEFINE t == Adopted(s)
<1>1. /\ t \in Sessions /\ t.conv = s.conv /\ t.settings = s.settings /\ t.name = s.name
      /\ t.model = s.model /\ t.level = s.level /\ t.conf = s.conf /\ t.built = s.built
      /\ t.asked = session.asked /\ t.limits = session.limits /\ t.waiting = session.waiting
  BY DEF Adopted, Sessions
<1> HIDE DEF t
<1>2. (Known(t) <=> Known(s)) /\ Active(t) = Active(s)
  BY <1>1 DEF Known, Active
<1>3. Sensible(s) => Sensible(t)
  BY <1>1, <1>2 DEF Sensible, AsAsked
<1>4. Agrees(s, f, eff, can) => Agrees(t, f, eff, can)
  BY <1>1, <1>2 DEF Agrees
<1>5. BuiltAsShown(s, can) => BuiltAsShown(t, can)
  BY <1>1 DEF BuiltAsShown
<1> QED
  BY <1>1, <1>3, <1>4, <1>5 DEF t

LEMMA NewSessionStep ==
  ASSUME ChoiceInv, session.up, NEW c \in Conversations, NewSession(c),
         UNCHANGED <<release, migrating, dropped>>
  PROVE  ChoiceInv'
<1> DEFINE settings == session.settings
           n == settings.default
           m == settings.providers[n].default
           config == settings.providers[n]
           k == CoercedLevel(config, m, session.level, Null)
           level == PreferredLevel(config, m, k)
           s == Fresh(c, settings, n, m, level, config, <<n, m, level>>)
           t == Adopted(s)
<1>1. /\ session \in Sessions /\ file \in {NoFile} \cup CurrentFiles /\ Sensible(session)
      /\ Recorded(records, journals, session) /\ overlay \in Overlays
      /\ ~unread => Agrees(session, file, Eff, creds) /\ BuiltAsShown(session, creds)
  BY Up, SMTT(30) DEF ChoiceInv, ChoiceType
<1>2. /\ n \in DOMAIN settings.providers /\ session' = t
      /\ records' = [records EXCEPT ![c] = <<n, m>>]
      /\ journals' = [journals EXCEPT ![c] = <<m, level>>]
      /\ UNCHANGED <<file, overlay, creds, unread>>
  BY SMTT(30) DEF NewSession, settingsFiles
<1>3. settings \in Settings /\ n \in Names /\ config \in Configs
  BY <1>1, <1>2, SessionsHold, SettingsAre
<1>4. m \in config.models /\ m \in Models
  BY <1>3, ConfigsHold
<1>5. k \in Levels
  <2>1. session.level \in Levels /\ Null \in Levels \cup {Null}
    BY <1>1, SessionsHold
  <2> HIDE DEF config, m
  <2> QED
    BY <1>3, <1>4, <2>1, CoercedIs
<1>6. level \in Levels /\ Fits(level, config.levels[m])
  BY <1>3, <1>4, <1>5, PreferredIs
<1> HIDE DEF level
<1> DEFINE built == <<n, m, level>>
<1>7. built \in {NoChoice} \cup (Names \X Models \X Levels) /\ config \in Configs \cup {NoConfig}
  BY <1>3, <1>4, <1>6, SMTT(30)
<1> HIDE DEF built, m
<1>8. /\ s \in Sessions /\ s.conv = c /\ s.settings = settings /\ s.name = n /\ s.model = m
      /\ s.level = level /\ s.built = built /\ s.asked = NoChoice
      /\ Known(s) /\ Active(s) = config
  <2>1. s = Fresh(c, settings, n, m, level, config, built)
    BY DEF built
  <2> HIDE DEF s
  <2> QED
    BY <1>2, <1>3, <1>4, <1>6, <1>7, <2>1, FreshIs
<1> HIDE DEF s
<1>9. Sensible(s) /\ BuiltAsShown(s, creds)
  BY <1>6, <1>8, SMTT(30) DEF Sensible, AsAsked, BuiltAsShown, built
<1>10. Agrees(session, file, Eff, creds) => Agrees(s, file, Eff, creds)
  BY <1>2, <1>4, <1>6, <1>8, ChooserAgrees
<1>11. /\ t \in Sessions /\ t.conv = c /\ Sensible(t)
       /\ ~unread => Agrees(t, file, Eff, creds) /\ BuiltAsShown(t, creds)
  BY <1>1, <1>8, <1>9, <1>10, AdoptedIs
<1> HIDE DEF t
<1>12. Recorded(records', journals', session')
  <2>1. <<n, m>> \in Pairs /\ <<n, m>> # NoChoice
    BY <1>3, <1>4, PairIs DEF Pairs
  <2>2. <<m, level>> \in Models \X Levels /\ <<m, level>> # NoChoice
    BY <1>4, <1>6, PairIs
  <2> HIDE DEF n, m
  <2> QED
    BY <1>1, <1>2, <1>11, <2>1, <2>2 DEF Recorded
<1>13. Eff' = Eff
  BY <1>2 DEF Eff
<1> QED
  BY <1>1, <1>2, <1>11, <1>12, <1>13, UserStep

LEMMA ResumeStep ==
  ASSUME ChoiceInv, session.up, NEW c \in Conversations, Resume(c),
         UNCHANGED <<release, migrating, dropped>>
  PROVE  ChoiceInv'
<1> DEFINE settings == session.settings
           n == records[c][1]
           config == settings.providers[n]
           m == RuntimeModel(config, journals[c], records[c][2])
           q == Fresh(c, settings, n, m, journals[c][2], config, NoChoice)
           s == Synced(q)
           u == Refreshed(s)
           t == Adopted(u)
<1>1. /\ session \in Sessions /\ file \in {NoFile} \cup CurrentFiles /\ Sensible(session)
      /\ Recorded(records, journals, session) /\ overlay \in Overlays
      /\ ~unread => Agrees(session, file, Eff, creds) /\ BuiltAsShown(session, creds)
  BY Up DEF ChoiceInv, ChoiceType
<1>2. /\ records[c] # NoChoice /\ n \in DOMAIN settings.providers /\ session' = t
      /\ UNCHANGED <<file, overlay, creds, records, journals, unread>>
  BY DEF Resume, settingsFiles, Unused
<1>3. settings \in Settings /\ n \in Names /\ config \in Configs
  BY <1>1, <1>2, SessionsHold, SettingsAre
<1>4. journals[c] \in Models \X Levels
  BY <1>1, <1>2 DEF Recorded
<1>5. journals[c][2] \in Levels
  BY <1>4
<1>6. m \in config.models /\ m \in Models
  BY <1>3, ConfigsHold DEF RuntimeModel
<1> HIDE DEF m, config, n
<1>7. /\ q \in Sessions /\ q.conv = c /\ q.settings = settings /\ q.name = n /\ q.model = m
      /\ q.asked = NoChoice /\ Known(q) /\ Active(q) = config
  BY <1>2, <1>3, <1>5, <1>6, FreshIs DEF config
<1> HIDE DEF q
<1>8. /\ s \in Sessions /\ Alike(s, q) /\ Known(s) /\ Active(s) = config
      /\ Fits(s.level, config.levels[m])
  BY <1>7, SyncedIs
<1> HIDE DEF s
<1>9. Sensible(s) /\ s.conv = c /\ s.settings = settings /\ s.name = n /\ s.model = m
  BY <1>7, <1>8 DEF Sensible, AsAsked, Alike
<1>10. Agrees(session, file, Eff, creds) => Agrees(s, file, Eff, creds)
  BY <1>2, <1>6, <1>8, <1>9, ChooserAgrees DEF config
<1>11. /\ u \in Sessions /\ u.conv = c /\ Sensible(u) /\ BuiltAsShown(u, creds)
       /\ Agrees(session, file, Eff, creds) => Agrees(u, file, Eff, creds)
  BY <1>8, <1>9, <1>10, RefreshKeeps
<1> HIDE DEF u
<1>12. /\ t \in Sessions /\ t.conv = c /\ Sensible(t)
       /\ ~unread => Agrees(t, file, Eff, creds) /\ BuiltAsShown(t, creds)
  BY <1>1, <1>11, AdoptedIs
<1> HIDE DEF t
<1>13. Recorded(records', journals', session')
  BY <1>1, <1>2, <1>12 DEF Recorded
<1>14. Eff' = Eff
  BY <1>2 DEF Eff
<1> QED
  BY <1>1, <1>2, <1>12, <1>13, <1>14, UserStep

\* Limits arrive for the model they were asked for, whatever was chosen meanwhile.
LEMMA LimitsStep ==
  ASSUME ChoiceInv, RefreshRuntimeModelLimits
  PROVE  ChoiceInv'
<1>1. session.up /\ UNCHANGED <<file, overlay, release, creds, records, journals, migrating, unread, dropped>>
  BY DEF RefreshRuntimeModelLimits, AskLimits, AnswerLimits
<1>2. /\ session \in Sessions /\ file \in {NoFile} \cup CurrentFiles /\ Sensible(session)
      /\ Recorded(records, journals, session) /\ overlay \in Overlays
      /\ ~unread => Agrees(session, file, Eff, creds) /\ BuiltAsShown(session, creds)
  BY <1>1, Up DEF ChoiceInv, ChoiceType
<1> DEFINE asking == <<session.name, session.model>>
<1>3. asking \in Pairs /\ NoChoice \in Pairs
  BY <1>2, SessionsHold, PairIs DEF Pairs
<1> HIDE DEF asking
<1>4. /\ session' \in Sessions /\ session'.conv = session.conv /\ session'.settings = session.settings
      /\ session'.name = session.name /\ session'.model = session.model
      /\ session'.level = session.level /\ session'.conf = session.conf
      /\ session'.built = session.built /\ AsAsked(session')
  <2>1. CASE AskLimits
    <3>1. session' = [session EXCEPT !.asked = asking, !.limits = NoChoice, !.waiting = asking]
      BY <2>1 DEF AskLimits, Ask, asking
    <3> QED
      BY <1>2, <1>3, <3>1 DEF Sessions, AsAsked
  <2>2. ASSUME NEW fails \in BOOLEAN, AnswerLimits(fails)
        PROVE  /\ session' \in Sessions /\ session'.conv = session.conv
               /\ session'.settings = session.settings
               /\ session'.name = session.name /\ session'.model = session.model
               /\ session'.level = session.level /\ session'.conf = session.conf
               /\ session'.built = session.built /\ AsAsked(session')
    <3> DEFINE l == IF fails THEN session.limits ELSE session.waiting
    <3>1. session' = [session EXCEPT !.waiting = NoChoice, !.limits = l]
      BY <2>2 DEF AnswerLimits
    <3>2. l \in Pairs /\ l \in {session.limits, session.waiting}
      BY <1>2, SessionsHold
    <3> HIDE DEF l
    <3>3. /\ session' \in Sessions /\ session'.conv = session.conv
          /\ session'.settings = session.settings
          /\ session'.name = session.name /\ session'.model = session.model
          /\ session'.level = session.level /\ session'.conf = session.conf
          /\ session'.built = session.built
          /\ session'.asked = session.asked /\ session'.limits = l /\ session'.waiting = NoChoice
      BY <1>2, <1>3, <3>1, <3>2 DEF Sessions
    <3> QED
      BY <1>2, <3>2, <3>3 DEF Sensible, AsAsked
  <2> QED
    BY <2>1, <2>2 DEF RefreshRuntimeModelLimits
<1>5. (Known(session') <=> Known(session)) /\ Active(session') = Active(session)
  BY <1>4 DEF Known, Active
<1>6. Sensible(session')
  BY <1>2, <1>4, <1>5 DEF Sensible
<1>7. ~unread => Agrees(session', file, Eff, creds) /\ BuiltAsShown(session', creds)
  BY <1>2, <1>4, <1>5 DEF Agrees, BuiltAsShown
<1>8. Recorded(records', journals', session')
  BY <1>1, <1>2, <1>4, SessionsHold DEF Recorded
<1>9. Eff' = Eff
  BY <1>1 DEF Eff
<1> QED
  BY <1>1, <1>2, <1>4, <1>6, <1>7, <1>8, <1>9, UserStep

LEMMA StartStep ==
  ASSUME ChoiceInv, NEW c \in Conversations, RunTuiApp(c), UNCHANGED <<release, dropped>>
  PROVE  ChoiceInv'
<1> DEFINE settings == OnDisk
           n == StartupSelection(settings)
           config == settings.providers[n]
           m == config.default
           level == PreferredLevel(config, m, DefaultLevel)
           usable == n \in creds
           conf == IF usable THEN config ELSE NoConfig
           built == IF usable THEN <<n, m, level>> ELSE NoChoice
           s == Fresh(c, settings, n, m, level, conf, built)
<1>1. /\ file.is # "legacy" /\ Readable(file, Eff)
      /\ n \in DOMAIN settings.providers
      /\ session' = s
      /\ records' = [records EXCEPT ![c] = <<n, m>>]
      /\ journals' = [journals EXCEPT ![c] = <<m, level>>]
      /\ unread' = FALSE
      /\ UNCHANGED <<file, overlay, creds, migrating>>
  BY DEF RunTuiApp, CanLoad, settingsFiles
<1>2. /\ Recorded(records, journals, session) /\ overlay \in Overlays /\ Eff \in Maps(Whole)
      /\ file # LegacyFile(LegacySettings) /\ file \in {NoFile} \cup CurrentFiles
  BY <1>1, EffIs DEF ChoiceInv, ChoiceType, LegacyFile
<1>3. Reads(settings, Eff, creds) /\ (file = NoFile => DOMAIN settings.providers = DOMAIN Eff)
  BY <1>1, <1>2, LoadedIs DEF OnDisk
<1> HIDE DEF settings, n
<1>4. /\ settings \in Settings /\ n \in Names /\ config \in Configs
      /\ n \in DOMAIN Eff /\ Exact(config, Eff[n])
  BY <1>1, <1>3, SettingsAre DEF Reads
<1> HIDE DEF config
<1>5. m \in config.models /\ m \in Models
  BY <1>4, ConfigsHold
<1> HIDE DEF m
<1>6. level \in Levels /\ Fits(level, config.levels[m])
  BY <1>4, <1>5, PreferredIs, SettingsAssumption
<1> HIDE DEF level
<1>7. /\ conf \in Configs \cup {NoConfig} /\ (conf # NoConfig => usable)
      /\ built \in {NoChoice} \cup (Names \X Models \X Levels)
      /\ usable => built = <<n, m, level>>
  BY <1>4, <1>5, <1>6
<1> HIDE DEF conf, built, usable
<1>8. /\ s \in Sessions /\ s.conv = c /\ s.settings = settings /\ s.name = n /\ s.model = m
      /\ s.level = level /\ s.conf = conf /\ s.built = built /\ s.asked = NoChoice
      /\ Known(s) /\ Active(s) = config
  <2>1. settings \in Settings /\ n \in Names /\ c \in Conversations
    BY <1>1, <1>4
  <2> QED
    BY <1>1, <1>4, <1>5, <1>6, <1>7, <2>1, FreshIs, SMTT(60) DEF config
<1> HIDE DEF s
<1>9. Sensible(s) /\ BuiltAsShown(s, creds)
  BY <1>6, <1>7, <1>8 DEF Sensible, AsAsked, BuiltAsShown
<1>10. s.model \in Eff[s.name].models /\ Fits(s.level, Eff[s.name].levels[s.model])
  BY <1>4, <1>5, <1>6, <1>8 DEF Exact
<1>11. Agrees(s, file, Eff, creds)
  BY <1>1, <1>2, <1>3, <1>8, <1>10, ReaderAgrees
<1>12. Recorded(records', journals', session')
  <2>1. <<n, m>> \in Pairs /\ <<n, m>> # NoChoice
    BY <1>4, <1>5, PairIs DEF Pairs
  <2>2. <<m, level>> \in Models \X Levels /\ <<m, level>> # NoChoice
    BY <1>5, <1>6, PairIs
  <2> QED
    BY <1>1, <1>2, <1>8, <2>1, <2>2 DEF Recorded
<1>13. Eff' = Eff
  BY <1>1 DEF Eff
<1> QED
  BY <1>1, <1>2, <1>8, <1>9, <1>11, <1>12, <1>13, ProgramStep
------------------------------------------------------------------------------
(* Migration, crashes, and everyone else *)

LEMMA CrashStep ==
  ASSUME ChoiceInv, Crash, UNCHANGED <<release, dropped>>
  PROVE  ChoiceInv'
<1>1. session' = Down /\ migrating' = NoConfig /\ UNCHANGED <<file, overlay, records, journals>>
  BY DEF Crash, settingsFiles
<1>2. ~session'.up
  BY <1>1 DEF Down
<1>3. Recorded(records', journals', session')
  BY <1>1, <1>2 DEF ChoiceInv, ChoiceType, Recorded
<1>4. ChoiceType'
  BY <1>1, <1>3 DEF ChoiceInv, ChoiceType
<1>5. Carried'
  BY <1>1, <1>2 DEF ChoiceInv, Carried, Defining
<1> QED
  BY <1>2, <1>4, <1>5 DEF ChoiceInv

\* The catalog is written first: with the providers that only the older file defines.
LEMMA MigrateCatalogStep ==
  ASSUME ChoiceInv, MigrateCatalog, UNCHANGED <<release, dropped>>
  PROVE  ChoiceInv'
<1> DEFINE S == OnDisk
           W == DOMAIN S.providers \ DOMAIN Eff
<1>1. /\ ~session.up /\ file.is = "legacy" /\ migrating' = S
      /\ overlay' = MigratedOverlay(S, Eff, overlay)
      /\ UNCHANGED <<file, session, records, journals>>
  BY DEF MigrateCatalog
<1>2. /\ Recorded(records, journals, session) /\ overlay \in Overlays
      /\ Eff \in Maps(Whole) /\ DOMAIN Eff = Builtin \cup DOMAIN overlay
      /\ file \in {NoFile, LegacyFile(LegacySettings)} \cup CurrentFiles
  BY EffIs DEF ChoiceInv, ChoiceType
<1>3. file = LegacyFile(LegacySettings)
  BY <1>1, <1>2, FileIs DEF NoFile
<1>4. S \in Settings /\ DOMAIN LegacySettings.providers \subseteq DOMAIN S.providers
  BY <1>2, <1>3, MigratedIs DEF OnDisk
<1> HIDE DEF S
<1>5. overlay' = Laid(Entries(S, Eff, W), overlay)
  BY <1>1 DEF MigratedOverlay, Entries
<1>6. W \in SUBSET DOMAIN S.providers
  OBVIOUS
<1>7. /\ overlay' \in Overlays
      /\ Overlaid(overlay', Entries(S, Eff, W), overlay)
      /\ DOMAIN Entries(S, Eff, W) = W
  <2> HIDE DEF W
  <2> QED
    BY <1>2, <1>4, <1>5, <1>6, EntriesAre
<1>8. DOMAIN overlay' = W \cup DOMAIN overlay
  BY <1>7 DEF Overlaid
<1>9. Defining' \subseteq DOMAIN overlay'
  BY <1>2, <1>4, <1>8 DEF Defining
<1>10. ChoiceType'
  BY <1>1, <1>2, <1>4, <1>7 DEF ChoiceInv, ChoiceType
<1>11. Carried'
  BY <1>1, <1>3, <1>9 DEF Carried
<1> QED
  BY <1>1, <1>10, <1>11 DEF ChoiceInv

LEMMA MigrateFileStep ==
  ASSUME ChoiceInv, MigrateFile, UNCHANGED <<release, dropped>>
  PROVE  ChoiceInv'
<1>1. /\ migrating # NoConfig /\ file' = PreferencesFile(migrating) /\ migrating' = NoConfig
      /\ UNCHANGED <<overlay, session, records, journals>>
  BY DEF MigrateFile
<1>2. /\ migrating \in Settings /\ ~session.up /\ Defining \subseteq DOMAIN overlay
  BY <1>1 DEF ChoiceInv, ChoiceType, Carried
<1>3. file' \in CurrentFiles
  BY <1>1, <1>2, PreferencesAre
<1>4. ChoiceType'
  BY <1>1, <1>3 DEF ChoiceInv, ChoiceType
<1>5. Carried'
  BY <1>1, <1>2 DEF Carried, Defining
<1> QED
  BY <1>1, <1>2, <1>4, <1>5 DEF ChoiceInv

LEMMA AnotherSessionStep ==
  ASSUME ChoiceInv, NEW n, NEW m, AnotherSession(n, m)
  PROVE  /\ file' \in CurrentFiles /\ overlay' \in Overlays /\ DOMAIN overlay \subseteq DOMAIN overlay'
         /\ migrating = NoConfig /\ UNCHANGED <<release, dropped>>
<1>1. /\ file.is # "legacy" /\ Readable(file, Eff) /\ migrating = NoConfig
      /\ n \in DOMAIN OnDisk.providers /\ m \in OnDisk.providers[n].models
      /\ \/ Save(SetDefault(OnDisk, n, m))
         \/ \E l \in OnDisk.providers[n].levels[m] : Save(SetChosen(OnDisk, n, m, l))
      /\ UNCHANGED <<release, dropped>>
  BY DEF AnotherSession, CanLoad
<1>2. Eff \in Maps(Whole) /\ file \in {NoFile} \cup CurrentFiles
  BY <1>1, EffIs DEF ChoiceInv, ChoiceType, LegacyFile
<1>3. OnDisk \in Settings
  BY <1>1, <1>2, LoadedIs DEF OnDisk, Reads
<1>4. CASE Save(SetDefault(OnDisk, n, m))
  <2>1. SetDefault(OnDisk, n, m) \in Settings
    BY <1>1, <1>3, DefaultSet DEF Retains
  <2> QED
    BY <1>1, <1>4, <2>1, SaveIs
<1>5. ASSUME NEW l \in OnDisk.providers[n].levels[m], Save(SetChosen(OnDisk, n, m, l))
      PROVE  file' \in CurrentFiles /\ overlay' \in Overlays /\ DOMAIN overlay \subseteq DOMAIN overlay'
  <2>1. SetChosen(OnDisk, n, m, l) \in Settings
    BY <1>1, <1>3, ChosenSet DEF Retains
  <2> QED
    BY <1>5, <2>1, SaveIs
<1> QED
  BY <1>1, <1>4, <1>5

LEMMA EditStep ==
  ASSUME ChoiceInv, NEW n \in Names, EditCatalog(n)
  PROVE  /\ overlay' \in Overlays /\ UNCHANGED <<file, release>>
         /\ Defining \subseteq DOMAIN overlay => Defining' \subseteq DOMAIN overlay'
<1>1. overlay \in Overlays /\ UNCHANGED <<file, release>>
  BY DEF ChoiceInv, ChoiceType, EditCatalog
<1>2. /\ overlay \in Maps(Definitions) /\ DOMAIN overlay \subseteq Names
      /\ \A k \in DOMAIN overlay : overlay[k] \in Definitions /\ Accepted(k, overlay[k])
  BY <1>1, OverlayIs
<1>3. ASSUME NEW def \in CatalogEdits[n], overlay' = With(overlay, n, def), UNCHANGED dropped
      PROVE  overlay' \in Overlays /\ Defining' = Defining /\ DOMAIN overlay \subseteq DOMAIN overlay'
  <2>1. def \in Definitions /\ Accepted(n, def)
    BY ChoiceAssumption
  <2>2. overlay' \in Maps(Definitions) /\ Placed(overlay', overlay, n, def)
    BY <1>2, <1>3, <2>1, WithIs
  <2>3. \A k \in DOMAIN overlay' : Accepted(k, overlay'[k])
    BY <1>2, <2>1, <2>2 DEF Placed
  <2> QED
    BY <1>3, <2>2, <2>3 DEF Overlays, Placed, Defining
<1>4. CASE /\ overlay' = [k \in DOMAIN overlay \ {n} |-> overlay[k]]
           /\ dropped' = dropped \cup {n}
  <2>1. overlay' \in [DOMAIN overlay \ {n} -> Definitions]
    BY <1>2, <1>4
  <2>2. overlay' \in Maps(Definitions)
    BY <1>2, <2>1, MapIs
  <2>3. overlay' \in Overlays
    BY <1>2, <1>4, <2>2 DEF Overlays
  <2>4. Defining' \subseteq Defining \ {n}
    BY <1>4 DEF Defining
  <2> QED
    BY <1>1, <1>4, <2>3, <2>4
<1> QED
  BY <1>1, <1>3, <1>4 DEF EditCatalog

\* The session is not told what others changed.
LEMMA ElsewhereStep ==
  ASSUME ChoiceInv, Elsewhere
  PROVE  ChoiceInv'
<1>1. unread' = TRUE /\ UNCHANGED <<session, records, journals, migrating>>
  BY DEF Elsewhere
<1>2. ASSUME file' \in {NoFile, LegacyFile(LegacySettings)} \cup CurrentFiles, overlay' \in Overlays,
             release' \in DOMAIN Bundled, Carried'
      PROVE  ChoiceInv'
  BY <1>1, <1>2 DEF ChoiceInv, ChoiceType
<1>3. ASSUME NEW n \in Names, NEW m \in Models, AnotherSession(n, m)
      PROVE  ChoiceInv'
  <2>1. /\ file' \in CurrentFiles /\ overlay' \in Overlays /\ DOMAIN overlay \subseteq DOMAIN overlay'
        /\ migrating = NoConfig /\ UNCHANGED <<release, dropped>>
    BY <1>3, AnotherSessionStep
  <2>2. file' # LegacyFile(LegacySettings)
    BY <2>1, FileIs DEF LegacyFile
  <2>3. file # LegacyFile(LegacySettings)
    BY <1>3 DEF AnotherSession, LegacyFile
  <2>4. Carried'
    BY <1>1, <2>1, <2>2, <2>3 DEF ChoiceInv, Carried, Defining
  <2> QED
    BY <1>2, <2>1, <2>4 DEF ChoiceInv, ChoiceType
<1>4. ASSUME NEW n \in Names, EditCatalog(n) PROVE ChoiceInv'
  <2>1. /\ overlay' \in Overlays /\ UNCHANGED <<file, release>>
        /\ Defining \subseteq DOMAIN overlay => Defining' \subseteq DOMAIN overlay'
    BY <1>4, EditStep
  <2>2. Carried'
    BY <1>1, <2>1 DEF ChoiceInv, Carried
  <2> QED
    BY <1>2, <2>1, <2>2 DEF ChoiceInv, ChoiceType
<1>5. CASE UNCHANGED <<file, overlay, release, dropped>>
  <2>1. Carried'
    BY <1>1, <1>5 DEF ChoiceInv, Carried, Defining
  <2> QED
    BY <1>2, <1>5, <2>1 DEF ChoiceInv, ChoiceType
<1>6. CASE Upgrade
  <2>1. release < Len(Bundled) /\ release' = release + 1 /\ UNCHANGED <<file, overlay, dropped>>
    BY <1>6 DEF Upgrade
  <2>2. release \in DOMAIN Bundled
    BY DEF ChoiceInv, ChoiceType
  <2>3. release' \in DOMAIN Bundled
    BY <2>1, <2>2, SettingsAssumption
  <2>4. Carried'
    BY <1>1, <2>1 DEF ChoiceInv, Carried, Defining
  <2> QED
    BY <1>2, <2>1, <2>3, <2>4 DEF ChoiceInv, ChoiceType
<1> QED
  BY <1>3, <1>4, <1>5, <1>6 DEF Elsewhere, ChangeCredentials

LEMMA ByUserStep ==
  ASSUME ChoiceInv, ByUser, UNCHANGED <<release, dropped>>
  PROVE  ChoiceInv'
<1>1. session.up /\ UNCHANGED migrating
  BY DEF ByUser
<1>2. CASE /\ \/ \E n \in Names, m \in Models : Choose(n, m) \/ ToggleScopedModel(n, m)
              \/ \E reverse \in BOOLEAN : CycleScopedModel(reverse)
           /\ UNCHANGED <<creds, journals, unread>>
  <2>1. ASSUME NEW n \in Names, NEW m \in Models, Choose(n, m) PROVE ChoiceInv'
    BY <1>1, <1>2, <2>1, ChoiceStep DEF Choose
  <2>2. ASSUME NEW n \in Names, NEW m \in Models, ToggleScopedModel(n, m) PROVE ChoiceInv'
    BY <1>1, <1>2, <2>2, ToggleStep
  <2>3. ASSUME NEW reverse \in BOOLEAN, CycleScopedModel(reverse) PROVE ChoiceInv'
    BY <1>1, <1>2, <2>3, CycleStep
  <2> QED
    BY <1>2, <2>1, <2>2, <2>3
<1>3. CASE (\E l \in Levels : SetThinkingLevel(l)) /\ UNCHANGED <<creds, records, unread>>
  BY <1>1, <1>3, LevelStep
<1>4. CASE ReloadProviderSettings
  BY <1>1, <1>4, ReloadStep
<1>5. ASSUME NEW n \in Builtin, Login(n) PROVE ChoiceInv'
  BY <1>1, <1>5, LoginStepHolds
<1>6. ASSUME NEW n \in Builtin, Logout(n) PROVE ChoiceInv'
  BY <1>1, <1>6, LogoutStep
<1>7. ASSUME NEW c \in Conversations, NewSession(c) PROVE ChoiceInv'
  BY <1>1, <1>7, NewSessionStep
<1>8. ASSUME NEW c \in Conversations, Resume(c) PROVE ChoiceInv'
  BY <1>1, <1>8, ResumeStep
<1> QED
  BY <1>2, <1>3, <1>4, <1>5, <1>6, <1>7, <1>8 DEF ByUser

LEMMA ChoiceStepInv == ChoiceInv /\ [ChoiceNext]_choiceVars => ChoiceInv'
<1> SUFFICES ASSUME ChoiceInv, [ChoiceNext]_choiceVars PROVE ChoiceInv'
  OBVIOUS
<1>1. CASE UNCHANGED choiceVars
  BY <1>1 DEF choiceVars, ChoiceInv, ChoiceType, Carried, Defining, Eff
<1>2. CASE Program
  <2>1. UNCHANGED <<release, dropped>>
    BY <1>2 DEF Program
  <2>2. CASE ByUser
    BY <2>1, <2>2, ByUserStep
  <2>3. CASE MigrateCatalog
    BY <2>1, <2>3, MigrateCatalogStep
  <2>4. CASE MigrateFile
    BY <2>1, <2>4, MigrateFileStep
  <2>5. CASE Crash
    BY <2>1, <2>5, CrashStep
  <2>6. ASSUME NEW c \in Conversations, RunTuiApp(c) PROVE ChoiceInv'
    BY <2>1, <2>6, StartStep
  <2> QED
    BY <1>2, <2>2, <2>3, <2>4, <2>5, <2>6 DEF Program
<1>3. CASE Elsewhere
  BY <1>3, ElsewhereStep
<1>4. CASE RefreshRuntimeModelLimits
  BY <1>4, LimitsStep
<1> QED
  BY <1>1, <1>2, <1>3, <1>4 DEF ChoiceNext

LEMMA ChoiceInitInv == ChoiceInit => ChoiceInv
<1> SUFFICES ASSUME ChoiceInit PROVE ChoiceInv
  OBVIOUS
<1>1. overlay \in Overlays /\ DOMAIN overlay = {}
  <2>1. overlay = <<>> /\ {} \in SUBSET Names
    BY DEF ChoiceInit
  <2>2. DOMAIN overlay = {} /\ overlay \in [{} -> Definitions]
    BY <2>1
  <2>3. overlay \in Maps(Definitions)
    BY <2>1, <2>2, MapIs
  <2> QED
    BY <2>2, <2>3 DEF Overlays
<1>2. release \in DOMAIN Bundled
  <2>1. Len(Bundled) \in Nat /\ Len(Bundled) > 0 /\ DOMAIN Bundled = 1 .. Len(Bundled)
    BY SettingsAssumption
  <2> QED
    BY <2>1 DEF ChoiceInit
<1>3. session = Down /\ ~session.up
  BY DEF ChoiceInit, Down
<1>4. Recorded(records, journals, session)
  BY <1>3 DEF ChoiceInit, Recorded, Pairs
<1>5. ChoiceType
  BY <1>1, <1>2, <1>3, <1>4 DEF ChoiceInit, ChoiceType
<1>6. Carried
  <2>1. DOMAIN LegacySettings.providers \subseteq Names
    BY ChoiceAssumption
  <2> QED
    BY <1>3, <2>1 DEF ChoiceInit, Carried, Defining
<1> QED
  BY <1>3, <1>5, <1>6 DEF ChoiceInv

\* What the invariant says of the properties.
LEMMA ChoiceShows == ChoiceInv => SentIsShown /\ OfferIsExact
<1> SUFFICES ASSUME ChoiceInv PROVE SentIsShown /\ OfferIsExact
  OBVIOUS
<1>1. SentIsShown
  <2> SUFFICES ASSUME session.up
               PROVE  /\ ~unread /\ session.conf # NoConfig /\ session.name \in creds
                           => session.built = <<session.name, session.model, session.level>>
                      /\ session.asked = <<session.name, session.model>> /\ session.limits # NoChoice
                           => session.limits = <<session.name, session.model>>
    BY DEF SentIsShown
  <2>1. AsAsked(session)
    BY DEF ChoiceInv, Sensible
  <2>2. <<session.name, session.model>> # NoChoice
    BY PairIs
  <2> QED
    BY <2>1, <2>2 DEF ChoiceInv, BuiltAsShown, AsAsked
<1>2. session.up /\ Known(session) =>
        LET offered == Active(session).levels[session.model]
        IN  offered = {} \/ session.level \in offered
  BY DEF ChoiceInv, Sensible, Fits
<1>3. \A n \in Builtin : Eff[n].models \cap Bundled[release][n].removed = {}
  BY WithdrawnIs DEF ChoiceInv, ChoiceType, Eff
<1>4. ASSUME NEW n \in Defining PROVE file.is = "legacy" \/ n \in DOMAIN overlay
  BY DEF ChoiceInv, Carried, LegacyFile
<1> QED
  BY <1>1, <1>2, <1>3, <1>4 DEF OfferIsExact, Defining

LEMMA ChoiceHolds == Spec => []ChoiceInv
<1>1. Init => ChoiceInv
  BY ChoiceInitInv DEF Init
<1>2. ChoiceInv /\ [Next]_vars => ChoiceInv'
  BY ChoiceStepInv DEF Next, vars
<1> QED
  BY <1>1, <1>2, PTL DEF Spec

(* The request that a session sends names the provider, the model and the     *)
(* level that it shows, and the limits it knows are that model's, whatever    *)
(* was chosen, switched, resumed, edited or upgraded and however the answers  *)
(* to its questions about limits are delayed (provider_config.py, session.py, *)
(* tui/app.py).  It says nothing of a file that changed and was not read yet. *)
THEOREM ChoicesAreSent == Spec => []SentIsShown
<1>1. ChoiceInv => SentIsShown
  BY ChoiceShows
<1> QED
  BY <1>1, ChoiceHolds, PTL

(* The level in use is one the model offers, no release offers a model that   *)
(* it withdrew, and a provider that only the older settings file describes is *)
(* in the catalog before that file is replaced: for every release, overlay    *)
(* and older file that the loaders accept (catalog_loader.py,                 *)
(* provider_config.py).                                                       *)
THEOREM OffersAreExact == Spec => []OfferIsExact
<1>1. ChoiceInv => OfferIsExact
  BY ChoiceShows
<1> QED
  BY <1>1, ChoiceHolds, PTL
================================================================================
