---------------------------- MODULE RestartProofs ----------------------------
(***************************************************************************)
(* A theorem about Session: what a restart brings back, for every value of *)
(* the constants.                                                          *)
(*                                                                         *)
(* A restart goes on from the latest leaf, or from the last entry when no  *)
(* leaf was written.  LeafInv says, of any session, that a process writes  *)
(* behind that leaf, and that what a crash leaves, Left, leads from there  *)
(* to everything that had been written.                                    *)
(***************************************************************************)
EXTENDS SessionProofs
------------------------------------------------------------------------------
(* What a restart finds *)

\* A leaf was written.
HasLeaf(j) == \E e \in DOMAIN j : j[e].kind = "leaf"

\* Nothing with the id of a reply comes before it: its results are behind it.
Sequenced(t) ==
  \A q \in Is(t, "assistant") : /\ t[q].id # 0
                                /\ \A p \in 1 .. q - 1 : t[p].id # t[q].id

\* No message has a number that was not given yet.
Dated(t, n) == \A p \in DOMAIN t : t[p].id <= n

\* No reply lacks a result.
NoneOwed(t) == \A p \in DOMAIN t : Owed(t, p) = <<>>

\* The path to leaf goes through base, and then through one entry for each further row.
Through(j, base, leaf) ==
  LET rows == Rows(j, leaf)
      n == Len(Rows(j, base))
  IN  /\ StartsWith(rows, Rows(j, base))
      /\ \A p \in n + 1 .. Len(rows) : LET at == Rows(j, rows[p].id)
                                      IN  Len(at) = p /\ StartsWith(rows, at)

Sound(t, n) == Sequenced(t) /\ Dated(t, n)

\* The session writes behind the leaf a restart would find.
Pointed == pc # "down" /\ HasLeaf(journal) => LatestLeaf(journal) = head

\* What is to be replaced is the beginning of the rows.
Planned(plans, rows) ==
  \A k \in DOMAIN plans : \E n \in 1 .. Len(rows) : plans[k].replaces = Prefix(rows, n)

\* Before the first leaf, the transcript goes on from what is stored, in order.
Fresh ==
  /\ head = Len(journal) /\ ~ detached
  /\ NoneOwed(Context(journal, head))
  /\ StartsWith(memory, Context(journal, head))
  /\ Sound(memory, made)
  /\ pc # "idle" => persisted >= Len(Context(journal, head))
  /\ pc = "answered" => reply.id # 0 /\ \A p \in DOMAIN memory : memory[p].id < reply.id
  /\ Planned(settling, Rows(journal, head))
Young == pc # "down" /\ ~ HasLeaf(journal) => Fresh

\* SummedUp, of a journal.
SummedIn(j, t) ==
  LET replaced == UNION {j[t[p].n].replaces : p \in Is(t, "summary")}
  IN  {j[e].msg : e \in {e \in replaced : j[e].kind = "message"}}

\* A crash leaves a leaf with at least what had been written up to base; or, without a leaf,
\* messages on a path from there, or the entry of a compaction.
Left(j, base, n) ==
  LET t == Context(j, Len(j)) IN
  IF HasLeaf(j) THEN Said(Context(j, base)) \subseteq Said(Context(j, LatestLeaf(j)))
  ELSE /\ Sound(t, n)
       /\ \/ NoneOwed(Context(j, base)) /\ Through(j, base, Len(j))
          \/ NoneOwed(t) /\ Said(Context(j, base)) \subseteq Said(t) \cup SummedIn(j, t)
Fallen == pc = "down" => ~ detached /\ settling = <<>> /\ Left(journal, head, made)

\* And no reply is from the future.
LeafInv == reply.id <= made /\ Pointed /\ Young /\ Fallen
------------------------------------------------------------------------------
(* Rows and the paths of their entries *)

\* A compaction takes rows out, and has one in the place of the first or at the end: pick says
\* where a row of the result was, and place where the summary is.
Condensed(C, rows, row, pick, place) ==
  /\ pick \in [1 .. Len(C) -> 1 .. Len(rows) + 1]
  /\ \A i, k \in 1 .. Len(C) : i < k => pick[i] < pick[k]
  /\ \A i \in 1 .. Len(C) : \/ pick[i] = place /\ C[i] = row
                            \/ pick[i] # place /\ pick[i] \in 1 .. Len(rows) /\ C[i] = rows[pick[i]]

LEMMA CompactedRows ==
  ASSUME NEW rows \in Seq(MessageRow), NEW id \in Nat, NEW ids,
         NEW row, row = [id |-> id, msg |-> Summary(id)]
  PROVE  \E pick, place : Condensed(Compacted(rows, id, ids), rows, row, pick, place)
<1> DEFINE n == Len(rows)
           gone == {p \in DOMAIN rows : rows[p].id \in ids}
           at(p) == IF p \notin gone THEN <<rows[p]>>
                    ELSE IF \A q \in gone : p <= q THEN <<row>> ELSE <<>>
           ss == [p \in DOMAIN rows |-> at(p)]
<1>1. row \in MessageRow /\ n \in Nat /\ DOMAIN rows = 1 .. n
  BY DEF MessageRow, Message, Summary, Msg
<1>2. Compacted(rows, id, ids) = IF gone = {} THEN Append(rows, row) ELSE FlattenSeq(ss)
  BY DEF Compacted
<1>3. CASE gone = {}
  <2> DEFINE s == Append(rows, row)
             pick == [i \in 1 .. n + 1 |-> i]
  <2>1. Len(s) = n + 1 /\ s[n + 1] = row /\ \A i \in 1 .. n : s[i] = rows[i] BY <1>1
  <2>2. pick \in [1 .. n + 1 -> 1 .. n + 1] /\ \A i \in 1 .. n + 1 : pick[i] = i OBVIOUS
  <2> HIDE DEF s, n, pick
  <2>3. \A i \in 1 .. n + 1 : i = n + 1 \/ (i # n + 1 /\ i \in 1 .. n) BY <1>1
  <2>4. \A i, k \in 1 .. n + 1 : i < k => pick[i] < pick[k] BY <2>2
  <2>5. Condensed(s, rows, row, pick, n + 1) BY <2>1, <2>2, <2>3, <2>4 DEF Condensed, n
  <2> QED BY <1>2, <1>3, <2>5 DEF s
<1>4. CASE gone # {}
  <2> DEFINE first == Least(gone)
             other == [p \in DOMAIN rows |-> IF p = first THEN row ELSE rows[p]]
             K == {p \in DOMAIN rows : p \notin gone \/ p = first}
  <2>1. gone \in SUBSET Nat /\ gone \subseteq 1 .. n BY <1>1
  <2>2. first \in gone /\ \A q \in gone : first <= q
    <3> HIDE DEF gone
    <3> QED BY <1>4, <2>1, LeastIs
  <2> HIDE DEF gone, first
  <2>3. other \in Seq(MessageRow) /\ Len(other) = n /\ DOMAIN other = 1 .. n
        /\ \A p \in 1 .. n : other[p] = IF p = first THEN row ELSE rows[p]
    <3>1. \A p \in 1 .. n : rows[p] \in MessageRow BY <1>1
    <3>2. other \in [1 .. n -> MessageRow]
          /\ \A p \in 1 .. n : other[p] = IF p = first THEN row ELSE rows[p]
      BY <1>1, <3>1
    <3> HIDE DEF other, n
    <3> QED BY <1>1, <3>2, SeqDef
  <2>4. ss = Selecting(other, K)
    <3>1. ASSUME NEW p \in 1 .. n PROVE at(p) = IF p \in K THEN <<other[p]>> ELSE <<>>
      <4>1. CASE p \notin gone BY <1>1, <2>2, <2>3, <4>1
      <4>2. CASE p = first BY <1>1, <2>2, <2>3, <4>2
      <4>3. CASE p \in gone /\ p # first
        <5>1. ~ (\A q \in gone : p <= q) BY <2>1, <2>2, <4>3
        <5> QED BY <4>3, <5>1
      <4> QED BY <4>1, <4>2, <4>3
    <3> HIDE DEF at, other, K
    <3> QED BY <1>1, <2>3, <3>1 DEF Selecting
  <2>5. K \in SUBSET DOMAIN other BY <1>1, <2>3
  <2> DEFINE F == FlattenSeq(Selecting(other, K))
  <2> HIDE DEF ss, other, K
  <2>6. PICK pick : Picks(pick, other, K) BY <2>3, <2>5, SelectedAre
  <2>7. /\ pick \in [1 .. Len(F) -> K] /\ \A i \in 1 .. Len(F) : F[i] = other[pick[i]]
        /\ \A i, k \in 1 .. Len(F) : i < k => pick[i] < pick[k]
    BY <2>6 DEF Picks
  <2> HIDE DEF F, n
  <2>8. \A i \in 1 .. Len(F) : pick[i] \in 1 .. n BY <2>3, <2>5, <2>7
  <2>9. pick \in [1 .. Len(F) -> 1 .. n + 1]
    <3>1. 1 .. n \subseteq 1 .. n + 1 BY <1>1
    <3> QED BY <2>7, <2>8, <3>1
  <2>10. Condensed(F, rows, row, pick, first) BY <2>7, <2>3, <2>8, <2>9 DEF Condensed, n
  <2> QED BY <1>2, <1>4, <2>4, <2>10 DEF F
<1> QED BY <1>3, <1>4

\* Messages have the order of their entries, and a summary is behind all messages it follows.
InTurn(rows) ==
  \A p, q \in 1 .. Len(rows) :
    p < q /\ rows[p].msg.role # "summary" => rows[p].id < rows[q].id

\* A row that is older than another one was there when that one came in.
OnTheWay(j, e) ==
  \A r, s \in ToSet(Rows(j, e)) : r.id <= s.id => r \in ToSet(Rows(j, s.id))

LEMMA CompactedInTurn ==
  ASSUME NEW rows \in Seq(MessageRow), InTurn(rows), NEW id \in Nat, NEW ids,
         \A i \in 1 .. Len(rows) : rows[i].id < id,
         NEW row, row = [id |-> id, msg |-> Summary(id)]
  PROVE  /\ InTurn(Compacted(rows, id, ids))
         /\ ToSet(Compacted(rows, id, ids)) \subseteq ToSet(rows) \cup {row}
<1> DEFINE C == Compacted(rows, id, ids)
<1>1. PICK pick, place : Condensed(C, rows, row, pick, place) BY CompactedRows
<1>2. C \in Seq(MessageRow) BY CompactedType
<1>3. row.id = id /\ row.msg.role = "summary" BY DEF Summary, Msg
<1> HIDE DEF C
<1>4. ASSUME NEW p \in 1 .. Len(C), NEW q \in 1 .. Len(C), p < q, C[p].msg.role # "summary"
      PROVE  C[p].id < C[q].id
  <2>1. C[p] = rows[pick[p]] /\ pick[p] \in 1 .. Len(rows) /\ pick[p] < pick[q]
    BY <1>1, <1>3, <1>4 DEF Condensed
  <2>2. CASE C[q] = row BY <1>3, <2>1, <2>2
  <2>3. CASE pick[q] \in 1 .. Len(rows) /\ C[q] = rows[pick[q]] BY <1>4, <2>1, <2>3 DEF InTurn
  <2> QED BY <1>1, <2>2, <2>3 DEF Condensed
<1>5. InTurn(C) BY <1>4 DEF InTurn
<1>6. ToSet(C) \subseteq ToSet(rows) \cup {row}
  <2>1. DOMAIN C = 1 .. Len(C) /\ DOMAIN rows = 1 .. Len(rows) BY <1>2
  <2> QED BY <1>1, <2>1 DEF Condensed, ToSet
<1> QED BY <1>5, <1>6 DEF C

\* The rows of an entry, and those of its parent.
LEMMA RowsGrow ==
  ASSUME NEW j, Stored(j), NEW e \in 1 .. Len(j), InTurn(Rows(j, j[e].parent))
  PROVE  /\ InTurn(Rows(j, e))
         /\ \A r \in ToSet(Rows(j, e)) : r.id = e \/ r \in ToSet(Rows(j, j[e].parent))
<1> DEFINE p == j[e].parent
           before == Rows(j, p)
<1>1. p \in 0 .. Len(j) /\ p \in Nat /\ p < e /\ j[e] \in Entry /\ e \in Nat BY StoredBefore
<1>2. before \in Seq(MessageRow) /\ DOMAIN before = 1 .. Len(before) /\ Len(before) \in Nat
  <2>1. before \in Seq(MessageRow) BY <1>1, RowsType
  <2> QED BY <2>1
<1>3. \A i \in 1 .. Len(before) : before[i].id < e /\ before[i].id \in Nat
  <2>1. \A i \in 1 .. Len(before) : before[i].id \in 1 .. p BY <1>1, <1>2, RowsComeFromPath
  <2> HIDE DEF before, p
  <2> QED BY <1>1, <2>1
<1>4. Rows(j, e) = RowsWith(j, e, before) BY RowsStep
<1>5. InTurn(before) OBVIOUS
<1> SUFFICES InTurn(Rows(j, e)) /\ \A r \in ToSet(Rows(j, e)) : r.id = e \/ r \in ToSet(before)
  OBVIOUS
<1> HIDE DEF p, before
<1>6. CASE j[e].kind = "message"
  <2> DEFINE row == [id |-> e, msg |-> j[e].msg]
             s == Append(before, row)
             n == Len(before)
  <2>1. Rows(j, e) = s BY <1>4, <1>6 DEF RowsWith
  <2>2. row.id = e OBVIOUS
  <2> HIDE DEF row
  <2>3. Len(s) = n + 1 /\ DOMAIN s = 1 .. n + 1 /\ s[n + 1] = row /\ \A i \in 1 .. n : s[i] = before[i]
    BY <1>2
  <2> HIDE DEF s, n
  <2>4. \A i \in 1 .. n + 1 : i = n + 1 \/ i \in 1 .. n BY <1>2 DEF n
  <2>5. ASSUME NEW a \in 1 .. n + 1, NEW b \in 1 .. n + 1, a < b, s[a].msg.role # "summary"
        PROVE  s[a].id < s[b].id
    <3>1. a \in 1 .. n BY <1>2, <2>5 DEF n
    <3>2. s[a] = before[a] /\ before[a].id < e BY <1>3, <2>3, <3>1 DEF n
    <3>3. CASE b = n + 1 BY <2>2, <2>3, <3>2, <3>3
    <3>4. CASE b \in 1 .. n
      <4>1. s[b] = before[b] BY <2>3, <3>4
      <4> QED BY <1>5, <2>5, <3>1, <3>2, <3>4, <4>1 DEF InTurn, n
    <3> QED BY <2>4, <3>3, <3>4
  <2>6. InTurn(s) BY <2>3, <2>5 DEF InTurn
  <2> QED BY <2>1, <2>6, <1>2, <2>2, <2>3, <2>4 DEF ToSet, n
<1>7. CASE j[e].kind = "compaction"
  <2> DEFINE row == [id |-> e, msg |-> Summary(e)]
  <2>1. Rows(j, e) = Compacted(before, e, j[e].replaces) BY <1>4, <1>7 DEF RowsWith
  <2>2. row.id = e /\ row = [id |-> e, msg |-> Summary(e)] OBVIOUS
  <2> DEFINE ids == j[e].replaces
  <2> HIDE DEF row, ids
  <2>3. before \in Seq(MessageRow) /\ \A i \in 1 .. Len(before) : before[i].id < e BY <1>2, <1>3
  <2> QED BY <2>1, <2>2, <1>1, <1>5, <2>3, CompactedInTurn DEF ids
<1>8. CASE j[e].kind \notin {"message", "compaction"}
  <2>1. Rows(j, e) = before BY <1>4, <1>8 DEF RowsWith
  <2> QED BY <1>5, <2>1
<1> QED BY <1>6, <1>7, <1>8

\* So it is on every path.
LEMMA RowsAreInTurn ==
  ASSUME NEW j, Stored(j)
  PROVE  \A e \in 0 .. Len(j) : InTurn(Rows(j, e)) /\ OnTheWay(j, e)
<1> DEFINE odd == {e \in 0 .. Len(j) : ~ (InTurn(Rows(j, e)) /\ OnTheWay(j, e))}
<1> SUFFICES ASSUME odd # {} PROVE FALSE OBVIOUS
<1>1. Len(j) \in Nat /\ odd \in SUBSET Nat BY DEF Stored
<1>2. PICK e \in odd : \A d \in odd : e <= d
  <2> HIDE DEF odd
  <2> QED BY <1>1, LeastNumber
<1>3. CASE e = 0
  <2>1. Rows(j, e) = <<>> BY <1>3, RowsOfNone
  <2>2. InTurn(<<>>) /\ ToSet(<<>>) = {} BY DEF InTurn, ToSet
  <2> QED BY <1>2, <2>1, <2>2 DEF OnTheWay
<1>4. CASE e # 0
  <2> DEFINE p == j[e].parent
  <2>1. e \in 1 .. Len(j) /\ e \in Nat BY <1>1, <1>2, <1>4
  <2>2. p \in 0 .. Len(j) /\ p \in Nat /\ p < e /\ j[e] \in Entry BY <2>1, StoredBefore
  <2>3. InTurn(Rows(j, p)) /\ OnTheWay(j, p)
    <3>1. ~ (e <= p) BY <2>1, <2>2
    <3> QED BY <1>2, <2>2, <3>1
  <2>4. InTurn(Rows(j, e)) /\ \A r \in ToSet(Rows(j, e)) : r.id = e \/ r \in ToSet(Rows(j, p))
    BY <2>1, <2>3, RowsGrow
  <2>5. \A r \in ToSet(Rows(j, p)) : r.id \in 1 .. p
    <3>1. Rows(j, p) \in Seq(MessageRow) BY <2>2, RowsType
    <3> QED BY <3>1, <2>2, RowsComeFromPath DEF ToSet
  <2> HIDE DEF p
  <2>6. ASSUME NEW r \in ToSet(Rows(j, e)), NEW s \in ToSet(Rows(j, e)), r.id <= s.id
        PROVE  r \in ToSet(Rows(j, s.id))
    <3>1. CASE s.id = e BY <3>1
    <3>2. CASE s.id # e
      <4>1. s \in ToSet(Rows(j, p)) /\ s.id \in 1 .. p BY <2>4, <2>5, <3>2
      <4>2. r.id # e BY <2>1, <2>2, <2>6, <4>1
      <4> QED BY <2>3, <2>4, <2>6, <4>1, <4>2 DEF OnTheWay
    <3> QED BY <3>1, <3>2
  <2>7. OnTheWay(j, e) BY <2>6 DEF OnTheWay
  <2> QED BY <1>2, <2>4, <2>7
<1> QED BY <1>3, <1>4
------------------------------------------------------------------------------
(* Repairs *)

\* Owed has results of the message at p, none that is there; and when it is empty, all are there.
LEMMA OwedIn ==
  ASSUME NEW t \in Seq(Message), NEW p \in DOMAIN t
  PROVE  /\ Owed(t, p) \in Seq({m \in Answers(t[p]) : m \notin ToSet(t)})
         /\ t[p].role = "assistant" /\ (\A q \in 1 .. p - 1 : t[q] # t[p]) /\ Owed(t, p) = <<>>
            => Answers(t[p]) \subseteq ToSet(t)
<1> DEFINE n == t[p].n
           rs == ResultsFor(t[p])
           K == {j \in DOMAIN rs : rs[j] \notin ToSet(t)}
           S == {m \in Answers(t[p]) : m \notin ToSet(t)}
           ss == [j \in DOMAIN rs |-> IF rs[j] \in ToSet(t) THEN <<>> ELSE <<rs[j]>>]
           f == FlattenSeq(ss)
<1>1. t[p] \in Message /\ n \in Nat BY MessageIs
<1>2. DOMAIN rs = 1 .. n /\ \A j \in 1 .. n : rs[j] = Msg("result", t[p].id, j) BY DEF ResultsFor
<1>3. Answers(t[p]) = {rs[j] : j \in 1 .. n} BY <1>2 DEF Answers
<1>4. IF t[p].role = "assistant" /\ \A q \in 1 .. p - 1 : t[q] # t[p]
      THEN Owed(t, p) = f ELSE Owed(t, p) = <<>>
  BY DEF Owed
<1> HIDE DEF rs, n
<1>5. f \in Seq(S)
  <2>1. \A j \in 1 .. n : rs[j] \in ToSet(t) \/ rs[j] \in S BY <1>3
  <2> HIDE DEF S
  <2>2. ss \in [1 .. n -> Seq(S)]
    <3>1. ASSUME NEW j \in 1 .. n
          PROVE (IF rs[j] \in ToSet(t) THEN <<>> ELSE <<rs[j]>>) \in Seq(S)
      BY <2>1
    <3> QED BY <1>2, <3>1
  <2>3. ss \in Seq(Seq(S))
    <3> HIDE DEF ss
    <3> QED BY <1>1, <2>2, SeqDef
  <2> HIDE DEF ss
  <2> QED BY <2>3, FlattenPlaces
<1>6. ASSUME f = <<>> PROVE Answers(t[p]) \subseteq ToSet(t)
  <2> DEFINE T == Answers(t[p])
  <2>1. rs \in Seq(T)
    <3>1. rs \in [1 .. n -> T]
      <4>1. \A j \in 1 .. n : rs[j] \in T BY <1>3
      <4>2. rs = [j \in 1 .. n |-> rs[j]] BY <1>2 DEF ResultsFor, rs, n
      <4> HIDE DEF T
      <4> QED BY <4>1, <4>2
    <3> HIDE DEF T
    <3> QED BY <1>1, <3>1, SeqDef
  <2>2. K \in SUBSET DOMAIN rs OBVIOUS
  <2>3. PICK at : Picks(at, rs, K)
    <3> HIDE DEF K, T
    <3> QED BY <2>1, <2>2, SelectedAre
  <2>4. ss = Selecting(rs, K) BY DEF Selecting
  <2>5. Len(f) = 0 BY <1>6
  <2> HIDE DEF ss
  <2>6. \A k \in K : \E i \in 1 .. 0 : at[i] = k BY <2>3, <2>4, <2>5 DEF Picks
  <2>7. K = {} BY <2>6
  <2> QED BY <1>2, <1>3, <2>7
<1>7. <<>> \in Seq(S) OBVIOUS
<1> HIDE DEF f, S
<1> QED BY <1>4, <1>5, <1>6, <1>7 DEF S

\* A message none of whose results is missing is owed nothing.
LEMMA OwedNothing ==
  ASSUME NEW t \in Seq(Message), NEW p \in DOMAIN t, Answers(t[p]) \subseteq ToSet(t)
  PROVE  Owed(t, p) = <<>>
<1> DEFINE S == {m \in Answers(t[p]) : m \notin ToSet(t)}
<1>1. Owed(t, p) \in Seq(S) /\ S = {} BY OwedIn
<1> HIDE DEF S
<1> QED BY <1>1

\* What is owed does not grow with messages at the end.
LEMMA OwedStays ==
  ASSUME NEW t \in Seq(Message), NEW u \in Seq(Message), Len(u) <= Len(t),
         \A i \in 1 .. Len(u) : t[i] = u[i], NEW p \in 1 .. Len(u), Owed(u, p) = <<>>
  PROVE  Owed(t, p) = <<>>
<1>1. p \in DOMAIN t /\ p \in DOMAIN u /\ t[p] = u[p] /\ p \in Nat /\ Len(u) \in Nat OBVIOUS
<1>2. CASE t[p].role # "assistant" BY <1>2, OwedToNone
<1>3. CASE \E q \in 1 .. p - 1 : t[q] = t[p] BY <1>3 DEF Owed
<1>4. CASE t[p].role = "assistant" /\ \A q \in 1 .. p - 1 : t[q] # t[p]
  <2>1. \A q \in 1 .. p - 1 : u[q] # u[p]
    <3>1. \A q \in 1 .. p - 1 : q \in 1 .. Len(u) BY <1>1
    <3> QED BY <1>1, <1>4, <3>1
  <2>2. Answers(u[p]) \subseteq ToSet(u) BY <1>1, <1>4, <2>1, OwedIn
  <2>3. ToSet(u) \subseteq ToSet(t)
    <3>1. DOMAIN u = 1 .. Len(u) /\ DOMAIN t = 1 .. Len(t) /\ Len(t) \in Nat OBVIOUS
    <3>2. 1 .. Len(u) \subseteq 1 .. Len(t) BY <1>1, <3>1
    <3> QED BY <3>1, <3>2 DEF ToSet
  <2> QED BY <1>1, <2>2, <2>3, OwedNothing
<1> QED BY <1>2, <1>3, <1>4

\* The repair in place, row by row: org says which message an element comes from, or follows as
\* its result, and place where a message went.
InPlace(t, fixed, org, place) ==
  /\ org \in [1 .. Len(fixed) -> 1 .. Len(t)] /\ place \in [1 .. Len(t) -> 1 .. Len(fixed)]
  /\ \A q \in 1 .. Len(t) : q <= place[q] /\ fixed[place[q]] = t[q]
  /\ \A i \in 1 .. Len(fixed) :
       \/ fixed[i] = t[org[i]] /\ \A k \in 1 .. i - 1 : org[k] < org[i]
       \/ fixed[i].role = "result" /\ fixed[i].id = t[org[i]].id
  /\ \A n \in 0 .. Len(t) : (\A p \in 1 .. n : Owed(t, p) = <<>>) =>
       \A i \in 1 .. n + 1 : i <= Len(t) => i <= Len(fixed) /\ fixed[i] = t[i]
  /\ Len(t) <= Len(fixed)
  /\ Len(t) = Len(fixed) => NoneOwed(t)

LEMMA RepairedInPlaceIs ==
  ASSUME NEW t \in Seq(Message)
  PROVE  \E org, place : InPlace(t, RepairedInPlace(t), org, place)
<1> DEFINE ss == [p \in DOMAIN t |-> <<t[p]>> \o Owed(t, p)]
           len == Len(t)
           fixed == FlattenSeq(ss)
<1>1. /\ ss \in Seq(Seq(Message)) /\ Len(ss) = len /\ len \in Nat /\ DOMAIN t = 1 .. len
      /\ \A q \in 1 .. len : ss[q] = <<t[q]>> \o Owed(t, q)
  BY InPlaceRows, SMTT(30)
<1>2. RepairedInPlace(t) = fixed BY DEF RepairedInPlace
<1> HIDE DEF ss
<1>3. ASSUME NEW q \in 1 .. len
      PROVE  /\ Owed(t, q) \in Seq(Message)
             /\ Len(ss[q]) = 1 + Len(Owed(t, q)) /\ Len(Owed(t, q)) \in Nat
             /\ ss[q][1] = t[q]
             /\ \A j \in 2 .. Len(ss[q]) : ss[q][j].role = "result" /\ ss[q][j].id = t[q].id
  <2> DEFINE o == Owed(t, q)
             m == t[q]
  <2>1. o \in Seq({x \in Answers(m) : x \notin ToSet(t)}) /\ o \in Seq(Message) /\ m \in Message
    <3>1. q \in DOMAIN t BY <1>1
    <3>2. Owed(t, q) \in Seq(Message) /\ t[q] \in Message BY <3>1, OwedType
    <3> QED BY <3>1, OwedIn, <3>2
  <2>2. ss[q] = <<m>> \o o BY <1>1
  <2> HIDE DEF o, m
  <2>3. \A i \in 1 .. Len(o) : o[i].role = "result" /\ o[i].id = m.id
    <3>1. \A i \in 1 .. Len(o) : o[i] \in Answers(m) BY <2>1
    <3> QED BY <3>1 DEF Answers, Msg
  <2> QED BY <2>1, <2>2, <2>3 DEF o, m
<1>4. /\ \A q \in 1 .. len : Len(ss[q]) >= 1 /\ ss[q][1] = t[q]
      /\ \A q \in 1 .. len : Owed(t, q) = <<>> => Len(ss[q]) <= 1
      /\ \A q \in 1 .. len : Len(ss[q]) <= 1 => Owed(t, q) = <<>>
  <2> SUFFICES ASSUME NEW q \in 1 .. len
               PROVE  /\ Len(ss[q]) >= 1 /\ ss[q][1] = t[q]
                      /\ Owed(t, q) = <<>> <=> Len(ss[q]) <= 1
    OBVIOUS
  <2> DEFINE o == Owed(t, q)
             r == ss[q]
  <2>1. o \in Seq(Message) /\ Len(r) = 1 + Len(o) /\ Len(o) \in Nat /\ r[1] = t[q] BY <1>3
  <2> HIDE DEF o, r
  <2>2. o = <<>> <=> Len(o) = 0 BY <2>1
  <2>3. Len(r) >= 1 /\ (o = <<>> <=> Len(r) <= 1) BY <2>1, <2>2
  <2> QED BY <2>1, <2>3 DEF o, r
<1>5. PICK org, place : Padded(ss, org, place)
  <2>1. ss \in Seq(Seq(Message)) /\ \A q \in 1 .. Len(ss) : Len(ss[q]) >= 1 BY <1>1, <1>4
  <2> QED BY ONLY <2>1, PaddedIs
<1>6. /\ org \in [1 .. Len(fixed) -> 1 .. len] /\ place \in [1 .. len -> 1 .. Len(fixed)]
      /\ \A q \in 1 .. len : q <= place[q] /\ fixed[place[q]] = ss[q][1]
      /\ \A i \in 1 .. Len(fixed) :
           \/ fixed[i] = ss[org[i]][1] /\ \A k \in 1 .. i - 1 : org[k] < org[i]
           \/ \E j \in 2 .. Len(ss[org[i]]) : fixed[i] = ss[org[i]][j]
      /\ \A n \in 0 .. len : (\A p \in 1 .. n : Len(ss[p]) <= 1) =>
           \A i \in 1 .. n + 1 : i <= len => i <= Len(fixed) /\ fixed[i] = ss[i][1]
      /\ len <= Len(fixed)
      /\ len = Len(fixed) => \A p \in 1 .. len : Len(ss[p]) <= 1
  BY <1>1, <1>5 DEF Padded
<1> HIDE DEF len, fixed
<1>7. ASSUME NEW i \in 1 .. Len(fixed)
      PROVE  \/ fixed[i] = t[org[i]] /\ \A k \in 1 .. i - 1 : org[k] < org[i]
             \/ fixed[i].role = "result" /\ fixed[i].id = t[org[i]].id
  <2>1. org[i] \in 1 .. len BY <1>6
  <2>2. CASE fixed[i] = ss[org[i]][1] /\ \A k \in 1 .. i - 1 : org[k] < org[i] BY <1>4, <2>1, <2>2
  <2>3. CASE \E j \in 2 .. Len(ss[org[i]]) : fixed[i] = ss[org[i]][j] BY <1>3, <2>1, <2>3, SMTT(30)
  <2> QED BY <1>6, <2>2, <2>3
<1>8. \A n \in 0 .. len : (\A p \in 1 .. n : Owed(t, p) = <<>>) =>
        \A i \in 1 .. n + 1 : i <= len => i <= Len(fixed) /\ fixed[i] = t[i]
  <2>1. SUFFICES ASSUME NEW n \in 0 .. len, \A p \in 1 .. n : Owed(t, p) = <<>>
                 PROVE  \A i \in 1 .. n + 1 : i <= len => i <= Len(fixed) /\ fixed[i] = t[i]
    OBVIOUS
  <2>2. \A p \in 1 .. n : p \in 1 .. len BY <1>1
  <2>3. \A p \in 1 .. n : Len(ss[p]) <= 1 BY <1>4, <2>1, <2>2
  <2>4. \A i \in 1 .. n + 1 : i <= len => i \in 1 .. len BY <1>1
  <2> QED BY <1>4, <1>6, <2>3, <2>4
<1>9. len = Len(fixed) => NoneOwed(t)
  <2> SUFFICES ASSUME len = Len(fixed), NEW p \in 1 .. len PROVE Owed(t, p) = <<>>
    BY <1>1 DEF NoneOwed
  <2> QED BY <1>4, <1>6
<1>10. InPlace(t, fixed, org, place) BY <1>6, <1>4, <1>7, <1>8, <1>9 DEF InPlace, len
<1> QED BY <1>2, <1>10
\* What is written behind the row at same, when a repair is due: w, which is the rest of the
\* repaired context.  There is no message up to same that is owed a result, but for the one there.
Branches(rep, rows, same, w) ==
  LET t == Messages(rows)
      fixed == RepairedInPlace(t)
  IN  /\ same \in 1 .. Len(rows) /\ Mended(rep, Len(journal), rows[same].id, w)
      /\ w \in Seq(Message) /\ w # <<>> /\ Len(fixed) = same + Len(w)
      /\ \A i \in 1 .. Len(w) : w[i] = fixed[same + i]
      /\ \A p \in 1 .. same : fixed[p] = t[p]
      /\ \A n \in 0 .. Len(t) : (\A p \in 1 .. n : Owed(t, p) = <<>>) => n < same

LEMMA RepairIs ==
  ASSUME Stored(journal), NEW leaf \in 0 .. Len(journal),
         NEW rows, rows = Rows(journal, leaf), NEW rep, rep = Repair(rows)
  PROVE  \/ rep = <<>> /\ NoneOwed(Context(journal, leaf))
         \/ \E same, w : Branches(rep, rows, same, w)
<1> DEFINE base == Len(journal)
           t == Messages(rows)
           fixed == RepairedInPlace(t)
           open == {p \in 0 .. Len(t) : p = Len(t) \/ t[p + 1] # fixed[p + 1]}
           same == Least(open)
           id(k) == base + k
           m == Len(fixed) - same
           before(k) == IF k = 1 THEN rows[same].id ELSE id(k - 1)
           entries == [k \in 1 .. m |-> MessageEntry(before(k), fixed[same + k])]
           last == LeafEntry(id(Len(entries)))
           w == SubSeq(fixed, same + 1, Len(fixed))
<1>1. base \in Nat /\ rows \in Seq(MessageRow) /\ t \in Seq(Message) /\ t = Context(journal, leaf)
  <2>1. t = Context(journal, leaf) BY DEF Context
  <2> QED BY <2>1, RowsType, ContextType DEF Stored
<1>2. fixed \in Seq(Message) /\ Len(fixed) \in Nat
  <2> HIDE DEF t
  <2> QED BY <1>1, RepairedInPlaceType
<1>3. /\ DOMAIN rows = 1 .. Len(t) /\ Len(t) \in Nat /\ Len(rows) = Len(t)
      /\ DOMAIN t = 1 .. Len(t)
  BY <1>1 DEF Messages
<1>4. PICK org, place : InPlace(t, fixed, org, place)
  <2> HIDE DEF t
  <2> QED BY <1>1, RepairedInPlaceIs
<1>5. Repair(rows) = IF fixed = t THEN <<>> ELSE Append(entries, last) BY DEF Repair
<1>6. Branches(rep, rows, same, w) <=>
        /\ same \in 1 .. Len(rows) /\ Mended(rep, base, rows[same].id, w)
        /\ w \in Seq(Message) /\ w # <<>> /\ Len(fixed) = same + Len(w)
        /\ \A i \in 1 .. Len(w) : w[i] = fixed[same + i]
        /\ \A p \in 1 .. same : fixed[p] = t[p]
        /\ \A n \in 0 .. Len(t) : (\A p \in 1 .. n : Owed(t, p) = <<>>) => n < same
  BY DEF Branches
<1> HIDE DEF fixed, t, base
<1>7. CASE fixed = t
  <2>1. NoneOwed(t) BY <1>4, <1>7 DEF InPlace
  <2> QED BY <1>1, <1>5, <1>7, <2>1
<1>8. CASE fixed # t
  <2>1. same \in open /\ \A p \in open : same <= p
    <3>1. open \in SUBSET Nat /\ Len(t) \in open BY <1>3
    <3> HIDE DEF open
    <3> QED BY <3>1, LeastIs
  <2>2. ~ NoneOwed(t)
    <3>1. NoneOwed(t) => fixed = t BY <1>1, InPlaceNone DEF NoneOwed, fixed
    <3> QED BY <1>8, <3>1
  <2>3. Len(t) < Len(fixed) BY <1>2, <1>3, <1>4, <2>2 DEF InPlace
  <2> HIDE DEF same
  <2>4. same \in 0 .. Len(t) /\ same \in Nat
    <3>1. open \subseteq 0 .. Len(t) OBVIOUS
    <3> HIDE DEF open
    <3> QED BY <1>3, <2>1, <3>1
  <2>5. ASSUME NEW p \in 1 .. same PROVE fixed[p] = t[p]
    <3>1. p - 1 \in 0 .. Len(t) /\ ~ (same <= p - 1) /\ p - 1 # Len(t) /\ (p - 1) + 1 = p
      BY <1>3, <2>4
    <3> QED BY <2>1, <3>1
  <2>6. ASSUME NEW n \in 0 .. Len(t), \A p \in 1 .. n : Owed(t, p) = <<>> PROVE n < same
    <3>1. n # Len(t) BY <1>3, <2>2, <2>6 DEF NoneOwed
    <3> SUFFICES ASSUME same <= n PROVE FALSE BY <1>3, <2>4
    <3>2. same + 1 \in 1 .. n + 1 /\ same + 1 <= Len(t) /\ same # Len(t)
      <4> DEFINE len == Len(t)
      <4>1. n \in Nat /\ n <= len /\ len \in Nat /\ same \in Nat /\ same <= n /\ n # len
        <5>1. len \in Nat /\ same \in Nat /\ n # len BY <1>3, <2>4, <3>1
        <5>2. n \in 0 .. len /\ same <= n OBVIOUS
        <5> HIDE DEF len
        <5> QED BY <5>1, <5>2, SMTT(60)
      <4> HIDE DEF len
      <4>2. same + 1 \in 1 .. n + 1 /\ same + 1 <= len /\ same # len BY ONLY <4>1
      <4> QED BY <4>2 DEF len
    <3>3. fixed[same + 1] = t[same + 1] BY <1>4, <2>6, <3>2 DEF InPlace
    <3> QED BY <2>1, <3>2, <3>3, SMTT(30)
  <2>7. same \in 1 .. Len(rows)
    <3>1. 0 < same
      <4> QED BY <2>6, <1>3
    <3> QED BY <1>3, <2>4, <3>1
  <2>8. /\ w \in Seq(Message) /\ Len(w) = m /\ m \in Nat /\ m # 0
        /\ \A i \in 1 .. Len(w) : w[i] = fixed[same + i]
    <3>1. m \in Nat /\ m # 0 /\ same + 1 \in 1 .. Len(fixed) + 1 BY <1>2, <1>3, <2>3, <2>4
    <3> QED BY <1>2, <2>4, <3>1, SMTT(30)
  <2>9. w # <<>> /\ Len(fixed) = same + Len(w)
    <3> HIDE DEF w
    <3> QED BY <1>2, <2>4, <2>8
  <2>10. Repair(rows) = Append(entries, last) BY <1>5, <1>8
  <2> HIDE DEF w
  <2>11. Mended(rep, base, rows[same].id, w)
    <3>1. ASSUME NEW k \in 1 .. m
          PROVE  /\ entries[k] = MessageEntry(IF k = 1 THEN rows[same].id ELSE base + k - 1, w[k])
                 /\ entries[k] \in Entry
      <4>1. w[k] = fixed[same + k] /\ w[k] \in Message BY <2>8
      <4>2. before(k) = (IF k = 1 THEN rows[same].id ELSE base + k - 1) /\ before(k) \in Nat
        <5>1. rows[same] \in MessageRow BY <1>1, <2>7
        <5>2. rows[same].id \in Nat BY <5>1 DEF MessageRow
        <5> QED BY <1>1, <5>2
      <4>3. entries[k] = MessageEntry(before(k), fixed[same + k]) OBVIOUS
      <4> HIDE DEF before, entries
      <4>4. MessageEntry(before(k), w[k]) \in Entry BY <4>1, <4>2, EntriesAreEntries
      <4> QED BY <4>1, <4>2, <4>3, <4>4
    <3>2. entries \in [1 .. m -> Entry]
      <4>1. entries = [k \in 1 .. m |-> entries[k]] OBVIOUS
      <4> HIDE DEF entries, m
      <4> QED BY <3>1, <4>1
    <3> HIDE DEF entries, m
    <3>3. entries \in Seq(Entry) /\ Len(entries) = m BY <2>8, <3>2, SeqDef
    <3>4. last = LeafEntry(base + m) /\ base + m \in Nat BY <1>1, <2>8, <3>3
    <3>5. LeafEntry(base + m) \in Entry BY <3>4, EntriesAreEntries
    <3> HIDE DEF last
    <3> QED BY <2>8, <2>10, <3>1, <3>4, <3>3, <3>5 DEF Mended
  <2>12. Branches(rep, rows, same, w) BY <1>6, <2>5, <2>6, <2>7, <2>8, <2>9, <2>11
  <2> QED BY <2>12
<1> QED BY <1>7, <1>8

\* The rows of entries one behind the other.
LEMMA LineRows ==
  ASSUME NEW l, Stored(l), NEW ms \in Seq(Message), NEW at, Line(l, at, ms),
         NEW base \in Seq(MessageRow), base = Rows(l, at[0])
  PROVE  \A k \in 0 .. Len(ms) :
           LET rows == Rows(l, at[k])
           IN  /\ at[k] \in 0 .. Len(l) /\ Len(rows) = Len(base) + k /\ StartsWith(rows, base)
               /\ \A i \in 1 .. k : rows[Len(base) + i] = [id |-> at[i], msg |-> ms[i]]
<1> DEFINE n == Len(ms)
           b == Len(base)
           Good(k, rows) == /\ at[k] \in 0 .. Len(l) /\ Len(rows) = b + k /\ StartsWith(rows, base)
                            /\ \A i \in 1 .. k : rows[b + i] = [id |-> at[i], msg |-> ms[i]]
           U == {k \in Nat : k <= n => Good(k, Rows(l, at[k]))}
<1>1. n \in Nat /\ b \in Nat /\ at[0] \in 0 .. Len(l) /\ Len(l) \in Nat BY DEF Line, Stored
<1>2. 0 \in U BY <1>1 DEF StartsWith
<1>3. ASSUME NEW k \in Nat, k \in U PROVE k + 1 \in U
  <2> SUFFICES ASSUME k + 1 <= n PROVE Good(k + 1, Rows(l, at[k + 1]))
    <3> HIDE DEF Good
    <3> QED OBVIOUS
  <2> DEFINE e == at[k + 1]
             rows == Rows(l, at[k])
             row == [id |-> e, msg |-> ms[k + 1]]
  <2>1. k <= n /\ k + 1 \in 1 .. Len(ms) /\ (k + 1) - 1 = k BY <1>1
  <2>2. Good(k, rows) BY <1>3, <2>1
  <2>3. /\ e \in 1 .. Len(l) /\ l[e].kind = "message"
        /\ l[e].parent = at[(k + 1) - 1] /\ l[e].msg = ms[k + 1]
    BY <2>1 DEF Line
  <2>4. Rows(l, e) = Append(rows, row)
    <3> QED BY <2>1, <2>3, RowsStep DEF RowsWith
  <2>5. rows \in Seq(MessageRow) BY <2>2, RowsType
  <2> HIDE DEF rows, U, n, b
  <2> DEFINE new == Append(rows, row)
  <2> HIDE DEF new, row, e
  <2>6. /\ Len(new) = b + (k + 1) /\ new[b + (k + 1)] = row
        /\ \A i \in 1 .. b + k : new[i] = rows[i]
    BY <1>1, <2>2, <2>5 DEF new
  <2>7. StartsWith(new, base)
    <3>1. \A i \in 1 .. b : i \in 1 .. b + k BY <1>1
    <3> QED BY <1>1, <2>2, <2>6, <3>1, SMTT(30) DEF StartsWith, b
  <2>8. ASSUME NEW i \in 1 .. k + 1 PROVE new[b + i] = [id |-> at[i], msg |-> ms[i]]
    <3>1. CASE i = k + 1 BY <2>6, <3>1 DEF row, e
    <3>2. CASE i # k + 1
      <4>1. i \in 1 .. k /\ b + i \in 1 .. b + k BY <1>1, <3>2
      <4> QED BY <2>2, <2>6, <4>1
    <3> QED BY <3>1, <3>2
  <2>9. e \in 0 .. Len(l) BY <1>1, <2>3
  <2> QED BY <2>4, <2>6, <2>7, <2>8, <2>9 DEF new, e
<1>4. \A k \in Nat : k \in U
  <2> HIDE DEF U
  <2> QED BY <1>2, <1>3, Induction
<1>5. \A k \in 0 .. n : k \in Nat /\ k <= n /\ k \in U BY <1>1, <1>4
<1> QED BY <1>5
------------------------------------------------------------------------------
(* Leaves *)

\* The leaf that _latest_leaf_entry finds.
Latest(j, e) == /\ e \in 1 .. Len(j) /\ j[e].kind = "leaf"
                /\ \A f \in 1 .. Len(j) : e < f => j[f].kind # "leaf"

LEMMA LatestIs ==
  ASSUME NEW j, Stored(j), NEW e, Latest(j, e)
  PROVE  HasLeaf(j) /\ LatestLeaf(j) = j[e].target
<1> DEFINE leaves == {f \in DOMAIN j : j[f].kind = "leaf"}
           last == CHOOSE f \in leaves : \A g \in leaves : g <= f
<1>1. DOMAIN j = 1 .. Len(j) /\ Len(j) \in Nat BY DEF Stored
<1>2. leaves \in SUBSET Nat /\ e \in leaves BY <1>1 DEF Latest
<1>3. \A g \in leaves : g <= e BY <1>1 DEF Latest
<1>4. last \in leaves /\ \A g \in leaves : g <= last
  <2> HIDE DEF leaves
  <2>1. \E f \in leaves : \A g \in leaves : g <= f BY <1>2, <1>3
  <2> QED BY <2>1
<1>5. LatestLeaf(j) = j[last].target BY <1>2 DEF LatestLeaf
<1> HIDE DEF leaves, last
<1>6. last = e BY <1>2, <1>3, <1>4
<1> QED BY <1>1, <1>5, <1>6 DEF HasLeaf, Latest

LEMMA LatestExists ==
  ASSUME NEW j, Stored(j)
  PROVE  IF HasLeaf(j) THEN \E e : Latest(j, e) ELSE LatestLeaf(j) = Len(j)
<1>1. DOMAIN j = 1 .. Len(j) /\ Len(j) \in Nat BY DEF Stored
<1>2. CASE ~ HasLeaf(j) BY <1>2 DEF HasLeaf, LatestLeaf
<1>3. CASE HasLeaf(j)
  <2> DEFINE leaves == {f \in DOMAIN j : j[f].kind = "leaf"}
  <2>1. leaves \in SUBSET Nat /\ leaves # {} /\ \A f \in leaves : f <= Len(j)
    BY <1>1, <1>3 DEF HasLeaf
  <2>2. PICK e \in leaves : \A f \in leaves : f <= e
    <3> HIDE DEF leaves
    <3> QED BY <1>1, <2>1, GreatestNumber
  <2>3. \A f \in 1 .. Len(j) : e < f => j[f].kind # "leaf"
    <3> SUFFICES ASSUME NEW f \in 1 .. Len(j), e < f, j[f].kind = "leaf" PROVE FALSE OBVIOUS
    <3>1. f \in leaves BY <1>1
    <3>2. f <= e /\ e \in Nat BY <1>1, <2>2, <3>1
    <3> QED BY <1>1, <3>2
  <2>4. Latest(j, e) BY <1>1, <2>2, <2>3 DEF Latest
  <2> QED BY <1>3, <2>4
<1> QED BY <1>2, <1>3

\* Entries that are no leaves leave the latest leaf where it is.
LEMMA LatestStays ==
  ASSUME NEW j, Stored(j), NEW t \in Seq(Entry), Stored(j \o t),
         \A i \in 1 .. Len(t) : t[i].kind # "leaf"
  PROVE  /\ HasLeaf(j) => HasLeaf(j \o t) /\ LatestLeaf(j \o t) = LatestLeaf(j)
         /\ ~ HasLeaf(j) => ~ HasLeaf(j \o t) /\ LatestLeaf(j \o t) = Len(j) + Len(t)
<1> DEFINE l == j \o t
           n == Len(j)
           m == Len(t)
<1>1. /\ n \in Nat /\ m \in Nat /\ Len(l) = n + m /\ DOMAIN j = 1 .. n /\ DOMAIN l = 1 .. n + m
      /\ \A i \in 1 .. n : l[i] = j[i]
      /\ \A i \in 1 .. m : l[n + i] = t[i]
  BY DEF Stored
<1> HIDE DEF n, m, l
<1>2. \A i \in 1 .. n + m : i \notin 1 .. n => l[i].kind # "leaf"
  <2> SUFFICES ASSUME NEW i \in 1 .. n + m, i \notin 1 .. n PROVE l[i].kind # "leaf" OBVIOUS
  <2>1. i - n \in 1 .. m /\ i = n + (i - n) BY <1>1
  <2>2. l[n + (i - n)] = t[i - n] BY <1>1, <2>1
  <2>3. t[i - n].kind # "leaf" BY <2>1 DEF m
  <2> QED BY <2>1, <2>2, <2>3
<1>3. Stored(l) BY DEF l
<1>4. CASE HasLeaf(j)
  <2>1. PICK e : Latest(j, e) BY <1>4, LatestExists
  <2>2. e \in 1 .. n /\ j[e].kind = "leaf" /\ \A f \in 1 .. n : e < f => j[f].kind # "leaf"
    BY <2>1 DEF Latest, n
  <2>3. e \in 1 .. n + m /\ l[e] = j[e] BY <1>1, <2>2
  <2>4. Latest(l, e) BY <1>1, <1>2, <2>2, <2>3 DEF Latest
  <2> QED BY <1>4, <2>3, <1>3, <2>1, <2>4, LatestIs DEF l
<1>5. CASE ~ HasLeaf(j)
  <2>1. ~ HasLeaf(l) BY <1>1, <1>2, <1>5 DEF HasLeaf
  <2>2. LatestLeaf(l) = n + m BY <1>1, <1>3, <2>1, LatestExists
  <2> QED BY <1>5, <2>1, <2>2 DEF l, n, m
<1> QED BY <1>4, <1>5
------------------------------------------------------------------------------
(* What a repair keeps *)

\* The messages up to a row of a path were there when it came in.
LEMMA SaidBefore ==
  ASSUME NEW j, Stored(j), NEW leaf \in 0 .. Len(j), NEW rows, rows = Rows(j, leaf),
         NEW same \in 1 .. Len(rows)
  PROVE  /\ rows[same].id \in 1 .. Len(j)
         /\ \A q \in 1 .. same :
              rows[q].msg.role # "summary" => rows[q].msg \in ToSet(Context(j, rows[same].id))
<1>1. rows \in Seq(MessageRow) /\ DOMAIN rows = 1 .. Len(rows) /\ Len(rows) \in Nat BY RowsType
<1>2. \A i \in 1 .. Len(rows) : rows[i].id \in 1 .. Len(j) /\ rows[i] \in ToSet(rows)
  <2> QED BY <1>1, RowsHoldEntries DEF ToSet
<1>3. InTurn(rows) /\ OnTheWay(j, leaf) BY RowsAreInTurn
<1>4. ASSUME NEW q \in 1 .. same, rows[q].msg.role # "summary"
      PROVE  rows[q].msg \in ToSet(Context(j, rows[same].id))
  <2>1. q \in 1 .. Len(rows) /\ rows[q].id \in Nat /\ rows[same].id \in Nat BY <1>1, <1>2
  <2>2. rows[q].id <= rows[same].id
    <3>1. CASE q = same BY <2>1, <3>1
    <3>2. CASE q # same
      <4>1. q < same BY <1>1, <3>2
      <4>2. rows[q].id < rows[same].id BY <1>3, <1>4, <2>1, <4>1 DEF InTurn
      <4> QED BY <2>1, <4>2
    <3> QED BY <3>1, <3>2
  <2> DEFINE at == Rows(j, rows[same].id)
  <2>3. rows[q] \in ToSet(at) BY <1>2, <1>3, <2>1, <2>2 DEF OnTheWay
  <2>4. PICK i \in DOMAIN at : at[i] = rows[q]
    <3> HIDE DEF at
    <3> QED BY <2>3 DEF ToSet
  <2>5. Context(j, rows[same].id) = [p \in DOMAIN at |-> at[p].msg] BY DEF Context, Messages
  <2> HIDE DEF at
  <2> QED BY <2>4, <2>5 DEF ToSet
<1> QED BY <1>2, <1>4

LEMMA SoundPart ==
  ASSUME NEW t \in Seq(Message), NEW u \in Seq(Message), StartsWith(t, u), NEW n, Sound(t, n)
  PROVE  Sound(u, n)
<1>1. /\ DOMAIN t = 1 .. Len(t) /\ DOMAIN u = 1 .. Len(u) /\ Len(t) \in Nat /\ Len(u) \in Nat
      /\ Len(u) <= Len(t) /\ \A i \in 1 .. Len(u) : i \in 1 .. Len(t) /\ t[i] = u[i]
  BY DEF StartsWith
<1>2. Dated(u, n) BY <1>1 DEF Sound, Dated
<1>3. ASSUME NEW q \in Is(u, "assistant")
      PROVE  u[q].id # 0 /\ \A p \in 1 .. q - 1 : u[p].id # u[q].id
  <2>1. q \in 1 .. Len(u) /\ q \in Is(t, "assistant") /\ u[q] = t[q] BY <1>1 DEF Is
  <2> QED BY <1>1, <2>1 DEF Sound, Sequenced
<1> QED BY <1>2, <1>3 DEF Sound, Sequenced

LEMMA SoundInPlace ==
  ASSUME NEW t \in Seq(Message), NEW n, Sound(t, n)
  PROVE  Sound(RepairedInPlace(t), n)
<1> DEFINE f == RepairedInPlace(t)
<1>1. f \in Seq(Message) BY RepairedInPlaceType
<1>2. PICK org, place : InPlace(t, f, org, place) BY RepairedInPlaceIs
<1> HIDE DEF f
<1>3. /\ DOMAIN f = 1 .. Len(f) /\ DOMAIN t = 1 .. Len(t)
      /\ \A i \in 1 .. Len(f) : org[i] \in 1 .. Len(t)
  BY <1>1, <1>2 DEF InPlace
<1>4. \A i \in 1 .. Len(f) : f[i].id = t[org[i]].id BY <1>2 DEF InPlace
<1>5. Dated(f, n) BY <1>3, <1>4 DEF Sound, Dated
<1>6. ASSUME NEW q \in Is(f, "assistant")
      PROVE  f[q].id # 0 /\ \A p \in 1 .. q - 1 : f[p].id # f[q].id
  <2>1. q \in 1 .. Len(f) /\ f[q].role = "assistant" BY <1>3 DEF Is
  <2>2. f[q] = t[org[q]] /\ \A k \in 1 .. q - 1 : org[k] < org[q] BY <1>2, <2>1 DEF InPlace
  <2>3. org[q] \in Is(t, "assistant") BY <1>3, <2>1, <2>2 DEF Is
  <2>4. ASSUME NEW p \in 1 .. q - 1 PROVE f[p].id # f[q].id
    <3>1. p \in 1 .. Len(f) BY <1>1, <2>1
    <3>2. org[p] \in 1 .. org[q] - 1 BY <1>3, <2>1, <2>2, <3>1
    <3> QED BY <1>4, <2>2, <2>3, <3>1, <3>2, SMTT(30) DEF Sound, Sequenced
  <2> QED BY <2>2, <2>3, <2>4 DEF Sound, Sequenced
<1>7. Sequenced(f) BY <1>6 DEF Sequenced
<1> QED BY <1>5, <1>7 DEF Sound, f
\* The entries of a repair, or of the beginning of one, m of which are messages.
Mending(d, n) == [i \in 0 .. n |-> IF i = 0 THEN d ELSE Len(journal) + i]
Lined(l, d, w, rep, k, m) ==
  LET at == Mending(d, Len(w)) IN
  /\ Stored(l) /\ Len(l) = Len(journal) + k /\ Len(rep) = Len(w) + 1 /\ m \in 1 .. Len(w)
  /\ SubSeq(rep, 1, k) \in Seq(Entry) /\ Line(l, at, SubSeq(w, 1, m))
  /\ at[0] = d /\ d \in 1 .. Len(journal)
  /\ \A i \in 1 .. Len(w) : at[i] = Len(journal) + i
  /\ \A i \in 1 .. m : SubSeq(rep, 1, k)[i].kind = "message"
  /\ k = Len(w) + 1 => l[Len(l)] = LeafEntry(Len(journal) + Len(w))

LEMMA RepairLine ==
  ASSUME Stored(journal), NEW leaf \in 0 .. Len(journal), NEW rows, rows = Rows(journal, leaf),
         NEW rep, rep = Repair(rows), NEW same, NEW w, Branches(rep, rows, same, w),
         NEW k \in 1 .. Len(rep)
  PROVE  Lined(journal \o SubSeq(rep, 1, k), rows[same].id, w, rep, k,
               IF k <= Len(w) THEN k ELSE Len(w))
<1> DEFINE l == journal \o SubSeq(rep, 1, k)
           m == IF k <= Len(w) THEN k ELSE Len(w)
           at == Mending(rows[same].id, Len(w))
<1> SUFFICES
         /\ Stored(l) /\ Len(l) = Len(journal) + k /\ Len(rep) = Len(w) + 1 /\ m \in 1 .. Len(w)
         /\ SubSeq(rep, 1, k) \in Seq(Entry) /\ Line(l, at, SubSeq(w, 1, m))
         /\ at[0] = rows[same].id /\ rows[same].id \in 1 .. Len(journal)
         /\ \A i \in 1 .. Len(w) : at[i] = Len(journal) + i
         /\ \A i \in 1 .. m : SubSeq(rep, 1, k)[i].kind = "message"
         /\ k = Len(w) + 1 => l[Len(l)] = LeafEntry(Len(journal) + Len(w))
  <2> DEFINE d == rows[same].id
  <2>1. Lined(l, d, w, rep, k, m)
    <3> HIDE DEF l, m, d
    <3> QED BY DEF Lined, d
  <2> QED BY <2>1
<1> DEFINE base == Len(journal)
           d == rows[same].id
           n == Len(w)
           front == SubSeq(rep, 1, k)
           ms == SubSeq(w, 1, m)
<1>1. base \in Nat /\ journal \in Seq(Entry) BY DEF Stored
<1>2. /\ rep \in Seq(Entry) /\ After(base, rep) BY RepairIsAfter
<1>3. /\ same \in 1 .. Len(rows) /\ w \in Seq(Message) /\ n \in Nat /\ n # 0
      /\ Mended(rep, base, d, w)
  <2> QED BY DEF Branches
<1>4. d \in 1 .. base BY <1>3, SaidBefore
<1>5. Len(rep) = n + 1 /\ rep[n + 1] = LeafEntry(base + n)
      /\ \A i \in 1 .. n : rep[i] = MessageEntry(IF i = 1 THEN d ELSE base + i - 1, w[i])
  BY <1>3 DEF Mended
<1>6. /\ front \in Seq(Entry) /\ Len(front) = k /\ k \in Nat /\ k \in 1 .. n + 1
      /\ \A i \in 1 .. k : front[i] = rep[i]
      /\ After(base, front)
  <2>1. k \in DOMAIN rep BY <1>2
  <2>2. front \in Seq(Entry) /\ After(base, front) BY <1>1, <1>2, <2>1, AfterPart
  <2> QED BY <1>3, <1>5, <2>2, <1>2
<1>7. Stored(l) /\ Len(l) = base + k /\ \A i \in 1 .. k : l[base + i] = front[i]
  <2>1. l = journal \o front OBVIOUS
  <2> HIDE DEF front, l, base
  <2>2. base = Len(journal) BY DEF base
  <2> QED BY <1>6, <2>1, <2>2, AfterBoth, ZenonT(30)
<1>8. m \in 1 .. n /\ m <= k BY <1>3, <1>6
<1>9. /\ ms \in Seq(Message) /\ Len(ms) = m /\ \A i \in 1 .. m : ms[i] = w[i] BY <1>3, <1>8
<1>10. at[0] = d /\ \A i \in 1 .. n : at[i] = base + i /\ at[i - 1] = IF i = 1 THEN d ELSE base + i - 1
  BY <1>3 DEF Mending
<1> HIDE DEF front, ms, base, d, n, l, m, at
<1>11. ASSUME NEW i \in 1 .. m
       PROVE  /\ at[i] \in 1 .. Len(l) /\ front[i].kind = "message" /\ l[at[i]].kind = "message"
              /\ l[at[i]].parent = at[i - 1] /\ l[at[i]].msg = ms[i]
  <2>1. i \in 1 .. n /\ i \in 1 .. k /\ at[i] = base + i /\ base + i \in 1 .. base + k
    <3>1. i \in 1 .. n /\ i \in 1 .. k /\ i \in Nat
      <4>1. i \in 1 .. m /\ m \in 1 .. n /\ m <= k /\ k \in Nat /\ n \in Nat BY <1>3, <1>6, <1>8
      <4> QED BY ONLY <4>1
    <3>2. at[i] = base + i BY <1>10, <3>1
    <3> QED BY <1>1, <1>6, <3>1, <3>2
  <2>2. front[i] = MessageEntry(at[i - 1], w[i]) /\ l[base + i] = front[i]
    <3>1. front[i] = rep[i] /\ l[base + i] = front[i] BY <1>6, <1>7, <2>1
    <3>2. at[i - 1] = IF i = 1 THEN d ELSE base + i - 1 BY <1>10, <2>1
    <3> QED BY <3>1, <1>5, <2>1, <3>2
  <2> QED BY <1>7, <1>9, <2>1, <2>2 DEF MessageEntry
<1>12. Line(l, at, ms)
  <2>1. at[0] \in 0 .. Len(l) BY <1>1, <1>4, <1>6, <1>7, <1>10
  <2> QED BY <1>9, <1>11, <2>1 DEF Line
<1>13. ASSUME k = n + 1 PROVE l[Len(l)] = LeafEntry(base + n)
  <2>1. l[base + k] = front[k] /\ front[k] = rep[k] BY <1>6, <1>7
  <2> QED BY <1>5, <1>7, <1>13, <2>1
<1> QED BY <1>4, <1>5, <1>6, <1>7, <1>8, <1>10, <1>11, <1>12, <1>13 DEF front, ms, base, d, n

\* A repair loses no message: those before the first gap are on the path it leaves, and it writes
\* the others again.
LEMMA RepairLosesNothing ==
  ASSUME Stored(journal), NEW leaf \in 0 .. Len(journal), NEW rep, rep = Repair(Rows(journal, leaf)),
         rep # <<>>, NEW l, l = journal \o rep
  PROVE  /\ Stored(l) /\ HasLeaf(l) /\ ~ NoneOwed(Context(journal, leaf))
         /\ Said(Context(journal, leaf)) \subseteq Said(Context(l, LatestLeaf(l)))
<1> DEFINE base == Len(journal)
           rows == Rows(journal, leaf)
           t == Context(journal, leaf)
           fixed == RepairedInPlace(t)
<1>1. base \in Nat /\ rows \in Seq(MessageRow) /\ t \in Seq(Message) /\ fixed \in Seq(Message)
      /\ Len(rows) = Len(t) /\ DOMAIN t = 1 .. Len(t) /\ t = Messages(rows)
      /\ \A q \in 1 .. Len(t) : t[q] = rows[q].msg
  <2>1. base \in Nat /\ rows \in Seq(MessageRow) /\ t \in Seq(Message) /\ t = Messages(rows)
    BY RowsType, ContextType DEF Stored, Context
  <2>2. fixed \in Seq(Message) BY <2>1, RepairedInPlaceType
  <2> HIDE DEF rows, t
  <2> QED BY <2>1, <2>2 DEF Messages
<1>2. ~ NoneOwed(t)
  <2> SUFFICES ASSUME NoneOwed(t) PROVE FALSE OBVIOUS
  <2>1. fixed = t BY <1>1, InPlaceNone DEF NoneOwed
  <2> QED BY <1>1, <2>1 DEF Repair
<1>3. PICK same, w : Branches(rep, rows, same, w) BY RepairIs
<1>4. /\ same \in 1 .. Len(t) /\ Len(fixed) = same + Len(w) /\ w \in Seq(Message) /\ Len(w) \in Nat
      /\ \A i \in 1 .. Len(w) : w[i] = fixed[same + i]
  BY <1>1, <1>3 DEF Branches
<1> DEFINE d == rows[same].id
           k == Len(w) + 1
           at == Mending(d, Len(w))
<1>5. /\ Stored(l) /\ Line(l, at, w) /\ at[0] = d /\ d \in 1 .. base /\ at[Len(w)] = base + Len(w)
      /\ Len(w) \in 0 .. Len(w) /\ l[Len(l)] = LeafEntry(base + Len(w)) /\ Len(l) = base + k
      /\ rep \in Seq(Entry)
  <2>1. Len(rep) = k /\ rep \in Seq(Entry) /\ w # <<>> BY <1>3, RepairIsAfter DEF Branches, Mended
  <2>2. k \in 1 .. Len(rep) /\ k = Len(rep) /\ Len(w) # 0 BY <1>4, <2>1
  <2>3. l = journal \o SubSeq(rep, 1, k) BY <2>1, <2>2, SubSeqFull
  <2>4. Len(w) = IF k <= Len(w) THEN k ELSE Len(w) BY <1>4
  <2>5. SubSeq(w, 1, Len(w)) = w BY <1>4, SubSeqFull
  <2>6. at[0] = d /\ at[Len(w)] = base + Len(w) BY <1>4, <2>2 DEF Mending
  <2>7. /\ Stored(l) /\ Len(l) = base + k
        /\ Line(l, at, SubSeq(w, 1, Len(w))) /\ d \in 1 .. base
        /\ k = Len(w) + 1 => l[Len(l)] = LeafEntry(base + Len(w))
    <3>1. rows = Rows(journal, leaf) /\ rep = Repair(rows) OBVIOUS
    <3> HIDE DEF k, at, rows
    <3>2. Lined(l, d, w, rep, k, Len(w)) BY <2>3, <2>4, <1>3, <2>2, <3>1, RepairLine
    <3> QED BY <3>2 DEF Lined, at
  <2>8. k = Len(w) + 1 /\ Len(w) \in 0 .. Len(w) BY <1>4
  <2> HIDE DEF k, at, d
  <2> QED BY <2>1, <2>5, <2>6, <2>7, <2>8
<1> HIDE DEF at, d, k, rows, t, fixed
<1>6. HasLeaf(l) /\ LatestLeaf(l) = base + Len(w)
  <2>1. Len(l) \in 1 .. Len(l) /\ Len(l) \in Nat BY <1>1, <1>4, <1>5 DEF k
  <2>2. Latest(l, Len(l)) /\ l[Len(l)].target = base + Len(w) BY <1>5, <2>1 DEF Latest, LeafEntry
  <2> QED BY <1>5, <2>2, LatestIs
<1>7. Context(l, base + Len(w)) = Context(journal, d) \o w
  <2>1. Context(l, at[Len(w)]) = Context(l, at[0]) \o SubSeq(w, 1, Len(w))
    BY <1>4, <1>5, LineContexts, ZenonT(30)
  <2>2. SubSeq(w, 1, Len(w)) = w BY <1>4, SubSeqFull
  <2>3. Context(l, d) = Context(journal, d) BY <1>5, ContextStays DEF base
  <2> QED BY <1>5, <2>1, <2>2, <2>3
<1>8. Context(journal, d) \in Seq(Message)
  <2>1. d \in 0 .. Len(journal) BY <1>1, <1>5 DEF base
  <2> QED BY <2>1, ContextType
<1>9. ToSet(Context(journal, d) \o w) = ToSet(Context(journal, d)) \cup ToSet(w)
  BY <1>4, <1>8, Members
<1>10. \A q \in 1 .. same : rows[q].msg.role # "summary" => rows[q].msg \in ToSet(Context(journal, d))
  <2>1. same \in 1 .. Len(rows) BY <1>1, <1>4
  <2> QED BY <2>1, SaidBefore DEF d, rows
<1>11. PICK org, place : InPlace(t, fixed, org, place) BY <1>1, RepairedInPlaceIs DEF fixed
<1>12. ASSUME NEW q \in 1 .. Len(t), t[q].role # "summary"
       PROVE  t[q] \in ToSet(Context(journal, d)) \cup ToSet(w)
  <2>1. CASE q <= same
    <3>1. q \in 1 .. same BY <1>4, <2>1
    <3>2. t[q] = rows[q].msg BY <1>1
    <3> QED BY <1>10, <1>12, <3>1, <3>2
  <2>2. CASE ~ (q <= same)
    <3>1. place[q] \in 1 .. Len(fixed) /\ q <= place[q] /\ fixed[place[q]] = t[q]
      BY <1>11 DEF InPlace
    <3>2. place[q] - same \in 1 .. Len(w) /\ same + (place[q] - same) = place[q]
      BY <1>1, <1>4, <2>2, <3>1, SMTT(30)
    <3>3. w[place[q] - same] = t[q] BY <1>4, <3>1, <3>2
    <3>4. DOMAIN w = 1 .. Len(w) BY <1>4
    <3> QED BY <3>2, <3>3, <3>4 DEF ToSet
  <2> QED BY <2>1, <2>2
<1>13. Said(t) \subseteq Said(Context(l, LatestLeaf(l)))
  <2> SUFFICES ASSUME NEW x \in Said(t) PROVE x \in Said(Context(l, LatestLeaf(l))) OBVIOUS
  <2>1. PICK q \in 1 .. Len(t) : x = t[q] BY <1>1 DEF Said, ToSet
  <2>2. x.role # "summary" BY DEF Said
  <2>3. x \in ToSet(Context(l, LatestLeaf(l))) BY <1>6, <1>7, <1>9, <1>12, <2>1, <2>2
  <2> QED BY <2>2, <2>3 DEF Said
<1> QED BY <1>2, <1>5, <1>6, <1>13 DEF t
\* The messages of a context are those of its rows.
LEMMA ContextIs ==
  ASSUME NEW j, Stored(j), NEW e \in 0 .. Len(j)
  PROVE  /\ Rows(j, e) \in Seq(MessageRow) /\ Context(j, e) \in Seq(Message)
         /\ Len(Context(j, e)) = Len(Rows(j, e)) /\ Len(Rows(j, e)) \in Nat
         /\ DOMAIN Context(j, e) = 1 .. Len(Rows(j, e))
         /\ \A i \in 1 .. Len(Rows(j, e)) : Context(j, e)[i] = Rows(j, e)[i].msg
<1> DEFINE rows == Rows(j, e)
           c == Context(j, e)
<1>1. rows \in Seq(MessageRow) /\ c \in Seq(Message) BY RowsType, ContextType
<1>2. c = [p \in DOMAIN rows |-> rows[p].msg] BY DEF Context, Messages
<1> HIDE DEF rows, c
<1> QED BY <1>1, <1>2 DEF rows, c

\* After the first k entries of a repair the path to the last one still goes through head.
Resumes(l, k, n) ==
  Len(l) = Len(journal) + k /\ Through(l, head, Len(l)) /\ Sound(Context(l, Len(l)), n)

\* A repair that is cut off before its leaf goes on from where the last crash was.
LEMMA RepairPart ==
  ASSUME Stored(journal), head \in 0 .. Len(journal), NEW leaf \in 0 .. Len(journal),
         Through(journal, head, leaf), NoneOwed(Context(journal, head)),
         NEW n, Sound(Context(journal, leaf), n),
         NEW rep, rep = Repair(Rows(journal, leaf)), NEW k \in 1 .. Len(rep), k < Len(rep),
         NEW l, l = journal \o SubSeq(rep, 1, k)
  PROVE  Resumes(l, k, n)
<1> DEFINE base == Len(journal)
           rows == Rows(journal, leaf)
           t == Context(journal, leaf)
           R == Rows(journal, head)
           u == Context(journal, head)
           fixed == RepairedInPlace(t)
<1>1. /\ base \in Nat /\ rows \in Seq(MessageRow) /\ t \in Seq(Message)
      /\ Len(t) = Len(rows) /\ Len(rows) \in Nat /\ DOMAIN t = 1 .. Len(rows)
      /\ \A i \in 1 .. Len(rows) : t[i] = rows[i].msg
      /\ R \in Seq(MessageRow) /\ u \in Seq(Message)
      /\ Len(u) = Len(R) /\ Len(R) \in Nat /\ DOMAIN u = 1 .. Len(R)
      /\ \A i \in 1 .. Len(R) : u[i] = R[i].msg
  BY ContextIs DEF Stored
<1>2. /\ StartsWith(rows, R)
      /\ \A p \in Len(R) + 1 .. Len(rows) : /\ Len(Rows(journal, rows[p].id)) = p
                                            /\ StartsWith(rows, Rows(journal, rows[p].id))
  BY DEF Through
<1>3. t = Messages(rows) /\ rep # <<>> BY DEF Context
<1>4. PICK same, w : Branches(rep, rows, same, w) BY <1>3, RepairIs
<1> DEFINE d == rows[same].id
           at == Mending(d, Len(w))
           ms == SubSeq(w, 1, k)
<1>5. /\ same \in 1 .. Len(rows) /\ w \in Seq(Message) /\ Len(fixed) = same + Len(w)
      /\ \A i \in 1 .. Len(w) : w[i] = fixed[same + i]
      /\ \A p \in 1 .. same : fixed[p] = t[p]
      /\ \A i \in 0 .. Len(t) : (\A p \in 1 .. i : Owed(t, p) = <<>>) => i < same
      /\ Len(rep) = Len(w) + 1
  BY <1>3, <1>4 DEF Branches, Mended
<1>6. k \in 1 .. Len(w) /\ k <= Len(w) /\ k \in Nat /\ Len(w) \in Nat BY <1>5
<1>7. /\ Stored(l) /\ Len(l) = base + k /\ SubSeq(rep, 1, k) \in Seq(Entry)
      /\ Line(l, at, ms) /\ at[0] = d /\ d \in 1 .. base
      /\ \A i \in 1 .. Len(w) : at[i] = base + i
      /\ \A i \in 1 .. k : SubSeq(rep, 1, k)[i].kind = "message"
  <2>1. rows = Rows(journal, leaf) OBVIOUS
  <2> HIDE DEF rows
  <2>2. Lined(journal \o SubSeq(rep, 1, k), rows[same].id, w, rep, k,
              IF k <= Len(w) THEN k ELSE Len(w))
    BY <1>4, <2>1, RepairLine
  <2>3. Lined(l, d, w, rep, k, k) BY <1>6, <2>2
  <2> QED BY <2>3 DEF Lined
<1>8. ms \in Seq(Message) /\ Len(ms) = k /\ \A i \in 1 .. k : ms[i] = w[i] BY <1>5, <1>6, SMTT(30)
<1> HIDE DEF rows, R, t, u, d, at, ms, fixed
<1>9. Len(R) < same
  <2>1. Len(R) <= Len(rows) /\ \A i \in 1 .. Len(R) : i \in 1 .. Len(rows) /\ rows[i] = R[i]
    <3>1. StartsWith(rows, R) /\ Len(R) \in Nat /\ Len(rows) \in Nat BY <1>1, <1>2
    <3>2. Len(R) <= Len(rows) /\ \A i \in 1 .. Len(R) : rows[i] = R[i] BY ONLY <3>1 DEF StartsWith
    <3> QED BY ONLY <3>1, <3>2
  <2>2. Len(u) <= Len(t) /\ \A i \in 1 .. Len(u) : t[i] = u[i] BY <1>1, <2>1
  <2>3. \A p \in 1 .. Len(u) : Owed(u, p) = <<>> BY <1>1 DEF NoneOwed, u
  <2>4. \A p \in 1 .. Len(R) : Owed(t, p) = <<>> BY <1>1, <2>2, <2>3, OwedStays
  <2> QED BY <1>1, <1>5, <2>2, <2>4, SMTT(30)
<1> DEFINE A == Rows(journal, d)
           new == Rows(l, Len(l))
<1>10. /\ A \in Seq(MessageRow) /\ Len(A) = same /\ StartsWith(rows, A)
  <2>1. d \in 0 .. Len(journal) BY <1>1, <1>7 DEF base
  <2>2. same \in Len(R) + 1 .. Len(rows) BY <1>1, <1>5, <1>9
  <2> QED BY <1>2, <2>1, <2>2, RowsType DEF d
<1>11. \A e \in 0 .. base : Rows(l, e) = Rows(journal, e) BY <1>7, RowsStay
<1>12. Rows(l, at[0]) = A /\ \A i \in 1 .. Len(rows) : rows[i].id \in 0 .. base
  <2>1. d \in 0 .. base BY <1>1, <1>7
  <2>2. \A i \in 1 .. Len(rows) : rows[i].id \in 1 .. base
    <3>1. DOMAIN rows = 1 .. Len(rows) BY <1>1
    <3> QED BY <3>1, RowsHoldEntries DEF rows
  <2> QED BY <1>1, <1>7, <1>11, <2>1, <2>2
<1> HIDE DEF A, base
<1>13. \A i \in 0 .. k : /\ Len(Rows(l, at[i])) = same + i /\ StartsWith(Rows(l, at[i]), A)
                         /\ \A y \in 1 .. i : Rows(l, at[i])[same + y] = [id |-> at[y], msg |-> ms[y]]
  <2>1. /\ Stored(l) /\ ms \in Seq(Message) /\ Line(l, at, ms)
        /\ A \in Seq(MessageRow) /\ A = Rows(l, at[0])
    BY <1>7, <1>8, <1>10, <1>12
  <2>2. \A i \in 0 .. Len(ms) :
               /\ at[i] \in 0 .. Len(l) /\ Len(Rows(l, at[i])) = Len(A) + i
               /\ StartsWith(Rows(l, at[i]), A)
               /\ \A y \in 1 .. i : Rows(l, at[i])[Len(A) + y] = [id |-> at[y], msg |-> ms[y]]
    BY ONLY <2>1, LineRows, SMTT(30)
  <2> QED BY <1>8, <1>10, <2>2
<1>14. at[k] = Len(l) BY <1>6, <1>7
<1>15. /\ Len(new) = same + k /\ StartsWith(new, A)
       /\ \A y \in 1 .. k : new[same + y] = [id |-> at[y], msg |-> ms[y]]
  <2>1. k \in 0 .. k BY <1>6
  <2> QED BY <1>13, <1>14, <2>1
<1> HIDE DEF new
<1>16. StartsWith(new, R)
  <2> QED BY <1>1, <1>2, <1>5, <1>6, <1>9, <1>10, <1>15, SMTT(30) DEF StartsWith
<1>17. ASSUME NEW p \in Len(R) + 1 .. Len(new)
       PROVE  Len(Rows(l, new[p].id)) = p /\ StartsWith(new, Rows(l, new[p].id))
  <2>1. p \in Nat /\ p <= same + k /\ Len(R) < p /\ same \in Nat BY <1>1, <1>5, <1>6, <1>15, SMTT(30)
  <2>2. CASE p <= same
    <3> DEFINE B == Rows(journal, rows[p].id)
    <3>1. same \in 1 .. Len(rows) /\ Len(R) \in Nat /\ Len(rows) \in Nat /\ Len(A) = same
      BY <1>1, <1>5, <1>10
    <3>2. p \in 1 .. Len(A) /\ p \in Len(R) + 1 .. Len(rows) /\ p \in 1 .. Len(rows)
      BY ONLY <2>1, <2>2, <3>1
    <3>3. new[p] = A[p] /\ rows[p] = A[p] BY <1>10, <1>15, <3>2 DEF StartsWith
    <3>4. Rows(l, new[p].id) = B BY <1>11, <1>12, <3>2, <3>3
    <3>5. Len(B) = p /\ StartsWith(rows, B) BY <1>2, <3>2
    <3> HIDE DEF B
    <3>6. ASSUME NEW i \in 1 .. p PROVE new[i] = B[i]
      <4>1. i \in 1 .. Len(A) BY <1>10, <2>1, <2>2
      <4>2. new[i] = A[i] /\ rows[i] = A[i] BY <1>10, <1>15, <4>1 DEF StartsWith
      <4> QED BY <3>5, <4>2 DEF StartsWith
    <3>7. p <= Len(new) BY <1>15, <2>1
    <3> QED BY <3>4, <3>5, <3>6, <3>7 DEF StartsWith
  <2>3. CASE ~ (p <= same)
    <3> DEFINE i == p - same
               B == Rows(l, at[i])
    <3>1. i \in 1 .. k /\ i \in 0 .. k /\ same + i = p /\ i \in Nat BY <1>6, <2>1, <2>3
    <3> HIDE DEF i
    <3>2. new[p].id = at[i]
      <4>1. new[same + i] = [id |-> at[i], msg |-> ms[i]] BY <1>15, <3>1
      <4> QED BY <3>1, <4>1
    <3>3. /\ Len(B) = same + i /\ StartsWith(B, A)
          /\ \A y \in 1 .. i : B[same + y] = [id |-> at[y], msg |-> ms[y]]
      BY <1>13, <3>1
    <3> HIDE DEF B
    <3>4. ASSUME NEW x \in 1 .. p PROVE new[x] = B[x]
      <4>1. CASE x <= same
        <5>1. x \in 1 .. Len(A) BY <1>10, <2>1, <4>1
        <5> QED BY <1>15, <3>3, <5>1 DEF StartsWith
      <4>2. CASE ~ (x <= same)
        <5>1. x - same \in 1 .. i /\ x - same \in 1 .. k /\ same + (x - same) = x
          BY <2>1, <3>1, <4>2
        <5>2. B[same + (x - same)] = [id |-> at[x - same], msg |-> ms[x - same]] BY <3>3, <5>1
        <5> QED BY <5>1, <5>2, <1>15
      <4> QED BY <4>1, <4>2
    <3>5. p <= Len(new) BY <1>15, <2>1
    <3> QED BY <3>1, <3>2, <3>3, <3>4, <3>5, ZenonT(30) DEF B, StartsWith
  <2> QED BY <2>2, <2>3
<1>18. Through(l, head, Len(l))
  <2>1. Rows(l, head) = R BY <1>11 DEF R, base
  <2> QED BY <1>16, <1>17, <2>1 DEF Through, new
<1>19. Sound(Context(l, Len(l)), n)
  <2> DEFINE c == Context(l, Len(l))
  <2>1. /\ c \in Seq(Message) /\ Len(c) = same + k /\ Len(new) \in Nat
        /\ \A i \in 1 .. same + k : c[i] = new[i].msg
    <3>1. Stored(l) /\ Len(l) \in 0 .. Len(l) BY <1>7 DEF Stored
    <3>2. /\ Context(l, Len(l)) \in Seq(Message)
          /\ Len(Context(l, Len(l))) = Len(Rows(l, Len(l))) /\ Len(Rows(l, Len(l))) \in Nat
          /\ \A i \in 1 .. Len(Rows(l, Len(l))) : Context(l, Len(l))[i] = Rows(l, Len(l))[i].msg
      BY ONLY <3>1, ContextIs
    <3>3. Len(Rows(l, Len(l))) = same + k BY <1>15 DEF new
    <3> QED BY ONLY <3>2, <3>3 DEF new, c
  <2>2. fixed \in Seq(Message) /\ Sound(fixed, n)
    <3>1. Sound(t, n) BY DEF t
    <3> QED BY <1>1, <3>1, RepairedInPlaceType, SoundInPlace DEF fixed
  <2> HIDE DEF c
  <2>3. ASSUME NEW x \in 1 .. same + k PROVE fixed[x] = c[x]
    <3>1. same \in Nat /\ x \in Nat BY <1>5, <1>6
    <3>2. CASE x <= same
      <4>1. new[x] = rows[x] /\ fixed[x] = t[x] /\ t[x] = rows[x].msg
        BY <1>1, <1>5, <1>10, <1>15, <3>1, <3>2, SMTT(30) DEF StartsWith
      <4> QED BY <2>1, <4>1
    <3>3. CASE ~ (x <= same)
      <4> DEFINE y == x - same
      <4>1. y \in 1 .. k /\ y \in 1 .. Len(w) /\ same + y = x BY <1>6, <3>1, <3>3
      <4> HIDE DEF y
      <4>2. new[same + y] = [id |-> at[y], msg |-> ms[y]] BY <1>15, <4>1
      <4>3. new[same + y].msg = ms[y] /\ ms[y] = w[y] /\ w[y] = fixed[same + y]
        BY <1>5, <1>8, <4>1, <4>2, SMTT(60)
      <4> QED BY <2>1, <4>1, <4>3
    <3> QED BY <3>2, <3>3
  <2>4. StartsWith(fixed, c)
    <3>1. same + k <= Len(fixed) BY <1>5, <1>6
    <3> QED BY <2>1, <2>3, <3>1 DEF StartsWith
  <2> QED BY <2>1, <2>2, <2>4, SoundPart DEF c
<1> QED BY <1>7, <1>18, <1>19 DEF base, Resumes
------------------------------------------------------------------------------
(* What is sound stays so *)

\* Messages at the end, each of them no reply or of a number of its own.
LEMMA SoundMore ==
  ASSUME NEW t \in Seq(Message), NEW n \in Nat, Sound(t, n), NEW d \in Nat, n <= d,
         NEW ms \in Seq(Message),
         \A i \in 1 .. Len(ms) :
           ms[i].id <= d /\ (ms[i].role # "assistant"
                             \/ /\ ms[i].id # 0 /\ \A p \in 1 .. Len(t) : t[p].id # ms[i].id
                                /\ \A k \in 1 .. i - 1 : ms[k].id # ms[i].id)
  PROVE  Sound(t \o ms, d) /\ StartsWith(t \o ms, t) /\ t \o ms \in Seq(Message)
<1> DEFINE s == t \o ms
           b == Len(t)
           m == Len(ms)
<1>1. /\ s \in Seq(Message) /\ b \in Nat /\ m \in Nat /\ Len(s) = b + m
      /\ DOMAIN s = 1 .. b + m /\ DOMAIN t = 1 .. b
      /\ \A i \in 1 .. b : s[i] = t[i]
      /\ \A i \in 1 .. m : s[b + i] = ms[i]
  OBVIOUS
<1> HIDE DEF s, b, m
<1>2. StartsWith(s, t) BY <1>1 DEF StartsWith, b
<1>3. ASSUME NEW p \in 1 .. b + m, p \notin 1 .. b
      PROVE  p - b \in 1 .. m /\ b + (p - b) = p /\ s[p] = ms[p - b]
  <2>1. p - b \in 1 .. m /\ b + (p - b) = p BY <1>1, <1>3
  <2>2. s[b + (p - b)] = ms[p - b] BY <1>1, <2>1
  <2> QED BY <2>1, <2>2
<1>4. ASSUME NEW p \in 1 .. b + m PROVE s[p].id <= d
  <2>1. CASE p \in 1 .. b
    <3>1. t[p].id <= n /\ s[p] = t[p] /\ t[p].id \in Nat BY <1>1, <2>1, MessageIs DEF Sound, Dated
    <3> QED BY <3>1
  <2>2. CASE p \notin 1 .. b
    <3>1. p - b \in 1 .. m /\ s[p] = ms[p - b] BY <1>3, <2>2
    <3> QED BY <3>1 DEF m
  <2> QED BY <2>1, <2>2
<1>5. ASSUME NEW q \in 1 .. b + m, s[q].role = "assistant"
      PROVE  s[q].id # 0 /\ \A p \in 1 .. q - 1 : s[p].id # s[q].id
  <2>1. CASE q \in 1 .. b
    <3>1. q \in Is(t, "assistant") /\ s[q] = t[q] BY <1>1, <1>5, <2>1 DEF Is
    <3>2. \A p \in 1 .. q - 1 : p \in 1 .. b BY <1>1, <2>1
    <3> QED BY <1>1, <3>1, <3>2 DEF Sound, Sequenced
  <2>2. CASE q \notin 1 .. b
    <3> DEFINE i == q - b
    <3>1. i \in 1 .. m /\ s[q] = ms[i] /\ b + i = q BY <1>3, <2>2
    <3> HIDE DEF i
    <3>2. /\ ms[i].id # 0 /\ \A p \in 1 .. b : t[p].id # ms[i].id
          /\ \A k \in 1 .. i - 1 : ms[k].id # ms[i].id
      BY <1>5, <3>1 DEF m, b
    <3>3. ASSUME NEW p \in 1 .. q - 1 PROVE s[p].id # s[q].id
      <4>1. CASE p \in 1 .. b BY <1>1, <3>1, <3>2, <4>1
      <4>2. CASE p \notin 1 .. b
        <5>1. p \in 1 .. b + m /\ p - b \in 1 .. i - 1 BY <1>1, <3>1, <4>2, SMTT(30)
        <5> QED BY <1>3, <3>1, <3>2, <4>2, <5>1
      <4> QED BY <4>1, <4>2
    <3> QED BY <3>1, <3>2, <3>3
  <2> QED BY <2>1, <2>2
<1>6. Sound(s, d) BY <1>1, <1>4, <1>5 DEF Sound, Sequenced, Dated, Is
<1> QED BY <1>1, <1>2, <1>6 DEF s

\* One message.
LEMMA SoundOneMore ==
  ASSUME NEW t \in Seq(Message), NEW n \in Nat, Sound(t, n), NEW d \in Nat, n <= d,
         NEW m \in Message, m.id <= d,
         m.role # "assistant" \/ (m.id # 0 /\ \A p \in 1 .. Len(t) : t[p].id # m.id)
  PROVE  Sound(t \o <<m>>, d) /\ StartsWith(t \o <<m>>, t) /\ t \o <<m>> \in Seq(Message)
<1> DEFINE ms == <<m>>
<1>1. ms \in Seq(Message) /\ Len(ms) = 1 /\ \A i \in 1 .. Len(ms) : i = 1 /\ ms[i] = m OBVIOUS
<1> HIDE DEF ms
<1>2. \A i \in 1 .. Len(ms) : \A k \in 1 .. i - 1 : ms[k].id # ms[i].id BY <1>1
<1>3. Sound(t \o ms, d) /\ StartsWith(t \o ms, t) /\ t \o ms \in Seq(Message)
  BY <1>1, <1>2, SoundMore
<1> QED BY <1>3 DEF ms

\* The numbers go on.
LEMMA SoundLater ==
  ASSUME NEW t \in Seq(Message), NEW n \in Nat, Sound(t, n), NEW d \in Nat, n <= d
  PROVE  Sound(t, d)
<1>1. \A p \in DOMAIN t : t[p].id \in Nat BY MessageIs
<1> QED BY <1>1 DEF Sound, Dated

\* A repair at the end adds results.
LEMMA SoundRepaired ==
  ASSUME NEW t \in Seq(Message), NEW n \in Nat, Sound(t, n)
  PROVE  Sound(Repaired(t), n) /\ StartsWith(Repaired(t), t) /\ Repaired(t) \in Seq(Message)
<1> DEFINE S == {m \in Message : m.role = "result" /\ m.id <= n}
           ss == [p \in DOMAIN t |-> Owed(t, p)]
           ms == FlattenSeq(ss)
<1>1. ASSUME NEW p \in DOMAIN t PROVE Owed(t, p) \in Seq(S)
  <2> DEFINE A == {m \in Answers(t[p]) : m \notin ToSet(t)}
  <2>1. Owed(t, p) \in Seq(A) BY OwedIn
  <2>2. t[p] \in Message /\ t[p].id <= n BY DEF Sound, Dated
  <2>3. \A m \in A : m \in S BY <2>2, AnswerIs
  <2> HIDE DEF A, S
  <2> QED BY <2>1, <2>3
<1>2. ss \in Seq(Seq(S))
  <2>1. DOMAIN t = 1 .. Len(t) /\ Len(t) \in Nat OBVIOUS
  <2> HIDE DEF S
  <2> QED BY <1>1, <2>1
<1>3. ms \in Seq(S)
  <2> HIDE DEF S, ss
  <2> QED BY <1>2, FlattenPlaces
<1> HIDE DEF ss, ms
<1>4. ms \in Seq(Message) /\ \A i \in 1 .. Len(ms) : ms[i].id <= n /\ ms[i].role # "assistant"
  BY <1>3
<1>5. Repaired(t) = t \o ms BY DEF Repaired, ss, ms
<1>6. Sound(t \o ms, n) /\ StartsWith(t \o ms, t) /\ t \o ms \in Seq(Message)
  <2>1. n <= n OBVIOUS
  <2> QED BY <1>4, <2>1, SoundMore
<1> QED BY <1>5, <1>6
------------------------------------------------------------------------------
(* Writes, and what a crash leaves of them *)

\* A write has its own leaf, or nothing was written.
Settles == \/ journal' = journal /\ head' = head
           \/ HasLeaf(journal') /\ LatestLeaf(journal') = head'

LEMMA LeafIsLast ==
  ASSUME NEW j, Stored(j), Len(j) # 0, j[Len(j)].kind = "leaf"
  PROVE  HasLeaf(j) /\ LatestLeaf(j) = j[Len(j)].target
<1>1. Latest(j, Len(j)) BY DEF Latest, Stored
<1> QED BY <1>1, LatestIs

LEMMA PersistSettles ==
  ASSUME JournalType, NEW t \in Seq(Message), NEW count \in Nat, Persist(t, count)
  PROVE  Settles /\ (~ HasLeaf(journal') => /\ journal' = journal /\ head' = head
                                            /\ Unsaved(t, count) = <<>>)
<1> DEFINE new == Unsaved(t, count)
           base == Len(journal)
           all == Chain(base, head, new)
           l == journal \o all
<1>1. Stored(journal) /\ head \in 0 .. base /\ base \in Nat /\ head \in Nat /\ journal \in Seq(Entry)
  BY DEF JournalType, Stored
<1>2. new \in Seq(Message) /\ Len(new) \in Nat BY UnsavedType
<1>3. journal' = l /\ head' = IF new = <<>> THEN head ELSE base + 2 * Len(new) - 1 BY DEF Persist
<1> HIDE DEF new, base
<1>4. Pairs(all, base, head, new) BY <1>1, <1>2, ChainHasPairs
<1> HIDE DEF all
<1>5. all \in Seq(Entry) /\ Len(all) = 2 * Len(new) BY <1>4 DEF Pairs
<1>6. CASE new = <<>>
  <2>1. all = <<>> BY <1>5, <1>6
  <2> QED BY <1>1, <1>3, <1>6, <2>1 DEF Settles, new
<1>7. CASE new # <<>>
  <2> DEFINE n == Len(new)
  <2>1. n \in 1 .. Len(new) /\ n >= 1 BY <1>2, <1>7
  <2>2. all[2 * n] = LeafEntry(base + 2 * n - 1) BY <1>4, <2>1 DEF Pairs
  <2> HIDE DEF n
  <2>3. Len(l) = base + 2 * n /\ 2 * n \in 1 .. Len(all) /\ Len(l) # 0
    BY <1>1, <1>5, <2>1, SMTT(30) DEF base, n
  <2>4. l[base + 2 * n] = all[2 * n] BY <1>1, <1>5, <2>3 DEF base
  <2>5. l[Len(l)].kind = "leaf" /\ l[Len(l)].target = head'
    BY <1>3, <1>7, <2>2, <2>3, <2>4 DEF LeafEntry, n
  <2>6. Stored(l) BY <1>3, PersistWrites
  <2> HIDE DEF l
  <2> QED BY <1>3, <2>5, <2>3, <2>6, LeafIsLast DEF Settles
<1> QED BY <1>6, <1>7

\* Entries that go on from base, one from the other, and their leaves.
Onward(j, base, t) ==
  \A i \in 1 .. Len(t) :
    /\ t[i].parent = base \/ t[i].parent \in Len(j) + 1 .. Len(j) + i - 1
    /\ t[i].kind \in {"message", "leaf"}
    /\ t[i].kind = "leaf" => t[i].target = t[i].parent

\* They lose nothing.
LEMMA OnwardSays ==
  ASSUME NEW j, Stored(j), NEW base \in 0 .. Len(j), NEW t \in Seq(Entry), Stored(j \o t),
         Onward(j, base, t)
  PROVE  \A i \in 1 .. Len(t) :
           Said(Context(j, base)) \subseteq Said(Context(j \o t, (j \o t)[Len(j) + i].parent))
           /\ Said(Context(j, base)) \subseteq Said(Context(j \o t, Len(j) + i))
<1> DEFINE l == j \o t
           n == Len(j)
           m == Len(t)
           A == Said(Context(j, base))
           S == {i \in Nat : \A k \in 1 .. i : k <= m => A \subseteq Said(Context(l, n + k))}
<1>1. /\ n \in Nat /\ m \in Nat /\ Len(l) = n + m /\ base \in 0 .. n /\ Stored(l)
      /\ \A i \in 1 .. m : l[n + i] = t[i]
  BY DEF Stored
<1>2. Context(l, base) = Context(j, base) BY ContextStays
<1> HIDE DEF l, n, m, A
<1>3. ASSUME NEW i \in 1 .. m, \A k \in 1 .. i - 1 : A \subseteq Said(Context(l, n + k))
      PROVE  A \subseteq Said(Context(l, l[n + i].parent)) /\ A \subseteq Said(Context(l, n + i))
  <2>1. /\ l[n + i] = t[i] /\ n + i \in 1 .. Len(l)
        /\ t[i].parent = base \/ t[i].parent \in n + 1 .. n + i - 1
        /\ t[i].kind \in {"message", "leaf"}
    BY <1>1 DEF Onward, n, m
  <2>2. A \subseteq Said(Context(l, t[i].parent))
    <3>1. CASE t[i].parent = base BY <1>2, <3>1 DEF A
    <3>2. CASE t[i].parent \in n + 1 .. n + i - 1
      <4> DEFINE k == t[i].parent - n
      <4>1. k \in 1 .. i - 1 /\ n + k = t[i].parent BY <1>1, <3>2, SMTT(30)
      <4> HIDE DEF k
      <4> QED BY <1>3, <4>1
    <3> QED BY <2>1, <3>1, <3>2
  <2>3. CASE t[i].kind = "leaf" BY <1>1, <2>1, <2>2, <2>3, ContextOfLeaf, SMTT(30)
  <2>4. CASE t[i].kind = "message"
    <3> DEFINE c == Context(l, l[n + i].parent)
               msg == l[n + i].msg
    <3>1. c \in Seq(Message) /\ Context(l, n + i) = Append(c, msg)
      BY <1>1, <2>1, <2>4, ContextOfMessage
    <3>2. A \subseteq Said(c) BY <2>1, <2>2
    <3> HIDE DEF c, msg
    <3>3. Said(c) \subseteq Said(Append(c, msg))
      <4> QED BY <3>1, SMTT(30) DEF Said, ToSet
    <3> QED BY <2>1, <2>2, <3>1, <3>2, <3>3
  <2> QED BY <2>1, <2>3, <2>4
<1>4. 0 \in S OBVIOUS
<1>5. ASSUME NEW i \in Nat, i \in S PROVE i + 1 \in S
  <2>1. SUFFICES ASSUME NEW k \in 1 .. i + 1, k <= m PROVE A \subseteq Said(Context(l, n + k))
    OBVIOUS
  <2>2. k \in 1 .. m /\ \A x \in 1 .. k - 1 : x \in 1 .. i /\ x <= m BY <1>1, <1>5, <2>1
  <2> QED BY <1>3, <1>5, <2>2
<1>6. \A i \in Nat : i \in S
  <2> HIDE DEF S
  <2> QED BY <1>4, <1>5, Induction
<1>7. \A k \in 1 .. m : A \subseteq Said(Context(l, n + k))
  <2>1. m \in S BY <1>1, <1>6
  <2> QED BY <1>1, <2>1
<1>8. ASSUME NEW i \in 1 .. m
      PROVE  A \subseteq Said(Context(l, l[n + i].parent)) /\ A \subseteq Said(Context(l, n + i))
  <2>1. \A k \in 1 .. i - 1 : k \in 1 .. m BY <1>1
  <2> QED BY <1>3, <1>7, <2>1
<1> QED BY <1>8 DEF l, n, m, A

\* So a crash in the middle of them leaves a leaf that has lost nothing.
LEMMA OnwardKeeps ==
  ASSUME NEW j, Stored(j), NEW base \in 0 .. Len(j), HasLeaf(j) => LatestLeaf(j) = base,
         NEW t \in Seq(Entry), Stored(j \o t), Onward(j, base, t), HasLeaf(j \o t)
  PROVE  Said(Context(j, base)) \subseteq Said(Context(j \o t, LatestLeaf(j \o t)))
<1> DEFINE l == j \o t
           n == Len(j)
<1>1. /\ n \in Nat /\ Len(t) \in Nat /\ Len(l) = n + Len(t) /\ Stored(l)
      /\ \A i \in 1 .. n : l[i] = j[i]
      /\ \A i \in 1 .. Len(t) : l[n + i] = t[i]
  BY DEF Stored
<1>2. CASE \A i \in 1 .. Len(t) : t[i].kind # "leaf"
  <2>1. HasLeaf(j) /\ LatestLeaf(l) = LatestLeaf(j) BY <1>2, LatestStays
  <2>2. Context(l, base) = Context(j, base) BY ContextStays
  <2> QED BY <2>1, <2>2
<1>3. CASE \E i \in 1 .. Len(t) : t[i].kind = "leaf"
  <2>1. PICK i \in 1 .. Len(t) : t[i].kind = "leaf" BY <1>3
  <2>2. PICK e : Latest(l, e) BY <1>1, LatestExists
  <2> HIDE DEF l, n
  <2>3. e \in 1 .. n + Len(t) /\ l[e].kind = "leaf" /\ ~ (e < n + i) /\ LatestLeaf(l) = l[e].target
    <3>1. n + i \in 1 .. Len(l) /\ l[n + i].kind = "leaf" BY <1>1, <2>1
    <3> QED BY <1>1, <2>2, <3>1, LatestIs DEF Latest
  <2> DEFINE x == e - n
  <2>4. x \in 1 .. Len(t) /\ n + x = e BY <1>1, <2>1, <2>3
  <2> HIDE DEF x
  <2>5. l[e] = t[x] /\ t[x].target = t[x].parent BY <1>1, <2>3, <2>4 DEF Onward
  <2> QED BY <2>3, <2>4, <2>5, OnwardSays DEF l, n
<1> QED BY <1>2, <1>3

\* The beginning of what Persist writes.
LEMMA ChainIsOnward ==
  ASSUME NEW j, Stored(j), NEW base \in 0 .. Len(j), NEW ms \in Seq(Message),
         NEW k \in 1 .. Len(Chain(Len(j), base, ms))
  PROVE  LET t == SubSeq(Chain(Len(j), base, ms), 1, k) IN
         /\ t \in Seq(Entry) /\ Len(t) = k /\ Stored(j \o t) /\ Onward(j, base, t)
         /\ ms # <<>> /\ t[1] = MessageEntry(base, ms[1]) /\ (k # 1 => t[2].kind = "leaf")
<1> DEFINE n == Len(j)
           all == Chain(n, base, ms)
           t == SubSeq(all, 1, k)
<1>1. n \in Nat /\ base \in 0 .. n /\ base \in Nat BY DEF Stored
<1>2. Pairs(all, n, base, ms) /\ After(n, all) BY <1>1, ChainHasPairs, ChainIsAfter
<1>3. k \in 1 .. Len(all) OBVIOUS
<1> HIDE DEF n, all
<1>4. all \in Seq(Entry) /\ Len(all) = 2 * Len(ms) /\ Len(ms) \in Nat BY <1>2 DEF Pairs
<1>5. k \in DOMAIN all /\ k \in Nat BY <1>3, <1>4
<1>6. t \in Seq(Entry) /\ After(n, t) BY <1>1, <1>2, <1>4, <1>5, AfterPart
<1>7. Len(t) = k /\ \A i \in 1 .. k : t[i] = all[i] /\ i \in 1 .. 2 * Len(ms) BY <1>3, <1>4
<1> HIDE DEF t
<1>8. Stored(j \o t) BY <1>6, AfterBoth DEF n
<1>9. ASSUME NEW i \in 1 .. 2 * Len(ms)
      PROVE  /\ all[i].parent = base \/ all[i].parent \in n + 1 .. n + i - 1
             /\ all[i].kind \in {"message", "leaf"}
             /\ all[i].kind = "leaf" => all[i].target = all[i].parent
  <2>1. PICK p \in 1 .. Len(ms) : i = 2 * p - 1 \/ i = 2 * p
    <3>1. (i + 1) \div 2 \in 1 .. Len(ms) BY <1>4
    <3> QED BY <1>4, <3>1
  <2>2. CASE i = 2 * p - 1
    <3>1. all[i] = MessageEntry(IF p = 1 THEN base ELSE n + 2 * p - 3, ms[p])
      BY <1>2, <2>1, <2>2 DEF Pairs
    <3>2. p # 1 => n + 2 * p - 3 \in n + 1 .. n + i - 1 BY <1>1, <1>4, <2>1, <2>2
    <3> QED BY <3>1, <3>2 DEF MessageEntry
  <2>3. CASE i = 2 * p
    <3>1. all[i] = LeafEntry(n + 2 * p - 1) BY <1>2, <2>1, <2>3 DEF Pairs
    <3>2. n + 2 * p - 1 \in n + 1 .. n + i - 1 BY <1>1, <1>4, <2>1, <2>3
    <3> QED BY <3>1, <3>2 DEF LeafEntry
  <2> QED BY <2>1, <2>2, <2>3
<1>10. Onward(j, base, t)
  <2> QED BY <1>9, <1>7 DEF Onward, n
<1>11. ms # <<>> /\ 1 \in 1 .. Len(ms) /\ 1 \in 1 .. k BY <1>3, <1>4
<1>12. t[1] = MessageEntry(base, ms[1])
  <2>1. all[2 * 1 - 1] = MessageEntry(base, ms[1]) BY <1>2, <1>11 DEF Pairs
  <2> QED BY <1>7, <1>11, <2>1
<1>13. k # 1 => t[2].kind = "leaf"
  <2>1. all[2 * 1] = LeafEntry(n + 2 * 1 - 1) BY <1>2, <1>11 DEF Pairs
  <2>2. k # 1 => t[2] = all[2] BY <1>3, <1>4, <1>7
  <2> QED BY <2>1, <2>2 DEF LeafEntry
<1> QED BY <1>6, <1>7, <1>8, <1>10, <1>11, <1>12, <1>13 DEF t, all, n
\* The context of the entry of a compaction: its summary, and what it keeps.
Replaced(l, t, j, base, n) ==
  LET c == Context(j, base)
  IN  /\ Stored(l) /\ Len(l) = Len(j) + 1 /\ l[Len(l)].kind = "compaction"
      /\ l[Len(l)].replaces = Prefix(Rows(j, base), n)
      /\ Context(l, base) = c
      /\ t \in Seq(Message) /\ Len(t) = 1 + Len(c) - n /\ t[1] = Summary(Len(l))
      /\ \A i \in 2 .. Len(t) : t[i] = c[n + i - 1]
      /\ \A i \in 1 .. Len(j) : l[i] = j[i]

LEMMA CompactionRows ==
  ASSUME NEW j, Stored(j), NEW base \in 0 .. Len(j), NEW n \in 1 .. Len(Rows(j, base)),
         NEW l, l = j \o <<CompactionEntry(base, Prefix(Rows(j, base), n))>>
  PROVE  Replaced(l, Context(l, Len(l)), j, base, n)
<1> DEFINE rows == Rows(j, base)
           ids == Prefix(rows, n)
           k == <<CompactionEntry(base, ids)>>
           e == Len(j) + 1
           row == [id |-> e, msg |-> Summary(e)]
           rest == SubSeq(rows, n + 1, Len(rows))
           new == <<row>> \o rest
           c == Context(j, base)
           t == Context(l, e)
<1>1. /\ Len(j) \in Nat /\ base \in Nat /\ e \in Nat /\ rows \in Seq(MessageRow) /\ Len(rows) \in Nat
      /\ c \in Seq(Message) /\ Len(c) = Len(rows) /\ \A i \in 1 .. Len(rows) : c[i] = rows[i].msg
  <2>1. Len(j) \in Nat /\ base \in Nat /\ e \in Nat BY DEF Stored
  <2> QED BY <2>1, ContextIs
<1>2. ids \in SUBSET Nat BY <1>1, PrefixType
<1>3. k \in Seq(Entry) /\ Len(k) = 1 /\ DOMAIN k = {1} /\ k[1] = CompactionEntry(base, ids)
  BY <1>1, <1>2, EntriesAreEntries
<1>4. After(Len(j), k) BY <1>1, <1>3 DEF After, CompactionEntry
<1>5. l = j \o k OBVIOUS
<1> HIDE DEF k
<1>6. Stored(l) /\ Len(l) = e /\ l[e] = CompactionEntry(base, ids)
  <2>1. /\ Stored(j \o k) /\ Len(j \o k) = Len(j) + Len(k)
        /\ \A i \in 1 .. Len(k) : (j \o k)[Len(j) + i] = k[i]
    BY <1>3, <1>4, AfterBoth
  <2>2. (j \o k)[Len(j) + 1] = k[1] BY <1>3, <2>1
  <2> QED BY <1>3, <1>5, <2>1, <2>2
<1> HIDE DEF ids
<1>7. l[e].kind = "compaction" /\ l[e].parent = base /\ l[e].replaces = ids /\ l[e].kind # "message"
  BY <1>6 DEF CompactionEntry
<1>8. Rows(l, base) = rows /\ Context(l, base) = c BY <1>3, <1>5, <1>6, RowsStay, ContextStays
<1>9. Distinct(rows) BY RowsAreDistinct
<1>10. Rows(l, e) = Compacted(rows, e, ids)
  <2>1. e \in 1 .. Len(l) BY <1>1, <1>6
  <2>2. Rows(l, e) = RowsWith(l, e, Rows(l, l[e].parent)) BY <1>6, <2>1, RowsStep
  <2> QED BY <1>7, <1>8, <2>2 DEF RowsWith
<1>11. n \in 1 .. Len(rows) /\ n \in Nat BY <1>1
<1> HIDE DEF rows, e
<1>12. row \in MessageRow /\ Compacted(rows, e, ids) = new
  BY <1>1, <1>9, <1>11, CompactedIsRest DEF ids
<1>13. /\ Len(new) = 1 + Len(rows) - n /\ new[1] = row
       /\ \A i \in 2 .. Len(new) : new[i] = rows[n + i - 1]
  <2> HIDE DEF row
  <2>1. Behead(new, rows, n, row) BY <1>1, <1>11, <1>12, RestIs
  <2> HIDE DEF new
  <2> QED BY <2>1 DEF Behead
<1> HIDE DEF new
<1>14. /\ t \in Seq(Message) /\ Len(t) = Len(new) /\ \A i \in 1 .. Len(new) : t[i] = new[i].msg
       /\ Len(new) \in Nat
  <2>1. Stored(l) /\ e \in 0 .. Len(l) BY <1>1, <1>6
  <2>2. Rows(l, e) = new BY <1>10, <1>12
  <2> QED BY <2>1, <2>2, ContextIs
<1> HIDE DEF t, c
<1>15. t[1] = Summary(e) /\ Len(t) = 1 + Len(c) - n BY <1>1, <1>11, <1>13, <1>14
<1>16. ASSUME NEW i \in 2 .. Len(t) PROVE t[i] = c[n + i - 1]
  <2>1. i \in 1 .. Len(new) /\ i \in 2 .. Len(new) /\ n + i - 1 \in 1 .. Len(rows)
    BY <1>1, <1>11, <1>13, <1>14, <1>16
  <2>2. t[i] = new[i].msg /\ new[i] = rows[n + i - 1] /\ c[n + i - 1] = rows[n + i - 1].msg
    BY <1>1, <1>13, <1>14, <2>1
  <2> QED BY <2>2
<1>17. \A i \in 1 .. Len(j) : l[i] = j[i] BY <1>1, <1>3, <1>5 DEF Stored
<1>18. Replaced(l, t, j, base, n)
  BY <1>6, <1>7, <1>8, <1>14, <1>15, <1>16, <1>17 DEF Replaced, c, e, ids, rows
<1>19. Context(l, Len(l)) = t BY <1>6 DEF t
<1> QED BY <1>18, <1>19

\* It owes nothing when the context did not, and its summary is of what is gone.
LEMMA CompactionKeeps ==
  ASSUME NEW j, Stored(j), NEW base \in 0 .. Len(j), NEW n \in 1 .. Len(Rows(j, base)),
         NoneOwed(Context(j, base)), NEW d \in Nat, Sound(Context(j, base), d),
         NEW l, l = j \o <<CompactionEntry(base, Prefix(Rows(j, base), n))>>
  PROVE  LET t == Context(l, Len(l)) IN
         /\ Sound(t, d) /\ NoneOwed(t)
         /\ Said(Context(l, base)) \subseteq Said(t) \cup SummedIn(l, t)
<1> DEFINE c == Context(j, base)
           t == Context(l, Len(l))
           rows == Rows(j, base)
<1>1. /\ Len(l) = Len(j) + 1
      /\ l[Len(l)].replaces = Prefix(rows, n)
      /\ Context(l, base) = c
      /\ t \in Seq(Message) /\ Len(t) = 1 + Len(c) - n /\ t[1] = Summary(Len(l))
      /\ \A i \in 2 .. Len(t) : t[i] = c[n + i - 1]
      /\ \A i \in 1 .. Len(j) : l[i] = j[i]
  <2>1. Replaced(l, t, j, base, n) BY CompactionRows
  <2> HIDE DEF t
  <2> QED BY <2>1 DEF Replaced
<1>2. /\ Len(j) \in Nat /\ rows \in Seq(MessageRow) /\ Len(rows) \in Nat
      /\ c \in Seq(Message) /\ Len(c) = Len(rows) /\ \A i \in 1 .. Len(rows) : c[i] = rows[i].msg
  <2>1. Stored(j) /\ base \in 0 .. Len(j) OBVIOUS
  <2> QED BY ONLY <2>1, ContextIs DEF Stored
<1>3. n \in 1 .. Len(c) /\ n \in Nat BY <1>2
<1>4. Sound(c, d) /\ NoneOwed(c) OBVIOUS
<1> HIDE DEF c, t, rows
<1>5. /\ DOMAIN t = 1 .. Len(t) /\ Len(t) \in Nat /\ 1 \in 1 .. Len(t)
      /\ DOMAIN c = 1 .. Len(c) /\ Len(c) \in Nat
  BY <1>1, <1>2, <1>3
<1>6. ASSUME NEW i \in 2 .. Len(t)
      PROVE  /\ n + i - 1 \in n + 1 .. Len(c) /\ n + i - 1 \in 1 .. Len(c) /\ t[i] = c[n + i - 1]
  BY <1>1, <1>3, <1>5
<1>7. ASSUME NEW q \in n + 1 .. Len(c)
      PROVE  q - n + 1 \in 2 .. Len(t) /\ t[q - n + 1] = c[q]
  <2>1. q - n + 1 \in 2 .. Len(t) /\ n + (q - n + 1) - 1 = q BY <1>1, <1>3, <1>5
  <2> QED BY <1>1, <2>1
<1>8. t[1].role = "summary" /\ t[1].id = 0 /\ t[1].n = Len(l) BY <1>1 DEF Summary, Msg
<1>9. Dated(t, d)
  <2>1. ASSUME NEW i \in 1 .. Len(t) PROVE t[i].id <= d
    <3>1. CASE i = 1 BY <1>8, <3>1
    <3>2. CASE i # 1
      <4>1. i \in 2 .. Len(t) BY <1>5, <3>2
      <4> QED BY <1>4, <1>5, <1>6, <4>1 DEF Sound, Dated
    <3> QED BY <3>1, <3>2
  <2> QED BY <1>5, <2>1 DEF Dated
<1>10. ASSUME NEW i \in Is(t, "assistant")
       PROVE  /\ i \in 2 .. Len(t) /\ n + i - 1 \in Is(c, "assistant") /\ t[i] = c[n + i - 1]
              /\ c[n + i - 1].id # 0
              /\ \A p \in 1 .. n + i - 2 : c[p].id # c[n + i - 1].id
  <2>1. i \in 1 .. Len(t) /\ t[i].role = "assistant" /\ i # 1 BY <1>5, <1>8 DEF Is
  <2>2. i \in 2 .. Len(t) BY <1>5, <2>1
  <2>3. n + i - 1 \in Is(c, "assistant") BY <1>5, <1>6, <2>1, <2>2 DEF Is
  <2>4. (n + i - 1) - 1 = n + i - 2 BY <1>3, <2>2
  <2> QED BY <1>4, <1>6, <2>2, <2>3, <2>4 DEF Sound, Sequenced
<1>11. Sequenced(t)
  <2>1. ASSUME NEW i \in Is(t, "assistant")
        PROVE  t[i].id # 0 /\ \A p \in 1 .. i - 1 : t[p].id # t[i].id
    <3>1. ASSUME NEW p \in 1 .. i - 1 PROVE t[p].id # t[i].id
      <4>1. CASE p = 1 BY <1>8, <1>10, <4>1
      <4>2. CASE p # 1
        <5>1. p \in 2 .. Len(t) /\ n + p - 1 \in 1 .. n + i - 2 BY <1>3, <1>5, <1>10, <4>2, SMTT(30)
        <5> QED BY <1>6, <1>10, <5>1
      <4> QED BY <4>1, <4>2
    <3> QED BY <1>10, <3>1
  <2> QED BY <2>1 DEF Sequenced
<1>12. ASSUME NEW i \in DOMAIN t PROVE Owed(t, i) = <<>>
  <2>1. CASE t[i].role # "assistant" BY <2>1, OwedToNone
  <2>2. CASE t[i].role = "assistant"
    <3> DEFINE q == n + i - 1
    <3>1. i \in Is(t, "assistant") BY <2>2 DEF Is
    <3>2. /\ i \in 2 .. Len(t) /\ q \in 1 .. Len(c) /\ c[q].role = "assistant" /\ t[i] = c[q]
          /\ \A p \in 1 .. q - 1 : c[p].id # c[q].id
      <4> QED BY <1>5, <1>10, <3>1, <1>3, <1>6, SMTT(30) DEF Is
    <3> HIDE DEF q
    <3>3. Answers(c[q]) \subseteq ToSet(c) BY <1>2, <1>5, <3>2, <1>4, OwedIn DEF NoneOwed
    <3>4. ASSUME NEW m \in Answers(c[q]) PROVE m \in ToSet(t)
      <4>1. PICK x \in 1 .. Len(c) : c[x] = m BY <1>5, <3>3 DEF ToSet
      <4>2. m.role = "result" /\ m.id = c[q].id BY <1>2, <3>2, AnswerIs, SMTT(30)
      <4>3. x # q /\ x \notin 1 .. q - 1 BY <3>2, <4>1, <4>2
      <4>4. x \in n + 1 .. Len(c)
        <5>1. n < q /\ q \in Nat
          <6>1. q \in n + 1 .. Len(c) BY <1>6, <3>2 DEF q
          <6> QED BY <1>3, <1>5, <6>1
        <5> QED BY <1>3, <1>5, <4>1, <4>3, <5>1
      <4>5. x - n + 1 \in DOMAIN t /\ t[x - n + 1] = m
        <5> QED BY <1>5, <4>1, <1>7, <4>4, SMTT(30)
      <4> QED BY <4>5 DEF ToSet
    <3>5. Answers(t[i]) \subseteq ToSet(t) BY <3>2, <3>4
    <3> QED BY <1>1, <3>5, OwedNothing
  <2> QED BY <2>1, <2>2
<1>13. ASSUME NEW m \in Said(c) PROVE m \in Said(t) \cup SummedIn(l, t)
  <2>1. PICK q \in 1 .. Len(c) : c[q] = m BY <1>5 DEF Said, ToSet
  <2>2. m.role # "summary" BY DEF Said
  <2>3. CASE q \in n + 1 .. Len(c)
    <3>1. q - n + 1 \in DOMAIN t /\ t[q - n + 1] = m
      <4> QED BY <1>5, <2>1, <1>7, <2>3
    <3> QED BY <2>2, <3>1 DEF Said, ToSet
  <2>4. CASE q \notin n + 1 .. Len(c)
    <3> DEFINE e == rows[q].id
    <3>1. q \in 1 .. n /\ q \in 1 .. Len(rows) /\ rows[q].msg = m /\ q \in DOMAIN rows
      BY <1>2, <1>3, <1>5, <2>1, <2>4
    <3>2. e \in 1 .. Len(j) /\ ((j[e].kind = "message" /\ m = j[e].msg) \/ m = Summary(e))
      <4> QED BY <3>1, RowsHoldEntries DEF rows
    <3>3. e \in Prefix(rows, n) BY <3>1 DEF Prefix
    <3> HIDE DEF e
    <3>4. j[e].kind = "message" /\ m = j[e].msg BY <2>2, <3>2 DEF Summary, Msg
    <3>5. l[e] = j[e] BY <1>1, <3>2
    <3> DEFINE replaced == UNION {l[t[p].n].replaces : p \in Is(t, "summary")}
    <3>6. e \in replaced BY <3>3, <1>1, <1>5, <1>8, ZenonT(30) DEF Is
    <3>7. SummedIn(l, t) = {l[x].msg : x \in {x \in replaced : l[x].kind = "message"}}
      BY DEF SummedIn
    <3> HIDE DEF replaced
    <3> QED BY <3>4, <3>5, <3>6, <3>7
  <2> QED BY <2>3, <2>4
<1> QED BY <1>1, <1>9, <1>11, <1>12, <1>13 DEF Sound, NoneOwed, t, c
------------------------------------------------------------------------------
(* The actions of a process *)

\* A step of a process, which writes a leaf or nothing.
LEMMA LeavesKeep ==
  ASSUME LeafInv, pc # "down", pc' # "down", Settles, reply'.id <= made',
         Fresh /\ journal' = journal /\ head' = head /\ ~ HasLeaf(journal') => Fresh'
  PROVE  LeafInv'
<1>1. Fallen' BY DEF Fallen
<1>2. Pointed'
  <2>1. CASE journal' = journal /\ head' = head BY <2>1 DEF LeafInv, Pointed
  <2>2. CASE LatestLeaf(journal') = head' BY <2>2 DEF Pointed
  <2> QED BY <2>1, <2>2 DEF Settles
<1>3. Young'
  <2>1. SUFFICES ASSUME ~ HasLeaf(journal') PROVE Fresh' BY DEF Young
  <2>2. journal' = journal /\ head' = head BY <2>1 DEF Settles
  <2>3. Fresh BY <2>1, <2>2 DEF LeafInv, Young
  <2> QED BY <2>1, <2>2, <2>3
<1> QED BY <1>1, <1>2, <1>3 DEF LeafInv

\* What a young session finds.
LEMMA FreshFinds ==
  ASSUME JournalType, Fresh
  PROVE  LET c == Context(journal, head) IN
         /\ c \in Seq(Message) /\ Len(c) \in Nat /\ memory \in Seq(Message) /\ Len(memory) \in Nat
         /\ made \in Nat /\ Stored(journal) /\ head \in 0 .. Len(journal)
         /\ reply \in Message /\ reply.id \in Nat /\ persisted \in Nat
         /\ Len(c) <= Len(memory) /\ Sound(memory, made) /\ Sound(c, made) /\ StartsWith(memory, c)
         /\ \A p \in DOMAIN memory : memory[p].id \in Nat /\ memory[p].id <= made
<1> DEFINE c == Context(journal, head)
<1>1. /\ c \in Seq(Message) /\ memory \in Seq(Message) /\ made \in Nat /\ Stored(journal)
      /\ head \in 0 .. Len(journal) /\ reply \in Message /\ persisted \in Nat
  BY HereType DEF JournalType
<1>2. StartsWith(memory, c) /\ Sound(memory, made) BY DEF Fresh
<1> HIDE DEF c
<1>3. Sound(c, made) /\ Len(c) <= Len(memory) BY <1>1, <1>2, SoundPart DEF StartsWith
<1> QED BY <1>1, <1>2, <1>3, MessageIs DEF c, Sound, Dated

\* It stays young while its transcript goes on.
LEMMA FreshStays ==
  ASSUME JournalType, Fresh, journal' = journal, head' = head, ~ detached',
         memory' \in Seq(Message), StartsWith(memory', memory), Sound(memory', made'),
         pc' # "idle" => persisted' >= Len(Context(journal, head)),
         pc' = "answered" => reply'.id # 0 /\ \A p \in DOMAIN memory' : memory'[p].id < reply'.id,
         Planned(settling', Rows(journal, head))
  PROVE  Fresh'
<1> DEFINE c == Context(journal, head)
<1>1. c \in Seq(Message) /\ memory \in Seq(Message) /\ StartsWith(memory, c) BY FreshFinds
<1>2. head' = Len(journal') /\ Context(journal', head') = c /\ NoneOwed(c) BY DEF Fresh
<1>3. Planned(settling', Rows(journal', head')) OBVIOUS
<1>4. StartsWith(memory', c)
  <2> HIDE DEF c
  <2>1. ASSUME NEW t, t = memory', t \in Seq(Message) PROVE StartsWith(t, c)
    BY <1>1, <2>1, StartsThrough
  <2> QED BY <2>1
<1> HIDE DEF c
<1>5. pc' # "idle" => persisted' >= Len(c) BY DEF c
<1> QED BY <1>2, <1>3, <1>4, <1>5 DEF Fresh

\* A run that starts.
LEMMA LaunchFresh ==
  ASSUME JournalType, Fresh, NEW new,
         new = <<>> \/ \E m \in Message : m.role = "user" /\ m.id <= made' /\ new = <<m>>,
         Launch(memory, new), made' \in Nat, made <= made', UNCHANGED <<journal, head, detached>>,
         Planned(settling', Rows(journal, head))
  PROVE  Fresh'
<1>1. /\ memory \in Seq(Message) /\ made \in Nat /\ Sound(memory, made) /\ Len(memory) \in Nat
      /\ Len(Context(journal, head)) <= Len(memory) /\ ~ detached
  BY FreshFinds DEF Fresh
<1> DEFINE t == Repaired(memory)
<1>2. Sound(t, made) /\ StartsWith(t, memory) /\ t \in Seq(Message) BY <1>1, SoundRepaired
<1>3. memory' = t \o new /\ persisted' = Len(memory) /\ pc' = "open" BY DEF Launch
<1> HIDE DEF t
<1>4. Sound(t \o new, made') /\ StartsWith(t \o new, t) /\ t \o new \in Seq(Message)
  <2>1. CASE new = <<>>
    <3>1. t \o new = t /\ Len(t) \in Nat BY <1>2, <2>1
    <3> QED BY <1>1, <1>2, <3>1, SoundLater, StartsItself
  <2>2. CASE new # <<>>
    <3>1. PICK m \in Message : m.role = "user" /\ m.id <= made' /\ new = <<m>> BY <2>2
    <3>2. /\ made' \in Nat /\ made <= made' /\ m.id <= made' /\ m.role # "assistant"
          /\ t \in Seq(Message) /\ Sound(t, made) /\ made \in Nat /\ m \in Message
      BY <1>1, <1>2, <3>1
    <3>3. ASSUME NEW n \in Nat, n = made, NEW d \in Nat, d = made'
          PROVE  Sound(t \o <<m>>, d) /\ StartsWith(t \o <<m>>, t) /\ t \o <<m>> \in Seq(Message)
      <4> QED BY <3>2, <3>3, SoundOneMore
    <3> QED BY <3>1, <3>2, <3>3
  <2> QED BY <2>1, <2>2
<1> DEFINE u == t \o new
<1> HIDE DEF u
<1>5. u \in Seq(Message) /\ StartsWith(u, t) /\ Sound(u, made') /\ memory' = u BY <1>3, <1>4 DEF u
<1>6. StartsWith(u, memory) BY <1>1, <1>2, <1>5, StartsThrough
<1> QED BY <1>1, <1>3, <1>5, <1>6, FreshFinds, FreshStays

LEMMA UserIs ==
  ASSUME made \in Nat
  PROVE  UserMessage \in Message /\ UserMessage.role = "user" /\ UserMessage.id = made + 1
BY UserMessageType DEF UserMessage, Msg

LEMMA PromptLeaves ==
  ASSUME JournalInv, LeafInv, Prompt
  PROVE  LeafInv'
<1>1. JournalType /\ made \in Nat BY DEF JournalInv, JournalType
<1>2. /\ pc # "down" /\ pc' # "down" /\ made' = made + 1 /\ Launch(memory, <<UserMessage>>)
      /\ UNCHANGED <<journal, head, detached, settling>> /\ reply' = NoReply
  BY DEF Prompt, Accepting, Settled, Launch
<1>3. Settles BY <1>2 DEF Settles
<1>4. reply'.id <= made' BY <1>1, <1>2 DEF NoReply, Msg
<1>5. ASSUME Fresh PROVE Fresh'
  <2>1. Planned(settling', Rows(journal, head)) BY <1>2, <1>5 DEF Fresh
  <2>2. made' \in Nat /\ made <= made' BY <1>1, <1>2
  <2> QED BY <1>1, <1>2, <1>5, <2>1, UserIs, <2>2, LaunchFresh
<1> QED BY <1>2, <1>3, <1>4, <1>5, LeavesKeep

LEMMA ContinueLeaves ==
  ASSUME JournalInv, LeafInv, Continue
  PROVE  LeafInv'
<1>1. JournalType /\ made \in Nat BY DEF JournalInv, JournalType
<1>2. /\ pc # "down" /\ pc' # "down" /\ made' = made /\ Launch(memory, <<>>)
      /\ UNCHANGED <<journal, head, detached, settling>> /\ reply' = NoReply
  BY DEF Continue, Settled, Launch
<1>3. Settles BY <1>2 DEF Settles
<1>4. reply'.id <= made' BY <1>1, <1>2 DEF NoReply, Msg
<1>5. ASSUME Fresh PROVE Fresh'
  <2>1. made' \in Nat /\ made <= made' BY <1>1, <1>2
  <2> QED BY <1>1, <1>2, <1>5, <2>1, LaunchFresh DEF Fresh
<1> QED BY <1>2, <1>3, <1>4, <1>5, LeavesKeep

\* A write in an event.
LEMMA EndedSettles ==
  ASSUME JournalType, NEW t \in Seq(Message), Ended(t)
  PROVE  Settles /\ (~ HasLeaf(journal') => persisted' = persisted)
<1>1. persisted \in Nat /\ Persist(t, persisted) /\ persisted' = persisted + Len(Unsaved(t, persisted))
  BY DEF JournalType, Ended
<1> QED BY <1>1, PersistSettles

\* An event that leaves the transcript alone, but for a reply that is new.
LEMMA EventLeaves ==
  ASSUME JournalInv, LeafInv, pc \notin {"idle", "down"}, pc' # "down",
         Ended(memory) \/ UNCHANGED <<journal, head, persisted>>,
         UNCHANGED <<memory, settling>>, detached' \in {FALSE, detached},
         made' \in Nat, made <= made', reply'.id \in 0 .. made',
         pc' = "answered" => reply'.id # 0 /\ reply'.id > made
  PROVE  LeafInv'
<1>1. JournalType /\ memory \in Seq(Message) /\ made \in Nat /\ persisted \in Nat
  BY DEF JournalInv, JournalType
<1>2. Settles /\ (~ HasLeaf(journal') => persisted' = persisted)
  <2>1. CASE Ended(memory) BY <1>1, <2>1, EndedSettles
  <2>2. CASE UNCHANGED <<journal, head, persisted>> BY <2>2 DEF Settles
  <2> QED BY <2>1, <2>2
<1>3. ASSUME Fresh, journal' = journal, head' = head, ~ HasLeaf(journal') PROVE Fresh'
  <2>1. /\ Len(memory) \in Nat /\ Sound(memory, made) /\ persisted >= Len(Context(journal, head))
        /\ \A p \in DOMAIN memory : memory[p].id \in Nat /\ memory[p].id <= made
        /\ Planned(settling, Rows(journal, head)) /\ ~ detached
    BY <1>1, <1>3, FreshFinds DEF Fresh
  <2>2. Sound(memory, made') BY <1>1, <2>1, SoundLater
  <2>3. StartsWith(memory, memory) BY <2>1, StartsItself
  <2>4. ~ detached' BY <2>1, Zenon
  <2>5. memory' \in Seq(Message) /\ StartsWith(memory', memory) /\ Sound(memory', made')
    BY <1>1, <2>2, <2>3
  <2>6. ASSUME pc' = "answered"
        PROVE  reply'.id # 0 /\ \A p \in DOMAIN memory' : memory'[p].id < reply'.id
    <3> QED BY <1>1, <2>1, <2>6
  <2> QED BY <1>1, <1>3, <1>2, <2>1, <2>5, <2>6, <2>4, FreshStays
<1> QED BY <1>2, <1>3, LeavesKeep
LEMMA OpenLeaves ==
  ASSUME JournalInv, LeafInv, Open
  PROVE  LeafInv'
<1>1. made \in Nat /\ reply \in Message BY DEF JournalInv, JournalType
<1>2. /\ pc \notin {"idle", "down"} /\ pc' = "provider"
      /\ Ended(memory) \/ UNCHANGED <<journal, head, persisted>>
      /\ UNCHANGED <<memory, settling, detached, reply, made>>
  BY DEF Open
<1>3. reply'.id \in 0 .. made' BY <1>1, <1>2, MessageIs DEF LeafInv
<1> QED BY <1>2, <1>3, <1>1, EventLeaves

LEMMA AnswerLeaves ==
  ASSUME JournalInv, LeafInv, Answer
  PROVE  LeafInv'
<1>1. made \in Nat BY DEF JournalInv, JournalType
<1>2. /\ pc \notin {"idle", "down"} /\ pc' = "answered" /\ Ended(memory) /\ made' = made + 1
      /\ UNCHANGED <<memory, settling, detached>>
  BY DEF Answer
<1>3. reply'.id = made + 1
  <2>1. PICK n \in 0 .. scene.calls : reply' = Msg("assistant", made + 1, n) BY DEF Answer
  <2> QED BY <2>1 DEF Msg
<1> QED BY <1>2, <1>1, <1>3, EventLeaves

LEMMA ShowResultLeaves ==
  ASSUME JournalInv, LeafInv, ShowResult
  PROVE  LeafInv'
<1>1. made \in Nat /\ reply \in Message BY DEF JournalInv, JournalType
<1>2. /\ pc \notin {"idle", "down"} /\ pc' = "shown" /\ Ended(memory)
      /\ UNCHANGED <<memory, settling, detached, reply, made>>
  BY DEF ShowResult
<1>3. reply'.id \in 0 .. made' BY <1>1, <1>2, MessageIs DEF LeafInv
<1> QED BY <1>2, <1>3, <1>1, EventLeaves

LEMMA EndRunLeaves ==
  ASSUME JournalInv, LeafInv, EndRun
  PROVE  LeafInv'
<1>1. made \in Nat /\ reply \in Message BY DEF JournalInv, JournalType
<1>2. /\ pc \notin {"idle", "down"} /\ pc' = "idle" /\ Ended(memory) /\ detached' = FALSE
      /\ UNCHANGED <<memory, settling, reply, made>>
  BY DEF EndRun, Attach
<1>3. reply'.id \in 0 .. made' BY <1>1, <1>2, MessageIs DEF LeafInv
<1>4. pc' # "down" /\ pc' # "answered" /\ made' \in Nat /\ made <= made' BY <1>1, <1>2
<1>5. detached' \in {FALSE, detached} BY <1>2, Zenon
<1> QED BY <1>2, <1>3, <1>4, <1>5, EventLeaves

LEMMA RaiseLeaves ==
  ASSUME JournalInv, LeafInv, Raise
  PROVE  LeafInv'
<1>1. made \in Nat /\ reply \in Message BY DEF JournalInv, JournalType
<1>2. /\ pc \notin {"idle", "down"} /\ pc' = "idle" /\ detached' = FALSE
      /\ UNCHANGED <<journal, head, persisted, memory, settling, reply, made>>
  BY DEF Raise, Attach
<1>3. reply'.id \in 0 .. made' BY <1>1, <1>2, MessageIs DEF LeafInv
<1>4. pc' # "down" /\ pc' # "answered" /\ made' \in Nat /\ made <= made' BY <1>1, <1>2
<1>5. detached' \in {FALSE, detached} BY <1>2, Zenon
<1> QED BY <1>2, <1>3, <1>4, <1>5, EventLeaves

LEMMA CancelLeaves ==
  ASSUME JournalInv, LeafInv, Cancel
  PROVE  LeafInv'
<1>1. JournalType /\ made \in Nat BY DEF JournalInv, JournalType
<1>2. /\ pc # "down" /\ pc' = "idle" /\ detached' = FALSE /\ memory' = Repaired(memory)
      /\ UNCHANGED <<journal, head, settling, reply, made>>
  BY DEF Cancel, Attach
<1>3. Settles /\ pc' # "down" /\ reply'.id <= made' BY <1>2 DEF Settles, LeafInv
<1>4. ASSUME Fresh PROVE Fresh'
  <2>1. memory \in Seq(Message) /\ Sound(memory, made) /\ Planned(settling, Rows(journal, head))
    BY <1>1, <1>4, FreshFinds DEF Fresh
  <2>2. Sound(Repaired(memory), made) /\ StartsWith(Repaired(memory), memory)
        /\ Repaired(memory) \in Seq(Message)
    BY <1>1, <2>1, SoundRepaired
  <2> QED BY <1>1, <1>2, <1>4, <2>1, <2>2, FreshStays
<1> QED BY <1>2, <1>3, <1>4, LeavesKeep

\* A message the loop adds.
LEMMA AddFresh ==
  ASSUME JournalType, Fresh, pc # "idle", NEW m \in Message, Add(<<m>>), made' \in Nat, made <= made',
         m.id <= made',
         m.role # "assistant" \/ (m.id # 0 /\ \A p \in 1 .. Len(memory) : memory[p].id # m.id),
         UNCHANGED <<journal, head, settling>>, pc' # "answered", persisted' = persisted
  PROVE  Fresh'
<1>1. /\ memory \in Seq(Message) /\ made \in Nat /\ Sound(memory, made) /\ ~ detached
      /\ persisted >= Len(Context(journal, head)) /\ Planned(settling, Rows(journal, head))
  BY FreshFinds DEF Fresh
<1>2. memory' = memory \o <<m>> /\ ~ detached' BY <1>1 DEF Add
<1>3. Sound(memory \o <<m>>, made') /\ StartsWith(memory \o <<m>>, memory)
      /\ memory \o <<m>> \in Seq(Message)
  <2>1. ASSUME NEW n \in Nat, n = made, NEW d \in Nat, d = made'
        PROVE  Sound(memory \o <<m>>, d) /\ StartsWith(memory \o <<m>>, memory)
               /\ memory \o <<m>> \in Seq(Message)
    BY <1>1, <2>1, SoundOneMore
  <2> QED BY <1>1, <2>1
<1> QED BY <1>2, <1>1, <1>3, FreshStays

LEMMA TakeAnswerLeaves ==
  ASSUME JournalInv, LeafInv, TakeAnswer
  PROVE  LeafInv'
<1>1. JournalType /\ made \in Nat /\ reply \in Message BY DEF JournalInv, JournalType
<1>2. /\ pc = "answered" /\ pc' # "down" /\ pc' # "answered" /\ Add(<<reply>>)
      /\ UNCHANGED <<journal, head, persisted, settling, reply, made>>
  BY DEF TakeAnswer
<1>3. Settles /\ pc # "down" /\ reply'.id <= made' /\ reply.id <= made BY <1>2 DEF Settles, LeafInv
<1>4. ASSUME Fresh PROVE Fresh'
  <2>1. /\ reply.id # 0 /\ reply.id \in Nat
        /\ \A p \in DOMAIN memory : memory[p].id < reply.id /\ memory[p].id \in Nat
    BY <1>1, <1>2, <1>4, FreshFinds DEF Fresh
  <2>2. \A p \in 1 .. Len(memory) : memory[p].id # reply.id
    <3>1. DOMAIN memory = 1 .. Len(memory) BY <1>1 DEF JournalType
    <3> QED BY <2>1, <3>1
  <2> QED BY <1>1, <1>2, <1>4, <2>1, <2>2, <1>3, AddFresh
<1> QED BY <1>2, <1>3, <1>4, LeavesKeep

LEMMA StoreResultLeaves ==
  ASSUME JournalInv, LeafInv, StoreResult
  PROVE  LeafInv'
<1>1. JournalType /\ made \in Nat /\ reply \in Message /\ done \in Nat
  BY DEF JournalInv, JournalType
<1> DEFINE m == Msg("result", reply.id, done + 1)
<1>2. /\ pc = "shown" /\ pc' # "down" /\ pc' # "answered" /\ Add(<<m>>)
      /\ UNCHANGED <<journal, head, persisted, settling, reply, made>>
  BY DEF StoreResult
<1>3. Settles /\ pc # "down" /\ reply'.id <= made' /\ reply.id <= made BY <1>2 DEF Settles, LeafInv
<1>4. m \in Message /\ m.role # "assistant" /\ m.id = reply.id BY <1>1, MessageIs, MsgType DEF Msg
<1> HIDE DEF m
<1>5. ASSUME Fresh PROVE Fresh'
  <2> QED BY <1>1, <1>2, <1>4, <1>5, <1>3, AddFresh
<1> QED BY <1>2, <1>3, <1>5, LeavesKeep

LEMMA InjectLeaves ==
  ASSUME JournalInv, LeafInv, Inject
  PROVE  LeafInv'
<1>1. JournalType /\ made \in Nat /\ reply \in Message BY DEF JournalInv, JournalType
<1>2. /\ pc \notin {"idle", "down"} /\ pc' = "provider" /\ made' = made + 1 /\ Add(<<UserMessage>>)
      /\ Ended(memory') /\ UNCHANGED <<reply, settling>>
  BY DEF Inject
<1>3. UserMessage \in Message /\ UserMessage.role = "user" /\ UserMessage.id = made + 1
  BY <1>1, UserIs
<1>4. memory' \in Seq(Message)
  <2>1. <<UserMessage>> \in Seq(Message) BY <1>3
  <2> QED BY <1>2, <2>1, AddKeeps
<1>5. Settles /\ (~ HasLeaf(journal') => persisted' = persisted)
  <2>1. ASSUME NEW t \in Seq(Message), Ended(t)
        PROVE  Settles /\ (~ HasLeaf(journal') => persisted' = persisted)
    BY <1>1, <2>1, EndedSettles
  <2> QED BY <1>2, <1>4, <2>1
<1>6. reply'.id <= made' BY <1>1, <1>2, MessageIs DEF LeafInv
<1>7. ASSUME Fresh, journal' = journal, head' = head, ~ HasLeaf(journal') PROVE Fresh'
  <2> QED BY <1>1, <1>2, <1>3, <1>7, <1>5, AddFresh
<1> QED BY <1>2, <1>5, <1>6, <1>7, LeavesKeep

\* Terminal output always writes a leaf.
LEMMA TerminalOutputLeaves ==
  ASSUME JournalInv, LeafInv, TerminalOutput
  PROVE  LeafInv'
<1>1. JournalType /\ made \in Nat /\ reply \in Message /\ memory \in Seq(Message) /\ Len(memory) \in Nat
  BY DEF JournalInv, JournalType
<1>2. /\ pc = "idle" /\ made' = made + 1 /\ memory' = Append(memory, UserMessage)
      /\ Persist(memory', Len(memory)) /\ UNCHANGED <<pc, reply>>
  BY DEF TerminalOutput, run
<1>3. UserMessage \in Message BY <1>1, UserIs
<1>4. memory' \in Seq(Message) /\ Len(memory') = Len(memory) + 1 BY <1>1, <1>2, <1>3
<1>5. Unsaved(memory', Len(memory)) # <<>>
  <2>1. ASSUME NEW t \in Seq(Message), Len(t) = Len(memory) + 1
        PROVE  SubSeq(t, Len(memory) + 1, Len(t)) # <<>>
    BY <1>1, <2>1
  <2> QED BY <1>4, <2>1 DEF Unsaved
<1>6. Settles /\ HasLeaf(journal')
  <2>1. ASSUME NEW t \in Seq(Message), Persist(t, Len(memory)), Unsaved(t, Len(memory)) # <<>>
        PROVE  Settles /\ HasLeaf(journal')
    BY <1>1, <2>1, PersistSettles
  <2> QED BY <1>2, <1>4, <1>5, <2>1
<1>7. reply'.id <= made' /\ pc # "down" /\ pc' # "down" BY <1>1, <1>2, MessageIs DEF LeafInv
<1> QED BY <1>6, <1>7, LeavesKeep
------------------------------------------------------------------------------
(* Compactions and branches *)

LEMMA StartCompactionLeaves ==
  ASSUME JournalInv, LeafInv, StartCompaction
  PROVE  LeafInv'
<1>1. JournalType /\ made \in Nat /\ settling \in Seq(Settlings) BY DEF JournalInv, JournalType
<1> DEFINE rows == Rows(journal, head)
<1>2. PICK ids \in RecentPreserving(rows) \cup Whole(rows), next \in {"settle", "prompt", "retry"} :
        /\ settling' = Append(settling, [replaces |-> ids, next |-> next])
        /\ next = "settle" => Settled
        /\ next = "prompt" => Accepting
        /\ next = "retry" => pc = "idle"
  BY DEF StartCompaction
<1>3. rows \in Seq(MessageRow) BY <1>1, RowsType DEF JournalType
<1>4. /\ pc = "idle" /\ pc' = pc /\ reply' = reply
      /\ UNCHANGED <<journal, head, memory, detached, made, persisted>>
  BY <1>2 DEF StartCompaction, Settled, Accepting
<1>5. ASSUME Fresh PROVE Fresh'
  <2>1. /\ Planned(settling, rows) /\ ~ detached /\ Sound(memory, made) /\ memory \in Seq(Message)
        /\ Len(memory) \in Nat
    BY <1>1, <1>5, FreshFinds DEF Fresh
  <2> HIDE DEF rows
  <2>2. PICK n \in 1 .. Len(rows) : ids = Prefix(rows, n) BY <1>2, <1>3, PlanIsGood DEF GoodCut
  <2> DEFINE plan == [replaces |-> ids, next |-> next]
  <2>3. plan.replaces = Prefix(rows, n) BY <2>2
  <2> HIDE DEF plan
  <2>4. /\ DOMAIN settling' = 1 .. Len(settling) + 1 /\ settling'[Len(settling) + 1] = plan
        /\ \A k \in 1 .. Len(settling) : settling'[k] = settling[k]
        /\ Len(settling) \in Nat /\ DOMAIN settling = 1 .. Len(settling)
    BY <1>1, <1>2 DEF plan
  <2>5. Planned(settling', rows)
    <3>1. ASSUME NEW k \in DOMAIN settling'
          PROVE  \E i \in 1 .. Len(rows) : settling'[k].replaces = Prefix(rows, i)
      <4>1. CASE k = Len(settling) + 1 BY <2>2, <2>3, <2>4, <4>1
      <4>2. CASE k # Len(settling) + 1
        <5> QED BY <2>1, <2>4, <4>2 DEF Planned
      <4> QED BY <4>1, <4>2
    <3> QED BY <3>1 DEF Planned
  <2>6. StartsWith(memory, memory) BY <2>1, StartsItself
  <2> QED BY <1>1, <1>4, <1>5, <2>1, <2>5, <2>6, FreshStays DEF rows
<1> QED BY <1>4, <1>5, LeavesKeep DEF Settles, LeafInv

\* While something is awaited, there is a process.
LEMMA AwaitedIsUp ==
  ASSUME LeafInv, NEW k \in DOMAIN settling
  PROVE  pc # "down"
BY DEF LeafInv, Fallen

\* What follows a compaction.
LEMMA ProceedLeaves ==
  ASSUME NEW next, NEW t, Proceed(next, t), made \in Nat, reply.id <= made, pc # "down"
  PROVE  pc' # "down" /\ reply'.id <= made'
<1>1. CASE Launch(t, <<UserMessage>>) /\ made' = made + 1 BY <1>1 DEF Launch, NoReply, Msg
<1>2. CASE Launch(t, <<>>) /\ made' = made BY <1>2 DEF Launch, NoReply, Msg
<1>3. CASE UNCHANGED <<run, made>> BY <1>3 DEF run
<1> QED BY <1>1, <1>2, <1>3 DEF Proceed

LEMMA FinishCompactionLeaves ==
  ASSUME JournalInv, JournalInv', LeafInv, FinishCompaction
  PROVE  LeafInv'
<1>1. /\ JournalType /\ journal \in Seq(Entry) /\ Len(journal) \in Nat /\ made \in Nat
      /\ settling \in Seq(Settlings) /\ head \in 0 .. Len(journal)
  BY DEF JournalInv, JournalType, Stored
<1> DEFINE id == Len(journal) + 1
           new(k) == journal \o <<CompactionEntry(head, settling[k].replaces), LeafEntry(id)>>
<1>2. PICK k \in DOMAIN settling :
        journal' = new(k) /\ head' = id /\ Proceed(settling[k].next, Context(new(k), id))
  BY DEF FinishCompaction
<1>3. pc # "down" /\ pc' # "down" /\ reply'.id <= made'
  BY <1>1, <1>2, AwaitedIsUp, ProceedLeaves DEF LeafInv
<1> DEFINE a == CompactionEntry(head, settling[k].replaces)
           b == LeafEntry(id)
           l == journal \o <<a, b>>
<1>4. a \in Entry /\ b \in Entry
  <2>1. settling[k].replaces \in SUBSET Nat /\ head \in Nat /\ id \in Nat BY <1>1, ReplacesType
  <2> QED BY <2>1, EntriesAreEntries
<1>5. b.kind = "leaf" /\ b.target = id BY DEF LeafEntry
<1> HIDE DEF a, b
<1>6. Len(l) = id + 1 /\ l[id + 1] = b BY <1>1, <1>4
<1>7. journal' = l BY <1>2 DEF a, b
<1> HIDE DEF l
<1>8. Stored(l) BY <1>7 DEF JournalInv, JournalType
<1>9. HasLeaf(l) /\ LatestLeaf(l) = id BY <1>8, <1>1, <1>5, <1>6, LeafIsLast
<1>10. Settles /\ HasLeaf(journal') BY <1>2, <1>7, <1>9 DEF Settles
<1> QED BY <1>3, <1>10, LeavesKeep

LEMMA AbandonCompactionLeaves ==
  ASSUME JournalInv, LeafInv, AbandonCompaction
  PROVE  LeafInv'
<1>1. /\ JournalType /\ made \in Nat /\ settling \in Seq(Settlings) BY DEF JournalInv, JournalType
<1>2. PICK k \in DOMAIN settling :
        /\ Proceed("prompt", memory) \/ UNCHANGED <<memory, run, made>>
        /\ UNCHANGED detached /\ Forget(k) /\ UNCHANGED <<journal, head>>
  BY DEF AbandonCompaction
<1>3. pc # "down" /\ Settles BY <1>2, AwaitedIsUp DEF Settles
<1>4. pc' # "down" /\ reply'.id <= made'
  <2>1. CASE Proceed("prompt", memory) BY <1>1, <1>3, <2>1, ProceedLeaves DEF LeafInv
  <2>2. CASE UNCHANGED <<memory, run, made>> BY <1>3, <2>2 DEF LeafInv, run
  <2> QED BY <1>2, <2>1, <2>2
<1>5. ASSUME Fresh PROVE Fresh'
  <2> DEFINE rows == Rows(journal, head)
             S == {x \in Settlings : \E n \in 1 .. Len(rows) : x.replaces = Prefix(rows, n)}
  <2>1. Planned(settling, rows) /\ ~ detached /\ Sound(memory, made) /\ memory \in Seq(Message)
        /\ Len(memory) \in Nat
    BY <1>1, <1>5, FreshFinds DEF Fresh
  <2> HIDE DEF rows
  <2>2. settling \in Seq(S)
    <3>1. \A i \in DOMAIN settling : settling[i] \in S BY <1>1, <2>1 DEF Planned
    <3> HIDE DEF S
    <3> QED BY <1>1, <3>1
  <2>3. settling' \in Seq(S)
    <3> DEFINE a == SubSeq(settling, 1, k - 1)
               b == SubSeq(settling, k + 1, Len(settling))
    <3> HIDE DEF S
    <3>1. a \in Seq(S) /\ b \in Seq(S) BY <2>2
    <3>2. settling' = a \o b BY <1>2 DEF Forget, RemoveAt
    <3> HIDE DEF a, b
    <3> QED BY <3>1, <3>2
  <2>4. Planned(settling', rows)
    <3>1. \A i \in DOMAIN settling' : settling'[i] \in S
      <4> HIDE DEF S
      <4> QED BY <2>3
    <3> QED BY <3>1 DEF Planned
  <2>5. CASE pc = "idle" /\ made' = made + 1 /\ Launch(memory, <<UserMessage>>)
    <3>1. \E m \in Message : m.role = "user" /\ m.id <= made' /\ <<UserMessage>> = <<m>>
      BY <1>1, <2>5, UserIs
    <3> QED BY <1>1, <1>5, <2>5, <1>2, <2>4, <3>1, LaunchFresh DEF rows
  <2>6. CASE UNCHANGED <<memory, run, made>>
    <3>1. /\ UNCHANGED <<memory, made, pc, reply, persisted, journal, head, detached>>
      BY <1>2, <2>6 DEF run
    <3>2. StartsWith(memory, memory) BY <2>1, StartsItself
    <3>3. pc' # "idle" => persisted' >= Len(Context(journal, head)) BY <1>5, <3>1 DEF Fresh
    <3>4. pc' = "answered" => reply'.id # 0 /\ \A p \in DOMAIN memory' : memory'[p].id < reply'.id
      BY <1>5, <3>1 DEF Fresh
    <3> QED BY <1>1, <1>5, <3>1, <2>1, <2>4, <3>2, <3>3, <3>4, FreshStays DEF rows
  <2> QED BY <2>5, <2>6, <1>2 DEF Proceed
<1> QED BY <1>3, <1>4, <1>5, LeavesKeep

LEMMA BranchLeaves ==
  ASSUME JournalInv, JournalInv', LeafInv, Branch
  PROVE  LeafInv'
<1>1. /\ JournalType /\ Stored(journal) /\ journal \in Seq(Entry) /\ Len(journal) \in Nat
  BY DEF JournalInv, JournalType, Stored
<1>2. PICK target : journal' = Append(journal, LeafEntry(target)) /\ head' = target BY DEF Branch
<1> DEFINE b == LeafEntry(target)
           l == Append(journal, b)
<1>3. target \in Nat BY <1>2 DEF JournalInv, JournalType, Stored
<1>4. b \in Entry /\ b.kind = "leaf" /\ b.target = target BY <1>3, EntriesAreEntries DEF LeafEntry
<1> HIDE DEF b
<1>5. Len(l) = Len(journal) + 1 /\ l[Len(journal) + 1] = b /\ journal' = l BY <1>1, <1>2, <1>4 DEF b
<1> HIDE DEF l
<1>6. Stored(l) /\ Len(l) # 0 /\ l[Len(l)].kind = "leaf" /\ l[Len(l)].target = target
  BY <1>1, <1>4, <1>5 DEF JournalInv, JournalType
<1>7. HasLeaf(l) /\ LatestLeaf(l) = target BY <1>6, LeafIsLast
<1>8. Settles /\ HasLeaf(journal') BY <1>2, <1>5, <1>7 DEF Settles
<1>9. pc # "down" /\ pc' # "down" /\ reply'.id <= made' BY DEF Branch, Settled, run, LeafInv
<1> QED BY <1>8, <1>9, LeavesKeep
------------------------------------------------------------------------------
(* What a crash leaves *)

LEMMA LeafStays ==
  ASSUME NEW j, Stored(j), NEW t \in Seq(Entry), HasLeaf(j)
  PROVE  HasLeaf(j \o t)
<1>1. PICK e \in DOMAIN j : j[e].kind = "leaf" BY DEF HasLeaf
<1>2. j \in Seq(Entry) /\ e \in 1 .. Len(j) BY DEF Stored
<1>3. e \in DOMAIN (j \o t) /\ (j \o t)[e] = j[e] BY <1>2
<1> QED BY <1>1, <1>3 DEF HasLeaf

\* A process that writes nothing.
LEMMA LeftNothing ==
  ASSUME JournalType, HasLeaf(journal) => LatestLeaf(journal) = head, ~ HasLeaf(journal) => Fresh
  PROVE  Left(journal, head, made)
<1>1. CASE HasLeaf(journal) BY <1>1 DEF Left
<1>2. CASE ~ HasLeaf(journal)
  <2>1. Fresh /\ head = Len(journal) /\ NoneOwed(Context(journal, head)) BY <1>2 DEF Fresh
  <2>2. Sound(Context(journal, head), made) BY <2>1, FreshFinds
  <2>3. Through(journal, head, head)
    <3>1. Stored(journal) /\ head \in 0 .. Len(journal) BY DEF JournalType
    <3>2. Len(Rows(journal, head)) \in Nat BY <3>1, ContextIs
    <3> QED BY <3>2, StartsItself DEF Through
  <2> QED BY <1>2, <2>1, <2>2, <2>3 DEF Left
<1> QED BY <1>1, <1>2

\* One message behind base.
LEMMA LeftOne ==
  ASSUME NEW j, Stored(j), NEW base \in 0 .. Len(j), NEW m \in Message,
         NoneOwed(Context(j, base)), NEW d, Sound(Context(j, base) \o <<m>>, d),
         NEW l, l = j \o <<MessageEntry(base, m)>>, ~ HasLeaf(l)
  PROVE  Left(l, base, d)
<1> DEFINE a == MessageEntry(base, m)
           R == Rows(j, base)
           e == Len(j) + 1
           row == [id |-> e, msg |-> m]
           new == Append(R, row)
           c == Context(j, base)
<1>1. /\ Len(j) \in Nat /\ base \in Nat /\ e \in Nat /\ R \in Seq(MessageRow) /\ Len(R) \in Nat
      /\ c \in Seq(Message)
  BY ContextIs DEF Stored
<1>2. a \in Entry /\ a.parent = base /\ a.kind = "message" /\ a.msg = m
  BY <1>1, EntriesAreEntries DEF MessageEntry
<1> HIDE DEF a
<1> DEFINE t == <<a>>
<1>3. t \in Seq(Entry) /\ Len(t) = 1 /\ t[1] = a /\ DOMAIN t = {1} BY <1>2
<1>4. After(Len(j), t) BY <1>1, <1>2, <1>3 DEF After
<1>5. l = j \o t BY DEF a
<1> HIDE DEF t
<1>6. Stored(l) /\ Len(l) = e /\ l[e] = a
  <2>1. /\ Stored(j \o t) /\ Len(j \o t) = Len(j) + Len(t)
        /\ \A i \in 1 .. Len(t) : (j \o t)[Len(j) + i] = t[i]
    BY <1>3, <1>4, AfterBoth
  <2>2. (j \o t)[Len(j) + 1] = t[1] BY <1>3, <2>1
  <2> QED BY <1>3, <1>5, <2>1, <2>2
<1>7. Rows(l, base) = R /\ Context(l, base) = c BY <1>3, <1>5, <1>6, RowsStay, ContextStays
<1>8. e \in 1 .. Len(l) /\ l[e].kind = "message" /\ l[e].parent = base /\ l[e].msg = m
  BY <1>1, <1>2, <1>6
<1>9. Rows(l, e) = new
  <2> QED BY <1>7, <1>8, <1>6, RowsStep DEF RowsWith
<1>10. Context(l, e) = c \o <<m>>
  <2>1. Context(l, e) = Append(Context(l, l[e].parent), l[e].msg) BY <1>6, <1>8, ContextOfMessage
  <2> QED BY <1>1, <1>7, <1>8, <2>1, AppendIsConcat, ZenonT(30)
<1> HIDE DEF e
<1>11. row \in MessageRow BY <1>1 DEF MessageRow
<1> HIDE DEF R
<1>12. Len(new) = Len(R) + 1 /\ new[Len(R) + 1] = row /\ StartsWith(new, R)
  BY <1>1, <1>11 DEF StartsWith
<1>13. Through(l, base, e)
  <2>1. ASSUME NEW p \in Len(R) + 1 .. Len(new)
        PROVE  Len(Rows(l, new[p].id)) = p /\ StartsWith(new, Rows(l, new[p].id))
    <3> HIDE DEF new
    <3> QED BY <1>9, <1>1, <1>12, StartsItself
  <2> HIDE DEF new
  <2> QED BY <1>7, <1>9, <1>12, <2>1 DEF Through
<1> QED BY <1>6, <1>13, <1>7, <1>10 DEF Left

\* A write that is cut off.
LEMMA LeftWriting ==
  ASSUME JournalType, HasLeaf(journal) => LatestLeaf(journal) = head, ~ HasLeaf(journal) => Fresh,
         pc # "idle",
         NEW k \in 1 .. Len(Chain(Len(journal), head, Unsaved(memory, persisted)))
  PROVE  Left(journal \o SubSeq(Chain(Len(journal), head, Unsaved(memory, persisted)), 1, k), head, made)
<1> DEFINE ms == Unsaved(memory, persisted)
           t == SubSeq(Chain(Len(journal), head, ms), 1, k)
           l == journal \o t
<1>1. /\ Stored(journal) /\ head \in 0 .. Len(journal) /\ memory \in Seq(Message) /\ persisted \in Nat
      /\ ms \in Seq(Message)
  BY UnsavedType DEF JournalType
<1> HIDE DEF ms
<1>2. /\ t \in Seq(Entry) /\ Len(t) = k /\ Stored(l) /\ Onward(journal, head, t)
      /\ ms # <<>> /\ t[1] = MessageEntry(head, ms[1]) /\ (k # 1 => t[2].kind = "leaf")
  BY <1>1, ChainIsOnward DEF ms
<1> HIDE DEF t
<1>3. Context(l, head) = Context(journal, head) BY <1>1, <1>2, ContextStays
<1>4. ASSUME HasLeaf(l) PROVE Left(l, head, made)
  <2>1. Said(Context(journal, head)) \subseteq Said(Context(l, LatestLeaf(l)))
    BY <1>1, <1>2, <1>4, OnwardKeeps
  <2> HIDE DEF l
  <2> QED BY <1>3, <1>4, <2>1 DEF Left
<1>5. ASSUME ~ HasLeaf(l) PROVE Left(l, head, made)
  <2>1. Fresh BY <1>1, <1>2, <1>5, LeafStays
  <2> DEFINE c == Context(journal, head)
             m == ms[1]
  <2>2. k = 1
    <3>1. SUFFICES ASSUME k # 1 PROVE FALSE OBVIOUS
    <3>2. Len(journal) + 2 \in DOMAIN l /\ l[Len(journal) + 2] = t[2] BY <1>2, <1>1, <3>1 DEF Stored
    <3> QED BY <1>2, <1>5, <3>1, <3>2 DEF HasLeaf
  <2>3. t = <<MessageEntry(head, m)>> BY <1>2, <2>2
  <2>4. m \in Message /\ m = memory[persisted + 1] /\ persisted + 1 \in 1 .. Len(memory)
    <3>1. Len(ms) \in Nat /\ Len(ms) # 0 /\ ms = SubSeq(memory, persisted + 1, Len(memory))
      BY <1>1, <1>2 DEF ms, Unsaved
    <3>2. persisted + 1 <= Len(memory) BY <1>1, <3>1
    <3> QED BY <1>1, <3>1, <3>2
  <2>5. /\ c \in Seq(Message) /\ Len(c) \in Nat /\ Sound(c, made) /\ made \in Nat
        /\ persisted >= Len(c) /\ StartsWith(memory, c) /\ Sound(memory, made) /\ NoneOwed(c)
    BY <2>1, FreshFinds DEF Fresh
  <2> HIDE DEF c, m
  <2>6. m.id <= made BY <1>1, <2>4, <2>5 DEF Sound, Dated
  <2>7. m.role = "assistant" => m.id # 0 /\ \A p \in 1 .. Len(c) : c[p].id # m.id
    <3>1. SUFFICES ASSUME m.role = "assistant" PROVE m.id # 0 /\ \A p \in 1 .. Len(c) : c[p].id # m.id
      OBVIOUS
    <3>2. persisted + 1 \in Is(memory, "assistant") BY <1>1, <2>4, <3>1 DEF Is
    <3>3. \A p \in 1 .. Len(c) : p \in 1 .. (persisted + 1) - 1 /\ c[p] = memory[p]
      BY <1>1, <2>5 DEF StartsWith
    <3> QED BY <2>4, <2>5, <3>2, <3>3 DEF Sound, Sequenced
  <2>8. Sound(c \o <<m>>, made)
    <3>1. made <= made BY <2>5
    <3> QED BY <2>4, <2>5, <2>6, <2>7, <3>1, SoundOneMore
  <2>9. l = journal \o <<MessageEntry(head, m)>> BY <2>3
  <2> HIDE DEF l
  <2> QED BY <1>1, <1>5, <2>4, <2>5, <2>8, <2>9, LeftOne DEF c
<1>6. Left(l, head, made) BY <1>4, <1>5
<1> HIDE DEF l
<1> QED BY <1>6 DEF l, t, ms

\* The entry of a compaction without its leaf.
LEMMA LeftCompaction ==
  ASSUME JournalType, HasLeaf(journal) => LatestLeaf(journal) = head, ~ HasLeaf(journal) => Fresh,
         NEW k \in DOMAIN settling
  PROVE  Left(journal \o <<CompactionEntry(head, settling[k].replaces)>>, head, made)
<1> DEFINE a == CompactionEntry(head, settling[k].replaces)
           t == <<a>>
           l == journal \o t
<1>1. Stored(journal) /\ head \in 0 .. Len(journal) /\ settling \in Seq(Settlings) /\ Len(journal) \in Nat
      /\ head \in Nat
  BY DEF JournalType, Stored
<1>2. a \in Entry /\ a.kind = "compaction" /\ a.parent = head
  <2>1. settling[k].replaces \in SUBSET Nat BY <1>1, ReplacesType
  <2> QED BY <1>1, <2>1, EntriesAreEntries DEF CompactionEntry
<1> HIDE DEF a
<1>3. t \in Seq(Entry) /\ Len(t) = 1 /\ DOMAIN t = {1} /\ t[1] = a BY <1>2
<1>4. After(Len(journal), t) BY <1>1, <1>2, <1>3 DEF After
<1> HIDE DEF t
<1>5. Stored(l) BY <1>1, <1>3, <1>4, AfterBoth
<1>6. \A i \in 1 .. Len(t) : t[i].kind # "leaf" BY <1>2, <1>3
<1>7. Context(l, head) = Context(journal, head) BY <1>1, <1>3, <1>5, ContextStays
<1>8. ASSUME HasLeaf(journal) PROVE Left(l, head, made)
  <2>1. HasLeaf(l) /\ LatestLeaf(l) = head BY <1>1, <1>3, <1>5, <1>6, <1>8, LatestStays
  <2> HIDE DEF l
  <2> QED BY <2>1 DEF Left
<1>9. ASSUME ~ HasLeaf(journal) PROVE Left(l, head, made)
  <2>1. ~ HasLeaf(l) BY <1>1, <1>3, <1>5, <1>6, <1>9, LatestStays
  <2> DEFINE rows == Rows(journal, head)
  <2>2. Fresh BY <1>9
  <2>3. PICK n \in 1 .. Len(rows) : settling[k].replaces = Prefix(rows, n)
    BY <2>2 DEF Fresh, Planned
  <2>4. /\ l = journal \o <<CompactionEntry(head, Prefix(Rows(journal, head), n))>>
        /\ n \in 1 .. Len(Rows(journal, head))
    BY <2>3 DEF t, a
  <2>5. NoneOwed(Context(journal, head)) /\ Sound(Context(journal, head), made) /\ made \in Nat
    BY <2>2, FreshFinds DEF Fresh
  <2> HIDE DEF l, rows
  <2>6. LET x == Context(l, Len(l)) IN
        /\ Sound(x, made) /\ NoneOwed(x)
        /\ Said(Context(l, head)) \subseteq Said(x) \cup SummedIn(l, x)
    <3>1. Stored(journal) /\ head \in 0 .. Len(journal) BY <1>1
    <3> QED BY ONLY <2>4, <2>5, <3>1, CompactionKeeps
  <2> QED BY <2>1, <2>6 DEF Left
<1>10. Left(l, head, made) BY <1>8, <1>9
<1> HIDE DEF l
<1> QED BY <1>10 DEF l, t, a

LEMMA CrashLeaves ==
  ASSUME JournalInv, LeafInv, Crash
  PROVE  LeafInv'
<1>1. JournalType /\ Stored(journal) /\ journal \in Seq(Entry)
  BY DEF JournalInv, JournalType, Stored
<1>2. /\ pc # "down" /\ pc' = "down" /\ ~ detached' /\ settling' = <<>>
      /\ UNCHANGED <<head, reply, made>>
  BY DEF Crash, Attach
<1>3. (HasLeaf(journal) => LatestLeaf(journal) = head) /\ (~ HasLeaf(journal) => Fresh)
  BY <1>2 DEF LeafInv, Pointed, Young
<1>4. PICK tail \in Writing : journal' = journal \o tail BY DEF Crash
<1>5. Left(journal \o tail, head, made)
  <2>1. CASE tail = <<>>
    <3>1. journal \o tail = journal BY <1>1, <2>1
    <3> QED BY <1>1, <1>3, <3>1, LeftNothing
  <2> DEFINE all == Chain(Len(journal), head, Unsaved(memory, persisted))
  <2>2. CASE pc # "idle" /\ \E k \in DOMAIN all : tail = SubSeq(all, 1, k)
    <3>1. PICK k \in DOMAIN all : tail = SubSeq(all, 1, k) BY <2>2
    <3>2. k \in 1 .. Len(all)
      <4>1. all \in Seq(Entry)
        <5>1. Pairs(all, Len(journal), head, Unsaved(memory, persisted))
          BY <1>1, UnsavedType, ChainHasPairs DEF JournalType, Stored
        <5> QED BY <5>1 DEF Pairs
      <4> HIDE DEF all
      <4> QED BY <4>1
    <3> QED BY <1>1, <1>3, <2>2, <3>1, <3>2, LeftWriting
  <2>3. CASE \E k \in DOMAIN settling : tail = <<CompactionEntry(head, settling[k].replaces)>>
    BY <1>1, <1>3, <2>3, LeftCompaction
  <2> QED BY <1>4, <2>1, <2>2, <2>3 DEF Writing
<1>6. Left(journal', head', made') BY <1>2, <1>4, <1>5
<1>7. Pointed' /\ Young' /\ Fallen' BY <1>2, <1>6 DEF Pointed, Young, Fallen
<1> QED BY <1>2, <1>7 DEF LeafInv
\* More rows say more.
LEMMA SaidGrows ==
  ASSUME NEW j, Stored(j), NEW base \in 0 .. Len(j), NEW leaf \in 0 .. Len(j),
         StartsWith(Rows(j, leaf), Rows(j, base))
  PROVE  Said(Context(j, base)) \subseteq Said(Context(j, leaf))
<1> DEFINE b == Context(j, base)
           c == Context(j, leaf)
           rb == Rows(j, base)
           rc == Rows(j, leaf)
<1>1. /\ DOMAIN b = 1 .. Len(rb) /\ Len(rb) \in Nat /\ b \in Seq(Message)
      /\ \A i \in 1 .. Len(rb) : b[i] = rb[i].msg
  BY ContextIs
<1>2. /\ DOMAIN c = 1 .. Len(rc) /\ Len(rc) \in Nat /\ c \in Seq(Message)
      /\ \A i \in 1 .. Len(rc) : c[i] = rc[i].msg
  BY ContextIs
<1>3. Len(rb) <= Len(rc) /\ \A i \in 1 .. Len(rb) : rc[i] = rb[i] BY DEF StartsWith
<1> HIDE DEF rb, rc, b, c
<1>4. \A i \in DOMAIN b : i \in DOMAIN c /\ c[i] = b[i] BY <1>1, <1>2, <1>3
<1>5. ToSet(b) \subseteq ToSet(c) BY <1>4 DEF ToSet
<1>6. Said(b) \subseteq Said(c) BY <1>5 DEF Said
<1> QED BY <1>6 DEF b, c

\* What a restart finds.
LEMMA LoadFinds ==
  ASSUME JournalInv, LeafInv, pc = "down", NEW leaf, leaf = LatestLeaf(journal),
         NEW rep, rep = Repair(Rows(journal, leaf)), NEW l, l = journal \o rep
  PROVE  /\ Stored(l) /\ leaf \in 0 .. Len(journal) /\ rep \in Seq(Entry)
         /\ rep = <<>> => l = journal /\ NoneOwed(Context(journal, leaf))
         /\ rep # <<>> => HasLeaf(l)
         /\ ~ HasLeaf(journal) =>
              leaf = Len(journal) /\ Sound(Context(journal, leaf), made)
         /\ Said(Context(journal, head)) \subseteq Said(Context(l, LatestLeaf(l)))
              \cup (IF HasLeaf(l) THEN {} ELSE SummedIn(journal, Context(l, LatestLeaf(l))))
<1> DEFINE t == Context(journal, leaf)
           c == Context(journal, head)
<1>1. /\ Stored(journal) /\ leaf \in 0 .. Len(journal) /\ rep \in Seq(Entry) /\ After(Len(journal), rep)
      /\ head \in 0 .. Len(journal) /\ journal \in Seq(Entry)
  BY LatestLeafIsThere, RepairIsAfter DEF JournalInv, JournalType, Stored
<1>2. Stored(l) BY <1>1, AfterBoth
<1>3. rep = <<>> => l = journal BY <1>1
<1>4. Left(journal, head, made) BY DEF LeafInv, Fallen
<1>5. rep = <<>> => NoneOwed(t)
  <2> SUFFICES ASSUME rep = <<>> PROVE NoneOwed(t) OBVIOUS
  <2>1. NoneOwed(t) \/ \E same, w : Branches(rep, Rows(journal, leaf), same, w) BY <1>1, RepairIs
  <2>2. \A w : w \in Seq(Message) => Len(rep) # Len(w) + 1
    <3>1. Len(rep) = 0 OBVIOUS
    <3> QED BY <3>1
  <2> QED BY <2>1, <2>2 DEF Branches, Mended
<1>6. rep # <<>> => HasLeaf(l) /\ ~ NoneOwed(t) /\ Said(t) \subseteq Said(Context(l, LatestLeaf(l)))
  BY <1>1, RepairLosesNothing
<1>7. HasLeaf(journal) => Said(c) \subseteq Said(t) BY <1>4 DEF Left
<1>8. ~ HasLeaf(journal) =>
        /\ leaf = Len(journal) /\ Sound(t, made)
        /\ \/ NoneOwed(c) /\ Through(journal, head, leaf)
           \/ NoneOwed(t) /\ Said(c) \subseteq Said(t) \cup SummedIn(journal, t)
  <2> SUFFICES ASSUME ~ HasLeaf(journal)
               PROVE  /\ leaf = Len(journal) /\ Sound(t, made)
                      /\ \/ NoneOwed(c) /\ Through(journal, head, leaf)
                         \/ NoneOwed(t) /\ Said(c) \subseteq Said(t) \cup SummedIn(journal, t)
    OBVIOUS
  <2>1. leaf = Len(journal) BY <1>1, LatestExists
  <2> QED BY <1>4, <2>1 DEF Left
<1>9. ~ HasLeaf(journal) =>
        \/ Said(c) \subseteq Said(t)
        \/ NoneOwed(t) /\ Said(c) \subseteq Said(t) \cup SummedIn(journal, t)
  <2> QED BY <1>8, <1>1, SaidGrows DEF Through
<1> DEFINE u == Context(l, LatestLeaf(l))
<1> HIDE DEF t, c, u
<1>10. CASE rep # <<>>
  <2>1. HasLeaf(l) /\ ~ NoneOwed(t) /\ Said(t) \subseteq Said(u) BY <1>6, <1>10 DEF u
  <2>2. Said(c) \subseteq Said(t) BY <1>7, <1>9, <2>1
  <2>3. Said(c) \subseteq Said(u) BY <2>1, <2>2
  <2> QED BY <1>1, <1>2, <1>8, <1>10, <2>1, <2>3 DEF t, c, u
<1>11. CASE rep = <<>>
  <2>1. l = journal /\ u = t /\ NoneOwed(t) BY <1>3, <1>5, <1>11 DEF t, u
  <2>2. HasLeaf(l) => Said(c) \subseteq Said(u) BY <1>7, <2>1
  <2>3. ~ HasLeaf(l) => Said(c) \subseteq Said(u) \cup SummedIn(journal, u) BY <1>9, <2>1
  <2> QED BY <1>1, <1>2, <1>8, <1>11, <2>1, <2>2, <2>3 DEF t, c, u
<1> QED BY <1>10, <1>11

LEMMA LoadLeaves ==
  ASSUME JournalInv, LeafInv, Load
  PROVE  LeafInv'
<1> DEFINE leaf == LatestLeaf(journal)
           rep == Repair(Rows(journal, leaf))
           l == journal \o rep
<1>1. /\ pc = "down" /\ pc' = "idle" /\ journal' = l /\ head' = LatestLeaf(journal')
      /\ memory' = Context(journal', head') /\ UNCHANGED <<detached, settling, reply, made>>
  BY DEF Load
<1>2. /\ Stored(l) /\ leaf \in 0 .. Len(journal) /\ rep \in Seq(Entry)
      /\ rep = <<>> => l = journal /\ NoneOwed(Context(journal, leaf))
      /\ rep # <<>> => HasLeaf(l)
      /\ ~ HasLeaf(journal) => leaf = Len(journal) /\ Sound(Context(journal, leaf), made)
  <2>1. leaf = LatestLeaf(journal) /\ rep = Repair(Rows(journal, leaf)) /\ l = journal \o rep
    OBVIOUS
  <2>2. JournalInv /\ LeafInv /\ pc = "down" BY <1>1
  <2> HIDE DEF leaf, rep, l
  <2> QED BY ONLY <2>1, <2>2, LoadFinds
<1>3. ~ detached /\ settling = <<>> /\ reply.id <= made BY <1>1 DEF LeafInv, Fallen
<1> HIDE DEF rep, l
<1>4. ASSUME ~ HasLeaf(journal') PROVE Fresh'
  <2>1. rep = <<>> /\ journal' = journal /\ NoneOwed(Context(journal, leaf)) /\ ~ HasLeaf(journal)
    BY <1>1, <1>2, <1>4
  <2>2. head' = leaf /\ leaf = Len(journal) /\ Sound(Context(journal, leaf), made)
    BY <1>1, <1>2, <2>1
  <2> HIDE DEF leaf
  <2>3. head' = Len(journal') /\ memory' = Context(journal, leaf) /\ Context(journal', head') = Context(journal, leaf)
    BY <1>1, <2>1, <2>2
  <2>4. StartsWith(Context(journal, leaf), Context(journal, leaf))
    <3>1. Len(Context(journal, leaf)) \in Nat BY <1>2, ContextIs DEF JournalInv, JournalType
    <3> QED BY <3>1, StartsItself
  <2>5. Planned(settling', Rows(journal', head')) BY <1>1, <1>3 DEF Planned
  <2> QED BY <1>1, <2>3, <1>3, <2>1, <2>2, <2>4, <2>5 DEF Fresh
<1>5. Pointed' /\ Young' /\ Fallen' BY <1>1, <1>4 DEF Pointed, Young, Fallen
<1> QED BY <1>1, <1>3, <1>5 DEF LeafInv

LEMMA CrashInLoadLeaves ==
  ASSUME JournalInv, LeafInv, CrashInLoad
  PROVE  LeafInv'
<1> DEFINE leaf == LatestLeaf(journal)
           rep == Repair(Rows(journal, leaf))
           t == Context(journal, leaf)
           c == Context(journal, head)
<1>1. /\ Stored(journal) /\ leaf \in 0 .. Len(journal) /\ rep \in Seq(Entry) /\ After(Len(journal), rep)
      /\ head \in 0 .. Len(journal) /\ journal \in Seq(Entry) /\ Len(journal) \in Nat
  BY LatestLeafIsThere, RepairIsAfter DEF JournalInv, JournalType, Stored
<1>2. PICK k \in DOMAIN rep : journal' = journal \o SubSeq(rep, 1, k) BY DEF CrashInLoad
<1>3. k \in 1 .. Len(rep) /\ rep # <<>> /\ Len(rep) \in Nat BY <1>1
<1> DEFINE tail == SubSeq(rep, 1, k)
           l == journal \o tail
<1>4. /\ ~ detached /\ settling = <<>> /\ reply.id <= made /\ Left(journal, head, made) /\ pc = "down"
      /\ UNCHANGED <<head, detached, settling, reply, made, pc>>
  BY DEF LeafInv, Fallen, CrashInLoad, run
<1>5. ~ NoneOwed(t) /\ (k = Len(rep) => HasLeaf(l) /\ Said(t) \subseteq Said(Context(l, LatestLeaf(l))))
  <2>1. /\ HasLeaf(journal \o rep) /\ ~ NoneOwed(t)
        /\ Said(t) \subseteq Said(Context(journal \o rep, LatestLeaf(journal \o rep)))
    BY <1>1, <1>3, RepairLosesNothing
  <2>2. k = Len(rep) => l = journal \o rep BY <1>1, <1>3, SubSeqFull
  <2> HIDE DEF rep, l, t
  <2> QED BY <2>1, <2>2
<1>6. tail \in Seq(Entry) /\ Stored(l) /\ Context(l, head) = c /\ Context(l, leaf) = t
  <2>1. tail \in Seq(Entry) /\ After(Len(journal), tail) BY <1>1, <1>3, AfterPart
  <2> HIDE DEF tail
  <2>2. Stored(l) BY <1>1, <2>1, AfterBoth
  <2> QED BY <1>1, <2>1, <2>2, ContextStays
<1>7. k < Len(rep) => \A i \in 1 .. Len(tail) : tail[i].kind # "leaf"
  <2> SUFFICES ASSUME k < Len(rep) PROVE \A i \in 1 .. Len(tail) : tail[i].kind # "leaf" OBVIOUS
  <2> DEFINE rows == Rows(journal, leaf)
  <2>1. PICK same, w : Branches(rep, rows, same, w) BY <1>1, <1>3, RepairIs
  <2>2. \A i \in 1 .. k : tail[i].kind = "message"
    <3>1. Lined(journal \o SubSeq(rep, 1, k), rows[same].id, w, rep, k, IF k <= Len(w) THEN k ELSE Len(w))
      BY <1>1, <1>3, <2>1, RepairLine
    <3>2. k <= Len(w) BY <1>3, <2>1 DEF Branches, Mended
    <3> HIDE DEF rows, rep
    <3> QED BY <3>1, <3>2 DEF Lined
  <2>3. Len(tail) = k BY <1>1, <1>3
  <2> HIDE DEF tail
  <2> QED BY <2>2, <2>3
<1> HIDE DEF t, c
<1>8. ASSUME HasLeaf(journal) PROVE Left(l, head, made)
  <2>1. Said(c) \subseteq Said(t) BY <1>4, <1>8 DEF Left, t, c
  <2>2. HasLeaf(l) /\ Said(t) \subseteq Said(Context(l, LatestLeaf(l)))
    <3>1. CASE k = Len(rep) BY <1>5, <3>1
    <3>2. CASE k < Len(rep)
      <4>1. HasLeaf(l) /\ LatestLeaf(l) = leaf
        <5> HIDE DEF tail
        <5> QED BY <1>1, <1>6, <1>7, <1>8, <3>2, LatestStays
      <4> QED BY <1>6, <4>1
    <3> QED BY <1>3, <3>1, <3>2
  <2> HIDE DEF l
  <2> QED BY <2>2, <1>6, <2>1 DEF Left
<1>9. ASSUME ~ HasLeaf(journal) PROVE Left(l, head, made)
  <2>1. leaf = Len(journal) BY <1>1, <1>9, LatestExists
  <2>2. NoneOwed(c) /\ Through(journal, head, leaf) /\ Sound(t, made)
    BY <1>4, <1>5, <1>9, <2>1 DEF Left, t, c
  <2>3. CASE k = Len(rep)
    <3>1. Said(c) \subseteq Said(t) BY <1>1, <2>2, SaidGrows DEF Through, t, c
    <3> HIDE DEF l
    <3> QED BY <1>5, <1>6, <2>3, <3>1 DEF Left
  <2>4. CASE k < Len(rep)
    <3>1. /\ Len(l) = Len(journal) + k
          /\ Through(l, head, Len(l)) /\ Sound(Context(l, Len(l)), made)
      <4>1. NoneOwed(Context(journal, head)) /\ Sound(Context(journal, leaf), made) BY <2>2 DEF t, c
      <4>2. rep = Repair(Rows(journal, leaf)) /\ l = journal \o SubSeq(rep, 1, k) OBVIOUS
      <4>3. /\ Stored(journal) /\ head \in 0 .. Len(journal) /\ leaf \in 0 .. Len(journal)
            /\ Through(journal, head, leaf) /\ k \in 1 .. Len(rep) /\ k < Len(rep)
        BY <1>1, <1>3, <2>2, <2>4
      <4> HIDE DEF leaf, rep, tail, l
      <4>4. Resumes(l, k, made) BY ONLY <4>1, <4>2, <4>3, RepairPart
      <4> QED BY <4>4 DEF Resumes
    <3>2. ~ HasLeaf(l)
      <4> HIDE DEF tail
      <4> QED BY <1>1, <1>6, <1>7, <1>9, <2>4, LatestStays
    <3> HIDE DEF l
    <3> QED BY <1>6, <2>2, <3>1, <3>2 DEF Left
  <2> QED BY <1>3, <2>3, <2>4
<1>10. Left(journal', head', made')
  <2>1. Left(l, head, made) /\ journal' = l BY <1>2, <1>8, <1>9
  <2> HIDE DEF l
  <2> QED BY <1>4, <2>1
<1>11. Pointed' /\ Young' /\ Fallen' BY <1>4, <1>10 DEF Pointed, Young, Fallen
<1> QED BY <1>4, <1>11 DEF LeafInv
LEMMA LeafStarts == JournalInit => LeafInv
<1> SUFFICES ASSUME JournalInit PROVE LeafInv OBVIOUS
<1>1. /\ journal = <<>> /\ memory = <<>> /\ head = 0 /\ ~ detached /\ pc = "idle" /\ settling = <<>>
      /\ made = 0 /\ reply = NoReply
  BY DEF JournalInit
<1>2. reply.id <= made BY <1>1 DEF NoReply, Msg
<1>3. Context(journal, head) = <<>>
  <2>1. Stored(<<>>) BY DEF Stored, After
  <2>2. Rows(<<>>, 0) = <<>> BY <2>1, RowsOfNone
  <2> QED BY <1>1, <2>2 DEF Context, Messages
<1>4. Fresh
  <2>1. NoneOwed(<<>>) /\ Sound(<<>>, 0) BY DEF NoneOwed, Sound, Sequenced, Dated, Is
  <2>2. StartsWith(<<>>, <<>>) BY DEF StartsWith
  <2>3. Planned(<<>>, Rows(journal, head)) BY DEF Planned
  <2> QED BY <1>1, <1>3, <2>1, <2>2, <2>3 DEF Fresh
<1>5. ~ HasLeaf(journal) BY <1>1 DEF HasLeaf
<1> QED BY <1>1, <1>2, <1>4, <1>5 DEF LeafInv, Pointed, Young, Fallen

LEMMA LeavesStay == LeafInv /\ UNCHANGED journalVars => LeafInv'
BY DEF LeafInv, Pointed, Young, Fallen, Fresh, journalVars, run

LEMMA LeafSteps == JournalInv /\ LeafInv /\ [JournalNext]_journalVars => LeafInv'
<1> SUFFICES ASSUME JournalInv, LeafInv, [JournalNext]_journalVars PROVE LeafInv' OBVIOUS
<1>1. JournalInv' BY JournalSteps
<1> QED
  BY <1>1, PromptLeaves, ContinueLeaves, OpenLeaves, InjectLeaves, AnswerLeaves, TakeAnswerLeaves,
     ShowResultLeaves, StoreResultLeaves, EndRunLeaves, CancelLeaves, RaiseLeaves,
     TerminalOutputLeaves, StartCompactionLeaves, FinishCompactionLeaves, AbandonCompactionLeaves,
     BranchLeaves, CrashLeaves, LoadLeaves, CrashInLoadLeaves, LeavesStay DEF JournalNext, Run

\* What a calm session loads has the results of every call directly behind it, wherever the old
\* process died: load repairs in place, and a repair that was itself cut off is completed by the
\* next one.
LEMMA LoadCloses == CalmInv /\ [Next]_vars => [Load /\ Calm => Closed(memory')]_journalVars
<1> SUFFICES ASSUME CalmInv, [Next]_vars, Load, Calm PROVE Closed(memory') OBVIOUS
<1>1. JournalInv /\ Orderly /\ CalmInv' /\ scene' = scene /\ Calm'
  BY CalmSteps DEF CalmInv, Next, JournalNext, vars, journalVars, Calm
<1>2. Full(memory') BY <1>1, LoadOrders
<1>3. JournalInv' /\ Orderly' BY <1>1 DEF CalmInv
<1>4. memory' \in Seq(Message) BY <1>3 DEF JournalInv, JournalType
<1>5. scene.calls \in Nat BY <1>1, CallsType DEF JournalInv
<1>6. pc' = "idle" BY DEF Load
<1>7. Neat(memory', scene.calls, made') BY <1>1, <1>3, <1>6 DEF Orderly, InOrder
<1> QED BY <1>2, <1>4, <1>5, <1>7, NeatIsClosed

\* A restart loses nothing that was written: what load returns has every message of the branch that
\* was active when the process died, or a summary of it that was written - whatever the user did,
\* wherever the process died, and however often it died again while load repaired the branch.  In a
\* calm session the results stand directly behind their calls, too (_load_latest_branch,
\* _persist_loaded_interrupted_tool_repairs).
THEOREM RestartsAreSound == Spec => RestartIsSound
<1>1. Init => CalmInv /\ LeafInv BY CalmStarts, LeafStarts DEF Init
<1>2. CalmInv /\ LeafInv /\ [Next]_vars => CalmInv' /\ LeafInv'
  <2> SUFFICES ASSUME CalmInv, LeafInv, [Next]_vars PROVE CalmInv' /\ LeafInv' OBVIOUS
  <2>1. [JournalNext]_journalVars BY DEF Next, vars, journalVars
  <2> QED BY <2>1, CalmSteps, LeafSteps DEF CalmInv
<1>3. CalmInv /\ LeafInv /\ [Next]_vars
        => [Load => Said(Context(journal, head)) \subseteq Said(memory') \cup SummedUp(memory')]_journalVars
  <2> SUFFICES ASSUME CalmInv, LeafInv, Load
               PROVE  Said(Context(journal, head)) \subseteq Said(memory') \cup SummedUp(memory')
    OBVIOUS
  <2> DEFINE leaf == LatestLeaf(journal)
             rep == Repair(Rows(journal, leaf))
             l == journal \o rep
             u == Context(l, LatestLeaf(l))
  <2>1. pc = "down" /\ memory' = u BY DEF Load
  <2>2. Said(Context(journal, head)) \subseteq Said(u) \cup (IF HasLeaf(l) THEN {} ELSE SummedIn(journal, u))
    <3>1. leaf = LatestLeaf(journal) /\ rep = Repair(Rows(journal, leaf)) /\ l = journal \o rep
      OBVIOUS
    <3>2. JournalInv /\ LeafInv /\ pc = "down" BY <2>1 DEF CalmInv
    <3> HIDE DEF leaf, rep, l
    <3> QED BY ONLY <3>1, <3>2, LoadFinds
  <2> HIDE DEF l, u
  <2>3. SummedUp(u) = SummedIn(journal, u) BY DEF SummedUp, SummedIn
  <2>4. ASSUME NEW t, t = memory' PROVE SummedUp(memory') = SummedUp(t) BY <2>4 DEF SummedUp
  <2>5. Said(memory') = Said(u) BY <2>1 DEF Said
  <2> QED BY <2>1, <2>2, <2>3, <2>5 DEF SummedUp, SummedIn
<1>4. CalmInv /\ LeafInv /\ [Next]_vars
        => [Load => /\ Said(Context(journal, head)) \subseteq Said(memory') \cup SummedUp(memory')
                    /\ Calm => Closed(memory')]_journalVars
  BY <1>3, LoadCloses
<1> QED BY <1>1, <1>2, <1>4, PTL DEF Spec, RestartIsSound
=============================================================================
