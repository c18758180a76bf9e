---------------------------- MODULE SessionProofs ----------------------------
(***************************************************************************)
(* Theorems about Session, for every value of the constants.               *)
(*                                                                         *)
(* Whether to compact is decided by an estimate that starts from a report  *)
(* of a provider.  Reports says of each report what it counted: what is in *)
(* front of it now, unless a message there is younger, and what cut runs   *)
(* left out of the file.  It holds of the list, of the file and of the     *)
(* branch that the last compaction left, because Behind says by how much   *)
(* the file is behind the list: by what the run is about to write, and by  *)
(* what was lost.                                                          *)
(*                                                                         *)
(* The journal is a tree whose entries come after their parents, so that   *)
(* the rows of a path are defined and stay what they are when entries are  *)
(* written behind it.  Written says of a run how much of what it added is  *)
(* at the end of the branch on disk.                                       *)
(*                                                                         *)
(* In a calm session, every list of messages that comes up is Neat: the    *)
(* results of a reply are directly behind it, and only the last reply can  *)
(* lack some, with nothing else behind.  Neat lists stay so in everything  *)
(* that is done to them, and Orderly says that the transcript and every    *)
(* context of the journal are, and when the transcript lacks nothing.      *)
(***************************************************************************)
EXTENDS Session, SequenceLemmas
------------------------------------------------------------------------------
(* Sizes *)

Role == {"user", "assistant", "result", "summary", "none"}
Listing == [role : Role, size : Nat, at : Nat, usage : Nat]

\* f[i] is the size of the first i messages.
Sums(f, ms) ==
  /\ f \in [0 .. Len(ms) -> Nat] /\ f[0] = 0
  /\ \A i \in 1 .. Len(ms) : f[i] = f[i - 1] + ms[i].size

LEMMA SumsExist ==
  ASSUME NEW ms \in Seq(Listing)
  PROVE  \E f : Sums(f, ms) /\ Size(ms) = f[Len(ms)]
<1> DEFINE n == Len(ms)
           next == [x \in (1 .. n) \X Nat |-> x[2] + ms[x[1]].size]
           IsSum(g) == g = [i \in 0 .. n |-> IF i = 0 THEN 0 ELSE g[i - 1] + ms[i].size]
           sum == CHOOSE g : IsSum(g)
<1>1. n \in Nat /\ ms \in [1 .. n -> Listing] OBVIOUS
<1>2. \A i \in 1 .. n : ms[i].size \in Nat BY <1>1 DEF Listing
<1>3. next \in [(1 .. n) \X Nat -> Nat]
  <2>1. ASSUME NEW x \in (1 .. n) \X Nat PROVE x[2] + ms[x[1]].size \in Nat BY <1>2
  <2> QED BY <2>1
<1>4. \A i \in 1 .. n, v \in Nat : next[<<i, v>>] = v + ms[i].size OBVIOUS
<1> HIDE DEF next
<1>5. PICK f : IteratesTo(f, n, Nat, 0, next) BY <1>1, <1>3, FiniteRecursion
<1>6. f \in [0 .. n -> Nat] /\ f = [i \in 0 .. n |-> IF i = 0 THEN 0 ELSE next[<<i, f[i - 1]>>]]
  BY <1>5 DEF IteratesTo
<1>7. IsSum(f)
  <2>1. ASSUME NEW i \in 0 .. n
        PROVE  (IF i = 0 THEN 0 ELSE next[<<i, f[i - 1]>>])
                 = (IF i = 0 THEN 0 ELSE f[i - 1] + ms[i].size)
    <3>1. i # 0 => i \in 1 .. n /\ i - 1 \in 0 .. n BY <1>1
    <3>2. i # 0 => f[i - 1] \in Nat BY <1>6, <3>1
    <3> QED BY <1>4, <3>1, <3>2
  <2> QED BY <1>6, <2>1
<1>8. IsSum(sum)
  <2> HIDE DEF IsSum
  <2> QED BY <1>7
<1>9. sum \in [0 .. n -> Nat]
  <2> DEFINE U == {i \in Nat : i <= n => sum[i] \in Nat}
  <2>1. 0 \in U
    <3> HIDE DEF sum
    <3>1. 0 \in 0 .. n BY <1>1
    <3>2. sum[0] = 0 BY <1>8, <3>1
    <3> QED BY <3>2
  <2>2. ASSUME NEW i \in Nat, i \in U PROVE i + 1 \in U
    <3> SUFFICES ASSUME i + 1 <= n PROVE sum[i + 1] \in Nat OBVIOUS
    <3> HIDE DEF sum
    <3>1. sum[i + 1] = sum[i] + ms[i + 1].size BY <1>1, <1>8
    <3>2. sum[i] \in Nat /\ ms[i + 1].size \in Nat BY <1>1, <1>2, <2>2
    <3> QED BY <3>1, <3>2
  <2>3. \A i \in Nat : i \in U
    <3> HIDE DEF U
    <3> QED BY <2>1, <2>2, Induction
  <2> HIDE DEF sum
  <2> QED BY <1>1, <1>8, <2>3
<1>10. Size(ms) = sum[n] BY DEF Size
<1>11. Sums(sum, ms)
  <2> HIDE DEF sum
  <2> QED BY <1>1, <1>8, <1>9, SMTT(30) DEF Sums
<1> QED BY <1>10, <1>11

LEMMA SumsAgree ==
  ASSUME NEW ms \in Seq(Listing), NEW ns \in Seq(Listing), NEW f, NEW g,
         Sums(f, ms), Sums(g, ns), NEW n \in Nat, n <= Len(ms), n <= Len(ns),
         \A i \in 1 .. n : ms[i].size = ns[i].size
  PROVE  f[n] = g[n]
<1> DEFINE U == {i \in Nat : i <= n => f[i] = g[i]}
<1>1. 0 \in U BY DEF Sums
<1>2. ASSUME NEW i \in Nat, i \in U PROVE i + 1 \in U
  <2> SUFFICES ASSUME i + 1 <= n PROVE f[i + 1] = g[i + 1] OBVIOUS
  <2>1. i + 1 \in 1 .. Len(ms) /\ i + 1 \in 1 .. Len(ns) /\ (i + 1) - 1 = i OBVIOUS
  <2> QED BY <1>2, <2>1 DEF Sums
<1>3. \A i \in Nat : i \in U
  <2> HIDE DEF U
  <2> QED BY <1>1, <1>2, Induction
<1> QED BY <1>3

LEMMA SizeIsNat ==
  ASSUME NEW ms \in Seq(Listing)
  PROVE  Size(ms) \in Nat
<1>1. PICK f : Sums(f, ms) /\ Size(ms) = f[Len(ms)] BY SumsExist
<1> QED BY <1>1 DEF Sums

LEMMA SizeOfNone == Size(<<>>) = 0
<1>1. <<>> \in Seq(Listing) /\ Len(<<>>) = 0 OBVIOUS
<1>2. PICK f : Sums(f, <<>>) /\ Size(<<>>) = f[0] BY <1>1, SumsExist
<1> QED BY <1>2 DEF Sums

\* Messages with the same sizes.
LEMMA SizeOfSame ==
  ASSUME NEW ms \in Seq(Listing), NEW ns \in Seq(Listing), Len(ms) = Len(ns),
         \A i \in 1 .. Len(ms) : ms[i].size = ns[i].size
  PROVE  Size(ms) = Size(ns)
<1>1. PICK f : Sums(f, ms) /\ Size(ms) = f[Len(ms)] BY SumsExist
<1>2. PICK g : Sums(g, ns) /\ Size(ns) = g[Len(ns)] BY SumsExist
<1>3. Len(ms) \in Nat OBVIOUS
<1>4. f[Len(ms)] = g[Len(ms)] BY <1>1, <1>2, <1>3, SumsAgree
<1> QED BY <1>1, <1>2, <1>4

LEMMA SizeOfBoth ==
  ASSUME NEW ms \in Seq(Listing), NEW ns \in Seq(Listing)
  PROVE  Size(ms \o ns) = Size(ms) + Size(ns)
<1> DEFINE a == Len(ms)
           b == Len(ns)
<1>1. a \in Nat /\ b \in Nat /\ ms \o ns \in Seq(Listing) /\ Len(ms \o ns) = a + b OBVIOUS
<1>2. PICK f : Sums(f, ms) /\ Size(ms) = f[a] BY SumsExist
<1>3. PICK g : Sums(g, ns) /\ Size(ns) = g[b] BY SumsExist
<1>4. PICK h : Sums(h, ms \o ns) /\ Size(ms \o ns) = h[a + b] BY <1>1, SumsExist
<1>5. h[a] = f[a]
  <2> DEFINE all == ms \o ns
  <2>1. \A i \in 1 .. a : ms[i].size = all[i].size BY <1>1
  <2>2. a <= Len(all) /\ a <= Len(ms) /\ Sums(f, ms) /\ Sums(h, all) /\ all \in Seq(Listing)
    BY <1>1, <1>2, <1>4
  <2> HIDE DEF all
  <2>3. f[a] = h[a] BY <1>1, <2>1, <2>2, SumsAgree
  <2> QED BY <2>3
<1>6. \A j \in 0 .. b : g[j] \in Nat BY <1>3 DEF Sums
<1>7. f[a] \in Nat BY <1>1, <1>2 DEF Sums
<1> DEFINE U == {j \in Nat : j <= b => h[a + j] = f[a] + g[j]}
<1>8. 0 \in U
  <2>1. g[0] = 0 BY <1>3 DEF Sums
  <2>2. a + 0 = a /\ f[a] + 0 = f[a] BY <1>1, <1>7
  <2> QED BY <1>5, <2>1, <2>2
<1>9. ASSUME NEW j \in Nat, j \in U PROVE j + 1 \in U
  <2> SUFFICES ASSUME j + 1 <= b PROVE h[a + (j + 1)] = f[a] + g[j + 1] OBVIOUS
  <2>1. a + (j + 1) \in 1 .. a + b /\ j + 1 \in 1 .. b /\ (j + 1) - 1 = j
        /\ (a + (j + 1)) - 1 = a + j
    BY <1>1
  <2>2. (ms \o ns)[a + (j + 1)] = ns[j + 1] BY <1>1, <2>1
  <2>3. h[a + (j + 1)] = h[a + j] + ns[j + 1].size BY <1>1, <1>4, <2>1, <2>2 DEF Sums
  <2>4. g[j + 1] = g[j] + ns[j + 1].size BY <1>3, <2>1 DEF Sums
  <2>5. h[a + j] = f[a] + g[j] /\ g[j] \in Nat BY <1>6, <1>9, <2>1
  <2>6. ns[j + 1].size \in Nat
    <3>1. ns[j + 1] \in Listing BY <2>1
    <3> QED BY <3>1 DEF Listing
  <2> QED BY <1>7, <2>3, <2>4, <2>5, <2>6
<1>10. \A j \in Nat : j \in U
  <2> HIDE DEF U
  <2> QED BY <1>8, <1>9, Induction
<1>11. h[a + b] = f[a] + g[b] BY <1>1, <1>10
<1> QED BY <1>2, <1>3, <1>4, <1>11
------------------------------------------------------------------------------
(* The front of a list *)

LEMMA FrontSize ==
  ASSUME NEW ms \in Seq(Listing), NEW i \in 0 .. Len(ms), NEW j \in i .. Len(ms)
  PROVE  Size(SubSeq(ms, 1, j)) = Size(SubSeq(ms, 1, i)) + Size(SubSeq(ms, i + 1, j))
<1> DEFINE a == SubSeq(ms, 1, i)
           b == SubSeq(ms, i + 1, j)
<1>1. a \in Seq(Listing) /\ b \in Seq(Listing) /\ SubSeq(ms, 1, j) = a \o b BY FrontType
<1> HIDE DEF a, b
<1>2. Size(a \o b) = Size(a) + Size(b) BY <1>1, SizeOfBoth
<1> QED BY <1>1, <1>2 DEF a, b

LEMMA WholeSize ==
  ASSUME NEW ms \in Seq(Listing), NEW i \in 0 .. Len(ms)
  PROVE  Size(ms) = Size(SubSeq(ms, 1, i)) + Size(SubSeq(ms, i + 1, Len(ms)))
<1>1. SubSeq(ms, 1, Len(ms)) = ms BY SubSeqFull
<1>2. Len(ms) \in i .. Len(ms) OBVIOUS
<1> QED BY <1>1, <1>2, FrontSize

LEMMA FrontIntoBoth ==
  ASSUME NEW ms \in Seq(Listing), NEW ns \in Seq(Listing), NEW i \in 1 .. Len(ns)
  PROVE  Size(SubSeq(ms \o ns, 1, Len(ms) + i)) = Size(ms) + Size(SubSeq(ns, 1, i))
<1> DEFINE all == ms \o ns
           a == SubSeq(all, 1, Len(ms))
           b == SubSeq(all, Len(ms) + 1, Len(ms) + i)
<1>1. all \in Seq(Listing) /\ Len(all) = Len(ms) + Len(ns) OBVIOUS
<1>2. b = SubSeq(ns, 1, i)
  <2>1. Len(ms) + 1 \in Len(ms) + 1 .. Len(ms) + Len(ns)
        /\ Len(ms) + i \in Len(ms) + 1 .. Len(ms) + Len(ns)
        /\ (Len(ms) + 1) - Len(ms) = 1 /\ (Len(ms) + i) - Len(ms) = i
    OBVIOUS
  <2> HIDE DEF all
  <2> QED BY <2>1, SubSeqOfConcat2 DEF all
<1>3. a = ms
  <2>1. \A k \in 1 .. Len(ms) : a[k] = ms[k] OBVIOUS
  <2>2. a \in Seq(Listing) /\ Len(a) = Len(ms) BY <1>1
  <2> HIDE DEF a
  <2> QED BY <2>1, <2>2, SeqEqual
<1>4. Size(SubSeq(all, 1, Len(ms) + i)) = Size(a) + Size(b)
  <2> HIDE DEF all
  <2> QED BY <1>1, FrontSize, SMTT(30)
<1> QED BY <1>2, <1>3, <1>4

LEMMA SizeOfOne ==
  ASSUME NEW m \in Listing
  PROVE  <<m>> \in Seq(Listing) /\ Len(<<m>>) = 1 /\ Size(<<m>>) = m.size
<1>1. <<m>> \in Seq(Listing) /\ Len(<<m>>) = 1 /\ <<m>>[1] = m OBVIOUS
<1> DEFINE s == <<m>>
<1> HIDE DEF s
<1>2. PICK f : Sums(f, s) /\ Size(s) = f[Len(s)] BY <1>1, SumsExist DEF s
<1>3. Len(s) = 1 /\ s[1] = m BY <1>1 DEF s
<1>4. f[0] = 0 /\ f[1] = f[1 - 1] + m.size BY <1>2, <1>3 DEF Sums
<1>5. m.size \in Nat BY DEF Listing
<1>6. Size(s) = m.size BY <1>2, <1>3, <1>4, <1>5
<1> QED BY <1>1, <1>6 DEF s

LEMMA SizeOfOneMore ==
  ASSUME NEW ms \in Seq(Listing), NEW m \in Listing
  PROVE  Append(ms, m) = ms \o <<m>> /\ Size(Append(ms, m)) = Size(ms) + m.size
<1>1. Append(ms, m) = ms \o <<m>> BY AppendIsConcat
<1> QED BY <1>1, SizeOfOne, SizeOfBoth
------------------------------------------------------------------------------
(* Reports of providers *)

Between(x, low, gap) == low <= x /\ x <= low + gap

\* No message is of the future, and only answers come with a report.
Known(ms, time) ==
  \A i \in 1 .. Len(ms) : ms[i].at <= time /\ (ms[i].usage > 0 => ms[i].role = "assistant")

\* A report that applies counted what is in front of it and its answer, and gap at most besides.
Reports(ms, gap) ==
  \A i \in Anchors(ms) : Between(ms[i].usage, Fixed + Size(SubSeq(ms, 1, i)), gap)

\* The reports of answers behind a place, of this run, counted just what is in front of them.
Exact(ms, count) ==
  \A i \in count + 1 .. Len(ms) : ms[i].usage > 0 => ms[i].usage = Fixed + Size(SubSeq(ms, 1, i))

LEMMA ReportsWiden ==
  ASSUME NEW ms \in Seq(Listing), NEW g \in Nat, NEW h \in Nat, g <= h, Reports(ms, g)
  PROVE  Reports(ms, h)
<1> SUFFICES ASSUME NEW i \in Anchors(ms)
             PROVE  Between(ms[i].usage, Fixed + Size(SubSeq(ms, 1, i)), h)
  BY DEF Reports
<1>1. i \in 1 .. Len(ms) BY DEF Anchors
<1>2. SubSeq(ms, 1, i) \in Seq(Listing) /\ ms[i] \in Listing BY <1>1
<1>3. Size(SubSeq(ms, 1, i)) \in Nat /\ ms[i].usage \in Nat /\ Fixed \in Nat
  BY <1>2, SizeIsNat, BudgetAssumption DEF Listing
<1>4. Between(ms[i].usage, Fixed + Size(SubSeq(ms, 1, i)), g) BY DEF Reports
<1> QED BY <1>3, <1>4 DEF Between

\* A message at the end.
LEMMA ReportsAppend ==
  ASSUME NEW ms \in Seq(Listing), NEW m \in Listing, NEW gap \in Nat, Reports(ms, gap),
         m.usage > 0 => m.usage = Total(ms) + m.size
  PROVE  Reports(Append(ms, m), gap)
<1> DEFINE all == Append(ms, m)
<1>1. all = ms \o <<m>> /\ <<m>> \in Seq(Listing) /\ Size(all) = Size(ms) + m.size
  BY SizeOfOne, SizeOfOneMore
<1>2. all \in Seq(Listing) /\ Len(all) = Len(ms) + 1 /\ all[Len(ms) + 1] = m
      /\ \A k \in 1 .. Len(ms) : all[k] = ms[k]
  OBVIOUS
<1>3. SubSeq(all, 1, Len(ms) + 1) = all BY <1>2, SubSeqFull
<1>4. ASSUME NEW i \in 1 .. Len(ms) PROVE SubSeq(all, 1, i) = SubSeq(ms, 1, i) BY <1>1, FrontOfBoth
<1> HIDE DEF all
<1> SUFFICES ASSUME NEW i \in Anchors(all)
             PROVE  Between(all[i].usage, Fixed + Size(SubSeq(all, 1, i)), gap)
  BY DEF Reports, all
<1>5. i \in 1 .. Len(ms) + 1 /\ all[i].usage > 0 /\ \A j \in 1 .. i - 1 : all[j].at <= all[i].at
  BY <1>2 DEF Anchors
<1>6. CASE i = Len(ms) + 1
  <2>1. all[i].usage = Fixed + Size(ms) + m.size BY <1>2, <1>5, <1>6 DEF Total
  <2>2. Size(ms) \in Nat /\ m.size \in Nat /\ Fixed \in Nat
    BY SizeIsNat, BudgetAssumption DEF Listing
  <2>3. Size(SubSeq(all, 1, i)) = Size(ms) + m.size BY <1>1, <1>3, <1>6
  <2> QED BY <2>1, <2>2, <2>3 DEF Between
<1>7. CASE i \in 1 .. Len(ms)
  <2>1. all[i] = ms[i] /\ \A j \in 1 .. i - 1 : all[j] = ms[j] BY <1>2, <1>7
  <2>2. i \in Anchors(ms) BY <1>5, <1>7, <2>1 DEF Anchors
  <2> QED BY <1>4, <1>7, <2>1, <2>2 DEF Reports
<1> QED BY <1>5, <1>6, <1>7

\* What a run adds to the file, which lacks gap of what is in front of that in the list.
LEMMA ReportsStored ==
  ASSUME NEW ms \in Seq(Listing), NEW ns \in Seq(Listing), NEW count \in 0 .. Len(ns),
         NEW gap \in Nat, Reports(ms, gap), Exact(ns, count),
         Between(Size(SubSeq(ns, 1, count)), Size(ms), gap)
  PROVE  Reports(ms \o SubSeq(ns, count + 1, Len(ns)), gap)
<1> DEFINE new == SubSeq(ns, count + 1, Len(ns))
           all == ms \o new
<1>1. new \in Seq(Listing) /\ Len(new) = Len(ns) - count
      /\ \A k \in 1 .. Len(ns) - count : new[k] = ns[count + k]
  BY FrontType
<1>2. ASSUME NEW k \in 1 .. Len(new)
      PROVE  Size(SubSeq(ns, 1, count + k))
               = Size(SubSeq(ns, 1, count)) + Size(SubSeq(new, 1, k))
  <2>1. count + k \in count .. Len(ns) BY <1>1
  <2>2. SubSeq(new, 1, k) = SubSeq(ns, count + 1, count + k)
    <3> DEFINE a == SubSeq(ns, count + 1, count + k)
               b == SubSeq(new, 1, k)
    <3>1. a \in Seq(Listing) /\ Len(a) = k /\ \A h \in 1 .. k : a[h] = ns[count + h]
      <4>1. (count + k) - count = k OBVIOUS
      <4> QED BY <2>1, <4>1, FrontType
    <3>2. b \in Seq(Listing) /\ Len(b) = k /\ \A h \in 1 .. k : b[h] = new[h]
      <4> HIDE DEF new
      <4> QED BY <1>1
    <3>3. ASSUME NEW h \in 1 .. k PROVE a[h] = b[h]
      <4> HIDE DEF a, b, new
      <4>1. h \in 1 .. Len(ns) - count BY <1>1
      <4>2. new[h] = ns[count + h] BY <1>1, <4>1
      <4> QED BY <3>1, <3>2, <4>2
    <3> HIDE DEF a, b
    <3>4. a = b BY <3>1, <3>2, <3>3, SeqEqual
    <3> QED BY <3>4 DEF a, b
  <2> QED BY <2>1, FrontSize, <2>2
<1> HIDE DEF new
<1>3. all \in Seq(Listing) /\ Len(all) = Len(ms) + Len(new)
      /\ (\A k \in 1 .. Len(ms) : all[k] = ms[k]) /\ (\A k \in 1 .. Len(new) : all[Len(ms) + k] = new[k])
  <2>1. new \in Seq(Listing) BY <1>1
  <2>2. \A k \in 1 .. Len(ms) : all[k] = ms[k] BY <2>1
  <2>3. \A k \in 1 .. Len(new) : all[Len(ms) + k] = new[k] BY <2>1
  <2> QED BY <2>1, <2>2, <2>3
<1>4. ASSUME NEW i \in 1 .. Len(ms) PROVE SubSeq(all, 1, i) = SubSeq(ms, 1, i) BY <1>1, FrontOfBoth
<1>5. ASSUME NEW k \in 1 .. Len(new)
      PROVE  Size(SubSeq(all, 1, Len(ms) + k)) = Size(ms) + Size(SubSeq(new, 1, k))
  BY <1>1, FrontIntoBoth
<1> HIDE DEF all
<1> SUFFICES ASSUME NEW i \in Anchors(all)
             PROVE  Between(all[i].usage, Fixed + Size(SubSeq(all, 1, i)), gap)
  BY DEF Reports, all, new
<1>6. i \in 1 .. Len(ms) + Len(new) /\ all[i].usage > 0
      /\ \A j \in 1 .. i - 1 : all[j].at <= all[i].at
  BY <1>3 DEF Anchors
<1>7. CASE i \in 1 .. Len(ms)
  <2>1. all[i] = ms[i] /\ \A j \in 1 .. i - 1 : all[j] = ms[j] BY <1>3, <1>7
  <2>2. i \in Anchors(ms) BY <1>6, <1>7, <2>1 DEF Anchors
  <2> QED BY <1>4, <1>7, <2>1, <2>2 DEF Reports
<1>8. CASE i \notin 1 .. Len(ms)
  <2> DEFINE k == i - Len(ms)
  <2>1. k \in 1 .. Len(new) /\ Len(ms) + k = i BY <1>1, <1>6, <1>8
  <2> HIDE DEF k
  <2>2. all[i] = ns[count + k] /\ count + k \in count + 1 .. Len(ns) BY <1>1, <1>3, <2>1
  <2>3. all[i].usage = Fixed + Size(SubSeq(ns, 1, count + k)) BY <1>6, <2>2 DEF Exact
  <2> DEFINE a == Size(SubSeq(ns, 1, count))
             b == Size(SubSeq(new, 1, k))
             c == Size(SubSeq(all, 1, i))
             d == Size(SubSeq(ns, 1, count + k))
  <2>4. a \in Nat /\ b \in Nat
    <3>1. SubSeq(ns, 1, count) \in Seq(Listing) /\ SubSeq(new, 1, k) \in Seq(Listing) BY <1>1, <2>1
    <3> QED BY <3>1, SizeIsNat
  <2>5. d = a + b /\ c = Size(ms) + b BY <1>2, <1>5, <2>1
  <2>6. Size(ms) \in Nat /\ Fixed \in Nat /\ all[i].usage = Fixed + d
    BY <2>3, SizeIsNat, BudgetAssumption
  <2>7. Size(ms) <= a /\ a <= Size(ms) + gap BY DEF Between
  <2> HIDE DEF a, b, c, d
  <2>8. Fixed + c <= all[i].usage /\ all[i].usage <= (Fixed + c) + gap BY <2>4, <2>5, <2>6, <2>7, SMTT(30)
  <2> QED BY <2>8 DEF Between, c
<1> QED BY <1>7, <1>8

\* A summary in front is younger than all that follows.
LEMMA ReportsReplaced ==
  ASSUME NEW ms \in Seq(Listing), NEW n \in 0 .. Len(ms), NEW time \in Nat, Known(ms, time),
         NEW gap \in Nat, NEW m \in Listing, m.at = time + 1, m.usage = 0
  PROVE  Reports(<<m>> \o SubSeq(ms, n + 1, Len(ms)), gap)
<1> DEFINE rest == SubSeq(ms, n + 1, Len(ms))
           all == <<m>> \o rest
<1>1. rest \in Seq(Listing) /\ Len(rest) = Len(ms) - n
      /\ \A k \in 1 .. Len(ms) - n : rest[k] = ms[n + k]
  BY FrontType
<1> HIDE DEF rest
<1>2. all[1] = m /\ Len(all) = 1 + Len(rest) /\ \A k \in 1 .. Len(rest) : all[1 + k] = rest[k]
  BY <1>1, SMTT(30)
<1> HIDE DEF all
<1> SUFFICES ASSUME NEW i \in Anchors(all) PROVE FALSE BY DEF Reports, all, rest
<1>3. i \in 1 .. 1 + Len(rest) /\ all[i].usage > 0 /\ \A j \in 1 .. i - 1 : all[j].at <= all[i].at
  BY <1>2 DEF Anchors
<1>4. i # 1 BY <1>2, <1>3
<1>5. all[i] = ms[n + (i - 1)] /\ n + (i - 1) \in 1 .. Len(ms)
  <2>1. i - 1 \in 1 .. Len(rest) /\ 1 + (i - 1) = i BY <1>1, <1>3, <1>4
  <2>2. all[i] = rest[i - 1] BY <1>2, <2>1
  <2> QED BY <1>1, <2>1, <2>2, SMTT(30)
<1>6. all[i].at <= time /\ all[i].at \in Nat
  <2>1. ms[n + (i - 1)] \in Listing BY <1>5
  <2> QED BY <1>5, <2>1 DEF Known, Listing
<1>7. all[1].at <= all[i].at BY <1>3, <1>4
<1> QED BY <1>2, <1>6, <1>7
\* A context built anew from the file.
LEMMA ReportsRebuilt ==
  ASSUME NEW ms \in Seq(Listing), NEW time \in Nat, Known(ms, time), NEW gap \in Nat,
         Reports(ms, gap), NEW ns \in Seq(Listing), Len(ns) = Len(ms),
         \A i \in 1 .. Len(ms) :
           \/ ns[i] = ms[i]
           \/ ms[i].role = "summary" /\ ns[i].size = ms[i].size /\ ns[i].usage = ms[i].usage
              /\ ns[i].at = time
  PROVE  Reports(ns, gap)
<1> SUFFICES ASSUME NEW i \in Anchors(ns)
             PROVE  Between(ns[i].usage, Fixed + Size(SubSeq(ns, 1, i)), gap)
  BY DEF Reports
<1>1. i \in 1 .. Len(ms) /\ ns[i].usage > 0 /\ \A j \in 1 .. i - 1 : ns[j].at <= ns[i].at
  BY DEF Anchors
<1>2. ns[i] = ms[i]
  <2> QED BY <1>1 DEF Known
<1>3. ASSUME NEW j \in 1 .. i - 1 PROVE ms[j].at <= ms[i].at
  <2>1. j \in 1 .. Len(ms) BY <1>1
  <2>2. ms[j].at <= ns[j].at
    <3>1. ms[j].at <= time /\ ms[j].at \in Nat
      <4>1. ms[j] \in Listing BY <2>1
      <4> QED BY <2>1, <4>1 DEF Known, Listing
    <3> QED BY <2>1, <3>1
  <2>3. ns[j].at <= ns[i].at BY <1>1
  <2>4. ms[j] \in Listing /\ ns[j] \in Listing /\ ns[i] \in Listing BY <1>1, <2>1
  <2>5. ms[j].at \in Nat /\ ns[j].at \in Nat /\ ns[i].at \in Nat BY <2>4 DEF Listing
  <2>6. ms[j].at <= ns[i].at BY <2>2, <2>3, <2>5
  <2> QED BY <1>2, <2>6
<1>4. i \in Anchors(ms) BY <1>1, <1>2, <1>3 DEF Anchors
<1>5. Size(SubSeq(ns, 1, i)) = Size(SubSeq(ms, 1, i))
  <2> DEFINE a == SubSeq(ns, 1, i)
             b == SubSeq(ms, 1, i)
  <2>1. a \in Seq(Listing) /\ Len(a) = i /\ \A k \in 1 .. i : a[k] = ns[k] BY <1>1
  <2>2. b \in Seq(Listing) /\ Len(b) = i /\ \A k \in 1 .. i : b[k] = ms[k] BY <1>1
  <2> HIDE DEF a, b
  <2>3. ASSUME NEW k \in 1 .. Len(a) PROVE a[k].size = b[k].size
    <3>1. k \in 1 .. Len(ms) /\ k \in 1 .. i BY <1>1, <2>1
    <3>2. ns[k].size = ms[k].size BY <3>1
    <3> QED BY <2>1, <2>2, <3>1, <3>2
  <2>4. Size(a) = Size(b) BY <2>1, <2>2, <2>3, SizeOfSame
  <2> QED BY <2>4 DEF a, b
<1> QED BY <1>2, <1>4, <1>5 DEF Reports

\* With true reports an estimate is right.
LEMMA EstimateIsRight ==
  ASSUME NEW ms \in Seq(Listing), NEW gap \in Nat, Reports(ms, gap)
  PROVE  Estimate(ms) \in Nat /\ Between(Estimate(ms), Total(ms), gap)
<1>1. Size(ms) \in Nat /\ Fixed \in Nat BY SizeIsNat, BudgetAssumption
<1>2. CASE Anchors(ms) = {} BY <1>1, <1>2 DEF Estimate, Between, Total
<1>3. CASE Anchors(ms) # {}
  <2> DEFINE T == Anchors(ms)
             IsLast(i) == i \in T /\ \A b \in T : b <= i
             last == CHOOSE a \in T : \A b \in T : b <= a
  <2>1. T \in SUBSET Nat /\ Len(ms) \in Nat /\ T # {} /\ T \subseteq 1 .. Len(ms)
        /\ \A k \in T : k <= Len(ms)
    BY <1>3 DEF Anchors
  <2>2. \E i \in T : \A b \in T : b <= i
    <3> HIDE DEF T
    <3> QED BY <2>1, GreatestNumber
  <2>3. last \in T
    <3> HIDE DEF T
    <3> QED BY <2>2
  <2>4. Estimate(ms) = ms[last].usage + Size(SubSeq(ms, last + 1, Len(ms))) BY <1>3 DEF Estimate
  <2> HIDE DEF last
  <2>5. last \in 0 .. Len(ms) /\ last \in 1 .. Len(ms) BY <2>1, <2>3
  <2> DEFINE a == Size(SubSeq(ms, 1, last))
             b == Size(SubSeq(ms, last + 1, Len(ms)))
             u == ms[last].usage
  <2>6. a \in Nat /\ b \in Nat
    <3>1. SubSeq(ms, 1, last) \in Seq(Listing) /\ SubSeq(ms, last + 1, Len(ms)) \in Seq(Listing)
      BY <2>5
    <3> QED BY <3>1, SizeIsNat
  <2>7. Size(ms) = a + b BY <2>5, WholeSize
  <2>8. Fixed + a <= u /\ u <= (Fixed + a) + gap BY <2>3 DEF Reports, Between
  <2>9. u \in Nat
    <3>1. ms[last] \in Listing BY <2>5
    <3> QED BY <3>1 DEF Listing
  <2>10. Estimate(ms) = u + b BY <2>4
  <2> HIDE DEF a, b, u
  <2> QED BY <2>10, <1>1, <2>6, <2>7, <2>8, <2>9 DEF Between, Total
<1> QED BY <1>2, <1>3

\* What is kept begins in the context, or right behind it.
LEMMA FirstRecentIsThere ==
  ASSUME NEW ms \in Seq(Listing)
  PROVE  FirstRecent(ms) \in 1 .. Len(ms) + 1
<1> DEFINE far == {i \in DOMAIN ms : Suffix(ms, i) >= KeepRecent}
           from == CHOOSE i \in far : \A j \in far : j <= i
           later(i) == {j \in i .. Len(ms) : Begins(ms, j)}
           whole(i) == {j \in i .. Len(ms) : ms[j].role # "result"} \cup {Len(ms) + 1}
           first(S) == CHOOSE i \in S : \A j \in S : i <= j
<1>1. Len(ms) \in Nat /\ far \subseteq 1 .. Len(ms) OBVIOUS
<1>2. CASE far = {}
  <2>1. FirstRecent(ms) = 1 BY <1>2 DEF FirstRecent
  <2> QED BY <1>1, <2>1
<1>3. CASE far # {}
  <2>1. from \in far
    <3> HIDE DEF far
    <3>1. far \in SUBSET Nat /\ \A k \in far : k <= Len(ms) BY <1>1
    <3>2. \E i \in far : \A j \in far : j <= i BY <1>1, <1>3, <3>1, GreatestNumber
    <3> QED BY <3>2
  <2>2. FirstRecent(ms) = IF Begins(ms, from) /\ from > 1 THEN from
                          ELSE IF later(from + 1) # {} THEN first(later(from + 1))
                          ELSE IF Begins(ms, from) THEN 1
                          ELSE first(whole(from))
    BY <1>3 DEF FirstRecent
  <2>3. from \in 1 .. Len(ms) BY <1>1, <2>1
  <2> HIDE DEF from, far
  <2>4. ASSUME NEW S \in SUBSET Nat, S # {}
        PROVE  first(S) \in S
    BY <2>4, LeastNumber
  <2>5. later(from + 1) \in SUBSET Nat /\ later(from + 1) \subseteq 1 .. Len(ms) BY <2>3
  <2>6. whole(from) \in SUBSET Nat /\ whole(from) \subseteq 1 .. Len(ms) + 1 /\ whole(from) # {}
    BY <1>1, <2>3
  <2>7. later(from + 1) # {} => first(later(from + 1)) \in 1 .. Len(ms)
    <3> HIDE DEF later, first
    <3> QED BY <2>4, <2>5
  <2>8. first(whole(from)) \in 1 .. Len(ms) + 1
    <3> HIDE DEF whole, first
    <3> QED BY <2>4, <2>6
  <2> HIDE DEF later, whole, first
  <2> QED BY <1>1, <2>2, <2>3, <2>7, <2>8
<1> QED BY <1>2, <1>3
------------------------------------------------------------------------------
(* The invariant of the estimates *)

\* A prompt is being answered.
Working == {"opening", "call", "ended", "tool"}

BudgetType ==
  /\ listed \in Seq(Listing) /\ stored \in Seq(Listing) /\ former \in Seq(Listing)
  /\ counted \in Nat /\ cached \in Nat /\ lost \in Nat /\ now \in Nat /\ summaries \in Nat
  /\ stage \in {"idle", "before", "summing", "send", "retry", "after"} \cup Working
  /\ then \in {"idle", "send", "retry"}
  /\ coming \in Listing /\ cut \in BOOLEAN

\* Each list is known and its reports are true; so is the answer that is not listed yet.
Truthful ==
  /\ Known(listed, now) /\ Known(stored, now) /\ Known(former, now)
  /\ Reports(listed, lost) /\ Reports(stored, lost) /\ Reports(former, lost)
  /\ coming.at <= now
  /\ coming.usage > 0 =>
       coming.role = "assistant" /\ stage = "ended" /\ coming.usage = Total(listed) + coming.size

\* While a prompt is answered the file lacks what is counted as not written yet, and what was lost;
\* at other times it lacks only what was lost.
Behind ==
  IF stage \in Working
  THEN /\ counted <= Len(listed) /\ Exact(listed, counted)
       /\ Between(Size(SubSeq(listed, 1, counted)), Size(stored), lost)
  ELSE Between(Size(listed), Size(stored), lost)

\* An estimate that is remembered is right, or will be forgotten with the next write, or a run was
\* cut short.
Remembers ==
  \/ cached = 0 \/ Right(cached)
  \/ IF stage \in Working THEN counted < Len(listed) ELSE cut

BudgetInv == BudgetType /\ Truthful /\ Behind /\ Remembers

LEMMA RowIsListing ==
  ASSUME NEW role \in Role, NEW size \in Nat, NEW usage \in Nat, now \in Nat
  PROVE  /\ Row(role, size, usage) \in Listing
         /\ Row(role, size, usage).role = role /\ Row(role, size, usage).size = size
         /\ Row(role, size, usage).at = now + 1 /\ Row(role, size, usage).usage = usage
BY DEF Row, Listing

LEMMA NobodyIsListing ==
  Nobody \in Listing /\ Nobody.at = 0 /\ Nobody.usage = 0
BY DEF Nobody, Listing, Role

\* The clock goes on.
LEMMA KnownLater ==
  ASSUME NEW ms \in Seq(Listing), NEW time \in Nat, NEW later \in Nat, time <= later, Known(ms, time)
  PROVE  Known(ms, later)
<1> SUFFICES ASSUME NEW i \in 1 .. Len(ms)
             PROVE  ms[i].at <= later /\ (ms[i].usage > 0 => ms[i].role = "assistant")
  BY DEF Known
<1>1. ms[i] \in Listing OBVIOUS
<1> QED BY <1>1, SMTT(30) DEF Known, Listing

LEMMA KnownBoth ==
  ASSUME NEW ms \in Seq(Listing), NEW ns \in Seq(Listing), NEW time, Known(ms, time), Known(ns, time)
  PROVE  Known(ms \o ns, time)
<1> DEFINE all == ms \o ns
<1>1. Len(all) = Len(ms) + Len(ns) OBVIOUS
<1> SUFFICES ASSUME NEW i \in 1 .. Len(all)
             PROVE  all[i].at <= time /\ (all[i].usage > 0 => all[i].role = "assistant")
  BY DEF Known
<1>2. CASE i <= Len(ms)
  <2>1. all[i] = ms[i] /\ i \in 1 .. Len(ms) BY <1>2
  <2> QED BY <2>1 DEF Known
<1>3. CASE i > Len(ms)
  <2> QED BY <1>1, <1>3 DEF Known
<1> QED BY <1>2, <1>3

LEMMA KnownOne ==
  ASSUME NEW m \in Listing, NEW time, m.at <= time, m.usage > 0 => m.role = "assistant"
  PROVE  Known(<<m>>, time)
<1>1. Len(<<m>>) = 1 /\ <<m>>[1] = m OBVIOUS
<1> SUFFICES ASSUME NEW i \in 1 .. 1
             PROVE  <<m>>[i].at <= time /\ (<<m>>[i].usage > 0 => <<m>>[i].role = "assistant")
  BY <1>1 DEF Known
<1> QED BY <1>1

LEMMA KnownAppend ==
  ASSUME NEW ms \in Seq(Listing), NEW m \in Listing, NEW time, Known(ms, time),
         m.at <= time, m.usage > 0 => m.role = "assistant"
  PROVE  Known(Append(ms, m), time)
<1>1. Append(ms, m) = ms \o <<m>> /\ <<m>> \in Seq(Listing) BY SizeOfOne, SizeOfOneMore
<1>2. Known(<<m>>, time) BY KnownOne
<1>3. Known(ms \o <<m>>, time) BY <1>1, <1>2, KnownBoth
<1> QED BY <1>1, <1>3

LEMMA KnownPart ==
  ASSUME NEW ms \in Seq(Listing), NEW n \in 0 .. Len(ms), NEW time, Known(ms, time)
  PROVE  Known(SubSeq(ms, n + 1, Len(ms)), time)
<1> DEFINE rest == SubSeq(ms, n + 1, Len(ms))
<1>1. rest \in Seq(Listing) /\ Len(rest) = Len(ms) - n
      /\ \A k \in 1 .. Len(ms) - n : rest[k] = ms[n + k]
  BY FrontType
<1> HIDE DEF rest
<1> SUFFICES ASSUME NEW i \in 1 .. Len(rest)
             PROVE  rest[i].at <= time /\ (rest[i].usage > 0 => rest[i].role = "assistant")
  BY DEF Known, rest
<1>2. rest[i] = ms[n + i] /\ n + i \in 1 .. Len(ms) BY <1>1
<1> QED BY <1>2 DEF Known

\* What a write adds to the file leaves it as true as the list.
LEMMA StoreKeeps ==
  ASSUME BudgetInv, stage \in Working, Store
  PROVE  /\ stored' \in Seq(Listing) /\ counted' = Len(listed) /\ cached' \in Nat
         /\ Known(stored', now) /\ Reports(stored', lost)
         /\ Between(Size(listed), Size(stored'), lost)
         /\ cached' = 0 \/ Right(cached')
<1> DEFINE new == SubSeq(listed, counted + 1, Len(listed))
           front == Size(SubSeq(listed, 1, counted))
<1>1. listed \in Seq(Listing) /\ stored \in Seq(Listing) /\ counted \in 0 .. Len(listed)
      /\ lost \in Nat /\ Known(listed, now) /\ Known(stored, now) /\ Reports(stored, lost)
      /\ Exact(listed, counted) /\ Between(front, Size(stored), lost)
  BY DEF BudgetInv, BudgetType, Truthful, Behind
<1>2. stored' = stored \o new BY DEF Store
<1>3. new \in Seq(Listing) BY <1>1, FrontType
<1>4. Known(new, now) BY <1>1, KnownPart
<1>5. Known(stored \o new, now)
  <2> HIDE DEF new
  <2> QED BY <1>1, <1>3, <1>4, KnownBoth
<1>6. Reports(stored \o new, lost) BY <1>1, ReportsStored
<1>7. Between(Size(listed), Size(stored \o new), lost)
  <2>1. Size(listed) = front + Size(new) BY <1>1, WholeSize
  <2>2. SubSeq(listed, 1, counted) \in Seq(Listing) BY <1>1
  <2>3. front \in Nat BY <2>2, SizeIsNat
  <2> HIDE DEF front, new
  <2>4. Size(stored \o new) = Size(stored) + Size(new) BY <1>1, <1>3, SizeOfBoth
  <2>5. Size(stored) \in Nat /\ Size(new) \in Nat BY <1>1, <1>3, SizeIsNat
  <2>6. Size(stored) <= front /\ front <= Size(stored) + lost BY <1>1 DEF Between
  <2>7. Size(stored) + Size(new) <= front + Size(new)
        /\ front + Size(new) <= (Size(stored) + Size(new)) + lost
    BY ONLY <1>1, <2>3, <2>5, <2>6
  <2> QED BY <2>1, <2>4, <2>7 DEF Between
<1>8. cached' \in Nat /\ (cached' = 0 \/ Right(cached'))
  <2>1. CASE counted < Len(listed) BY <2>1 DEF Store
  <2>2. CASE ~(counted < Len(listed))
    <3>1. cached' = cached BY <2>2 DEF Store
    <3>2. cached = 0 \/ Right(cached) BY <2>2 DEF BudgetInv, Remembers
    <3> QED BY <3>1, <3>2 DEF BudgetInv, BudgetType
  <2> QED BY <2>1, <2>2
<1> HIDE DEF new
<1>9. stored \o new \in Seq(Listing) BY <1>1, <1>3
<1>10. counted' = Len(listed) BY DEF Store
<1> QED BY <1>2, <1>5, <1>6, <1>7, <1>8, <1>9, <1>10
\* The clock goes on, and nothing of what it dates is changed.
LEMMA TruthfulLater ==
  ASSUME BudgetInv, now' \in Nat, now <= now', lost' = lost,
         listed' = listed, former' = former, stored' \in Seq(Listing),
         Known(stored', now), Reports(stored', lost),
         coming' \in Listing, coming'.at <= now',
         coming'.usage > 0 => coming'.role = "assistant" /\ stage' = "ended"
                              /\ coming'.usage = Total(listed) + coming'.size
  PROVE  Truthful'
<1>1. listed \in Seq(Listing) /\ former \in Seq(Listing) /\ now \in Nat /\ lost \in Nat
      /\ Known(listed, now) /\ Known(former, now) /\ Reports(listed, lost) /\ Reports(former, lost)
  BY DEF BudgetInv, BudgetType, Truthful
<1> QED BY <1>1, KnownLater DEF Truthful, Total

\* Nothing but where the prompt is, and what is remembered, changes.
LEMMA StageKeeps ==
  ASSUME BudgetInv,
         UNCHANGED <<listed, stored, former, counted, coming, lost, now, summaries>>,
         cached' \in Nat, then' \in {"idle", "send", "retry"}, cut' = cut,
         stage' \in {"idle", "before", "summing", "send", "retry", "after"} \cup Working,
         (stage' \in Working) = (stage \in Working),
         stage = "ended" => stage' = "ended" \/ coming = Nobody,
         Remembers'
  PROVE  BudgetInv'
<1>1. BudgetType' BY DEF BudgetInv, BudgetType
<1>2. coming.usage > 0 => stage' = "ended"
  <2>1. coming = Nobody => ~(coming.usage > 0) BY NobodyIsListing
  <2>2. coming.usage > 0 => stage = "ended" BY DEF BudgetInv, Truthful
  <2> QED BY <2>1, <2>2
<1>3. Truthful' BY <1>2 DEF BudgetInv, Truthful, Total
<1>4. Behind' BY DEF BudgetInv, Behind
<1> QED BY <1>1, <1>3, <1>4 DEF BudgetInv

LEMMA BeginKeeps == BudgetInv /\ Begin => BudgetInv'
<1> SUFFICES ASSUME BudgetInv, Begin PROVE BudgetInv' OBVIOUS
<1>1. Remembers' BY DEF Begin, BudgetInv, Remembers, Working, Right, Total
<1> QED BY <1>1, StageKeeps DEF Begin, BudgetInv, BudgetType, Working

LEMMA UsageIsRight ==
  ASSUME BudgetInv, stage \notin Working
  PROVE  Usage \in Nat /\ (cut \/ Usage = 0 \/ Right(Usage)) /\ Right(Estimate(listed))
         /\ (cut \/ Right(Usage))
<1>1. Estimate(listed) \in Nat /\ Right(Estimate(listed))
  <2> QED BY EstimateIsRight DEF Right, Between, BudgetInv, BudgetType, Truthful
<1>2. cached = 0 => Usage = Estimate(listed) BY DEF Usage
<1>3. cached \in Nat BY DEF BudgetInv, BudgetType
<1> QED BY <1>1, <1>2, <1>3 DEF Usage, BudgetInv, Remembers

LEMMA DecideKeeps ==
  ASSUME BudgetInv, stage \in {"before", "after"}, NEW next \in {"send", "idle"}, Decide(next)
  PROVE  BudgetInv'
<1>1. stage \notin Working BY DEF Working
<1>2. cached' = Usage /\ cached' \in Nat /\ (cut \/ Right(cached')) BY <1>1, UsageIsRight DEF Decide
<1>3. stage' \in {"summing", "send", "idle"} /\ then' \in {"idle", "send", "retry"}
  BY DEF Decide, BudgetInv, BudgetType
<1>4. stage' \notin Working BY <1>3 DEF Working
<1>5. UNCHANGED <<listed, stored, former, counted, coming, cut, lost, now, summaries>> BY DEF Decide
<1>6. Remembers' BY <1>2, <1>4, <1>5 DEF Remembers, Right, Total
<1> QED BY <1>1, <1>2, <1>3, <1>4, <1>5, <1>6, StageKeeps

\* A list, and the file, become a summary and what is kept.
LEMMA ReplaceKeeps ==
  ASSUME BudgetInv, NEW n \in 0 .. Len(stored), Replace(n), stage \notin Working,
         stage' \in {"idle", "send", "retry"}, UNCHANGED <<counted, then, coming, lost>>
  PROVE  BudgetInv'
<1> DEFINE m == Row("summary", 1, 0)
           rest == SubSeq(stored, n + 1, Len(stored))
<1>1. listed \in Seq(Listing) /\ stored \in Seq(Listing) /\ now \in Nat /\ lost \in Nat
      /\ Known(stored, now) /\ Reports(stored, lost) /\ coming \in Listing /\ coming.at <= now
      /\ summaries \in Nat /\ counted \in Nat /\ then \in {"idle", "send", "retry"}
  BY DEF BudgetInv, BudgetType, Truthful
<1>2. m \in Listing /\ m.role = "summary" /\ m.at = now + 1 /\ m.usage = 0
  BY <1>1, RowIsListing, SMTT(30) DEF Role
<1>3. stored' = <<m>> \o rest /\ listed' = stored' /\ former' = stored /\ cached' = 0 /\ cut' = FALSE
      /\ now' = now + 1 /\ summaries' = summaries + 1
  BY DEF Replace
<1>4. Reports(<<m>> \o rest, lost)
  <2> HIDE DEF m
  <2> QED BY <1>1, <1>2, ReportsReplaced
<1>5. rest \in Seq(Listing) /\ Known(rest, now) BY <1>1, FrontType, KnownPart
<1> HIDE DEF m, rest
<1>6. Known(rest, now + 1) /\ Known(stored, now + 1)
  <2>1. now + 1 \in Nat /\ now <= now + 1 BY <1>1
  <2> QED BY <1>1, <1>5, <2>1, KnownLater
<1>7. <<m>> \in Seq(Listing) /\ Known(<<m>>, now + 1)
  <2>1. m.at <= now + 1 /\ ~(m.usage > 0) BY <1>1, <1>2
  <2> QED BY <1>2, <2>1, SizeOfOne, KnownOne
<1>8. Known(<<m>> \o rest, now + 1) BY <1>5, <1>6, <1>7, KnownBoth
<1>9. <<m>> \o rest \in Seq(Listing) BY <1>5, <1>7
<1>10. coming.at <= now + 1 BY <1>1 DEF Listing
<1>11. stage' \notin Working BY DEF Working
<1>12. BudgetType'
  <2>1. listed' \in Seq(Listing) /\ stored' \in Seq(Listing) /\ former' \in Seq(Listing)
    BY <1>1, <1>3, <1>9
  <2>2. now' \in Nat /\ summaries' \in Nat BY <1>1, <1>3
  <2>3. counted' = counted /\ then' = then /\ coming' = coming /\ lost' = lost OBVIOUS
  <2> QED BY <2>1, <2>2, <1>1, <1>3, <2>3 DEF BudgetType
<1>13. Truthful' BY <1>1, <1>3, <1>4, <1>6, <1>8, <1>10 DEF Truthful, BudgetInv, Working
<1>14. Size(<<m>> \o rest) \in Nat BY <1>9, SizeIsNat
<1>15. Behind'
  <2> QED BY <1>3, <1>11, <1>1, <1>14 DEF Behind, Between
<1>16. Remembers' BY <1>3 DEF Remembers
<1> QED BY <1>12, <1>13, <1>15, <1>16 DEF BudgetInv

LEMMA SummarizeKeeps == BudgetInv /\ Summarize => BudgetInv'
<1> SUFFICES ASSUME BudgetInv, Summarize PROVE BudgetInv' OBVIOUS
<1>1. stored \in Seq(Listing) /\ then \in {"idle", "send", "retry"} BY DEF BudgetInv, BudgetType
<1>2. FirstRecent(stored) \in 1 .. Len(stored) + 1 BY <1>1, FirstRecentIsThere
<1>3. FirstRecent(stored) - 1 \in 0 .. Len(stored) BY <1>2
<1>4. Replace(FirstRecent(stored) - 1) /\ stage = "summing" /\ stage' = then
      /\ UNCHANGED <<counted, then, coming, lost>>
  BY DEF Summarize
<1>5. stage \notin Working BY <1>4 DEF Working
<1> QED BY <1>1, <1>3, <1>4, <1>5, ReplaceKeeps

LEMMA CompactAllKeeps == BudgetInv /\ CompactAll => BudgetInv'
<1> SUFFICES ASSUME BudgetInv, CompactAll PROVE BudgetInv' OBVIOUS
<1>1. Replace(Len(stored)) /\ stage = "idle" /\ stage' = "idle"
      /\ UNCHANGED <<counted, then, coming, lost>>
  BY DEF CompactAll
<1>2. stage \notin Working BY <1>1 DEF Working
<1> QED BY <1>1, <1>2, ReplaceKeeps DEF BudgetInv, BudgetType

LEMMA NoSummaryKeeps == BudgetInv /\ NoSummary => BudgetInv'
<1> SUFFICES ASSUME BudgetInv, NoSummary PROVE BudgetInv' OBVIOUS
<1>1. stage = "summing" /\ stage' \in {"idle", "send", "retry"}
      /\ UNCHANGED <<listed, stored, former, counted, cached, then, coming, cut, lost, now, summaries>>
  BY DEF NoSummary, BudgetInv, BudgetType
<1>2. Remembers' BY <1>1 DEF BudgetInv, Remembers, Working, Right, Total
<1> QED BY <1>1, <1>2, StageKeeps DEF BudgetInv, BudgetType, Working
\* The prompt joins the list, or nothing does, and the file may lack what it lacked before.
LEMMA SendKeeps == BudgetInv /\ Send => BudgetInv'
<1> SUFFICES ASSUME BudgetInv, Send PROVE BudgetInv' OBVIOUS
<1>1. listed \in Seq(Listing) /\ stored \in Seq(Listing) /\ now \in Nat /\ lost \in Nat
      /\ Known(listed, now) /\ Reports(listed, lost) /\ summaries \in Nat
      /\ then \in {"idle", "send", "retry"} /\ former \in Seq(Listing)
      /\ Known(stored, now) /\ Reports(stored, lost) /\ Known(former, now) /\ Reports(former, lost)
  BY DEF BudgetInv, BudgetType, Truthful
<1>2. counted' = Len(listed) /\ cached' = 0 /\ cut' = FALSE /\ stage' = "opening" /\ coming' = Nobody
      /\ UNCHANGED <<stored, former, then, lost, summaries>>
  BY DEF Send
<1>3. /\ listed' \in Seq(Listing) /\ now' \in Nat /\ now <= now'
      /\ Known(listed', now') /\ Reports(listed', lost)
      /\ Len(listed) <= Len(listed') /\ SubSeq(listed', 1, Len(listed)) = listed
      /\ Exact(listed', Len(listed))
  <2>1. CASE stage = "send"
    <3>1. PICK s \in Sizes : listed' = Append(listed, Row("user", s, 0)) /\ now' = now + 1
      BY <2>1 DEF Send
    <3> DEFINE m == Row("user", s, 0)
    <3>2. m \in Listing /\ m.usage = 0 /\ m.at = now + 1
      <4>1. s \in Nat BY BudgetAssumption
      <4> QED BY <1>1, <4>1, RowIsListing, SMTT(30) DEF Role
    <3>3. listed' = Append(listed, m) BY <3>1
    <3> HIDE DEF m
    <3>4. Known(listed, now + 1)
      <4>1. now + 1 \in Nat /\ now <= now + 1 BY <1>1
      <4> QED BY <1>1, <4>1, KnownLater
    <3>5. Known(Append(listed, m), now + 1)
      <4>1. m.at <= now + 1 /\ ~(m.usage > 0) BY <1>1, <3>2
      <4> QED BY <1>1, <3>2, <3>4, <4>1, KnownAppend
    <3>6. Reports(Append(listed, m), lost)
      <4>1. ~(m.usage > 0) BY <3>2
      <4> QED BY <1>1, <3>2, <4>1, ReportsAppend
    <3> DEFINE all == Append(listed, m)
    <3>7. all \in Seq(Listing) /\ Len(all) = Len(listed) + 1 /\ all[Len(listed) + 1] = m
          /\ Len(listed) \in Nat
      BY <1>1, <3>2
    <3>8. SubSeq(all, 1, Len(listed)) = listed
      <4>1. \A i \in 1 .. Len(listed) : SubSeq(all, 1, Len(listed))[i] = listed[i] BY <1>1, <3>2
      <4> QED BY <1>1, <4>1, <3>7, SeqEqual
    <3>9. Exact(all, Len(listed))
      <4> HIDE DEF all
      <4>1. ~(all[Len(listed) + 1].usage > 0) BY <3>2, <3>7
      <4> QED BY <3>7, <4>1 DEF Exact
    <3> QED BY <1>1, <3>1, <3>3, <3>5, <3>6, <3>7, <3>8, <3>9
  <2>2. CASE stage # "send"
    <3>1. listed' = listed /\ now' = now BY <2>2 DEF Send
    <3>2. SubSeq(listed, 1, Len(listed)) = listed BY <1>1, SubSeqFull
    <3>3. Exact(listed, Len(listed))
      <4> QED BY <1>1 DEF Exact
    <3>4. now <= now /\ Len(listed) <= Len(listed) BY <1>1
    <3> QED BY <1>1, <3>1, <3>2, <3>3, <3>4
  <2> QED BY <2>1, <2>2
<1>4. Nobody \in Listing /\ Nobody.at <= now' /\ ~(Nobody.usage > 0) BY <1>3, NobodyIsListing
<1>5. stage' \in Working /\ Len(listed) \in Nat BY <1>1, <1>2 DEF Working
<1>6. BudgetType'
  <2>1. listed' \in Seq(Listing) /\ stored' \in Seq(Listing) /\ former' \in Seq(Listing)
    BY <1>1, <1>2, <1>3
  <2> QED BY <1>5, <2>1, <1>1, <1>2, <1>3, <1>4 DEF BudgetType
<1>7. Truthful' BY <1>1, <1>2, <1>3, KnownLater, <1>4 DEF Truthful
<1>8. Behind' BY <1>2, <1>3, <1>5 DEF Behind, Send, Working, BudgetInv
<1>9. Remembers' BY <1>2 DEF Remembers
<1> QED BY <1>6, <1>7, <1>8, <1>9 DEF BudgetInv

\* What a write is part of: the prompt is working still, or over.
LEMMA WriteKeeps ==
  ASSUME BudgetInv, stage \in Working, Store, UNCHANGED <<listed, former, lost, summaries>>,
         now' \in Nat, now <= now', cut' \in BOOLEAN, then' \in {"idle", "send", "retry"},
         stage' \in {"idle", "summing", "after"} \cup Working,
         coming' \in Listing, coming'.at <= now',
         coming'.usage > 0 => coming'.role = "assistant" /\ stage' = "ended"
                              /\ coming'.usage = Total(listed) + coming'.size
  PROVE  BudgetInv'
<1>1. listed \in Seq(Listing) /\ stored \in Seq(Listing) /\ former \in Seq(Listing)
      /\ now \in Nat /\ lost \in Nat /\ summaries \in Nat /\ Len(listed) \in Nat
  BY DEF BudgetInv, BudgetType
<1>2. /\ stored' \in Seq(Listing) /\ counted' = Len(listed) /\ cached' \in Nat
      /\ Known(stored', now) /\ Reports(stored', lost)
      /\ Between(Size(listed), Size(stored'), lost)
      /\ cached' = 0 \/ Right(cached')
  BY StoreKeeps
<1>3. BudgetType'
  <2>1. listed' \in Seq(Listing) /\ stored' \in Seq(Listing) /\ former' \in Seq(Listing)
    BY <1>1, <1>2
  <2> QED BY <2>1, <1>1, <1>2 DEF BudgetType
<1>4. Truthful' BY <1>2, TruthfulLater
<1>5. Behind'
  <2>1. SubSeq(listed, 1, Len(listed)) = listed BY <1>1, SubSeqFull
  <2>2. Exact(listed, Len(listed))
    <3>1. ~\E i \in Len(listed) + 1 .. Len(listed) : TRUE BY <1>1
    <3> QED BY <3>1 DEF Exact
  <2>3. Len(listed) <= Len(listed) BY <1>1
  <2> QED BY <1>2, <2>1, <2>2, <2>3 DEF Behind
<1>6. Remembers' BY <1>2 DEF Remembers, Right, Total
<1> QED BY <1>3, <1>4, <1>5, <1>6 DEF BudgetInv

LEMMA WritesKeep == BudgetInv /\ (Opened \/ Reply \/ Fail \/ Result \/ EndPrompt) => BudgetInv'
<1> SUFFICES ASSUME BudgetInv, Opened \/ Reply \/ Fail \/ Result \/ EndPrompt PROVE BudgetInv'
  OBVIOUS
<1>1. now \in Nat /\ now <= now /\ now + 1 \in Nat /\ now <= now + 1 /\ now + 1 <= now + 1
      /\ coming \in Listing /\ coming.at <= now /\ cut \in BOOLEAN
      /\ then \in {"idle", "send", "retry"} /\ listed \in Seq(Listing)
      /\ (coming.usage > 0 => coming.role = "assistant" /\ stage = "ended"
                              /\ coming.usage = Total(listed) + coming.size)
      /\ Nobody \in Listing /\ Nobody.at <= now /\ ~(Nobody.usage > 0)
  BY NobodyIsListing DEF BudgetInv, BudgetType, Truthful
<1>2. CASE Opened
  <2> QED BY <1>1, <1>2, WriteKeeps DEF Opened, Working
<1>3. CASE Reply
  <2>1. PICK s \in Sizes, reports \in BOOLEAN :
          coming' = Row("assistant", s, IF reports THEN Total(listed) + s ELSE 0)
    BY <1>3 DEF Reply
  <2> DEFINE usage == IF reports THEN Total(listed) + s ELSE 0
  <2>2. s \in Nat /\ Total(listed) \in Nat BY <1>1, SizeIsNat, BudgetAssumption DEF Total
  <2>3. usage \in Nat /\ (usage > 0 => usage = Total(listed) + s) BY <2>2
  <2>4. coming' = Row("assistant", s, usage) BY <2>1
  <2> HIDE DEF usage
  <2>5. coming' \in Listing /\ coming'.role = "assistant" /\ coming'.size = s /\ coming'.at = now + 1
        /\ coming'.usage = usage
    BY <1>1, <2>2, <2>3, <2>4, RowIsListing, SMTT(30) DEF Role
  <2> QED BY <1>1, <1>3, <2>3, <2>5, WriteKeeps DEF Reply, Working
<1>4. CASE Fail
  <2> QED BY <1>1, <1>4, WriteKeeps DEF Fail, Working
<1>5. CASE Result
  <2>1. PICK s \in Sizes : coming' = Row("result", s, 0) BY <1>5 DEF Result
  <2>2. s \in Nat BY BudgetAssumption
  <2>3. coming' \in Listing /\ coming'.at = now + 1 /\ coming'.usage = 0
    BY <1>1, <2>1, <2>2, RowIsListing DEF Role
  <2> QED BY <1>1, <1>5, <2>3, WriteKeeps DEF Result, Working
<1>6. CASE EndPrompt
  <2> QED BY <1>1, <1>6, WriteKeeps DEF EndPrompt, Working
<1> QED BY <1>2, <1>3, <1>4, <1>5, <1>6
\* The answer joins the list: it is not in the file yet.
LEMMA ListKeeps == BudgetInv /\ List => BudgetInv'
<1> SUFFICES ASSUME BudgetInv, List PROVE BudgetInv' OBVIOUS
<1>1. /\ listed \in Seq(Listing) /\ coming \in Listing /\ now \in Nat /\ lost \in Nat
      /\ Len(listed) \in Nat /\ counted \in Nat
      /\ Known(listed, now) /\ Reports(listed, lost) /\ coming.at <= now
      /\ coming.usage > 0 => coming.role = "assistant" /\ coming.usage = Total(listed) + coming.size
  BY DEF BudgetInv, BudgetType, Truthful
<1>2. stage = "ended" /\ stage \in Working /\ listed' = Append(listed, coming) /\ coming' = Nobody
      /\ UNCHANGED <<stored, former, counted, cached, stage, then, cut, lost, now, summaries>>
  BY DEF List, Working
<1>3. counted <= Len(listed) /\ Exact(listed, counted)
      /\ Between(Size(SubSeq(listed, 1, counted)), Size(stored), lost)
  BY <1>2 DEF BudgetInv, Behind
<1> DEFINE all == Append(listed, coming)
<1>4. all \in Seq(Listing) /\ Len(all) = Len(listed) + 1 /\ all[Len(listed) + 1] = coming
      /\ (\A i \in 1 .. Len(listed) : all[i] = listed[i]) /\ all = listed \o <<coming>>
      /\ <<coming>> \in Seq(Listing)
  BY <1>1, SizeOfOne, SizeOfOneMore
<1>5. Known(all, now) /\ Reports(all, lost) BY <1>1, KnownAppend, ReportsAppend
<1>6. SubSeq(all, 1, Len(all)) = all /\ Size(all) = Size(listed) + coming.size
  BY <1>1, <1>4, SubSeqFull, SizeOfOneMore
<1>7. ASSUME NEW i \in 1 .. Len(listed) PROVE SubSeq(all, 1, i) = SubSeq(listed, 1, i)
  BY <1>1, <1>4, FrontOfBoth
<1> HIDE DEF all
<1>8. Size(SubSeq(all, 1, counted)) = Size(SubSeq(listed, 1, counted))
  <2>1. CASE counted = 0
    <3>1. SubSeq(all, 1, 0) = <<>> /\ SubSeq(listed, 1, 0) = <<>> BY SubSeqEmpty
    <3> QED BY <2>1, <3>1
  <2>2. CASE counted # 0
    <3>1. counted \in 1 .. Len(listed) BY <1>1, <1>3, <2>2
    <3> QED BY <1>7, <3>1
  <2> QED BY <2>1, <2>2
<1>9. Exact(all, counted)
  <2> SUFFICES ASSUME NEW i \in counted + 1 .. Len(all), all[i].usage > 0
               PROVE  all[i].usage = Fixed + Size(SubSeq(all, 1, i))
    BY DEF Exact
  <2>1. CASE i = Len(listed) + 1
    <3>1. all[i] = coming /\ SubSeq(all, 1, i) = all BY <1>4, <1>6, <2>1
    <3>2. Fixed \in Nat /\ Size(listed) \in Nat /\ coming.size \in Nat
      BY <1>1, SizeIsNat, BudgetAssumption DEF Listing
    <3>3. coming.usage = (Fixed + Size(listed)) + coming.size BY <1>1, <3>1 DEF Total
    <3>4. coming.usage = Fixed + Size(all) BY <1>6, <3>2, <3>3
    <3> QED BY <3>1, <3>4
  <2>2. CASE i \in 1 .. Len(listed)
    <3>1. all[i] = listed[i] /\ i \in counted + 1 .. Len(listed) BY <1>4, <2>2
    <3>2. SubSeq(all, 1, i) = SubSeq(listed, 1, i) BY <1>7, <2>2
    <3> QED BY <1>3, <3>1, <3>2 DEF Exact
  <2> QED BY <1>1, <1>4, <2>1, <2>2
<1>10. listed' = all BY <1>2 DEF all
<1>11. BudgetType'
  <2> QED BY <1>2, <1>4, <1>10, NobodyIsListing DEF BudgetInv, BudgetType
<1>12. Truthful'
  <2>1. Nobody.at <= now /\ ~(Nobody.usage > 0) BY <1>1, NobodyIsListing
  <2> QED BY <1>2, <1>5, <1>10, <2>1 DEF Truthful, BudgetInv
<1>13. counted < Len(all) BY <1>1, <1>3, <1>4
<1>14. Behind'
  <2>1. counted <= Len(all) BY <1>1, <1>13, <1>4
  <2> QED BY <1>2, <1>3, <1>8, <1>9, <1>10, <2>1 DEF Behind
<1>15. Remembers' BY <1>2, <1>10, <1>13 DEF Remembers
<1> QED BY <1>11, <1>12, <1>14, <1>15 DEF BudgetInv

LEMMA ToolEndsKeeps == BudgetInv /\ ToolEnds => BudgetInv'
<1> SUFFICES ASSUME BudgetInv, ToolEnds PROVE BudgetInv' OBVIOUS
<1>1. Remembers' BY DEF ToolEnds, Remembers
<1> QED BY <1>1, StageKeeps DEF ToolEnds, BudgetInv, BudgetType, Working

LEMMA NextTurnKeeps == BudgetInv /\ NextTurn => BudgetInv'
<1> SUFFICES ASSUME BudgetInv, NextTurn PROVE BudgetInv' OBVIOUS
<1>1. Remembers' BY DEF NextTurn, BudgetInv, Remembers, Working, Right, Total
<1> QED BY <1>1, StageKeeps DEF NextTurn, BudgetInv, BudgetType, Working

LEMMA LookKeeps == BudgetInv /\ Look => BudgetInv'
<1> SUFFICES ASSUME BudgetInv, Look PROVE BudgetInv' OBVIOUS
<1>1. UNCHANGED <<listed, stored, former, counted, stage, then, coming, cut, lost, now, summaries>>
      /\ cached' = Estimate(listed)
  BY DEF Look
<1>2. Estimate(listed) \in Nat /\ Right(Estimate(listed))
  <2> QED BY EstimateIsRight DEF Right, Between, BudgetInv, BudgetType, Truthful
<1>3. Remembers' BY <1>1, <1>2 DEF Remembers, Right, Total
<1> QED BY <1>1, <1>3, <1>2, StageKeeps DEF BudgetInv, BudgetType

\* A message joins list and file at once.
LEMMA OutputKeeps == BudgetInv /\ Output => BudgetInv'
<1> SUFFICES ASSUME BudgetInv, Output PROVE BudgetInv' OBVIOUS
<1>1. /\ listed \in Seq(Listing) /\ stored \in Seq(Listing) /\ former \in Seq(Listing)
      /\ now \in Nat /\ lost \in Nat /\ coming \in Listing /\ coming.at <= now
      /\ Known(listed, now) /\ Reports(listed, lost)
      /\ Known(stored, now) /\ Reports(stored, lost) /\ Known(former, now) /\ Reports(former, lost)
  BY DEF BudgetInv, BudgetType, Truthful
<1>2. PICK s \in Sizes : listed' = Append(listed, Row("user", s, 0)) BY DEF Output
<1> DEFINE m == Row("user", s, 0)
<1>3. m \in Listing /\ m.at = now + 1 /\ m.usage = 0
  <2>1. s \in Nat BY BudgetAssumption
  <2> QED BY <1>1, <2>1, RowIsListing, SMTT(30) DEF Role
<1>4. listed' = Append(listed, m) BY <1>2
<1> HIDE DEF m
<1>5. Last(listed') = m BY <1>1, <1>3, <1>4 DEF Last
<1>6. stage = "idle" /\ stored' = Append(stored, m) /\ now' = now + 1 /\ cached' = 0 /\ cut' = FALSE
      /\ UNCHANGED <<former, counted, stage, then, coming, lost, summaries>>
  BY <1>5 DEF Output
<1>7. Known(listed, now + 1) /\ Known(stored, now + 1) /\ Known(former, now + 1)
  <2>1. now + 1 \in Nat /\ now <= now + 1 BY <1>1
  <2> QED BY <1>1, <2>1, KnownLater
<1>8. Known(Append(listed, m), now + 1) /\ Known(Append(stored, m), now + 1)
      /\ Reports(Append(listed, m), lost) /\ Reports(Append(stored, m), lost)
  <2>1. m.at <= now + 1 /\ ~(m.usage > 0) BY <1>1, <1>3
  <2> QED BY <1>1, <1>3, <1>7, <2>1, KnownAppend, ReportsAppend
<1>9. stage \notin Working /\ stage' \notin Working BY <1>6 DEF Working
<1>10. BudgetType'
  <2>1. listed' \in Seq(Listing) /\ stored' \in Seq(Listing) /\ now' \in Nat
    BY <1>1, <1>3, <1>4, <1>6
  <2> QED BY <1>6, <2>1 DEF BudgetInv, BudgetType
<1>11. Truthful' BY <1>1, <1>4, <1>6, <1>7, <1>8 DEF Truthful, BudgetInv, Listing
<1>12. Behind'
  <2>1. Between(Size(listed), Size(stored), lost) BY <1>9 DEF BudgetInv, Behind
  <2>2. Size(listed) \in Nat /\ Size(stored) \in Nat /\ m.size \in Nat
    BY <1>1, <1>3, SizeIsNat DEF Listing
  <2>3. Between(Size(listed) + m.size, Size(stored) + m.size, lost) BY <1>1, <2>1, <2>2 DEF Between
  <2> QED BY <1>4, <1>6, <1>9, <1>1, <1>3, SizeOfOneMore, <2>3 DEF Behind
<1>13. Remembers' BY <1>6 DEF Remembers
<1> QED BY <1>10, <1>11, <1>12, <1>13 DEF BudgetInv

\* The list becomes what is on disk.
LEMMA RebuildKeeps == BudgetInv /\ Rebuild => BudgetInv'
<1> SUFFICES ASSUME BudgetInv, Rebuild PROVE BudgetInv' OBVIOUS
<1>1. /\ stored \in Seq(Listing) /\ former \in Seq(Listing) /\ now \in Nat /\ lost \in Nat
      /\ Known(stored, now) /\ Reports(stored, lost) /\ Known(former, now) /\ Reports(former, lost)
      /\ coming.at <= now
  BY DEF BudgetInv, BudgetType, Truthful
<1>2. PICK ms \in {stored, former} : stored' = Rebuilt(ms) BY DEF Rebuild
<1>3. stage = "idle" /\ listed' = stored' /\ cached' = 0 /\ cut' = FALSE
      /\ UNCHANGED <<former, counted, stage, then, coming, lost, now, summaries>>
  BY DEF Rebuild
<1>4. ms \in Seq(Listing) /\ Known(ms, now) /\ Reports(ms, lost) BY <1>1
<1> DEFINE ns == Rebuilt(ms)
<1>5. ns \in Seq(Listing) /\ Len(ns) = Len(ms)
      /\ \A i \in 1 .. Len(ms) :
           \/ ns[i] = ms[i]
           \/ ms[i].role = "summary" /\ ns[i].role = "summary" /\ ns[i].size = ms[i].size
              /\ ns[i].usage = ms[i].usage /\ ns[i].at = now
  <2>1. ASSUME NEW i \in 1 .. Len(ms), NEW m \in Listing
        PROVE  /\ [m EXCEPT !.at = now] \in Listing
               /\ [m EXCEPT !.at = now].role = m.role /\ [m EXCEPT !.at = now].size = m.size
               /\ [m EXCEPT !.at = now].usage = m.usage /\ [m EXCEPT !.at = now].at = now
    BY <1>1 DEF Listing
  <2>2. ASSUME NEW i \in 1 .. Len(ms)
        PROVE  /\ ns[i] \in Listing
               /\ \/ ns[i] = ms[i]
                  \/ ms[i].role = "summary" /\ ns[i].role = "summary" /\ ns[i].size = ms[i].size
                     /\ ns[i].usage = ms[i].usage /\ ns[i].at = now
    <3>1. ms[i] \in Listing /\ i \in DOMAIN ms BY <1>4
    <3>2. ns[i] = IF ms[i].role = "summary" THEN [ms[i] EXCEPT !.at = now] ELSE ms[i]
      BY <3>1 DEF Rebuilt
    <3>3. CASE ms[i].role = "summary"
      <4>1. ns[i] = [ms[i] EXCEPT !.at = now] BY <3>2, <3>3
      <4> HIDE DEF ns
      <4> QED BY <2>1, <3>1, <3>3, <4>1
    <3>4. CASE ms[i].role # "summary"
      <4>1. ns[i] = ms[i] BY <3>2, <3>4
      <4> QED BY <3>1, <4>1
    <3> QED BY <3>3, <3>4
  <2>3. DOMAIN ms = 1 .. Len(ms) /\ Len(ms) \in Nat BY <1>4
  <2>4. ns \in [1 .. Len(ms) -> Listing]
    <3>1. ns = [i \in 1 .. Len(ms) |-> ns[i]] BY <2>3 DEF Rebuilt
    <3> HIDE DEF ns
    <3> QED BY <2>2, <3>1
  <2> HIDE DEF ns
  <2>5. ns \in Seq(Listing) /\ Len(ns) = Len(ms) BY <2>3, <2>4
  <2> QED BY <2>2, <2>5
<1>6. stored' = ns BY <1>2
<1> HIDE DEF ns
<1>7. Reports(ns, lost) BY <1>1, <1>4, <1>5, ReportsRebuilt
<1>8. Known(ns, now)
  <2> SUFFICES ASSUME NEW i \in 1 .. Len(ns)
               PROVE  ns[i].at <= now /\ (ns[i].usage > 0 => ns[i].role = "assistant")
    BY DEF Known
  <2>1. ms[i].at <= now /\ (ms[i].usage > 0 => ms[i].role = "assistant") BY <1>4, <1>5 DEF Known
  <2>2. CASE ns[i] = ms[i] BY <2>1, <2>2
  <2>3. CASE ns[i] # ms[i]
    <3> QED BY <1>1, <2>1, <1>5, <2>3
  <2> QED BY <2>2, <2>3
<1>9. stage \notin Working /\ stage' \notin Working /\ ~(coming.usage > 0)
  BY <1>3 DEF Working, BudgetInv, Truthful
<1>10. BudgetType' BY <1>3, <1>5, <1>6 DEF BudgetInv, BudgetType
<1>11. Truthful' BY <1>1, <1>3, <1>6, <1>7, <1>8, <1>9 DEF Truthful
<1>12. Behind'
  <2>1. Size(ns) \in Nat BY <1>5, SizeIsNat
  <2>2. Between(Size(ns), Size(ns), lost) BY <1>1, <2>1 DEF Between
  <2> QED BY <1>3, <1>6, <1>9, <2>2 DEF Behind
<1>13. Remembers' BY <1>3 DEF Remembers
<1> QED BY <1>10, <1>11, <1>12, <1>13 DEF BudgetInv

\* What the run had not written is lost to the file, and stays in the list.
LEMMA EscapeKeeps == BudgetInv /\ Escape => BudgetInv'
<1> SUFFICES ASSUME BudgetInv, Escape PROVE BudgetInv' OBVIOUS
<1>1. /\ listed \in Seq(Listing) /\ stored \in Seq(Listing) /\ former \in Seq(Listing)
      /\ now \in Nat /\ lost \in Nat /\ Len(listed) \in Nat /\ counted \in Nat
      /\ Known(listed, now) /\ Reports(listed, lost)
      /\ Known(stored, now) /\ Reports(stored, lost) /\ Known(former, now) /\ Reports(former, lost)
  BY DEF BudgetInv, BudgetType, Truthful
<1>2. stage \in Working BY DEF Escape, Working
<1>3. counted <= Len(listed) /\ Between(Size(SubSeq(listed, 1, counted)), Size(stored), lost)
  BY <1>2 DEF BudgetInv, Behind
<1>4. coming' = Nobody /\ stage' = "idle" /\ cut' = TRUE
      /\ lost' = lost + Size(SubSeq(listed', counted + 1, Len(listed')))
      /\ UNCHANGED <<stored, former, counted, cached, then, now, summaries>>
  BY DEF Escape
<1>5. /\ listed' \in Seq(Listing) /\ Known(listed', now) /\ Reports(listed', lost)
      /\ counted <= Len(listed')
      /\ Size(SubSeq(listed', 1, counted)) = Size(SubSeq(listed, 1, counted))
  <2>1. CASE listed' = listed BY <1>1, <1>3, <2>1
  <2>2. CASE listed' # listed
    <3> DEFINE row == Row("result", 1, 0)
               m == [row EXCEPT !.at = now]
               all == Append(listed, m)
    <3>1. listed' = all BY <2>2 DEF Escape
    <3>2. m \in Listing /\ m.at = now /\ m.usage = 0
      <4>1. row \in Listing /\ row.usage = 0 BY <1>1, RowIsListing DEF Role
      <4> HIDE DEF row
      <4> QED BY <1>1, <4>1 DEF Listing
    <3> HIDE DEF m
    <3>3. all \in Seq(Listing) /\ Len(all) = Len(listed) + 1
          /\ all = listed \o <<m>> /\ <<m>> \in Seq(Listing)
      BY <1>1, <3>2, SizeOfOne, SizeOfOneMore
    <3>4. Known(all, now) /\ Reports(all, lost)
      <4>1. m.at <= now /\ ~(m.usage > 0) BY <1>1, <3>2
      <4> QED BY <1>1, <3>2, <4>1, KnownAppend, ReportsAppend
    <3> HIDE DEF all
    <3>5. Size(SubSeq(all, 1, counted)) = Size(SubSeq(listed, 1, counted))
      <4>1. CASE counted = 0
        <5>1. SubSeq(all, 1, 0) = <<>> /\ SubSeq(listed, 1, 0) = <<>> BY SubSeqEmpty
        <5> QED BY <4>1, <5>1
      <4>2. CASE counted # 0
        <5>1. counted \in 1 .. Len(listed) BY <1>1, <1>3, <4>2
        <5> QED BY <3>3, <1>1, <5>1, FrontOfBoth
      <4> QED BY <4>1, <4>2
    <3>6. counted <= Len(all) BY <1>1, <1>3, <3>3
    <3> QED BY <3>1, <3>3, <3>4, <3>5, <3>6
  <2> QED BY <2>1, <2>2
<1> DEFINE rest == SubSeq(listed', counted + 1, Len(listed'))
           front == SubSeq(listed', 1, counted)
<1>6. counted \in 0 .. Len(listed') BY <1>1, <1>5
<1>7. rest \in Seq(Listing) /\ front \in Seq(Listing) BY <1>5, <1>6, FrontType
<1>8. Size(listed') = Size(front) + Size(rest) BY <1>5, <1>6, WholeSize
<1> HIDE DEF rest, front
<1>9. Size(front) \in Nat /\ Size(rest) \in Nat /\ Size(stored) \in Nat BY <1>1, <1>7, SizeIsNat
<1>10. lost' = lost + Size(rest) /\ lost' \in Nat /\ lost <= lost'
  <2>1. lost' = lost + Size(rest) BY <1>4 DEF rest
  <2> QED BY <1>1, <1>9, <2>1
<1>11. Between(Size(listed'), Size(stored), lost')
  <2>1. Between(Size(front), Size(stored), lost) BY <1>3, <1>5 DEF front
  <2> QED BY <1>1, <1>8, <1>9, <1>10, <2>1 DEF Between
<1>12. stage' \notin Working BY <1>4 DEF Working
<1>13. BudgetType' BY <1>4, <1>5, <1>10, NobodyIsListing DEF BudgetInv, BudgetType
<1>14. Truthful'
  <2>1. Nobody.at <= now /\ ~(Nobody.usage > 0) BY <1>1, NobodyIsListing
  <2> QED BY <1>1, <1>4, <1>5, <1>10, ReportsWiden, <2>1 DEF Truthful
<1>15. Behind' BY <1>4, <1>11, <1>12 DEF Behind
<1>16. Remembers' BY <1>4, <1>12 DEF Remembers
<1> QED BY <1>13, <1>14, <1>15, <1>16 DEF BudgetInv

LEMMA BudgetStarts == BudgetInit => BudgetInv
<1> SUFFICES ASSUME BudgetInit PROVE BudgetInv OBVIOUS
<1> DEFINE none == <<>>
<1>1. none \in Seq(Listing) /\ Len(none) = 0 /\ Anchors(none) = {} /\ Size(none) = 0
  BY SizeOfNone DEF Anchors
<1>2. listed = none /\ stored = none /\ former = none /\ counted = 0 /\ cached = 0 /\ stage = "idle"
      /\ then = "idle" /\ coming = Nobody /\ cut = FALSE /\ lost = 0 /\ now = 0 /\ summaries = 0
  BY DEF BudgetInit
<1> HIDE DEF none
<1>3. Known(none, 0) /\ Reports(none, 0) /\ Between(Size(none), Size(none), 0)
  BY <1>1 DEF Known, Reports, Between
<1>4. stage \notin Working BY <1>2 DEF Working
<1>5. BudgetType BY <1>1, <1>2, NobodyIsListing DEF BudgetType
<1>6. Truthful
  <2>1. Nobody.at <= 0 /\ ~(Nobody.usage > 0) BY NobodyIsListing
  <2> QED BY <1>2, <1>3, <2>1 DEF Truthful
<1>7. Behind BY <1>2, <1>3, <1>4 DEF Behind
<1>8. Remembers BY <1>2 DEF Remembers
<1> QED BY <1>5, <1>6, <1>7, <1>8 DEF BudgetInv

LEMMA BudgetStays == BudgetInv /\ UNCHANGED budgetVars => BudgetInv'
BY DEF BudgetInv, BudgetType, Truthful, Behind, Remembers, Right, Total, budgetVars

LEMMA BudgetSteps == BudgetInv /\ [BudgetNext]_budgetVars => BudgetInv'
<1> SUFFICES ASSUME BudgetInv, [BudgetNext]_budgetVars PROVE BudgetInv' OBVIOUS
<1>1. CASE DecideBefore BY <1>1, DecideKeeps DEF DecideBefore
<1>2. CASE DecideAfter BY <1>2, DecideKeeps DEF DecideAfter
<1> QED
  BY <1>1, <1>2, BeginKeeps, SummarizeKeeps, NoSummaryKeeps, SendKeeps, WritesKeep, ListKeeps,
     ToolEndsKeeps, NextTurnKeeps, EscapeKeeps, LookKeeps, OutputKeeps, CompactAllKeeps,
     RebuildKeeps, BudgetStays DEF BudgetNext

\* Whether a session compacts is decided by the size of what would be sent next, for any sizes of
\* messages, thresholds and numbers of prompts: no report of a provider is used that counted what
\* is no longer in front of it, whatever was compacted, branched or loaded since, and none that a
\* cut run made is too high by more than what it left out of the file (_maybe_auto_compact,
\* estimate_context_usage and the cache between them).
THEOREM DecisionsAreTrue == Spec => []DecidedByTheTruth
<1>1. Init => BudgetInv BY BudgetStarts DEF Init
<1>2. BudgetInv /\ [Next]_vars => BudgetInv' BY BudgetSteps DEF Next, vars, budgetVars
<1>3. BudgetInv => DecidedByTheTruth
  <2> SUFFICES ASSUME BudgetInv, stage \in {"before", "after"}
               PROVE  Right(Estimate(listed)) /\ (cut \/ Right(Usage))
    BY DEF DecidedByTheTruth
  <2>1. stage \notin Working BY DEF Working
  <2> QED BY <2>1, UsageIsRight
<1> QED BY <1>1, <1>2, <1>3, PTL DEF Spec
------------------------------------------------------------------------------
(* The journal *)

Message == [role : {"user", "assistant", "result", "summary"}, id : Nat, n : Nat]
MessageRow == [id : Nat, msg : Message]

MessageEntries == [kind : {"message"}, parent : Nat, msg : Message]
LeafEntries == [kind : {"leaf"}, parent : Nat, target : Nat]
CompactionEntries == [kind : {"compaction"}, parent : Nat, replaces : SUBSET Nat]
Entry == MessageEntries \cup LeafEntries \cup CompactionEntries

\* Entries that follow the first base ones, each after the entry it points to.
After(base, t) ==
  \A i \in DOMAIN t : /\ t[i].parent < base + i
                      /\ t[i].kind = "leaf" => t[i].target < base + i

Stored(j) == j \in Seq(Entry) /\ After(0, j)

\* What an entry does to the rows of its parent.
RowsWith(j, e, before) ==
  IF j[e].kind = "message" THEN Append(before, [id |-> e, msg |-> j[e].msg])
  ELSE IF j[e].kind = "compaction" THEN Compacted(before, e, j[e].replaces)
  ELSE before

\* The rows of the paths to all entries.
Paths(g, j) ==
  /\ g \in [0 .. Len(j) -> Seq(MessageRow)]
  /\ g[0] = <<>>
  /\ \A e \in 1 .. Len(j) : g[e] = RowsWith(j, e, g[j[e].parent])
  /\ \A e \in 0 .. Len(j) : Rows(j, e) = g[e]

\* The fields of an entry.
LEMMA EntryTypes ==
  ASSUME NEW x \in Entry
  PROVE  /\ x.parent \in Nat
         /\ x.kind = "message" => x.msg \in Message
         /\ x.kind = "leaf" => x.target \in Nat
         /\ x.kind = "compaction" => x.replaces \in SUBSET Nat
BY DEF Entry, MessageEntries, LeafEntries, CompactionEntries

\* What is true of every row, and of the row of the summary, is true after a compaction.
LEMMA CompactedIn ==
  ASSUME NEW S, NEW rows \in Seq(S), NEW id \in Nat, NEW replaces,
         [id |-> id, msg |-> Summary(id)] \in S
  PROVE  Compacted(rows, id, replaces) \in Seq(S)
<1> DEFINE gone == {p \in DOMAIN rows : rows[p].id \in replaces}
           row == [id |-> id, msg |-> Summary(id)]
           at(p) == IF p \notin gone THEN <<rows[p]>>
                    ELSE IF \A q \in gone : p <= q THEN <<row>> ELSE <<>>
           ss == [p \in DOMAIN rows |-> at(p)]
<1>1. row \in S OBVIOUS
<1> HIDE DEF row
<1>2. ASSUME NEW p \in DOMAIN rows PROVE at(p) \in Seq(S)
  <2>1. rows[p] \in S OBVIOUS
  <2> HIDE DEF gone
  <2> QED BY <1>1, <2>1
<1>3. ss \in Seq(Seq(S))
  <2>1. DOMAIN rows = 1 .. Len(rows) /\ Len(rows) \in Nat OBVIOUS
  <2>2. ss \in [1 .. Len(rows) -> Seq(S)]
    <3> HIDE DEF at
    <3> QED BY <1>2, <2>1
  <2> HIDE DEF ss
  <2> QED BY <2>1, <2>2, SeqDef
<1>4. FlattenSeq(ss) \in Seq(S)
  <2> HIDE DEF ss
  <2> QED BY <1>3, FlattenPlaces
<1>5. Append(rows, row) \in Seq(S) BY <1>1
<1>6. Compacted(rows, id, replaces) = IF gone = {} THEN Append(rows, row) ELSE FlattenSeq(ss)
  BY DEF Compacted, row
<1> HIDE DEF gone, ss
<1> QED BY <1>4, <1>5, <1>6

LEMMA CompactedType ==
  ASSUME NEW rows \in Seq(MessageRow), NEW id \in Nat, NEW replaces
  PROVE  Compacted(rows, id, replaces) \in Seq(MessageRow)
<1>1. [id |-> id, msg |-> Summary(id)] \in MessageRow BY DEF MessageRow, Message, Summary, Msg
<1> QED BY <1>1, CompactedIn

LEMMA RowsWithType ==
  ASSUME NEW j, Stored(j), NEW e \in 1 .. Len(j), NEW before \in Seq(MessageRow)
  PROVE  RowsWith(j, e, before) \in Seq(MessageRow)
<1>1. j[e] \in Entry /\ e \in Nat BY DEF Stored
<1>2. CASE j[e].kind = "message"
  <2> QED BY <1>2, <1>1, EntryTypes DEF RowsWith, MessageRow
<1>3. CASE j[e].kind = "compaction" BY <1>1, <1>3, CompactedType DEF RowsWith
<1>4. CASE j[e].kind \notin {"message", "compaction"} BY <1>4 DEF RowsWith
<1> QED BY <1>2, <1>3, <1>4

\* The parent and the target of an entry come before it.
LEMMA StoredBefore ==
  ASSUME NEW j, Stored(j), NEW e \in 1 .. Len(j)
  PROVE  /\ j[e] \in Entry /\ e \in DOMAIN j /\ e \in Nat
         /\ j[e].parent \in 0 .. e - 1 /\ j[e].parent \in 0 .. Len(j)
         /\ j[e].kind = "leaf" => j[e].target \in 0 .. e - 1 /\ j[e].target \in 0 .. Len(j)
<1>1. j[e] \in Entry /\ e \in DOMAIN j /\ e \in Nat /\ e <= Len(j) /\ Len(j) \in Nat BY DEF Stored
<1>2. j[e].parent \in Nat /\ (j[e].kind = "leaf" => j[e].target \in Nat) BY <1>1, EntryTypes
<1> QED BY <1>1, <1>2 DEF Stored, After

\* The function that Rows defines by recursion exists, because parents come first.
LEMMA RowsExist ==
  ASSUME NEW j, Stored(j)
  PROVE  \E g : Paths(g, j)
<1> DEFINE n == Len(j)
           V == Seq(MessageRow)
           parent == [e \in 1 .. n |-> j[e].parent]
           next == [x \in (1 .. n) \X V |-> RowsWith(j, x[1], x[2])]
           Walk(g) == g = [e \in 0 .. n |->
                            IF e = 0 THEN <<>>
                            ELSE LET before == g[j[e].parent]
                                 IN  IF j[e].kind = "message"
                                     THEN Append(before, [id |-> e, msg |-> j[e].msg])
                                     ELSE IF j[e].kind = "compaction"
                                          THEN Compacted(before, e, j[e].replaces)
                                     ELSE before]
           h == CHOOSE g : Walk(g)
<1>1. n \in Nat BY DEF Stored
<1>2. IsTree(parent, n)
  <2> QED BY StoredBefore DEF IsTree
<1>3. next \in [(1 .. n) \X V -> V]
  <2>1. ASSUME NEW x \in (1 .. n) \X V PROVE RowsWith(j, x[1], x[2]) \in V
    <3>1. x[1] \in 1 .. n /\ x[2] \in V OBVIOUS
    <3> QED BY <3>1, RowsWithType
  <2> HIDE DEF V
  <2> QED BY <2>1
<1>4. ASSUME NEW e \in 1 .. n, NEW v \in V PROVE next[<<e, v>>] = RowsWith(j, e, v)
  <2> HIDE DEF V
  <2> QED OBVIOUS
<1>5. PICK f : Grows(f, n, parent, V, <<>>, next)
  <2>1. <<>> \in V OBVIOUS
  <2> HIDE DEF V, next, parent, n
  <2> QED BY <1>1, <1>2, <1>3, <2>1, TreeRecursion
<1>6. f \in [0 .. n -> V] /\ \A e \in 0 .. n : f[e] = IF e = 0 THEN <<>> ELSE next[<<e, f[parent[e]]>>]
  <2> HIDE DEF V, next, parent, n
  <2> QED BY <1>5 DEF Grows
<1>7. f[0] = <<>>
  <2>1. 0 \in 0 .. n BY <1>1
  <2> QED BY <1>6, <2>1
<1>8. ASSUME NEW e \in 1 .. n PROVE f[e] = RowsWith(j, e, f[j[e].parent])
  <2>1. e \in 0 .. n /\ e # 0 /\ j[e].parent \in 0 .. n /\ parent[e] = j[e].parent
    BY <1>1, StoredBefore
  <2>2. f[j[e].parent] \in V
    <3> HIDE DEF V
    <3> QED BY <1>6, <2>1
  <2>3. f[e] = next[<<e, f[j[e].parent]>>]
    <3> HIDE DEF V, next, parent
    <3> QED BY <1>6, <2>1
  <2> HIDE DEF next, V
  <2> QED BY <1>4, <2>2, <2>3
<1>9. Walk(f)
  <2>1. ASSUME NEW e \in 0 .. n
        PROVE  f[e] = IF e = 0 THEN <<>>
                      ELSE IF j[e].kind = "message"
                           THEN Append(f[j[e].parent], [id |-> e, msg |-> j[e].msg])
                      ELSE IF j[e].kind = "compaction"
                           THEN Compacted(f[j[e].parent], e, j[e].replaces)
                      ELSE f[j[e].parent]
    <3>1. CASE e = 0 BY <1>7, <3>1
    <3>2. CASE e # 0
      <4>1. e \in 1 .. n BY <3>2
      <4> QED BY <1>8, <3>2, <4>1 DEF RowsWith
    <3> QED BY <3>1, <3>2
  <2>2. f = [e \in 0 .. n |-> f[e]] BY <1>6
  <2> QED BY <2>1, <2>2
<1>10. Walk(h)
  <2> HIDE DEF Walk
  <2> QED BY <1>9
<1>11. ASSUME NEW e \in 0 .. n PROVE Rows(j, e) = h[e] BY SMTT(30) DEF Rows
<1> HIDE DEF h
<1>12. ASSUME NEW e \in 0 .. n
       PROVE  h[e] = IF e = 0 THEN <<>> ELSE RowsWith(j, e, h[j[e].parent])
  BY <1>10 DEF RowsWith
<1>13. \A e \in Nat : e \in 0 .. n => h[e] = f[e]
  <2> DEFINE odd == {e \in 0 .. n : h[e] # f[e]}
  <2> SUFFICES ASSUME odd # {} PROVE FALSE OBVIOUS
  <2>1. odd \in SUBSET Nat BY <1>1
  <2>2. PICK e \in odd : \A d \in odd : e <= d
    <3> HIDE DEF odd
    <3> QED BY <2>1, LeastNumber
  <2>3. CASE e = 0 BY <1>7, <1>12, <2>2, <2>3
  <2>4. CASE e # 0
    <3>1. e \in 1 .. n /\ e \in 0 .. n BY <2>2, <2>4
    <3>2. j[e].parent \in 0 .. n /\ ~ (e <= j[e].parent) BY <3>1, StoredBefore
    <3>3. h[j[e].parent] = f[j[e].parent] BY <2>2, <3>2
    <3> HIDE DEF Walk
    <3> QED BY <1>8, <1>12, <2>2, <2>4, <3>1, <3>3
  <2> QED BY <2>3, <2>4
<1>14. \A e \in 0 .. n : Rows(j, e) = f[e]
  <2>1. \A e \in 0 .. n : e \in Nat OBVIOUS
  <2> QED BY <1>11, <1>13, <2>1
<1> HIDE DEF Walk, next, parent
<1>15. Paths(f, j) BY <1>6, <1>7, <1>8, <1>14 DEF Paths
<1> QED BY <1>15

LEMMA RowsType ==
  ASSUME NEW j, Stored(j), NEW e \in 0 .. Len(j)
  PROVE  Rows(j, e) \in Seq(MessageRow)
<1>1. PICK g : Paths(g, j) BY RowsExist
<1> QED BY <1>1 DEF Paths

\* Rows, one entry at a time.
LEMMA RowsStep ==
  ASSUME NEW j, Stored(j), NEW e \in 1 .. Len(j)
  PROVE  Rows(j, e) = RowsWith(j, e, Rows(j, j[e].parent))
<1>1. PICK g : Paths(g, j) BY RowsExist
<1>2. e \in 0 .. Len(j) /\ j[e].parent \in 0 .. Len(j) BY StoredBefore
<1> QED BY <1>1, <1>2 DEF Paths

LEMMA RowsOfNone ==
  ASSUME NEW j, Stored(j)
  PROVE  Rows(j, 0) = <<>>
<1>1. PICK g : Paths(g, j) BY RowsExist
<1>2. 0 \in 0 .. Len(j) BY DEF Stored
<1> QED BY <1>1, <1>2 DEF Paths

\* Entries that are written later do not change a path.
LEMMA RowsStay ==
  ASSUME NEW j, Stored(j), NEW k \in Seq(Entry), Stored(j \o k)
  PROVE  \A e \in 0 .. Len(j) : Rows(j \o k, e) = Rows(j, e)
<1> DEFINE l == j \o k
           odd == {e \in 0 .. Len(j) : Rows(l, e) # Rows(j, e)}
<1>1. j \in Seq(Entry) /\ Len(j) \in Nat BY DEF Stored
<1>2. \A e \in 1 .. Len(j) : l[e] = j[e] /\ e \in 1 .. Len(l) BY <1>1
<1> SUFFICES ASSUME odd # {} PROVE FALSE OBVIOUS
<1>3. odd \in SUBSET Nat BY <1>1
<1>4. PICK e \in odd : \A d \in odd : e <= d
  <2> HIDE DEF odd
  <2> QED BY <1>3, LeastNumber
<1> HIDE DEF l
<1>5. Stored(l) BY DEF l
<1>6. CASE e = 0 BY <1>4, <1>5, <1>6, RowsOfNone
<1>7. CASE e # 0
  <2>1. e \in 1 .. Len(j) BY <1>4, <1>7
  <2>2. Rows(l, j[e].parent) = Rows(j, j[e].parent) BY <1>4, <2>1, StoredBefore
  <2>3. Rows(j, e) = RowsWith(j, e, Rows(j, j[e].parent)) BY <2>1, RowsStep
  <2>4. \A r : RowsWith(l, e, r) = RowsWith(j, e, r) BY <1>2, <2>1 DEF RowsWith
  <2> QED BY <1>2, <1>4, <2>1, <2>2, <1>5, RowsStep, <2>3, <2>4
<1> QED BY <1>6, <1>7
------------------------------------------------------------------------------
(* Writing messages *)

\* The entries of Chain, two for each message.
Pairs(t, base, parent, ms) ==
  /\ t \in Seq(Entry) /\ Len(t) = 2 * Len(ms)
  /\ \A k \in 1 .. Len(ms) :
       /\ t[2 * k - 1] = MessageEntry(IF k = 1 THEN parent ELSE base + 2 * k - 3, ms[k])
       /\ t[2 * k] = LeafEntry(base + 2 * k - 1)

LEMMA EntriesAreEntries ==
  ASSUME NEW parent \in Nat
  PROVE  /\ \A m \in Message : MessageEntry(parent, m) \in Entry
         /\ LeafEntry(parent) \in Entry
         /\ \A ids \in SUBSET Nat : CompactionEntry(parent, ids) \in Entry
BY DEF Entry, MessageEntries, LeafEntries, CompactionEntries, MessageEntry, LeafEntry,
   CompactionEntry

\* Persist writes two entries for each message: the message, and a leaf that points to it.
LEMMA ChainHasPairs ==
  ASSUME NEW base \in Nat, NEW parent \in Nat, NEW ms \in Seq(Message)
  PROVE  Pairs(Chain(base, parent, ms), base, parent, ms)
<1> DEFINE n == Len(ms)
           pair(k) == <<MessageEntry(IF k = 1 THEN parent ELSE base + 2 * k - 3, ms[k]),
                        LeafEntry(base + 2 * k - 1)>>
           ss == [k \in DOMAIN ms |-> pair(k)]
           t == FlattenSeq(ss)
<1>1. n \in Nat /\ DOMAIN ms = 1 .. n /\ \A k \in 1 .. n : ms[k] \in Message OBVIOUS
<1>2. ASSUME NEW k \in 1 .. n
      PROVE  /\ pair(k) \in Seq(Entry) /\ Len(pair(k)) = 2
             /\ pair(k)[1] = MessageEntry(IF k = 1 THEN parent ELSE base + 2 * k - 3, ms[k])
             /\ pair(k)[2] = LeafEntry(base + 2 * k - 1)
  <2> DEFINE before == IF k = 1 THEN parent ELSE base + 2 * k - 3
             this == base + 2 * k - 1
  <2>1. before \in Nat /\ this \in Nat /\ ms[k] \in Message BY <1>1
  <2> HIDE DEF before, this
  <2>2. MessageEntry(before, ms[k]) \in Entry /\ LeafEntry(this) \in Entry
    BY <2>1, EntriesAreEntries
  <2> QED BY <2>2 DEF before, this
<1>3. ss \in Seq(Seq(Entry)) /\ Len(ss) = n /\ \A k \in 1 .. n : ss[k] = pair(k)
  <2>1. ss \in [1 .. n -> Seq(Entry)] /\ \A k \in 1 .. n : ss[k] = pair(k)
    <3> HIDE DEF pair
    <3> QED BY <1>1, <1>2
  <2> HIDE DEF ss, n
  <2> QED BY <1>1, <2>1, SeqDef
<1> HIDE DEF ss, pair, n
<1>4. t \in Seq(Entry) BY <1>3, FlattenPlaces
<1>5. PICK at : Offsets(at, ss) BY <1>3, FlattenPlaces
<1>6. /\ at \in [0 .. n -> Nat] /\ at[0] = 0 /\ Len(t) = at[n]
      /\ \A k \in 1 .. n : /\ at[k] = at[k - 1] + 2
                           /\ t[at[k - 1] + 1] = pair(k)[1] /\ t[at[k - 1] + 2] = pair(k)[2]
  <2>1. ASSUME NEW k \in 1 .. n
        PROVE  /\ at[k] = at[k - 1] + 2
               /\ t[at[k - 1] + 1] = pair(k)[1] /\ t[at[k - 1] + 2] = pair(k)[2]
    <3>1. ss[k] = pair(k) BY <1>3
    <3>2. Len(ss[k]) = 2 /\ 1 \in 1 .. 2 /\ 2 \in 1 .. 2 BY <1>2, <3>1
    <3> QED BY <1>3, <1>5, <3>1, <3>2, ZenonT(60) DEF Offsets
  <2> QED BY <1>3, <1>5, <2>1 DEF Offsets
<1>7. \A k \in Nat : k <= n => at[k] = 2 * k
  <2> DEFINE U == {k \in Nat : k <= n => at[k] = 2 * k}
  <2>1. 0 \in U BY <1>6
  <2>2. ASSUME NEW k \in Nat, k \in U PROVE k + 1 \in U
    <3> SUFFICES ASSUME k + 1 <= n PROVE at[k + 1] = 2 * (k + 1) OBVIOUS
    <3>1. k <= n /\ k + 1 \in 1 .. n /\ (k + 1) - 1 = k BY <1>1
    <3>2. at[k + 1] = at[k] + 2 /\ at[k] = 2 * k BY <1>6, <2>2, <3>1
    <3> QED BY <3>2
  <2> HIDE DEF U
  <2>3. \A k \in Nat : k \in U BY <2>1, <2>2, Induction
  <2> QED BY <2>3 DEF U
<1>8. ASSUME NEW k \in 1 .. n
      PROVE  /\ t[2 * k - 1] = MessageEntry(IF k = 1 THEN parent ELSE base + 2 * k - 3, ms[k])
             /\ t[2 * k] = LeafEntry(base + 2 * k - 1)
  <2>1. k - 1 \in Nat /\ k - 1 <= n /\ 2 * (k - 1) + 1 = 2 * k - 1 /\ 2 * (k - 1) + 2 = 2 * k
    BY <1>1
  <2>2. at[k - 1] = 2 * (k - 1) BY <1>7, <2>1
  <2> QED BY <1>2, <1>6, <2>1, <2>2
<1>9. Len(t) = 2 * n BY <1>1, <1>6, <1>7
<1>10. Pairs(t, base, parent, ms) BY <1>4, <1>8, <1>9 DEF Pairs, n
<1>11. t = Chain(base, parent, ms) BY DEF Chain, ss, pair
<1> QED BY <1>10, <1>11

\* Entries that follow the journal may be written to it.
LEMMA AfterBoth ==
  ASSUME NEW j, Stored(j), NEW t \in Seq(Entry), After(Len(j), t)
  PROVE  /\ Stored(j \o t) /\ Len(j \o t) = Len(j) + Len(t)
         /\ \A i \in 1 .. Len(t) : (j \o t)[Len(j) + i] = t[i]
<1> DEFINE l == j \o t
<1>1. j \in Seq(Entry) /\ Len(j) \in Nat /\ Len(t) \in Nat /\ DOMAIN j = 1 .. Len(j) /\ DOMAIN t = 1 .. Len(t)
  BY DEF Stored
<1>2. /\ l \in Seq(Entry) /\ Len(l) = Len(j) + Len(t) /\ DOMAIN l = 1 .. Len(l)
      /\ \A i \in 1 .. Len(j) : l[i] = j[i]
      /\ \A i \in 1 .. Len(t) : l[Len(j) + i] = t[i]
  BY <1>1
<1> HIDE DEF l
<1>3. ASSUME NEW i \in DOMAIN l
      PROVE  l[i].parent < 0 + i /\ (l[i].kind = "leaf" => l[i].target < 0 + i)
  <2>1. CASE i <= Len(j)
    <3>1. i \in 1 .. Len(j) BY <1>1, <1>2, <2>1
    <3> QED BY <1>1, <1>2, <3>1 DEF Stored, After
  <2>2. CASE ~ (i <= Len(j))
    <3>1. i - Len(j) \in 1 .. Len(t) /\ Len(j) + (i - Len(j)) = i /\ i \in Nat BY <1>1, <1>2, <2>2
    <3>2. l[i] = t[i - Len(j)] BY <1>2, <3>1
    <3>3. /\ t[i - Len(j)].parent < Len(j) + (i - Len(j))
          /\ t[i - Len(j)].kind = "leaf" => t[i - Len(j)].target < Len(j) + (i - Len(j))
      BY <1>1, <3>1 DEF After
    <3>4. 0 + i = i BY <3>1
    <3> QED BY ONLY <3>1, <3>2, <3>3, <3>4
  <2> QED BY <2>1, <2>2
<1>4. Stored(l) BY <1>2, <1>3 DEF Stored, After
<1> QED BY <1>2, <1>4 DEF l

\* Each entry that Persist writes comes after the one it points to.
LEMMA ChainIsAfter ==
  ASSUME NEW base \in Nat, NEW parent \in 0 .. base, NEW ms \in Seq(Message)
  PROVE  After(base, Chain(base, parent, ms))
<1> DEFINE t == Chain(base, parent, ms)
           n == Len(ms)
<1>1. n \in Nat /\ parent \in Nat OBVIOUS
<1>2. Pairs(t, base, parent, ms) BY <1>1, ChainHasPairs
<1> HIDE DEF t, n
<1>3. /\ t \in Seq(Entry) /\ Len(t) = 2 * n /\ DOMAIN t = 1 .. 2 * n
      /\ \A k \in 1 .. n :
           /\ t[2 * k - 1] = MessageEntry(IF k = 1 THEN parent ELSE base + 2 * k - 3, ms[k])
           /\ t[2 * k] = LeafEntry(base + 2 * k - 1)
  BY <1>2 DEF Pairs, n
<1>4. ASSUME NEW i \in DOMAIN t
      PROVE  /\ t[i].parent < base + i
             /\ t[i].kind = "leaf" => t[i].target < base + i
  <2>1. PICK k \in 1 .. n : i = 2 * k - 1 \/ i = 2 * k
    <3>1. i \in Nat /\ 1 <= i /\ i <= 2 * n BY <1>1, <1>3
    <3>2. (i + 1) \div 2 \in 1 .. n /\ (i = 2 * ((i + 1) \div 2) - 1 \/ i = 2 * ((i + 1) \div 2))
      BY ONLY <1>1, <3>1
    <3> QED BY <3>2
  <2>2. CASE i = 2 * k - 1
    <3> DEFINE before == IF k = 1 THEN parent ELSE base + 2 * k - 3
    <3>1. before < base + i BY <1>1, <2>2
    <3>2. t[i] = MessageEntry(before, ms[k]) BY <1>3, <2>2
    <3> HIDE DEF before
    <3>3. t[i].parent = before /\ t[i].kind # "leaf" BY <3>2 DEF MessageEntry
    <3> QED BY <3>1, <3>3
  <2>3. CASE i = 2 * k
    <3> DEFINE this == base + 2 * k - 1
    <3>1. this < base + i BY <1>1, <2>3
    <3>2. t[i] = LeafEntry(this) BY <1>3, <2>3
    <3> HIDE DEF this
    <3>3. t[i].parent = this /\ t[i].target = this BY <3>2 DEF LeafEntry
    <3> QED BY <3>1, <3>3
  <2> QED BY <2>1, <2>2, <2>3
<1> QED BY <1>4 DEF After, t

\* The context of a path to a message is that of its parent and the message.
LEMMA ContextOfMessage ==
  ASSUME NEW j, Stored(j), NEW e \in 1 .. Len(j), j[e].kind = "message"
  PROVE  /\ Context(j, j[e].parent) \in Seq(Message) /\ j[e].msg \in Message
         /\ Context(j, e) = Append(Context(j, j[e].parent), j[e].msg)
<1> DEFINE p == j[e].parent
           before == Rows(j, p)
           row == [id |-> e, msg |-> j[e].msg]
           longer == Append(before, row)
<1>1. j[e] \in Entry /\ e \in Nat /\ p \in 0 .. Len(j) BY StoredBefore
<1>2. j[e].msg \in Message /\ before \in Seq(MessageRow) BY <1>1, EntryTypes, RowsType
<1>3. row \in MessageRow /\ row.msg = j[e].msg BY <1>1, <1>2 DEF MessageRow
<1>4. Rows(j, e) = longer BY RowsStep DEF RowsWith
<1> HIDE DEF p, before, row
<1>5. /\ longer \in Seq(MessageRow) /\ Len(longer) = Len(before) + 1 /\ Len(before) \in Nat
      /\ DOMAIN longer = 1 .. Len(before) + 1 /\ DOMAIN before = 1 .. Len(before)
      /\ longer[Len(before) + 1] = row /\ \A i \in 1 .. Len(before) : longer[i] = before[i]
  BY <1>2, <1>3
<1> HIDE DEF longer
<1>6. \A i \in 1 .. Len(before) : before[i].msg \in Message
  <2>1. \A i \in 1 .. Len(before) : before[i] \in MessageRow BY <1>2
  <2> QED BY <2>1 DEF MessageRow
<1> DEFINE s == Messages(before)
           f == Messages(longer)
<1>7. s \in Seq(Message) /\ Len(s) = Len(before) /\ \A i \in 1 .. Len(before) : s[i] = before[i].msg
  <2>1. /\ s \in [1 .. Len(before) -> Message]
        /\ \A i \in 1 .. Len(before) : s[i] = before[i].msg
    BY <1>5, <1>6 DEF Messages
  <2> HIDE DEF s
  <2> QED BY <1>5, <2>1, SeqDef
<1>8. /\ f \in [1 .. Len(before) + 1 -> Message]
      /\ f[Len(before) + 1] = j[e].msg
      /\ \A i \in 1 .. Len(before) : f[i] = s[i]
  <2>1. \A i \in 1 .. Len(before) + 1 : i \in 1 .. Len(before) \/ i = Len(before) + 1 BY <1>5
  <2>2. f = [i \in 1 .. Len(before) + 1 |-> longer[i].msg] BY <1>5 DEF Messages
  <2>3. \A i \in 1 .. Len(before) + 1 : longer[i].msg \in Message BY <1>2, <1>3, <1>5, <1>6, <2>1
  <2>4. Len(before) + 1 \in 1 .. Len(before) + 1 /\ \A i \in 1 .. Len(before) : i \in 1 .. Len(before) + 1
    BY <1>5
  <2> HIDE DEF s, f
  <2> QED BY <1>3, <1>5, <1>7, <2>2, <2>3, <2>4
<1> HIDE DEF s, f
<1>9. f = Append(s, j[e].msg) BY <1>2, <1>5, <1>7, <1>8, AppendIs
<1>10. s = Context(j, j[e].parent) /\ f = Context(j, e) BY <1>4 DEF s, f, Context, before, p
<1> QED BY <1>2, <1>7, <1>9, <1>10

LEMMA ContextType ==
  ASSUME NEW j, Stored(j), NEW e \in 0 .. Len(j)
  PROVE  Context(j, e) \in Seq(Message)
<1> DEFINE rows == Rows(j, e)
           s == [p \in DOMAIN rows |-> rows[p].msg]
<1>1. rows \in Seq(MessageRow) BY RowsType
<1> HIDE DEF rows
<1>2. Len(rows) \in Nat /\ s \in [1 .. Len(rows) -> Message]
  <2>1. \A i \in 1 .. Len(rows) : rows[i].msg \in Message
    <3>1. \A i \in 1 .. Len(rows) : rows[i] \in MessageRow BY <1>1
    <3> QED BY <3>1 DEF MessageRow
  <2> QED BY <1>1, <2>1
<1>3. s \in Seq(Message)
  <2> HIDE DEF s
  <2> QED BY <1>2, SeqDef
<1> QED BY <1>3 DEF Context, Messages, rows
\* The journal l and its head after Persist.
WrittenOut(l, last, j, leaf, ms) ==
  /\ l = j \o Chain(Len(j), leaf, ms)
  /\ last = IF ms = <<>> THEN leaf ELSE Len(j) + 2 * Len(ms) - 1

\* The context after Persist: what was there, and the messages.
LEMMA ChainIsWritten ==
  ASSUME NEW j, Stored(j), NEW leaf \in 0 .. Len(j), NEW ms \in Seq(Message), NEW l, NEW last,
         WrittenOut(l, last, j, leaf, ms)
  PROVE  Stored(l) /\ last \in 0 .. Len(l) /\ Context(l, last) = Context(j, leaf) \o ms
<1> DEFINE t == Chain(Len(j), leaf, ms)
           base == Len(j)
           n == Len(ms)
           c == Context(j, leaf)
           at(k) == IF k = 0 THEN leaf ELSE base + 2 * k - 1
<1>1. base \in Nat /\ leaf \in Nat /\ n \in Nat /\ j \in Seq(Entry) BY DEF Stored
<1>2. Pairs(t, base, leaf, ms) /\ After(base, t) /\ l = j \o t
  BY <1>1, ChainHasPairs, ChainIsAfter DEF WrittenOut
<1>3. c \in Seq(Message) BY ContextType
<1> HIDE DEF t, base, c
<1>4. /\ t \in Seq(Entry) /\ Len(t) = 2 * n
      /\ \A k \in 1 .. n :
           t[2 * k - 1] = MessageEntry(IF k = 1 THEN leaf ELSE base + 2 * k - 3, ms[k])
  BY <1>2 DEF Pairs
<1>5. /\ Stored(l) /\ Len(l) = base + 2 * n
      /\ \A i \in 1 .. Len(t) : l[base + i] = t[i]
  BY <1>1, <1>2, <1>4, AfterBoth, ZenonT(30) DEF base
<1>6. ASSUME NEW k \in Nat, k + 1 <= n
      PROVE  /\ at(k + 1) \in 1 .. Len(l) /\ at(k) \in 0 .. Len(l)
             /\ l[at(k + 1)] = MessageEntry(at(k), ms[k + 1])
  <2>1. k + 1 \in 1 .. n /\ at(k + 1) = base + (2 * (k + 1) - 1) /\ 2 * (k + 1) - 1 \in 1 .. 2 * n
    BY <1>1, <1>6
  <2>2. at(k) = IF k + 1 = 1 THEN leaf ELSE base + 2 * (k + 1) - 3 BY <1>1
  <2>3. l[at(k + 1)] = t[2 * (k + 1) - 1] BY <1>4, <1>5, <2>1
  <2>4. t[2 * (k + 1) - 1] = MessageEntry(at(k), ms[k + 1])
    <3> HIDE DEF at
    <3> QED BY <1>4, <2>1, <2>2
  <2> QED BY <1>1, <1>5, <1>6, <2>3, <2>4 DEF base
<1> HIDE DEF at, n
<1>7. \A k \in Nat : k <= n => Context(l, at(k)) = c \o SubSeq(ms, 1, k)
  <2> DEFINE U == {k \in Nat : k <= n => Context(l, at(k)) = c \o SubSeq(ms, 1, k)}
  <2>1. 0 \in U
    <3>1. at(0) = leaf BY DEF at
    <3>2. Context(l, leaf) = c
      <4>1. Rows(l, leaf) = Rows(j, leaf) BY <1>2, <1>4, <1>5, RowsStay
      <4> QED BY <4>1 DEF Context, c
    <3>3. SubSeq(ms, 1, 0) = <<>> BY SubSeqEmpty
    <3>4. c \o <<>> = c BY <1>3
    <3> QED BY <3>1, <3>2, <3>3, <3>4
  <2>2. ASSUME NEW k \in Nat, k \in U PROVE k + 1 \in U
    <3> SUFFICES ASSUME k + 1 <= n PROVE Context(l, at(k + 1)) = c \o SubSeq(ms, 1, k + 1) OBVIOUS
    <3>1. k <= n /\ k + 1 \in 1 .. n /\ n \in Nat BY <1>1
    <3>2. Context(l, at(k)) = c \o SubSeq(ms, 1, k) BY <2>2, <3>1
    <3> HIDE DEF U
    <3>3. /\ l[at(k + 1)].kind = "message" /\ l[at(k + 1)].parent = at(k)
          /\ l[at(k + 1)].msg = ms[k + 1]
      <4>1. l[at(k + 1)] = MessageEntry(at(k), ms[k + 1]) BY <1>6
      <4> QED BY <4>1 DEF MessageEntry
    <3>4. Context(l, at(k + 1)) = Append(Context(l, at(k)), ms[k + 1])
      BY <1>5, <1>6, <3>3, ContextOfMessage, SMTT(30)
    <3>5. Append(c \o SubSeq(ms, 1, k), ms[k + 1]) = c \o SubSeq(ms, 1, k + 1)
      <4>1. ms[k + 1] \in Message BY <3>1 DEF n
      <4> DEFINE a == SubSeq(ms, 1, k)
                 x == ms[k + 1]
      <4>2. a \in Seq(Message) /\ x \in Message /\ SubSeq(ms, 1, k + 1) = Append(a, x)
        BY <4>1, <3>1 DEF n
      <4> HIDE DEF a, x
      <4>3. Append(c \o a, x) = c \o Append(a, x)
        <5>1. c \o a \in Seq(Message) /\ <<x>> \in Seq(Message) BY <1>3, <4>2
        <5>2. (c \o a) \o <<x>> = c \o (a \o <<x>>) BY <1>3, <4>2, <5>1, ConcatAssociative, SMTT(30)
        <5> QED BY <4>2, <5>1, AppendIsConcat, <5>2
      <4> QED BY <4>2, <4>3 DEF a, x
    <3> QED BY <3>2, <3>4, <3>5
  <2> HIDE DEF U
  <2>3. \A k \in Nat : k \in U BY <2>1, <2>2, Induction
  <2> QED BY <2>3 DEF U
<1>8. last = at(n)
  <2>1. ms = <<>> <=> n = 0 BY DEF n
  <2> QED BY <2>1 DEF at, base, n, WrittenOut
<1>9. Context(l, last) = c \o ms
  <2>1. SubSeq(ms, 1, n) = ms BY DEF n
  <2>2. Context(l, at(n)) = c \o SubSeq(ms, 1, n)
    <3>1. n \in Nat /\ n <= n BY <1>1
    <3> QED BY <1>7, <3>1
  <2> QED BY <1>8, <2>1, <2>2
<1>10. last \in 0 .. Len(l) BY <1>1, <1>5, <1>8 DEF at, base
<1> QED BY <1>5, <1>9, <1>10 DEF c
------------------------------------------------------------------------------
(* Suffixes *)
------------------------------------------------------------------------------
(* What a compaction replaces *)

LEMMA LeastIs ==
  ASSUME NEW T \in SUBSET Nat, T # {}
  PROVE  Least(T) \in T /\ \A q \in T : Least(T) <= q
<1>1. \E p \in T : \A q \in T : p <= q BY LeastNumber
<1> QED BY <1>1 DEF Least

\* A compaction keeps from some row on, or none.
LEMMA FirstKeptIsThere ==
  ASSUME NEW rows \in Seq(MessageRow), NEW c \in DOMAIN rows
  PROVE  FirstKept(rows, c) \in 1 .. Len(rows) + 1
<1> DEFINE n == Len(rows)
           U == UserFrom(rows, c + 1)
           R == {p \in c .. Len(rows) : rows[p].msg.role # "result"} \cup {Len(rows) + 1}
<1>1. n \in Nat /\ c \in 1 .. n OBVIOUS
<1>2. U \subseteq 1 .. n + 1 /\ U \in SUBSET Nat BY <1>1 DEF UserFrom
<1>3. R \subseteq 1 .. n + 1 /\ R \in SUBSET Nat /\ R # {} BY <1>1
<1>4. Least(R) \in R
  <2> HIDE DEF R
  <2> QED BY <1>3, LeastIs
<1>5. U # {} => Least(U) \in U
  <2> HIDE DEF U
  <2> QED BY <1>2, LeastIs
<1>6. \/ FirstKept(rows, c) = c \/ FirstKept(rows, c) = 1 \/ FirstKept(rows, c) = Least(R)
      \/ U # {} /\ FirstKept(rows, c) = Least(U)
  BY DEF FirstKept
<1> HIDE DEF U, R, n
<1>7. c \in 1 .. n + 1 /\ 1 \in 1 .. n + 1 BY <1>1
<1> QED BY <1>2, <1>3, <1>4, <1>5, <1>6, <1>7 DEF n

LEMMA PrefixType ==
  ASSUME NEW rows \in Seq(MessageRow), NEW n \in 0 .. Len(rows)
  PROVE  Prefix(rows, n) \in SUBSET Nat
<1>1. ASSUME NEW p \in 1 .. n PROVE rows[p].id \in Nat
  <2>1. p \in 1 .. Len(rows) OBVIOUS
  <2>2. rows[p] \in MessageRow BY <2>1
  <2> QED BY <2>2 DEF MessageRow
<1> QED BY <1>1 DEF Prefix

\* What a compaction replaces are entries.
LEMMA ReplacedType ==
  ASSUME NEW rows \in Seq(MessageRow), NEW ids \in RecentPreserving(rows) \cup Whole(rows)
  PROVE  ids \in SUBSET Nat
<1>1. CASE ids \in RecentPreserving(rows)
  <2>1. PICK c \in DOMAIN rows : ids = Prefix(rows, FirstKept(rows, c) - 1)
    BY <1>1 DEF RecentPreserving
  <2>2. FirstKept(rows, c) \in 1 .. Len(rows) + 1 BY FirstKeptIsThere
  <2>3. FirstKept(rows, c) - 1 \in 0 .. Len(rows) BY <2>2
  <2> QED BY <2>1, <2>3, PrefixType
<1>2. CASE ids \in Whole(rows)
  <2> QED BY <1>2, PrefixType DEF Whole
<1> QED BY <1>1, <1>2
------------------------------------------------------------------------------
(* Repairs *)

\* Results that are owed are messages.
LEMMA OwedType ==
  ASSUME NEW t \in Seq(Message), NEW p \in DOMAIN t
  PROVE  Owed(t, p) \in Seq(Message)
<1> DEFINE rs == ResultsFor(t[p])
           ss == [j \in DOMAIN rs |-> IF rs[j] \in ToSet(t) THEN <<>> ELSE <<rs[j]>>]
           n == t[p].n
<1>1. t[p] \in Message OBVIOUS
<1>2. t[p].n \in Nat /\ t[p].id \in Nat BY <1>1 DEF Message
<1>3. rs = [j \in 1 .. n |-> rs[j]] /\ DOMAIN rs = 1 .. n /\ \A j \in 1 .. n : rs[j] \in Message
  BY <1>2 DEF ResultsFor, Msg, Message
<1> HIDE DEF rs
<1>4. ASSUME NEW j \in 1 .. n PROVE <<>> \in Seq(Message) /\ <<rs[j]>> \in Seq(Message)
  <2>1. rs[j] \in Message BY <1>3
  <2> HIDE DEF n
  <2> QED BY <2>1
<1>5. ss \in [1 .. n -> Seq(Message)] BY <1>3, <1>4
<1>6. ss \in Seq(Seq(Message))
  <2>1. n \in Nat BY <1>2
  <2> HIDE DEF ss, n
  <2> QED BY <1>5, <2>1, SeqDef
<1>7. FlattenSeq(ss) \in Seq(Message)
  <2> HIDE DEF ss
  <2> QED BY <1>6, FlattenPlaces
<1>8. Owed(t, p) = <<>> \/ Owed(t, p) = FlattenSeq(ss) BY DEF Owed, rs
<1>9. <<>> \in Seq(Message) OBVIOUS
<1> HIDE DEF ss
<1> QED BY <1>7, <1>8, <1>9

\* A repair at the end only adds.
LEMMA RepairedType ==
  ASSUME NEW t \in Seq(Message)
  PROVE  Repaired(t) \in Seq(Message) /\ Len(t) <= Len(Repaired(t))
<1> DEFINE ss == [p \in DOMAIN t |-> Owed(t, p)]
<1>1. ss \in Seq(Seq(Message))
  <2>1. Len(t) \in Nat /\ DOMAIN t = 1 .. Len(t) OBVIOUS
  <2>2. ss \in [1 .. Len(t) -> Seq(Message)] BY <2>1, OwedType
  <2> HIDE DEF ss
  <2> QED BY <2>1, <2>2, SeqDef
<1> HIDE DEF ss
<1>2. FlattenSeq(ss) \in Seq(Message) BY <1>1, FlattenPlaces
<1>3. Repaired(t) = t \o FlattenSeq(ss) BY DEF Repaired, ss
<1> QED BY <1>2, <1>3

\* A repair in place changes nothing before the first call without a result.
LEMMA RepairedInPlaceType ==
  ASSUME NEW t \in Seq(Message)
  PROVE  /\ RepairedInPlace(t) \in Seq(Message)
         /\ t = <<>> => RepairedInPlace(t) = <<>>
         /\ t # <<>> => RepairedInPlace(t)[1] = t[1]
<1> DEFINE ss == [p \in DOMAIN t |-> <<t[p]>> \o Owed(t, p)]
<1>1. Len(t) \in Nat /\ DOMAIN t = 1 .. Len(t) OBVIOUS
<1>2. ASSUME NEW p \in 1 .. Len(t)
      PROVE  /\ <<t[p]>> \o Owed(t, p) \in Seq(Message)
             /\ 1 \in 1 .. Len(<<t[p]>> \o Owed(t, p)) /\ (<<t[p]>> \o Owed(t, p))[1] = t[p]
  <2> DEFINE o == Owed(t, p)
             m == t[p]
  <2>1. o \in Seq(Message) /\ m \in Message BY <1>1, OwedType
  <2> HIDE DEF o, m
  <2> QED BY <2>1 DEF o, m
<1>3. ss \in Seq(Seq(Message)) /\ Len(ss) = Len(t)
      /\ \A p \in 1 .. Len(t) : 1 \in 1 .. Len(ss[p]) /\ ss[p][1] = t[p]
  <2>1. ss \in [1 .. Len(t) -> Seq(Message)]
        /\ \A p \in 1 .. Len(t) : 1 \in 1 .. Len(ss[p]) /\ ss[p][1] = t[p]
    BY <1>1, <1>2
  <2> HIDE DEF ss
  <2> QED BY <1>1, <2>1, SeqDef
<1>4. RepairedInPlace(t) = FlattenSeq(ss) BY DEF RepairedInPlace
<1> HIDE DEF ss
<1>5. FlattenSeq(ss) \in Seq(Message) BY <1>3, FlattenPlaces
<1>6. PICK at : Offsets(at, ss) BY <1>3, FlattenPlaces
<1>7. ASSUME t # <<>> PROVE FlattenSeq(ss)[1] = t[1]
  <2>1. 1 \in 1 .. Len(t) /\ 1 - 1 = 0 BY <1>1, <1>7
  <2>2. 1 \in 1 .. Len(ss[1]) /\ ss[1][1] = t[1] BY <1>3, <2>1
  <2> QED BY <2>1, <2>2, <1>3, <1>6 DEF Offsets
<1>8. ASSUME t = <<>> PROVE FlattenSeq(ss) = <<>>
  <2>1. Len(ss) = 0 BY <1>3, <1>8
  <2>2. Len(FlattenSeq(ss)) = 0 BY <1>6, <2>1 DEF Offsets
  <2> QED BY <1>5, <2>2
<1> QED BY <1>4, <1>5, <1>7, <1>8

\* The rows of a path come from entries on it.
LEMMA RowsComeFromPath ==
  ASSUME NEW j, Stored(j)
  PROVE  \A e \in 0 .. Len(j) : \A i \in DOMAIN Rows(j, e) : Rows(j, e)[i].id \in 1 .. e
<1> DEFINE S(e) == {r \in MessageRow : r.id \in 1 .. e}
           odd == {e \in 0 .. Len(j) : Rows(j, e) \notin Seq(S(e))}
<1>1. Len(j) \in Nat BY DEF Stored
<1>2. ASSUME odd # {} PROVE FALSE
  <2>1. odd \in SUBSET Nat BY <1>1
  <2>2. PICK e \in odd : \A d \in odd : e <= d
    <3> HIDE DEF odd
    <3> QED BY <1>2, <2>1, LeastNumber
  <2>3. CASE e = 0
    <3>1. Rows(j, e) = <<>> BY <2>3, RowsOfNone
    <3>2. <<>> \in Seq(S(e))
      <4> HIDE DEF S
      <4> QED OBVIOUS
    <3> QED BY <2>2, <3>1, <3>2
  <2>4. CASE e # 0
    <3> DEFINE p == j[e].parent
               before == Rows(j, p)
    <3>1. e \in 1 .. Len(j) /\ e \in Nat BY <2>2, <2>4
    <3>2. p \in 0 .. Len(j) /\ p \in Nat /\ p < e /\ j[e] \in Entry BY <3>1, StoredBefore
    <3>3. before \in Seq(S(p))
      <4>1. ~ (e <= p) BY <3>1, <3>2
      <4> QED BY <2>2, <3>2, <4>1
    <3>4. S(p) \subseteq S(e)
      <4>1. 1 .. p \subseteq 1 .. e BY <3>1, <3>2
      <4> QED BY <4>1
    <3>5. Rows(j, e) = RowsWith(j, e, before) BY <3>1, RowsStep
    <3> HIDE DEF p, before
    <3>6. before \in Seq(S(e))
      <4> HIDE DEF S
      <4> QED BY <3>3, <3>4, SeqDef
    <3>7. e \in 1 .. e BY <3>1
    <3>8. CASE j[e].kind = "message"
      <4>1. [id |-> e, msg |-> j[e].msg] \in S(e)
        BY <3>1, <3>2, <3>7, <3>8, EntryTypes DEF MessageRow
      <4> HIDE DEF S
      <4>2. Append(before, [id |-> e, msg |-> j[e].msg]) \in Seq(S(e)) BY <3>6, <4>1
      <4> QED BY <2>2, <3>5, <3>8, <4>2 DEF RowsWith
    <3>9. CASE j[e].kind = "compaction"
      <4>1. [id |-> e, msg |-> Summary(e)] \in S(e)
        BY <3>1, <3>7 DEF MessageRow, Message, Summary, Msg
      <4> HIDE DEF S
      <4>2. Compacted(before, e, j[e].replaces) \in Seq(S(e)) BY <3>6, <4>1, CompactedIn
      <4> QED BY <2>2, <3>5, <3>9, <4>2 DEF RowsWith
    <3>10. CASE j[e].kind \notin {"message", "compaction"}
      <4>1. RowsWith(j, e, before) = before BY <3>10 DEF RowsWith
      <4> QED BY <2>2, <3>5, <3>6, <4>1
    <3> QED BY <3>8, <3>9, <3>10
  <2> QED BY <2>3, <2>4
<1>3. ASSUME NEW e \in 0 .. Len(j), NEW i \in DOMAIN Rows(j, e)
      PROVE  Rows(j, e)[i].id \in 1 .. e
  <2>1. Rows(j, e) \in Seq(S(e)) BY <1>2
  <2>2. Rows(j, e)[i] \in S(e)
    <3> HIDE DEF S
    <3> QED BY <2>1
  <2> QED BY <2>2
<1> QED BY <1>3

\* The beginning of a write, which is what a crash leaves, is in order as well.
LEMMA AfterPart ==
  ASSUME NEW base \in Nat, NEW t \in Seq(Entry), After(base, t), NEW k \in DOMAIN t
  PROVE  SubSeq(t, 1, k) \in Seq(Entry) /\ After(base, SubSeq(t, 1, k))
<1> QED BY DEF After

\* A restart finds an entry to start from.
LEMMA LatestLeafIsThere ==
  ASSUME NEW j, Stored(j)
  PROVE  LatestLeaf(j) \in 0 .. Len(j)
<1> DEFINE leaves == {e \in DOMAIN j : j[e].kind = "leaf"}
           last == CHOOSE e \in leaves : \A f \in leaves : f <= e
<1>1. Len(j) \in Nat /\ DOMAIN j = 1 .. Len(j) BY DEF Stored
<1>2. CASE leaves = {}
  <2>1. LatestLeaf(j) = Len(j) BY <1>2 DEF LatestLeaf
  <2> QED BY <1>1, <2>1
<1>3. CASE leaves # {}
  <2>1. leaves \in SUBSET Nat /\ \A e \in leaves : e <= Len(j) BY <1>1
  <2>2. \E e \in leaves : \A f \in leaves : f <= e
    <3> HIDE DEF leaves
    <3> QED BY <1>1, <1>3, <2>1, GreatestNumber
  <2>3. last \in leaves
    <3> HIDE DEF leaves
    <3> QED BY <2>2
  <2>4. LatestLeaf(j) = j[last].target BY <1>3 DEF LatestLeaf
  <2> HIDE DEF last
  <2>5. last \in 1 .. Len(j) /\ j[last].kind = "leaf" BY <1>1, <2>3
  <2> QED BY <2>4, <2>5, StoredBefore
<1> QED BY <1>2, <1>3
\* A repair branches off an entry on the path it repairs.
LEMMA RepairIsAfter ==
  ASSUME Stored(journal), NEW leaf \in 0 .. Len(journal)
  PROVE  /\ Repair(Rows(journal, leaf)) \in Seq(Entry)
         /\ After(Len(journal), Repair(Rows(journal, leaf)))
<1> DEFINE base == Len(journal)
           rows == Rows(journal, leaf)
           t == Messages(rows)
           fixed == RepairedInPlace(t)
           open == {p \in 0 .. Len(t) : p = Len(t) \/ t[p + 1] # fixed[p + 1]}
           same == Least(open)
           id(k) == base + k
           m == Len(fixed) - same
           before(k) == IF k = 1 THEN rows[same].id ELSE id(k - 1)
           entries == [k \in 1 .. m |-> MessageEntry(before(k), fixed[same + k])]
           last == LeafEntry(id(Len(entries)))
<1>1. base \in Nat /\ rows \in Seq(MessageRow) /\ t \in Seq(Message)
  <2>1. t = Context(journal, leaf) BY DEF Context
  <2> QED BY <2>1, RowsType, ContextType DEF Stored
<1>2. /\ fixed \in Seq(Message) /\ (t = <<>> => fixed = <<>>) /\ (t # <<>> => fixed[1] = t[1])
  <2> HIDE DEF t
  <2> QED BY <1>1, RepairedInPlaceType
<1>3. DOMAIN rows = 1 .. Len(t) /\ Len(t) \in Nat BY <1>1 DEF Messages
<1>4. \A i \in DOMAIN rows : rows[i].id \in 1 .. base
  <2>1. \A i \in DOMAIN rows : rows[i].id \in 1 .. leaf BY RowsComeFromPath
  <2>2. 1 .. leaf \subseteq 1 .. base BY <1>1
  <2> HIDE DEF base, rows
  <2> QED BY <2>1, <2>2
<1>5. Repair(rows) = IF fixed = t THEN <<>> ELSE Append(entries, last) BY DEF Repair
<1> SUFFICES Repair(rows) \in Seq(Entry) /\ After(base, Repair(rows)) OBVIOUS
<1> HIDE DEF fixed, t, rows, base
<1>6. CASE fixed = t BY <1>5, <1>6 DEF After
<1>7. CASE fixed # t
  <2>1. same \in open
    <3>1. open \in SUBSET Nat /\ Len(t) \in open BY <1>3
    <3> HIDE DEF open
    <3> QED BY <3>1, LeastIs
  <2>2. t # <<>> /\ Len(t) # 0 BY <1>1, <1>2, <1>7
  <2> HIDE DEF same
  <2>3. same \in 1 .. Len(t) BY <1>2, <1>3, <2>1, <2>2
  <2>4. rows[same].id \in 1 .. base BY <1>3, <1>4, <2>3
  <2>5. ASSUME NEW k \in 1 .. m
        PROVE  /\ before(k) \in Nat /\ before(k) < base + k
               /\ fixed[same + k] \in Message
    <3>1. same + k \in 1 .. Len(fixed) /\ k \in Nat /\ k # 0 BY <1>2, <1>3, <2>3
    <3>2. fixed[same + k] \in Message BY <1>2, <3>1
    <3> QED BY <1>1, <2>4, <3>1, <3>2, SMTT(30)
  <2> HIDE DEF before, id, m
  <2>6. /\ entries \in [1 .. m -> Entry]
        /\ \A k \in 1 .. m : entries[k] = MessageEntry(before(k), fixed[same + k])
    <3> QED BY <2>5, EntriesAreEntries
  <2> DEFINE len == IF m < 0 THEN 0 ELSE m
  <2>7. len \in Nat /\ 1 .. m = 1 .. len
    <3>1. m \in Int BY <1>2, <1>3, <2>3 DEF m
    <3> QED BY <3>1
  <2> HIDE DEF len, entries
  <2>8. entries \in Seq(Entry) /\ Len(entries) = len
    <3> DEFINE range == 1 .. m
    <3> HIDE DEF range
    <3>1. entries \in [1 .. len -> Entry] BY <2>6, <2>7
    <3> QED BY <2>7, <3>1, SeqDef
  <2> DEFINE all == Append(entries, last)
  <2>9. last \in Entry /\ last = LeafEntry(base + len) /\ base + len \in Nat
    BY <1>1, <2>7, <2>8, EntriesAreEntries DEF id
  <2> HIDE DEF last
  <2>10. /\ all \in Seq(Entry) /\ DOMAIN all = 1 .. len + 1 /\ all[len + 1] = last
         /\ \A k \in 1 .. len : all[k] = entries[k]
    BY <2>7, <2>8, <2>9
  <2> HIDE DEF all
  <2>11. ASSUME NEW i \in DOMAIN all
         PROVE  all[i].parent < base + i /\ (all[i].kind = "leaf" => all[i].target < base + i)
    <3>1. CASE i = len + 1
      <4>1. base + len < base + i BY <1>1, <2>7, <3>1
      <4> QED BY <2>9, <2>10, <3>1, <4>1 DEF LeafEntry
    <3>2. CASE i # len + 1
      <4>1. i \in 1 .. len BY <2>7, <2>10, <3>2
      <4>2. i \in 1 .. m /\ i \in 1 .. len BY ONLY <2>7, <4>1
      <4>3. all[i].parent = before(i) /\ all[i].kind # "leaf" BY <2>6, <2>10, <4>2 DEF MessageEntry
      <4> QED BY <2>5, <4>2, <4>3
    <3> QED BY <3>1, <3>2
  <2>12. Repair(rows) = all BY <1>5, <1>7 DEF all
  <2> QED BY <2>10, <2>11, <2>12 DEF After
<1> QED BY <1>6, <1>7
------------------------------------------------------------------------------
(* What a run has written *)

\* With the transcript t, the messages a that the run added to it, the count persisted and the
\* context c on disk: t ends with a, everything before a counts as persisted, and the part of a
\* that does, too, is what c ends with.
WrittenTo(c, t, a, count) ==
  /\ EndsWith(t, a)
  /\ Len(t) - Len(a) <= count /\ count <= Len(t)
  /\ EndsWith(c, SubSeq(a, 1, count - (Len(t) - Len(a))))

\* A run has nothing written when it starts.
LEMMA WrittenFirst ==
  ASSUME NEW c \in Seq(Message), NEW t \in Seq(Message), NEW n \in 0 .. Len(t)
  PROVE  WrittenTo(c, t, SubSeq(t, n + 1, Len(t)), n)
<1> DEFINE a == SubSeq(t, n + 1, Len(t))
<1>1. Len(t) \in Nat /\ Len(a) = Len(t) - n /\ \A i \in 1 .. Len(t) - n : a[i] = t[n + i] OBVIOUS
<1> HIDE DEF a
<1>2. EndsWith(t, a)
  <2>1. Len(a) <= Len(t) /\ Len(t) - Len(a) = n BY <1>1
  <2> QED BY <1>1, <2>1 DEF EndsWith
<1>3. n - (Len(t) - Len(a)) = 0 /\ Len(t) - Len(a) <= n /\ n <= Len(t) BY <1>1
<1>4. SubSeq(a, 1, 0) = <<>> BY SubSeqEmpty
<1>5. EndsWith(c, <<>>) BY EndsWithNone
<1>6. WrittenTo(c, t, a, n) BY <1>2, <1>3, <1>4, <1>5 DEF WrittenTo
<1> QED BY <1>6 DEF a

\* Messages that are added are not written yet.
LEMMA WrittenLater ==
  ASSUME NEW c \in Seq(Message), NEW t \in Seq(Message), NEW a \in Seq(Message), NEW count \in Nat,
         WrittenTo(c, t, a, count), NEW ms \in Seq(Message)
  PROVE  WrittenTo(c, t \o ms, a \o ms, count)
<1> DEFINE tt == t \o ms
           aa == a \o ms
           k == count - (Len(t) - Len(a))
<1>1. /\ Len(t) \in Nat /\ Len(a) \in Nat /\ Len(ms) \in Nat
      /\ Len(tt) = Len(t) + Len(ms) /\ Len(aa) = Len(a) + Len(ms)
      /\ tt \in Seq(Message) /\ aa \in Seq(Message)
  OBVIOUS
<1>2. Len(t) - Len(a) <= count /\ count <= Len(t) BY DEF WrittenTo
<1>3. EndsWith(tt, aa) BY EndsWithBoth DEF WrittenTo
<1>4. SubSeq(aa, 1, k) = SubSeq(a, 1, k)
  <2>1. k \in 0 .. Len(a) BY <1>1, <1>2
  <2> HIDE DEF k
  <2> QED BY <2>1
<1> HIDE DEF tt, aa
<1>5. count - (Len(tt) - Len(aa)) = k BY <1>1
<1>6. Len(tt) - Len(aa) <= count /\ count <= Len(tt) BY <1>1, <1>2
<1>7. EndsWith(c, SubSeq(aa, 1, count - (Len(tt) - Len(aa))))
  <2>1. EndsWith(c, SubSeq(a, 1, k)) BY DEF WrittenTo
  <2> HIDE DEF k
  <2> QED BY <1>4, <1>5, <2>1
<1> HIDE DEF k
<1>8. WrittenTo(c, tt, aa, count) BY <1>3, <1>6, <1>7 DEF WrittenTo
<1> QED BY <1>8 DEF tt, aa

LEMMA UnsavedType ==
  ASSUME NEW t \in Seq(Message), NEW count \in Nat
  PROVE  Unsaved(t, count) \in Seq(Message) /\ Len(Unsaved(t, count)) \in Nat
<1>1. Unsaved(t, count) \in Seq(Message) BY DEF Unsaved
<1> QED BY <1>1

\* A write, whenever it comes, completes what is on disk.
LEMMA WrittenNow ==
  ASSUME NEW c \in Seq(Message), NEW t \in Seq(Message), NEW a \in Seq(Message), NEW count \in Nat,
         WrittenTo(c, t, a, count)
  PROVE  /\ WrittenTo(c \o Unsaved(t, count), t, a, count + Len(Unsaved(t, count)))
         /\ EndsWith(c \o Unsaved(t, count), a)
<1> DEFINE new == Unsaved(t, count)
           n == Len(t)
           m == Len(a)
           k == count - (n - m)
           first == SubSeq(a, 1, k)
<1>1. n \in Nat /\ m \in Nat /\ m <= n /\ n - m <= count /\ count <= n
      /\ \A i \in 1 .. m : a[i] = t[(n - m) + i]
  BY DEF WrittenTo, EndsWith
<1>2. k \in 0 .. m BY <1>1
<1>3. new \in Seq(Message) /\ Len(new) = n - count /\ \A i \in 1 .. n - count : new[i] = t[count + i]
  BY <1>1 DEF Unsaved
<1> HIDE DEF new, n
<1>4. EndsWith(c, first) BY DEF WrittenTo, n
<1>5. first \in Seq(Message) /\ Len(first) = k /\ \A i \in 1 .. k : first[i] = a[i]
  <2> HIDE DEF k
  <2> QED BY <1>2
<1> HIDE DEF first, m
<1>6. first \o new = a
  <2> DEFINE b == first \o new
  <2>1. /\ b \in Seq(Message) /\ Len(b) = k + (n - count)
        /\ \A i \in 1 .. k : b[i] = first[i]
        /\ \A i \in 1 .. n - count : b[k + i] = new[i]
    <3> HIDE DEF k
    <3>1. first \in Seq(Message) /\ new \in Seq(Message) BY <1>3, <1>5
    <3>2. /\ b \in Seq(Message) /\ Len(b) = Len(first) + Len(new)
          /\ \A i \in 1 .. Len(first) : b[i] = first[i]
          /\ \A i \in 1 .. Len(new) : b[Len(first) + i] = new[i]
      BY ONLY <3>1
    <3> HIDE DEF b
    <3> QED BY <1>3, <1>5, <3>2
  <2> HIDE DEF b
  <2>2. Len(b) = m BY <1>1, <2>1
  <2>3. ASSUME NEW i \in 1 .. m PROVE b[i] = a[i]
    <3>1. CASE i <= k
      <4>1. i \in 1 .. k BY <1>2, <3>1
      <4> QED BY <1>5, <2>1, <4>1
    <3>2. CASE ~ (i <= k)
      <4>1. i - k \in 1 .. n - count /\ k + (i - k) = i /\ count + (i - k) = (n - m) + i
        BY <1>1, <1>2, <3>2
      <4> QED BY <1>1, <1>3, <2>1, <4>1, ZenonT(60)
    <3> QED BY <3>1, <3>2
  <2>4. b = a BY <2>1, <2>2, <2>3, SeqEqual DEF m
  <2> QED BY <2>4 DEF b
<1>7. EndsWith(c \o new, first \o new) BY <1>3, <1>4, <1>5, EndsWithBoth
<1>8. EndsWith(c \o new, a) BY <1>6, <1>7
<1>9. /\ count + Len(new) = n /\ n - (n - m) = m /\ n - m <= n BY <1>1, <1>3
<1>10. SubSeq(a, 1, n - (n - m)) = a
  <2>1. SubSeq(a, 1, m) = a BY DEF m
  <2> QED BY <1>9, <2>1
<1>11. WrittenTo(c \o new, t, a, count + Len(new))
  <2>1. EndsWith(t, a) BY DEF WrittenTo
  <2>2. (count + Len(new)) - (n - m) = m BY <1>1, <1>9
  <2>3. SubSeq(a, 1, (count + Len(new)) - (n - m)) = a BY <1>9, <1>10, <2>2
  <2>4. n - m <= count + Len(new) /\ count + Len(new) <= n BY <1>1, <1>9
  <2> QED BY <2>1, <1>8, <2>3, <2>4 DEF WrittenTo, n, m
<1> QED BY <1>8, <1>11 DEF new
------------------------------------------------------------------------------
(* The invariant *)

Settlings == [replaces : SUBSET Nat, next : {"settle", "prompt", "retry"}]

JournalType ==
  /\ scene \in Scenes
  /\ Stored(journal) /\ head \in 0 .. Len(journal)
  /\ memory \in Seq(Message) /\ old \in Seq(Message) /\ added \in Seq(Message)
  /\ reply \in Message /\ done \in Nat /\ persisted \in Nat /\ made \in Nat
  /\ settling \in Seq(Settlings)

\* A run that appends to the harness's list has written what it counts as persisted.
Written ==
  pc \notin {"idle", "down"} /\ ~ detached =>
    WrittenTo(Context(journal, head), memory, added, persisted)

JournalInv == JournalType /\ Written

\* The context on disk is one of messages.
LEMMA HereType ==
  JournalType => Context(journal, head) \in Seq(Message)
BY ContextType DEF JournalType

\* Messages that are made.
LEMMA MsgType ==
  ASSUME NEW role \in {"user", "assistant", "result", "summary"}, NEW id \in Nat, NEW n \in Nat
  PROVE  Msg(role, id, n) \in Message
BY DEF Msg, Message

\* What Persist writes.
LEMMA PersistWrites ==
  ASSUME JournalType, NEW t \in Seq(Message), NEW count \in Nat, Persist(t, count)
  PROVE  /\ Stored(journal') /\ head' \in 0 .. Len(journal')
         /\ Context(journal', head') = Context(journal, head) \o Unsaved(t, count)
<1> DEFINE new == Unsaved(t, count)

<1>1. new \in Seq(Message) BY UnsavedType
<1>2. WrittenOut(journal', head', journal, head, new) BY DEF Persist, WrittenOut
<1>3. Stored(journal) /\ head \in 0 .. Len(journal) BY DEF JournalType
<1> HIDE DEF new
<1> QED BY <1>1, <1>2, <1>3, ChainIsWritten DEF new

\* What an event writes.
LEMMA EndedWrites ==
  ASSUME JournalType, NEW t \in Seq(Message), Ended(t)
  PROVE  /\ Stored(journal') /\ head' \in 0 .. Len(journal') /\ persisted' \in Nat
         /\ Context(journal', head') = Context(journal, head) \o Unsaved(t, persisted)
         /\ persisted' = persisted + Len(Unsaved(t, persisted))
<1>1. persisted \in Nat /\ Persist(t, persisted) /\ persisted' = persisted + Len(Unsaved(t, persisted))
  BY DEF JournalType, Ended
<1>2. Len(Unsaved(t, persisted)) \in Nat BY <1>1, UnsavedType
<1> QED BY <1>1, <1>2, PersistWrites

\* The message that ends may come after what is written, or be written with it.
LEMMA EndedKeeps ==
  ASSUME JournalInv, NEW t \in Seq(Message), NEW a \in Seq(Message), Ended(t),
         pc \notin {"idle", "down"} /\ ~ detached =>
           WrittenTo(Context(journal, head), t, a, persisted)
  PROVE  pc \notin {"idle", "down"} /\ ~ detached =>
           WrittenTo(Context(journal', head'), t, a, persisted') /\ EndsWith(Context(journal', head'), a)
<1>1. Context(journal, head) \in Seq(Message) /\ persisted \in Nat
  BY HereType DEF JournalInv, JournalType
<1> QED BY <1>1, EndedWrites, WrittenNow DEF JournalInv

\* A run that starts.
LEMMA LaunchStarts ==
  ASSUME NEW t \in Seq(Message), NEW new \in Seq(Message), Launch(t, new), NEW c \in Seq(Message)
  PROVE  /\ memory' \in Seq(Message) /\ added' \in Seq(Message) /\ persisted' \in Nat
         /\ reply' \in Message /\ done' \in Nat
         /\ WrittenTo(c, memory', added', persisted')
<1>1. /\ persisted' = Len(t) /\ memory' = Repaired(t) \o new
      /\ added' = SubSeq(memory', Len(t) + 1, Len(memory'))
      /\ reply' = NoReply /\ done' = 0
  BY DEF Launch
<1> DEFINE u == Repaired(t) \o new
<1>2. u \in Seq(Message) /\ Len(t) \in 0 .. Len(u) BY RepairedType
<1> HIDE DEF u
<1>3. memory' = u /\ added' = SubSeq(u, Len(t) + 1, Len(u)) BY <1>1 DEF u
<1>4. WrittenTo(c, u, SubSeq(u, Len(t) + 1, Len(u)), Len(t)) BY <1>2, WrittenFirst
<1>5. NoReply \in Message BY MsgType DEF NoReply
<1> QED BY <1>1, <1>2, <1>3, <1>4, <1>5
------------------------------------------------------------------------------
(* The actions keep the invariant *)

LEMMA UserMessageType ==
  ASSUME made \in Nat
  PROVE  /\ UserMessage \in Message /\ <<UserMessage>> \in Seq(Message)
         /\ made + 1 \in Nat
<1>1. made + 1 \in Nat OBVIOUS
<1>2. UserMessage \in Message BY <1>1, MsgType DEF UserMessage
<1> QED BY <1>1, <1>2

LEMMA PromptKeeps ==
  JournalInv /\ Prompt /\ UNCHANGED scene => JournalInv'
<1> SUFFICES ASSUME JournalInv, Prompt, UNCHANGED scene PROVE JournalInv' OBVIOUS
<1>1. JournalType /\ made \in Nat /\ memory \in Seq(Message) BY DEF JournalInv, JournalType
<1>2. made' = made + 1 /\ Launch(memory, <<UserMessage>>)
      /\ journal' = journal /\ head' = head /\ old' = old /\ settling' = settling
  BY DEF Prompt
<1>3. /\ memory' \in Seq(Message) /\ added' \in Seq(Message) /\ persisted' \in Nat
      /\ reply' \in Message /\ done' \in Nat
      /\ WrittenTo(Context(journal, head), memory', added', persisted')
  BY <1>1, <1>2, UserMessageType, HereType, LaunchStarts
<1>4. JournalType' BY <1>1, <1>2, <1>3, UserMessageType DEF JournalType
<1>5. Written' BY <1>2, <1>3 DEF Written
<1> QED BY <1>4, <1>5 DEF JournalInv

LEMMA ContinueKeeps ==
  JournalInv /\ Continue /\ UNCHANGED scene => JournalInv'
<1> SUFFICES ASSUME JournalInv, Continue, UNCHANGED scene PROVE JournalInv' OBVIOUS
<1>1. JournalType /\ memory \in Seq(Message) /\ <<>> \in Seq(Message) BY DEF JournalInv, JournalType
<1>2. made' = made /\ Launch(memory, <<>>)
      /\ journal' = journal /\ head' = head /\ old' = old /\ settling' = settling
  BY DEF Continue
<1>3. /\ memory' \in Seq(Message) /\ added' \in Seq(Message) /\ persisted' \in Nat
      /\ reply' \in Message /\ done' \in Nat
      /\ WrittenTo(Context(journal, head), memory', added', persisted')
  BY <1>1, <1>2, HereType, LaunchStarts
<1>4. JournalType' BY <1>1, <1>2, <1>3 DEF JournalType
<1>5. Written' BY <1>2, <1>3 DEF Written
<1> QED BY <1>4, <1>5 DEF JournalInv

\* An event: the transcript stays, and is written.
LEMMA EventKeeps ==
  ASSUME JournalInv, Ended(memory), pc \notin {"idle", "down"},
         UNCHANGED <<memory, detached, added>>
  PROVE  /\ Stored(journal') /\ head' \in 0 .. Len(journal') /\ persisted' \in Nat
         /\ Written'
<1>1. JournalType /\ memory \in Seq(Message) /\ added \in Seq(Message) /\ Written
  BY DEF JournalInv, JournalType
<1>2. /\ Stored(journal') /\ head' \in 0 .. Len(journal') /\ persisted' \in Nat BY <1>1, EndedWrites
<1> QED BY <1>2, <1>1, EndedKeeps DEF Written

LEMMA OpenKeeps ==
  JournalInv /\ Open /\ UNCHANGED scene => JournalInv'
<1> SUFFICES ASSUME JournalInv, Open, UNCHANGED scene PROVE JournalInv' OBVIOUS
<1>1. JournalType /\ Written BY DEF JournalInv
<1>2. pc \notin {"idle", "down"} /\ UNCHANGED <<memory, detached, old, reply, done, added, settling, made>>
  BY DEF Open
<1>3. CASE Ended(memory)
  <2>1. Stored(journal') /\ head' \in 0 .. Len(journal') /\ persisted' \in Nat /\ Written'
    BY <1>2, <1>3, EventKeeps
  <2>2. JournalType' BY <1>1, <1>2, <2>1 DEF JournalType
  <2> QED BY <2>1, <2>2 DEF JournalInv
<1>4. CASE UNCHANGED <<journal, head, persisted>>
  <2>1. JournalType' BY <1>1, <1>2, <1>4 DEF JournalType
  <2>2. Written' BY <1>1, <1>2, <1>4 DEF Written
  <2> QED BY <2>1, <2>2 DEF JournalInv
<1> QED BY <1>3, <1>4 DEF Open

LEMMA AnswerKeeps ==
  JournalInv /\ Answer /\ UNCHANGED scene => JournalInv'
<1> SUFFICES ASSUME JournalInv, Answer, UNCHANGED scene PROVE JournalInv' OBVIOUS
<1>1. JournalType /\ made \in Nat BY DEF JournalInv, JournalType
<1>2. pc \notin {"idle", "down"} /\ UNCHANGED <<memory, detached, old, added, settling>>
      /\ made' = made + 1 /\ done' = 0 /\ Ended(memory)
  BY DEF Answer
<1>3. Stored(journal') /\ head' \in 0 .. Len(journal') /\ persisted' \in Nat /\ Written'
  BY <1>2, EventKeeps
<1>4. reply' \in Message
  <2>1. PICK n \in 0 .. scene.calls : reply' = Msg("assistant", made + 1, n) BY DEF Answer
  <2>2. n \in Nat /\ made + 1 \in Nat BY <1>1
  <2> QED BY <2>1, <2>2, MsgType
<1>5. made + 1 \in Nat BY <1>1
<1>6. JournalType' BY <1>1, <1>2, <1>3, <1>4, <1>5 DEF JournalType
<1> QED BY <1>3, <1>6 DEF JournalInv

LEMMA ShowResultKeeps ==
  JournalInv /\ ShowResult /\ UNCHANGED scene => JournalInv'
<1> SUFFICES ASSUME JournalInv, ShowResult, UNCHANGED scene PROVE JournalInv' OBVIOUS
<1>1. JournalType BY DEF JournalInv
<1>2. pc \notin {"idle", "down"} /\ Ended(memory)
      /\ UNCHANGED <<memory, detached, old, reply, done, added, settling, made>>
  BY DEF ShowResult
<1>3. Stored(journal') /\ head' \in 0 .. Len(journal') /\ persisted' \in Nat /\ Written'
  BY <1>2, EventKeeps
<1>4. JournalType' BY <1>1, <1>2, <1>3 DEF JournalType
<1> QED BY <1>3, <1>4 DEF JournalInv

\* Messages the loop adds.
LEMMA AddKeeps ==
  ASSUME JournalInv, NEW ms \in Seq(Message), Add(ms), pc \notin {"idle", "down"}
  PROVE  /\ memory' \in Seq(Message) /\ old' \in Seq(Message) /\ added' \in Seq(Message)
         /\ detached' = detached
         /\ ~ detached => WrittenTo(Context(journal, head), memory', added', persisted)
<1>1. /\ JournalType /\ memory \in Seq(Message) /\ old \in Seq(Message) /\ added \in Seq(Message)
      /\ persisted \in Nat /\ Written
  BY DEF JournalInv, JournalType
<1>2. added' = added \o ms /\ detached' = detached BY DEF Add
<1>3. CASE detached
  <2>1. old' = old \o ms /\ memory' = memory BY <1>3 DEF Add
  <2> QED BY <1>1, <1>2, <1>3, <2>1
<1>4. CASE ~ detached
  <2>1. memory' = memory \o ms /\ old' = old BY <1>4 DEF Add
  <2>2. WrittenTo(Context(journal, head), memory, added, persisted) BY <1>1, <1>4 DEF Written
  <2> QED BY <1>1, <1>2, <2>1, <2>2, HereType, WrittenLater
<1> QED BY <1>3, <1>4

LEMMA InjectKeeps ==
  JournalInv /\ Inject /\ UNCHANGED scene => JournalInv'
<1> SUFFICES ASSUME JournalInv, Inject, UNCHANGED scene PROVE JournalInv' OBVIOUS
<1>1. JournalType /\ made \in Nat BY DEF JournalInv, JournalType
<1>2. /\ pc \notin {"idle", "down"} /\ Add(<<UserMessage>>) /\ Ended(memory')
      /\ made' = made + 1 /\ UNCHANGED <<reply, done, settling>>
  BY DEF Inject
<1>3. /\ memory' \in Seq(Message) /\ old' \in Seq(Message) /\ added' \in Seq(Message)
      /\ detached' = detached
      /\ ~ detached => WrittenTo(Context(journal, head), memory', added', persisted)
  BY <1>1, <1>2, UserMessageType, AddKeeps
<1>4. JournalType' BY <1>1, <1>2, <1>3, EndedWrites, UserMessageType DEF JournalType
<1>5. Written' BY <1>3, <1>2, EndedKeeps DEF Written
<1> QED BY <1>4, <1>5 DEF JournalInv

LEMMA TakeAnswerKeeps ==
  JournalInv /\ TakeAnswer /\ UNCHANGED scene => JournalInv'
<1> SUFFICES ASSUME JournalInv, TakeAnswer, UNCHANGED scene PROVE JournalInv' OBVIOUS
<1>1. JournalType /\ reply \in Message BY DEF JournalInv, JournalType
<1>2. /\ pc \notin {"idle", "down"} /\ Add(<<reply>>)
      /\ UNCHANGED <<journal, head, reply, done, persisted, settling, made>>
  BY DEF TakeAnswer
<1>3. /\ memory' \in Seq(Message) /\ old' \in Seq(Message) /\ added' \in Seq(Message)
      /\ detached' = detached
      /\ ~ detached => WrittenTo(Context(journal, head), memory', added', persisted)
  <2>1. <<reply>> \in Seq(Message) BY <1>1
  <2> QED BY <1>2, <2>1, AddKeeps
<1>4. JournalType' BY <1>1, <1>2, <1>3 DEF JournalType
<1>5. Written' BY <1>2, <1>3 DEF Written
<1> QED BY <1>4, <1>5 DEF JournalInv

LEMMA StoreResultKeeps ==
  JournalInv /\ StoreResult /\ UNCHANGED scene => JournalInv'
<1> SUFFICES ASSUME JournalInv, StoreResult, UNCHANGED scene PROVE JournalInv' OBVIOUS
<1>1. JournalType /\ reply \in Message /\ done \in Nat BY DEF JournalInv, JournalType
<1>2. /\ pc \notin {"idle", "down"} /\ Add(<<Msg("result", reply.id, done + 1)>>)
      /\ done' = done + 1
      /\ UNCHANGED <<journal, head, reply, persisted, settling, made>>
  BY DEF StoreResult
<1>3. done + 1 \in Nat BY <1>1
<1>4. <<Msg("result", reply.id, done + 1)>> \in Seq(Message)
  <2>1. reply.id \in Nat BY <1>1 DEF Message
  <2>2. Msg("result", reply.id, done + 1) \in Message BY <1>3, <2>1, MsgType
  <2> QED BY <2>2
<1>5. /\ memory' \in Seq(Message) /\ old' \in Seq(Message) /\ added' \in Seq(Message)
      /\ detached' = detached
      /\ ~ detached => WrittenTo(Context(journal, head), memory', added', persisted)
  BY <1>2, <1>4, AddKeeps
<1>6. JournalType' BY <1>1, <1>2, <1>3, <1>5 DEF JournalType
<1>7. Written' BY <1>2, <1>5 DEF Written
<1> QED BY <1>6, <1>7 DEF JournalInv

LEMMA EndRunKeeps ==
  JournalInv /\ EndRun /\ UNCHANGED scene => JournalInv'
<1> SUFFICES ASSUME JournalInv, EndRun, UNCHANGED scene PROVE JournalInv' OBVIOUS
<1>1. JournalType /\ memory \in Seq(Message) BY DEF JournalInv, JournalType
<1>2. /\ pc' = "idle" /\ Ended(memory) /\ old' = <<>>
      /\ UNCHANGED <<memory, reply, done, added, settling, made>>
  BY DEF EndRun, Attach
<1>3. JournalType' BY <1>1, <1>2, EndedWrites DEF JournalType
<1>4. Written' BY <1>2 DEF Written
<1> QED BY <1>3, <1>4 DEF JournalInv

LEMMA LeavingKeeps ==
  JournalInv /\ (Cancel \/ Raise) /\ UNCHANGED scene => JournalInv'
<1> SUFFICES ASSUME JournalInv, Cancel \/ Raise, UNCHANGED scene PROVE JournalInv' OBVIOUS
<1>1. JournalType /\ memory \in Seq(Message) BY DEF JournalInv, JournalType
<1>2. /\ pc' = "idle" /\ old' = <<>>
      /\ UNCHANGED <<journal, head, reply, done, persisted, added, settling, made>>
      /\ memory' = Repaired(memory) \/ memory' = memory
  BY DEF Cancel, Raise, Attach
<1>3. memory' \in Seq(Message) BY <1>1, <1>2, RepairedType
<1>4. JournalType' BY <1>1, <1>2, <1>3 DEF JournalType
<1>5. Written' BY <1>2 DEF Written
<1> QED BY <1>4, <1>5 DEF JournalInv

LEMMA TerminalOutputKeeps ==
  JournalInv /\ TerminalOutput /\ UNCHANGED scene => JournalInv'
<1> SUFFICES ASSUME JournalInv, TerminalOutput, UNCHANGED scene PROVE JournalInv' OBVIOUS
<1>1. JournalType /\ memory \in Seq(Message) /\ made \in Nat BY DEF JournalInv, JournalType
<1>2. /\ pc = "idle" /\ made' = made + 1 /\ memory' = Append(memory, UserMessage)
      /\ Persist(memory', Len(memory)) /\ UNCHANGED <<old, run, settling>>
  BY DEF TerminalOutput
<1>3. memory' \in Seq(Message) /\ Len(memory) \in Nat BY <1>1, <1>2, UserMessageType
<1>4. UNCHANGED <<pc, reply, done, persisted, added>> BY <1>2 DEF run
<1>5. JournalType' BY <1>1, <1>2, <1>3, PersistWrites, <1>4, UserMessageType DEF JournalType
<1>6. Written' BY <1>2, <1>4 DEF Written
<1> QED BY <1>5, <1>6 DEF JournalInv
LEMMA StartCompactionKeeps ==
  JournalInv /\ StartCompaction /\ UNCHANGED scene => JournalInv'
<1> SUFFICES ASSUME JournalInv, StartCompaction, UNCHANGED scene PROVE JournalInv' OBVIOUS
<1>1. JournalType /\ Stored(journal) /\ head \in 0 .. Len(journal) /\ settling \in Seq(Settlings)
  BY DEF JournalInv, JournalType
<1> DEFINE rows == Rows(journal, head)
<1>2. rows \in Seq(MessageRow) BY <1>1, RowsType
<1> HIDE DEF rows
<1>3. PICK ids \in RecentPreserving(rows) \cup Whole(rows), next \in {"settle", "prompt", "retry"} :
        settling' = Append(settling, [replaces |-> ids, next |-> next])
  BY DEF StartCompaction, rows
<1>4. ids \in SUBSET Nat BY <1>2, ReplacedType
<1>5. [replaces |-> ids, next |-> next] \in Settlings BY <1>4 DEF Settlings
<1>6. settling' \in Seq(Settlings) BY <1>1, <1>3, <1>5
<1>7. UNCHANGED <<journal, head, memory, detached, old, pc, reply, done, persisted, added, made>>
  BY DEF StartCompaction
<1>8. JournalType' BY <1>1, <1>6, <1>7 DEF JournalType
<1>9. Written' BY <1>7 DEF Written, JournalInv
<1> QED BY <1>8, <1>9 DEF JournalInv

LEMMA ForgetKeeps ==
  ASSUME settling \in Seq(Settlings), NEW k \in DOMAIN settling, Forget(k)
  PROVE  settling' \in Seq(Settlings)
<1> DEFINE a == SubSeq(settling, 1, k - 1)
           b == SubSeq(settling, k + 1, Len(settling))
<1>1. a \in Seq(Settlings) /\ b \in Seq(Settlings) OBVIOUS
<1>2. settling' = a \o b BY DEF Forget, RemoveAt
<1> HIDE DEF a, b
<1> QED BY <1>1, <1>2

\* What follows a compaction: a run that starts, or the one that goes on.
LEMMA ProceedKeeps ==
  ASSUME NEW next, NEW t \in Seq(Message), Proceed(next, t), JournalType, NEW c \in Seq(Message)
  PROVE  /\ memory' \in Seq(Message) /\ added' \in Seq(Message) /\ persisted' \in Nat
         /\ reply' \in Message /\ done' \in Nat /\ made' \in Nat
         /\ pc = "idle" => pc' = "idle" \/ WrittenTo(c, memory', added', persisted')
         /\ pc # "idle" => memory' = t /\ UNCHANGED run
<1>1. /\ added \in Seq(Message) /\ persisted \in Nat /\ reply \in Message /\ done \in Nat
      /\ made \in Nat
  BY DEF JournalType
<1>2. CASE pc = "idle" /\ made' = made + 1 /\ Launch(t, <<UserMessage>>)
  BY <1>1, <1>2, UserMessageType, LaunchStarts
<1>3. CASE pc = "idle" /\ Launch(t, <<>>) /\ made' = made
  <2>1. <<>> \in Seq(Message) OBVIOUS
  <2> QED BY <1>1, <1>3, <2>1, LaunchStarts
<1>4. CASE memory' = t /\ UNCHANGED <<run, made>> BY <1>1, <1>4 DEF run
<1> QED BY <1>2, <1>3, <1>4 DEF Proceed

LEMMA FinishCompactionKeeps ==
  JournalInv /\ FinishCompaction /\ UNCHANGED scene => JournalInv'
<1> SUFFICES ASSUME JournalInv, FinishCompaction, UNCHANGED scene PROVE JournalInv' OBVIOUS
<1>1. /\ JournalType /\ Stored(journal) /\ head \in 0 .. Len(journal)
      /\ settling \in Seq(Settlings) /\ memory \in Seq(Message) /\ old \in Seq(Message)
      /\ Len(journal) \in Nat /\ head \in Nat
  BY DEF JournalInv, JournalType, Stored
<1> DEFINE id == Len(journal) + 1
           tail(k) == <<CompactionEntry(head, settling[k].replaces), LeafEntry(id)>>
           new(k) == journal \o tail(k)
<1>2. PICK k \in DOMAIN settling :
        /\ journal' = new(k) /\ head' = id
        /\ Proceed(settling[k].next, Context(new(k), id))
        /\ detached' = (pc # "idle")
        /\ old' = IF pc = "idle" THEN <<>> ELSE LoopList
        /\ Forget(k)
  BY DEF FinishCompaction
<1>3. settling[k].replaces \in SUBSET Nat /\ id \in Nat
  <2>1. settling[k] \in Settlings BY <1>1
  <2> QED BY <1>1, <2>1 DEF Settlings
<1> DEFINE first == CompactionEntry(head, settling[k].replaces)
           second == LeafEntry(id)
           two == <<first, second>>
<1>4. first \in Entry /\ second \in Entry BY <1>1, <1>3, EntriesAreEntries
<1>5. /\ first.parent = head /\ first.kind # "leaf" /\ second.parent = id /\ second.target = id
  BY DEF CompactionEntry, LeafEntry
<1> DEFINE base == Len(journal)
<1>6. /\ base \in Nat /\ id = base + 1 /\ head < base + 1 /\ base + 1 < base + 2 BY <1>1
<1> HIDE DEF first, second, id, base
<1>7. two \in Seq(Entry) /\ Len(two) = 2 /\ DOMAIN two = {1, 2} /\ two[1] = first /\ two[2] = second
  BY <1>4
<1>8. After(base, two) BY <1>5, <1>6, <1>7 DEF After
<1>9. new(k) = journal \o two BY DEF first, second
<1> HIDE DEF two
<1>10. Stored(new(k)) /\ Len(new(k)) = base + 2
  <2> HIDE DEF new
  <2> QED BY <1>1, <1>7, <1>8, <1>9, AfterBoth DEF base
<1>11. id \in 0 .. Len(new(k)) BY <1>6, <1>10
<1> HIDE DEF new
<1>12. Context(new(k), id) \in Seq(Message) BY <1>10, <1>11, ContextType
<1>13. /\ memory' \in Seq(Message) /\ added' \in Seq(Message) /\ persisted' \in Nat
       /\ reply' \in Message /\ done' \in Nat /\ made' \in Nat
       /\ pc = "idle" => pc' = "idle" \/ WrittenTo(Context(new(k), id), memory', added', persisted')
       /\ pc # "idle" => memory' = Context(new(k), id) /\ UNCHANGED run
  BY <1>1, <1>2, <1>12, ProceedKeeps
<1>14. settling' \in Seq(Settlings) BY <1>1, <1>2, ForgetKeeps
<1>15. old' \in Seq(Message)
  <2>1. LoopList \in Seq(Message) /\ <<>> \in Seq(Message) BY <1>1 DEF LoopList
  <2> QED BY <1>2, <2>1
<1>16. JournalType' BY <1>1, <1>2, <1>10, <1>11, <1>13, <1>14, <1>15 DEF JournalType
<1>17. Written' BY <1>2, <1>13 DEF Written
<1> QED BY <1>16, <1>17 DEF JournalInv

LEMMA AbandonCompactionKeeps ==
  JournalInv /\ AbandonCompaction /\ UNCHANGED scene => JournalInv'
<1> SUFFICES ASSUME JournalInv, AbandonCompaction, UNCHANGED scene PROVE JournalInv' OBVIOUS
<1>1. /\ JournalType /\ settling \in Seq(Settlings) /\ memory \in Seq(Message) /\ Written
  BY DEF JournalInv, JournalType
<1>2. PICK k \in DOMAIN settling :
        /\ Proceed("prompt", memory) \/ UNCHANGED <<memory, run, made>>
        /\ UNCHANGED <<detached, old>> /\ Forget(k) /\ UNCHANGED <<journal, head>>
  BY DEF AbandonCompaction
<1>3. settling' \in Seq(Settlings) BY <1>1, <1>2, ForgetKeeps
<1>4. CASE Proceed("prompt", memory)
  <2>1. /\ memory' \in Seq(Message) /\ added' \in Seq(Message) /\ persisted' \in Nat
        /\ reply' \in Message /\ done' \in Nat /\ made' \in Nat
        /\ pc = "idle" => pc' = "idle" \/ WrittenTo(Context(journal, head), memory', added', persisted')
        /\ pc # "idle" => memory' = memory /\ UNCHANGED run
    BY <1>1, <1>4, HereType, ProceedKeeps
  <2>2. JournalType' BY <1>1, <1>2, <1>3, <2>1 DEF JournalType
  <2>3. Written'
    <3>1. CASE pc = "idle" BY <1>2, <2>1, <3>1 DEF Written
    <3>2. CASE pc # "idle"
      <4>1. UNCHANGED <<memory, pc, persisted, added>> BY <2>1, <3>2 DEF run
      <4> QED BY <1>1, <1>2, <4>1 DEF Written
    <3> QED BY <3>1, <3>2
  <2> QED BY <2>2, <2>3 DEF JournalInv
<1>5. CASE UNCHANGED <<memory, run, made>>
  <2>1. UNCHANGED <<memory, pc, reply, done, persisted, added, made>> BY <1>5 DEF run
  <2>2. JournalType' BY <1>1, <1>2, <1>3, <2>1 DEF JournalType
  <2>3. Written' BY <1>1, <1>2, <2>1 DEF Written
  <2> QED BY <2>2, <2>3 DEF JournalInv
<1> QED BY <1>2, <1>4, <1>5

LEMMA BranchKeeps ==
  JournalInv /\ Branch /\ UNCHANGED scene => JournalInv'
<1> SUFFICES ASSUME JournalInv, Branch, UNCHANGED scene PROVE JournalInv' OBVIOUS
<1>1. /\ JournalType /\ Stored(journal) /\ journal \in Seq(Entry) /\ Len(journal) \in Nat
  BY DEF JournalInv, JournalType, Stored
<1>2. PICK e \in DOMAIN journal : \E target \in {journal[e].parent, e} :
        /\ journal' = Append(journal, LeafEntry(target)) /\ head' = target
        /\ memory' = Context(journal', target)
  BY DEF Branch
<1>3. PICK target \in {journal[e].parent, e} :
        /\ journal' = Append(journal, LeafEntry(target)) /\ head' = target
        /\ memory' = Context(journal', target)
  BY <1>2
<1>4. target \in 0 .. Len(journal) /\ target \in Nat
  <2>1. e \in 1 .. Len(journal) BY <1>1
  <2> QED BY <1>3, <1>1, <2>1, StoredBefore
<1> DEFINE leaf == LeafEntry(target)
           one == <<leaf>>
<1>5. leaf \in Entry /\ leaf.parent = target /\ leaf.target = target
  BY <1>4, EntriesAreEntries DEF LeafEntry
<1> HIDE DEF leaf
<1>6. one \in Seq(Entry) /\ Len(one) = 1 /\ DOMAIN one = {1} /\ one[1] = leaf BY <1>5
<1>7. After(Len(journal), one)
  <2>1. target < Len(journal) + 1 BY <1>1, <1>4
  <2> QED BY <1>5, <1>6, <2>1 DEF After
<1>8. journal' = journal \o one BY <1>3, <1>1, <1>5, AppendIsConcat DEF leaf
<1> HIDE DEF one
<1>9. Stored(journal') /\ Len(journal') = Len(journal) + 1 BY <1>1, <1>6, <1>7, <1>8, AfterBoth
<1>10. head' \in 0 .. Len(journal') BY <1>3, <1>1, <1>4, <1>9
<1>11. memory' \in Seq(Message) BY <1>3, <1>9, <1>10, ContextType
<1>12. pc = "idle" /\ UNCHANGED <<old, pc, reply, done, persisted, added, settling, made>>
  BY DEF Branch, Settled, run
<1>13. JournalType' BY <1>1, <1>9, <1>10, <1>11, <1>12 DEF JournalType
<1>14. Written' BY <1>12 DEF Written
<1> QED BY <1>13, <1>14 DEF JournalInv
------------------------------------------------------------------------------
(* Crash and restart keep the invariant *)

\* Whatever a crash leaves of a write, the entries are in their order.
LEMMA WritingIsAfter ==
  ASSUME JournalType, NEW tail \in Writing
  PROVE  tail \in Seq(Entry) /\ After(Len(journal), tail)
<1> DEFINE all == Chain(Len(journal), head, Unsaved(memory, persisted))
<1>1. /\ Stored(journal) /\ Len(journal) \in Nat /\ head \in 0 .. Len(journal) /\ head \in Nat
      /\ settling \in Seq(Settlings) /\ memory \in Seq(Message) /\ persisted \in Nat
  BY DEF JournalType, Stored
<1>2. all \in Seq(Entry) /\ After(Len(journal), all)
  <2> DEFINE ms == Unsaved(memory, persisted)
  <2>1. ms \in Seq(Message) BY <1>1, UnsavedType
  <2> HIDE DEF ms
  <2> QED BY <1>1, <2>1, ChainHasPairs, ChainIsAfter DEF Pairs, ms
<1>3. \/ tail = <<>>
      \/ \E k \in DOMAIN all : tail = SubSeq(all, 1, k)
      \/ \E k \in DOMAIN settling : tail = <<CompactionEntry(head, settling[k].replaces)>>
  BY DEF Writing
<1> HIDE DEF all
<1>4. CASE tail = <<>> BY <1>4 DEF After
<1>5. CASE \E k \in DOMAIN all : tail = SubSeq(all, 1, k) BY <1>1, <1>2, <1>5, AfterPart
<1>6. CASE \E k \in DOMAIN settling : tail = <<CompactionEntry(head, settling[k].replaces)>>
  <2>1. PICK k \in DOMAIN settling : tail = <<CompactionEntry(head, settling[k].replaces)>> BY <1>6
  <2> DEFINE entry == CompactionEntry(head, settling[k].replaces)
  <2>2. settling[k].replaces \in SUBSET Nat
    <3>1. settling[k] \in Settlings BY <1>1
    <3> QED BY <3>1 DEF Settlings
  <2>3. entry \in Entry /\ entry.parent = head /\ entry.kind # "leaf"
    BY <1>1, <2>2, EntriesAreEntries DEF CompactionEntry
  <2>4. tail = <<entry>> BY <2>1
  <2> HIDE DEF entry
  <2>5. head < Len(journal) + 1 BY <1>1
  <2> QED BY <2>3, <2>4, <2>5 DEF After
<1> QED BY <1>3, <1>4, <1>5, <1>6

LEMMA CrashKeeps ==
  JournalInv /\ Crash /\ UNCHANGED scene => JournalInv'
<1> SUFFICES ASSUME JournalInv, Crash, UNCHANGED scene PROVE JournalInv' OBVIOUS
<1>1. /\ JournalType /\ Stored(journal) /\ head \in 0 .. Len(journal) /\ Len(journal) \in Nat
  BY DEF JournalInv, JournalType, Stored
<1>2. PICK tail \in Writing : journal' = journal \o tail BY DEF Crash
<1>3. tail \in Seq(Entry) /\ After(Len(journal), tail) /\ Len(tail) \in Nat BY <1>1, WritingIsAfter
<1>4. Stored(journal') /\ Len(journal') = Len(journal) + Len(tail) BY <1>1, <1>2, <1>3, AfterBoth
<1>5. head \in 0 .. Len(journal') BY <1>1, <1>3, <1>4
<1>6. /\ pc' = "down" /\ memory' = <<>> /\ settling' = <<>> /\ old' = <<>>
      /\ UNCHANGED <<head, reply, done, persisted, added, made>>
  BY DEF Crash, Attach
<1>7. JournalType' BY <1>1, <1>4, <1>5, <1>6 DEF JournalType
<1>8. Written' BY <1>6 DEF Written
<1> QED BY <1>7, <1>8 DEF JournalInv

LEMMA LoadKeeps ==
  JournalInv /\ Load /\ UNCHANGED scene => JournalInv'
<1> SUFFICES ASSUME JournalInv, Load, UNCHANGED scene PROVE JournalInv' OBVIOUS
<1> DEFINE repair == Repair(Rows(journal, LatestLeaf(journal)))
<1>1. JournalType /\ Stored(journal) BY DEF JournalInv, JournalType
<1>2. repair \in Seq(Entry) /\ After(Len(journal), repair) BY <1>1, LatestLeafIsThere, RepairIsAfter
<1>3. /\ journal' = journal \o repair /\ head' = LatestLeaf(journal')
      /\ memory' = Context(journal', head')
      /\ pc' = "idle" /\ UNCHANGED <<old, reply, done, persisted, added, settling, made>>
  BY DEF Load
<1> HIDE DEF repair
<1>4. Stored(journal') BY <1>1, <1>2, <1>3, AfterBoth
<1>5. head' \in 0 .. Len(journal') BY <1>3, <1>4, LatestLeafIsThere
<1>6. memory' \in Seq(Message) BY <1>3, <1>4, <1>5, ContextType
<1>7. JournalType' BY <1>1, <1>3, <1>4, <1>5, <1>6 DEF JournalType
<1>8. Written' BY <1>3 DEF Written
<1> QED BY <1>7, <1>8 DEF JournalInv

LEMMA CrashInLoadKeeps ==
  JournalInv /\ CrashInLoad /\ UNCHANGED scene => JournalInv'
<1> SUFFICES ASSUME JournalInv, CrashInLoad, UNCHANGED scene PROVE JournalInv' OBVIOUS
<1> DEFINE repair == Repair(Rows(journal, LatestLeaf(journal)))
<1>1. JournalType /\ Stored(journal) /\ Len(journal) \in Nat /\ head \in 0 .. Len(journal)
  BY DEF JournalInv, JournalType, Stored
<1>2. repair \in Seq(Entry) /\ After(Len(journal), repair) BY <1>1, LatestLeafIsThere, RepairIsAfter
<1>3. PICK k \in DOMAIN repair : journal' = journal \o SubSeq(repair, 1, k) BY DEF CrashInLoad
<1> DEFINE tail == SubSeq(repair, 1, k)
<1> HIDE DEF repair
<1>4. tail \in Seq(Entry) /\ After(Len(journal), tail) /\ journal' = journal \o tail
  BY <1>1, <1>2, <1>3, AfterPart
<1> HIDE DEF tail
<1>5. Stored(journal') /\ Len(journal') = Len(journal) + Len(tail) /\ Len(tail) \in Nat
  BY <1>1, <1>4, AfterBoth
<1>6. head \in 0 .. Len(journal') BY <1>1, <1>5
<1>7. UNCHANGED <<head, memory, detached, old, pc, reply, done, persisted, added, settling, made>>
      /\ pc = "down"
  BY DEF CrashInLoad, run
<1>8. JournalType' BY <1>1, <1>5, <1>6, <1>7 DEF JournalType
<1>9. Written' BY <1>7 DEF Written
<1> QED BY <1>8, <1>9 DEF JournalInv
------------------------------------------------------------------------------

LEMMA JournalStarts == JournalInit => JournalInv
<1> SUFFICES ASSUME JournalInit PROVE JournalInv OBVIOUS
<1>1. Stored(<<>>) BY DEF Stored, After
<1>2. NoReply \in Message BY MsgType DEF NoReply
<1>3. 0 \in 0 .. Len(<<>>) OBVIOUS
<1>4. JournalType BY <1>1, <1>2, <1>3 DEF JournalInit, JournalType
<1>5. Written BY DEF JournalInit, Written
<1> QED BY <1>4, <1>5 DEF JournalInv

LEMMA JournalStays == JournalInv /\ UNCHANGED journalVars => JournalInv'
BY DEF JournalInv, JournalType, Written, journalVars, run

LEMMA JournalSteps == JournalInv /\ [JournalNext]_journalVars => JournalInv'
BY PromptKeeps, ContinueKeeps, OpenKeeps, InjectKeeps, AnswerKeeps, TakeAnswerKeeps,
   ShowResultKeeps,
   StoreResultKeeps, EndRunKeeps, LeavingKeeps, TerminalOutputKeeps, StartCompactionKeeps,
   FinishCompactionKeeps, AbandonCompactionKeeps, BranchKeeps, CrashKeeps, LoadKeeps,
   CrashInLoadKeeps, JournalStays DEF JournalNext, Run

\* When a run ends by itself, the branch on disk ends with the messages the run added, each of
\* them once and in their order: _persist_messages_since counts from the length the transcript had
\* when the run began, and each event writes from that count to the end, while repairs, steering
\* messages, results and other people's compactions come in between.
THEOREM RunsAreStored == Spec => RunIsStored
<1>1. Init => JournalInv BY JournalStarts DEF Init
<1>2. JournalInv /\ [Next]_vars => JournalInv' BY JournalSteps DEF Next, vars, journalVars
<1>3. JournalInv /\ [Next]_vars =>
        [EndRun /\ ~ detached => IsSuffix(added, Context(journal', head'))]_journalVars
  <2> SUFFICES ASSUME JournalInv, EndRun, ~ detached
               PROVE  IsSuffix(added, Context(journal', head'))
    OBVIOUS
  <2>1. /\ JournalType /\ Written /\ memory \in Seq(Message) /\ added \in Seq(Message)
        /\ pc = "ending" /\ Ended(memory)
    BY DEF JournalInv, JournalType, EndRun
  <2>2. EndsWith(Context(journal', head'), added) BY <2>1, EndedKeeps DEF Written
  <2>3. Context(journal', head') \in Seq(Message) BY <2>1, EndedWrites, ContextType
  <2> QED BY <2>1, <2>2, <2>3, SuffixIsEnd
<1> QED BY <1>1, <1>2, <1>3, PTL DEF Spec, RunIsStored
------------------------------------------------------------------------------
(* Results behind their calls *)

\* The results of the calls of m.
Answers(m) == {Msg("result", m.id, j) : j \in 1 .. m.n}

\* q is one of the places right behind p that are of the results of the calls at p.
Follows(t, p, q) == p < q /\ q <= p + t[p].n

\* Only the last message with calls can lack results, and then nothing else is behind it.  No
\* reply has more than c calls, or an id beyond b.
Neat(t, c, b) ==
  /\ \A p \in Is(t, "assistant") : t[p].n <= c /\ t[p].id <= b
  /\ \A p, q \in Is(t, "assistant") : t[p].id = t[q].id => p = q
  /\ \A p \in Is(t, "assistant"), q \in DOMAIN t : Follows(t, p, q) => t[q] \in Answers(t[p])
  /\ \A p \in Is(t, "assistant"), q, r \in DOMAIN t :
       Follows(t, p, q) /\ Follows(t, p, r) /\ t[q] = t[r] => q = r
  /\ \A q \in Is(t, "result") : \E p \in Is(t, "assistant") : Follows(t, p, q)

\* It does not lack any.
Full(t) == \A p \in Is(t, "assistant") : p + t[p].n <= Len(t)

\* Some of the results of a, each once.
Some(ms, a) ==
  /\ ms \in Seq(Message)
  /\ \A i \in 1 .. Len(ms) : ms[i] \in Answers(a)
  /\ \A i, j \in 1 .. Len(ms) : ms[i] = ms[j] => i = j

\* The numbers of a message.
LEMMA MessageIs ==
  \A m \in Message : m.n \in Nat /\ m.id \in Nat
BY DEF Message

\* What a result of a is.
LEMMA AnswerIs ==
  ASSUME NEW a \in Message
  PROVE  \A m \in Answers(a) : m.role = "result" /\ m.id = a.id /\ m.n \in 1 .. a.n
                               /\ m = Msg("result", a.id, m.n) /\ m \in Message
<1>1. a.n \in Nat /\ a.id \in Nat BY DEF Message
<1> QED BY <1>1 DEF Answers, Msg, Message

\* There are not more results of a than a has calls, and with as many there are all.
LEMMA SomeSize ==
  ASSUME NEW a \in Message, NEW ms, Some(ms, a)
  PROVE  /\ Len(ms) \in Nat /\ Len(ms) <= a.n
         /\ Len(ms) = a.n => \A m \in Answers(a) : \E i \in 1 .. Len(ms) : ms[i] = m
         /\ (\A m \in Answers(a) : \E i \in 1 .. Len(ms) : ms[i] = m) => Len(ms) = a.n
<1> DEFINE k == Len(ms)
           n == a.n
           f == [i \in 1 .. k |-> ms[i].n]
<1>1. k \in Nat /\ n \in Nat /\ ms \in Seq(Message) BY DEF Some, Message
<1>2. ASSUME NEW i \in 1 .. k PROVE ms[i].n \in 1 .. n /\ ms[i] = Msg("result", a.id, ms[i].n)
  <2>1. ms[i] \in Answers(a) BY DEF Some
  <2> QED BY <2>1, AnswerIs
<1>3. ASSUME NEW i \in 1 .. k, NEW j \in 1 .. k, ms[i].n = ms[j].n PROVE i = j
  <2>1. ms[i] = ms[j] BY <1>2, <1>3
  <2> QED BY <2>1 DEF Some
<1>4. f \in [1 .. k -> 1 .. n] /\ \A i \in 1 .. k : f[i] = ms[i].n BY <1>2
<1>5. \A i, j \in 1 .. k : f[i] = f[j] => i = j BY <1>3, <1>4
<1> HIDE DEF f, k, n
<1>6. k <= n /\ (k = n => \A j \in 1 .. n : \E i \in 1 .. k : f[i] = j)
  <2>1. k \in Nat /\ n \in Nat /\ f \in [1 .. k -> 1 .. n] BY <1>1, <1>4
  <2> QED BY ONLY <1>5, <2>1, Apart, ZenonT(60)
<1>7. ASSUME k = n, NEW m \in Answers(a) PROVE \E i \in 1 .. k : ms[i] = m
  <2>1. PICK j \in 1 .. n : m = Msg("result", a.id, j) BY DEF Answers, n
  <2>2. PICK i \in 1 .. k : f[i] = j BY <1>6, <1>7
  <2> QED BY <1>2, <1>4, <2>1, <2>2
<1>8. ASSUME \A m \in Answers(a) : \E i \in 1 .. k : ms[i] = m PROVE k = n
  <2>1. ASSUME NEW j \in 1 .. n PROVE \E i \in 1 .. k : f[i] = j
    <3>1. Msg("result", a.id, j) \in Answers(a) BY DEF Answers, n
    <3>2. PICK i \in 1 .. k : ms[i] = Msg("result", a.id, j) BY <1>8, <3>1
    <3>3. ms[i].n = j BY <3>2 DEF Msg
    <3> QED BY <1>4, <3>3
  <2>2. n <= k BY <1>1, <1>4, <2>1, Covered
  <2> QED BY <1>1, <1>6, <2>2
<1> QED BY <1>1, <1>6, <1>7, <1>8 DEF k, n
\* The beginning of a list has no more than the list has.
LEMMA NeatFront ==
  ASSUME NEW t \in Seq(Message), NEW c \in Nat, NEW b \in Nat, Neat(t, c, b),
         NEW k \in 0 .. Len(t)
  PROVE  Neat(SubSeq(t, 1, k), c, b)
<1> DEFINE s == SubSeq(t, 1, k)
<1>1. /\ s \in Seq(Message) /\ Len(s) = k /\ DOMAIN s = 1 .. k /\ DOMAIN t = 1 .. Len(t)
      /\ 1 .. k \subseteq DOMAIN t /\ \A i \in 1 .. k : s[i] = t[i]
  OBVIOUS
<1> HIDE DEF s
<1>2. \A p \in Is(s, "assistant") : p \in Is(t, "assistant") /\ s[p] = t[p] BY <1>1 DEF Is
<1>3. \A p \in Is(s, "assistant"), q \in DOMAIN s : Follows(s, p, q) => Follows(t, p, q)
  BY <1>1, <1>2 DEF Follows
<1>4. \A p \in Is(s, "assistant") : s[p].n <= c /\ s[p].id <= b BY <1>2 DEF Neat
<1>5. \A p, q \in Is(s, "assistant") : s[p].id = s[q].id => p = q BY <1>2 DEF Neat
<1>6. \A p \in Is(s, "assistant"), q \in DOMAIN s : Follows(s, p, q) => s[q] \in Answers(s[p])
  BY <1>1, <1>2, <1>3 DEF Neat
<1>7. ASSUME NEW q \in Is(s, "result")
      PROVE  \E p \in Is(s, "assistant") : Follows(s, p, q)
  <2>1. q \in 1 .. k /\ q \in Is(t, "result") /\ q \in Nat BY <1>1 DEF Is
  <2>2. PICK p \in Is(t, "assistant") : Follows(t, p, q) BY <2>1 DEF Neat
  <2>3. p \in 1 .. Len(t) /\ p < q BY <1>1, <2>2 DEF Is, Follows
  <2>4. p \in 1 .. k BY <2>1, <2>3
  <2>5. s[p] = t[p] /\ p \in Is(s, "assistant") BY <1>1, <2>2, <2>4 DEF Is
  <2> QED BY <2>2, <2>5 DEF Follows
<1> QED BY <1>4, <1>5, <1>6, <1>1, <1>2, <1>3, <1>7, ZenonT(30) DEF Neat, s

\* Another message of the user, or a summary.
LEMMA NeatUser ==
  ASSUME NEW t \in Seq(Message), NEW c \in Nat, NEW b \in Nat, Neat(t, c, b), Full(t),
         NEW m \in Message, m.role \notin {"assistant", "result"}
  PROVE  Neat(Append(t, m), c, b) /\ Full(Append(t, m))
<1> DEFINE s == Append(t, m)
           k == Len(t)
<1>1. /\ k \in Nat /\ s \in Seq(Message) /\ Len(s) = k + 1 /\ DOMAIN s = 1 .. k + 1
      /\ DOMAIN t = 1 .. k /\ s[k + 1] = m /\ \A i \in 1 .. k : s[i] = t[i]
  OBVIOUS
<1> HIDE DEF s, k
<1>2. \A i \in 1 .. k + 1 : i \in 1 .. k \/ i = k + 1 BY <1>1
<1>3. \A p \in Is(s, "assistant") : p \in Is(t, "assistant") /\ p \in 1 .. k /\ s[p] = t[p]
  BY <1>1, <1>2 DEF Is
<1>4. \A q \in Is(s, "result") : q \in Is(t, "result") /\ q \in 1 .. k BY <1>1, <1>2 DEF Is
<1>5. ASSUME NEW p \in Is(s, "assistant"), NEW q \in DOMAIN s, Follows(s, p, q)
      PROVE  q \in DOMAIN t /\ Follows(t, p, q) /\ s[q] = t[q]
  <2>1. p + t[p].n <= k /\ s[p] = t[p] /\ t[p] \in Message BY <1>1, <1>3 DEF Full, k
  <2>2. q <= k
    <3>1. q <= p + t[p].n /\ p \in Nat /\ t[p].n \in Nat /\ q \in Nat
      BY <1>1, <1>3, <1>5, <2>1, SMTT(60) DEF Follows, Message
    <3> QED BY <1>1, <2>1, <3>1
  <2> QED BY <1>1, <1>2, <1>5, <2>1, <2>2 DEF Follows
<1>6. \A p \in Is(s, "assistant") : s[p].n <= c /\ s[p].id <= b BY <1>3 DEF Neat
<1>7. \A p, q \in Is(s, "assistant") : s[p].id = s[q].id => p = q BY <1>3 DEF Neat
<1>8. ASSUME NEW p \in Is(s, "assistant"), NEW q \in DOMAIN s, NEW r \in DOMAIN s,
              Follows(s, p, q), Follows(s, p, r), s[q] = s[r]
       PROVE  q = r
  BY <1>3, <1>5, <1>8 DEF Neat
<1>9. \A q \in Is(s, "result") : \E p \in Is(s, "assistant") : Follows(s, p, q)
  BY <1>4, <1>1, <1>2 DEF Neat, Follows, Is
<1>10. ASSUME NEW p \in Is(s, "assistant") PROVE p + s[p].n <= Len(s)
  <2>1. p + t[p].n <= k /\ s[p] = t[p] /\ t[p] \in Message /\ p \in Nat BY <1>1, <1>3 DEF Full, k
  <2>2. t[p].n \in Nat BY <2>1 DEF Message
  <2> QED BY <1>1, <2>1, <2>2
<1> QED BY <1>6, <1>7, <1>3, <1>5, <1>8, <1>9, <1>10 DEF Neat, Full, s

\* Another reply, of a new id.
LEMMA NeatReply ==
  ASSUME NEW t \in Seq(Message), NEW c \in Nat, NEW b \in Nat, Neat(t, c, b), Full(t),
         NEW m \in Message, m.role = "assistant", m.n <= c, NEW d \in Nat, b < m.id, m.id <= d
  PROVE  Neat(Append(t, m), c, d)
<1> DEFINE s == Append(t, m)
           k == Len(t)
<1>1. /\ k \in Nat /\ s \in Seq(Message) /\ Len(s) = k + 1 /\ DOMAIN s = 1 .. k + 1
      /\ DOMAIN t = 1 .. k /\ s[k + 1] = m /\ \A i \in 1 .. k : s[i] = t[i]
  OBVIOUS
<1> HIDE DEF s, k
<1>2. \A i \in 1 .. k + 1 : i \in 1 .. k \/ i = k + 1 BY <1>1
<1>3. \A p \in Is(s, "assistant") :
        \/ p = k + 1 /\ s[p] = m
        \/ p \in Is(t, "assistant") /\ p \in 1 .. k /\ s[p] = t[p]
  BY <1>1, <1>2 DEF Is
<1>4. \A q \in Is(s, "result") : q \in Is(t, "result") /\ q \in 1 .. k BY <1>1, <1>2 DEF Is
<1>5. \A p \in Is(t, "assistant") : p \in Is(s, "assistant") /\ s[p] = t[p] BY <1>1, <1>2 DEF Is
<1>6. ASSUME NEW p \in Is(s, "assistant"), NEW q \in DOMAIN s, Follows(s, p, q)
      PROVE  p \in Is(t, "assistant") /\ q \in DOMAIN t /\ Follows(t, p, q) /\ s[q] = t[q] /\ s[p] = t[p]
  <2>1. q \in 1 .. k + 1 /\ p < q /\ q <= p + s[p].n BY <1>1, <1>6 DEF Follows
  <2>2. p # k + 1 BY <1>1, <2>1
  <2>3. p + t[p].n <= k /\ s[p] = t[p] /\ t[p] \in Message /\ p \in Is(t, "assistant") /\ p \in Nat
    BY <1>1, <1>3, <2>2 DEF Full, k
  <2>4. t[p].n \in Nat BY <2>3 DEF Message
  <2>5. q \in 1 .. k BY <1>1, <2>1, <2>3, <2>4
  <2> QED BY <1>1, <1>6, <2>3, <2>5 DEF Follows
<1>7. ASSUME NEW p \in Is(s, "assistant") PROVE s[p].n <= c /\ s[p].id <= d
  <2>1. CASE p = k + 1 /\ s[p] = m BY <2>1
  <2>2. CASE p \in Is(t, "assistant") /\ p \in 1 .. k /\ s[p] = t[p]
    <3>1. t[p].n <= c /\ t[p].id <= b /\ t[p] \in Message BY <1>1, <2>2 DEF Neat
    <3>2. t[p].id \in Nat /\ m.id \in Nat BY <3>1 DEF Message
    <3> QED BY <2>2, <3>1, <3>2
  <2> QED BY <1>3, <2>1, <2>2
<1>8. ASSUME NEW p \in Is(s, "assistant"), NEW q \in Is(s, "assistant"), s[p].id = s[q].id
      PROVE  p = q
  <2>1. \A x \in Is(t, "assistant") : t[x].id <= b /\ t[x].id \in Nat /\ m.id \in Nat
    <3>1. \A x \in Is(t, "assistant") : t[x].id <= b /\ t[x] \in Message BY <1>1 DEF Neat, Is
    <3> QED BY <3>1 DEF Message
  <2>2. \A x \in Is(t, "assistant") : t[x].id # m.id BY <2>1
  <2> QED BY <1>3, <1>8, <2>2 DEF Neat
<1>9. \A p \in Is(s, "assistant"), q \in DOMAIN s : Follows(s, p, q) => s[q] \in Answers(s[p])
  BY <1>6 DEF Neat
<1>10. ASSUME NEW p \in Is(s, "assistant"), NEW q \in DOMAIN s, NEW r \in DOMAIN s,
              Follows(s, p, q), Follows(s, p, r), s[q] = s[r]
       PROVE  q = r
  BY <1>6, <1>10 DEF Neat
<1>11. \A q \in Is(s, "result") : \E p \in Is(s, "assistant") : Follows(s, p, q)
  BY <1>4, <1>5 DEF Neat, Follows
<1> QED BY <1>7, <1>8, <1>9, <1>10, <1>11 DEF Neat, s
\* Results of the last message, in any order; when they are all there, none is lacking.
LEMMA NeatResults ==
  ASSUME NEW t \in Seq(Message), NEW c \in Nat, NEW b \in Nat, Neat(t, c, b), t # <<>>,
         NEW a, a = t[Len(t)], a.role = "assistant", NEW ms, Some(ms, a)
  PROVE  /\ t \o ms \in Seq(Message) /\ Neat(t \o ms, c, b)
         /\ Len(ms) = a.n => Full(t \o ms)
<1> DEFINE s == t \o ms
           k == Len(t)
           l == Len(ms)
<1>1. /\ k \in Nat \ {0} /\ l \in Nat /\ DOMAIN t = 1 .. k /\ a \in Message /\ k \in 1 .. k
      /\ s \in Seq(Message) /\ Len(s) = k + l /\ DOMAIN s = 1 .. k + l
      /\ (\A i \in 1 .. k : s[i] = t[i]) /\ (\A i \in 1 .. l : s[k + i] = ms[i])
  BY DEF Some
<1>2. l <= a.n /\ a.n \in Nat BY <1>1, SomeSize DEF Message
<1> HIDE DEF s, k, l
<1>3. ASSUME NEW q \in 1 .. k + l, q \notin 1 .. k
      PROVE  q - k \in 1 .. l /\ s[q] = ms[q - k] /\ s[q] \in Answers(a) /\ s[q].role = "result"
  <2>1. q - k \in 1 .. l /\ k + (q - k) = q BY <1>1, <1>3
  <2>2. s[q] = ms[q - k] /\ ms[q - k] \in Answers(a) BY <1>1, <2>1 DEF Some, l
  <2> QED BY <1>1, <2>1, <2>2, AnswerIs
<1>4. \A p \in Is(s, "assistant") : p \in Is(t, "assistant") /\ p \in 1 .. k /\ s[p] = t[p]
  BY <1>1, <1>3 DEF Is
<1>5. \A p \in Is(t, "assistant") : p \in Is(s, "assistant") /\ s[p] = t[p] /\ p \in 1 .. k
                                    /\ t[p] \in Message /\ t[p].n \in Nat
  <2>1. 1 .. k \subseteq 1 .. k + l BY <1>1
  <2>2. \A p \in 1 .. k : t[p] \in Message BY <1>1
  <2>3. \A p \in 1 .. k : t[p].n \in Nat BY <2>2, MessageIs
  <2> QED BY <1>1, <2>1, <2>2, <2>3 DEF Is
<1>6. k \in Is(t, "assistant") /\ t[k] = a BY <1>1 DEF Is, k
<1>7. ASSUME NEW p \in Is(t, "assistant"), p # k PROVE p + t[p].n < k
  <2>1. p \in 1 .. k /\ t[p].n \in Nat BY <1>5
  <2>2. ASSUME k <= p + t[p].n PROVE FALSE
    <3>1. Follows(t, p, k) BY <1>1, <1>7, <2>1, <2>2 DEF Follows
    <3>2. a \in Answers(t[p]) /\ t[p] \in Message BY <1>1, <1>5, <1>6, <3>1 DEF Neat
    <3>3. a.role = "result" BY <3>2, AnswerIs
    <3> QED BY <3>3
  <2> QED BY <1>1, <2>1, <2>2
<1>8. ASSUME NEW p \in Is(s, "assistant"), NEW q \in DOMAIN s, Follows(s, p, q)
      PROVE  \/ q \in DOMAIN t /\ Follows(t, p, q) /\ s[q] = t[q]
             \/ p = k /\ q \notin 1 .. k
  <2>1. p \in 1 .. k /\ p \in Is(t, "assistant") /\ s[p] = t[p] /\ t[p].n \in Nat BY <1>4, <1>5
  <2>2. q \in 1 .. k + l /\ p < q /\ q <= p + t[p].n BY <1>1, <1>8, <2>1 DEF Follows
  <2>3. CASE q \in 1 .. k BY <1>1, <2>2, <2>3 DEF Follows
  <2>4. CASE q \notin 1 .. k
    <3>1. p = k
      <4> SUFFICES ASSUME p # k PROVE FALSE OBVIOUS
      <4>1. p + t[p].n < k BY <1>7, <2>1
      <4> QED BY <1>1, <2>1, <2>2, <2>4, <4>1
    <3> QED BY <2>4, <3>1
  <2> QED BY <2>3, <2>4
<1>9. \A p \in Is(s, "assistant") : s[p].n <= c /\ s[p].id <= b BY <1>4 DEF Neat
<1>10. ASSUME NEW p \in Is(s, "assistant"), NEW q \in DOMAIN s, Follows(s, p, q)
       PROVE  s[q] \in Answers(s[p])
  <2>1. CASE q \in DOMAIN t /\ Follows(t, p, q) /\ s[q] = t[q] BY <1>4, <2>1 DEF Neat
  <2>2. CASE p = k /\ q \notin 1 .. k BY <1>1, <1>3, <1>4, <1>6, <2>2
  <2> QED BY <1>8, <1>10, <2>1, <2>2
<1>11. ASSUME NEW p \in Is(s, "assistant"), NEW q \in DOMAIN s, NEW r \in DOMAIN s,
              Follows(s, p, q), Follows(s, p, r), s[q] = s[r], q < r
       PROVE  FALSE
  <2>1. CASE r \in DOMAIN t
    <3>1. q \in DOMAIN t BY <1>1, <1>11, <2>1
    <3>2. q = r BY <2>1, <3>1, <1>1, <1>4, <1>11 DEF Neat, Follows
    <3> QED BY <1>1, <1>11, <3>2
  <2>2. CASE r \notin DOMAIN t
    <3>1. p = k /\ r - k \in 1 .. l /\ s[r] = ms[r - k] BY <1>1, <1>3, <1>8, <1>11, <2>2
    <3>2. q \notin 1 .. k BY <1>1, <1>11, <3>1 DEF Follows
    <3>3. q - k \in 1 .. l /\ s[q] = ms[q - k] BY <1>1, <1>3, <3>2
    <3>4. q - k = r - k BY <1>11, <3>1, <3>3 DEF Some, l
    <3> QED BY <1>1, <1>11, <3>4
  <2> QED BY <2>1, <2>2
<1>12. \A p \in Is(s, "assistant"), q, r \in DOMAIN s :
         Follows(s, p, q) /\ Follows(s, p, r) /\ s[q] = s[r] => q = r
  <2> SUFFICES ASSUME NEW p \in Is(s, "assistant"), NEW q \in DOMAIN s, NEW r \in DOMAIN s,
                      Follows(s, p, q), Follows(s, p, r), s[q] = s[r]
               PROVE  q = r
    OBVIOUS
  <2>1. ~ (q < r) /\ ~ (r < q) BY <1>11
  <2> QED BY <1>1, <2>1
<1>13. ASSUME NEW q \in Is(s, "result")
       PROVE  \E p \in Is(s, "assistant") : Follows(s, p, q)
  <2>1. CASE q \in 1 .. k
    <3>1. q \in Is(t, "result") BY <1>1, <2>1, <1>13 DEF Is
    <3> QED BY <1>5, <3>1 DEF Neat, Follows
  <2>2. CASE q \notin 1 .. k
    <3>1. q \in 1 .. k + l BY <1>1, <1>13 DEF Is
    <3>2. k < q /\ q <= k + a.n BY <1>1, <1>2, <2>2, <3>1
    <3> QED BY <1>5, <1>6, <3>2 DEF Follows
  <2> QED BY <2>1, <2>2
<1>14. ASSUME l = a.n, NEW p \in Is(s, "assistant") PROVE p + s[p].n <= Len(s)
  <2>1. p \in Is(t, "assistant") /\ s[p] = t[p] /\ p \in 1 .. k /\ t[p].n \in Nat BY <1>4, <1>5
  <2>2. CASE p = k BY <1>1, <1>6, <1>14, <2>1, <2>2
  <2>3. CASE p # k
    <3>1. p + t[p].n < k BY <1>7, <2>1, <2>3
    <3> QED BY <1>1, <2>1, <3>1
  <2> QED BY <2>2, <2>3
<1>15. Neat(s, c, b) BY <1>9, <1>4, <1>10, <1>12, <1>13 DEF Neat
<1>16. l = a.n => Full(s) BY <1>14 DEF Full
<1> QED BY <1>1, <1>15, <1>16 DEF s, l

\* What a compaction keeps, behind its summary.
LEMMA NeatRest ==
  ASSUME NEW t \in Seq(Message), NEW c \in Nat, NEW b \in Nat, Neat(t, c, b),
         NEW n \in 0 .. Len(t), n < Len(t) => t[n + 1].role # "result",
         NEW m \in Message, m.role \notin {"assistant", "result"}
  PROVE  Neat(<<m>> \o SubSeq(t, n + 1, Len(t)), c, b)
<1> DEFINE s == <<m>> \o SubSeq(t, n + 1, Len(t))
           k == Len(t)
           l == k - n
<1>1. /\ k \in Nat /\ n \in Nat /\ l \in Nat /\ DOMAIN t = 1 .. k
      /\ s \in Seq(Message) /\ Len(s) = l + 1 /\ DOMAIN s = 1 .. l + 1 /\ s[1] = m
      /\ \A i \in 2 .. l + 1 : s[i] = t[n + i - 1]
  <2>1. k \in Nat /\ n \in Nat /\ l \in Nat /\ DOMAIN t = 1 .. k OBVIOUS
  <2> DEFINE r == SubSeq(t, n + 1, k)
  <2>2. r \in Seq(Message) /\ Len(r) = l /\ \A i \in 1 .. l : r[i] = t[n + i]
    <3>1. n + 1 \in 1 .. k + 1 /\ k \in 0 .. k BY <2>1
    <3>2. r \in Seq(Message) /\ Len(r) = IF n + 1 <= k THEN k - (n + 1) + 1 ELSE 0 BY <3>1
    <3>3. \A i \in 1 .. Len(r) : r[i] = t[(n + 1) + i - 1] BY <3>1
    <3> HIDE DEF r, k
    <3>4. Len(r) = k - n BY <2>1, <3>2
    <3>5. \A i \in 1 .. l : (n + 1) + i - 1 = n + i BY <2>1
    <3> HIDE DEF l
    <3> QED BY <3>2, <3>3, <3>4, <3>5 DEF l
  <2> HIDE DEF r, l, k
  <2> DEFINE h == <<m>>
  <2> HIDE DEF h
  <2>3. /\ h \o r \in Seq(Message) /\ Len(h \o r) = 1 + l /\ (h \o r)[1] = m
        /\ \A i \in 1 .. l : (h \o r)[1 + i] = r[i]
    BY <2>1, <2>2 DEF h
  <2>4. s = h \o r BY DEF h, r, k
  <2> HIDE DEF s
  <2>5. ASSUME NEW i \in 2 .. l + 1 PROVE s[i] = t[n + i - 1]
    <3>1. i - 1 \in 1 .. l /\ 1 + (i - 1) = i /\ n + (i - 1) = n + i - 1 BY <2>1
    <3> QED BY <2>2, <2>3, <2>4, <3>1
  <2>6. s \in Seq(Message) /\ Len(s) = l + 1 /\ s[1] = m BY <2>1, <2>3, <2>4
  <2>7. DOMAIN s = 1 .. l + 1 BY <2>6
  <2> QED BY <2>1, <2>5, <2>6, <2>7
<1> HIDE DEF s, k, l
<1> DEFINE o(i) == n + i - 1
<1>2. l = k - n BY DEF l
<1>3. ASSUME NEW i \in 1 .. l + 1, s[i].role \in {"assistant", "result"}
      PROVE  i \in 2 .. l + 1 /\ o(i) \in 1 .. k /\ o(i) > n /\ s[i] = t[o(i)] /\ i = o(i) - n + 1
  <2>1. i # 1 BY <1>1, <1>3
  <2> QED BY <1>1, <1>2, <2>1
<1>4. \A p \in Is(s, "assistant") :
        p \in 2 .. l + 1 /\ o(p) \in Is(t, "assistant") /\ s[p] = t[o(p)] /\ o(p) > n /\ p = o(p) - n + 1
  BY <1>1, <1>3 DEF Is
<1>5. ASSUME NEW p \in Is(s, "assistant"), NEW q \in DOMAIN s, Follows(s, p, q)
      PROVE  o(q) \in DOMAIN t /\ Follows(t, o(p), o(q)) /\ s[q] = t[o(q)] /\ q = o(q) - n + 1
  <2>1. p \in 2 .. l + 1 /\ s[p] = t[o(p)] /\ p < q /\ q <= p + s[p].n /\ q \in 1 .. l + 1
    BY <1>1, <1>4, <1>5 DEF Follows
  <2>2. q \in 2 .. l + 1 /\ o(q) \in 1 .. k BY <1>1, <1>2, <2>1, SMTT(30)
  <2>3. s[p].n \in Nat
    <3>1. s[p] \in Message BY <1>1, <2>1
    <3> QED BY <3>1, MessageIs
  <2>4. o(p) < o(q) /\ o(q) <= o(p) + s[p].n BY <1>1, <2>1, <2>2, <2>3, SMTT(30)
  <2>5. q = o(q) - n + 1 BY <1>1, <2>2, SMTT(30)
  <2> HIDE DEF o
  <2>6. Follows(t, o(p), o(q)) BY <2>1, <2>4 DEF Follows
  <2>7. s[q] = t[o(q)] BY <1>1, <2>2 DEF o
  <2> QED BY <1>1, <2>2, <2>5, <2>6, <2>7
<1>6. \A p \in Is(s, "assistant") : s[p].n <= c /\ s[p].id <= b
  <2> HIDE DEF o
  <2> QED BY <1>4 DEF Neat
<1>7. ASSUME NEW p \in Is(s, "assistant"), NEW q \in Is(s, "assistant"), s[p].id = s[q].id
      PROVE  p = q
  <2> HIDE DEF o
  <2>1. o(p) = o(q) BY <1>4, <1>7, SMTT(30) DEF Neat
  <2>2. p = o(p) - n + 1 /\ q = o(q) - n + 1 BY <1>4
  <2> QED BY <2>1, <2>2
<1>8. \A p \in Is(s, "assistant"), q \in DOMAIN s : Follows(s, p, q) => s[q] \in Answers(s[p])
  <2> HIDE DEF o
  <2> QED BY <1>4, <1>5 DEF Neat
<1>9. ASSUME NEW p \in Is(s, "assistant"), NEW q \in DOMAIN s, NEW r \in DOMAIN s,
              Follows(s, p, q), Follows(s, p, r), s[q] = s[r]
       PROVE  q = r
  <2> HIDE DEF o
  <2>1. o(q) = o(r) BY <1>4, <1>5, <1>9 DEF Neat
  <2>2. q = o(q) - n + 1 /\ r = o(r) - n + 1 BY <1>5, <1>9
  <2> QED BY <2>1, <2>2
<1>10. ASSUME NEW q \in Is(s, "result")
       PROVE  \E p \in Is(s, "assistant") : Follows(s, p, q)
  <2>1. q \in 2 .. l + 1 /\ o(q) \in Is(t, "result") /\ o(q) > n /\ o(q) \in 1 .. k
    BY <1>1, <1>3 DEF Is
  <2>2. PICK a \in Is(t, "assistant") : Follows(t, a, o(q))
    <3> HIDE DEF o
    <3> QED BY <2>1 DEF Neat
  <2>3. a \in 1 .. k /\ a < o(q) /\ o(q) <= a + t[a].n /\ t[a] \in Message /\ t[a].role = "assistant"
    BY <1>1, <2>2 DEF Follows, Is
  <2>4. t[a].n \in Nat BY <2>3 DEF Message
  <2>5. a > n
    <3> SUFFICES ASSUME a <= n PROVE FALSE BY <1>1, <2>3
    <3>1. n + 1 \in DOMAIN t /\ Follows(t, a, n + 1) /\ n < k BY <1>1, <2>1, <2>3, <2>4, SMTT(30) DEF Follows
    <3>2. t[n + 1] \in Answers(t[a]) BY <2>2, <3>1 DEF Neat
    <3>3. t[n + 1].role = "result" BY <2>3, <3>2, AnswerIs
    <3> QED BY <3>1, <3>3 DEF k
  <2> DEFINE p == a - n + 1
  <2>6. p \in 2 .. l + 1 /\ o(p) = a BY <1>1, <1>2, <2>3, <2>5
  <2>7. p \in 1 .. l + 1 /\ s[p] = t[a]
    <3>1. s[p] = t[o(p)] /\ p \in 1 .. l + 1 BY <1>1, <2>6, SMTT(30)
    <3> QED BY <2>6, <3>1
  <2>8. p < q /\ q <= p + t[a].n BY <1>1, <2>1, <2>3, <2>4, SMTT(30)
  <2> HIDE DEF p, o
  <2>9. p \in Is(s, "assistant") /\ Follows(s, p, q) BY <1>1, <2>3, <2>7, <2>8 DEF Is, Follows
  <2> QED BY <2>9
<1> QED BY <1>6, <1>7, <1>8, <1>9, <1>10 DEF Neat, s, k
\* What follows a reply, up to place e.
LEMMA BehindIs ==
  ASSUME NEW t \in Seq(Message), NEW c, NEW b, Neat(t, c, b),
         NEW p \in Is(t, "assistant"), NEW e \in p .. Len(t), e <= p + t[p].n
  PROVE  /\ Some(SubSeq(t, p + 1, e), t[p]) /\ Len(SubSeq(t, p + 1, e)) = e - p
         /\ \A i \in 1 .. e - p : SubSeq(t, p + 1, e)[i] = t[p + i]
<1> DEFINE s == SubSeq(t, p + 1, e)
           a == t[p]
<1>1. p \in 1 .. Len(t) /\ Len(t) \in Nat /\ DOMAIN t = 1 .. Len(t) /\ a \in Message BY DEF Is
<1>2. s \in Seq(Message) /\ Len(s) = e - p /\ \A i \in 1 .. e - p : s[i] = t[p + i]
  <2>1. p + 1 \in 1 .. Len(t) + 1 /\ e \in 0 .. Len(t) /\ e - p \in Nat BY <1>1
  <2>2. s \in Seq(Message) /\ Len(s) = IF p + 1 <= e THEN e - (p + 1) + 1 ELSE 0 BY <2>1
  <2>3. \A i \in 1 .. Len(s) : s[i] = t[(p + 1) + i - 1] BY <2>1, SMTT(30)
  <2> HIDE DEF s
  <2>4. Len(s) = e - p BY <1>1, <2>1, <2>2
  <2>5. \A i \in 1 .. e - p : (p + 1) + i - 1 = p + i BY <1>1, <2>1
  <2> QED BY <2>2, <2>3, <2>4, <2>5
<1> HIDE DEF s, a
<1>3. ASSUME NEW i \in 1 .. e - p
      PROVE  p + i \in DOMAIN t /\ Follows(t, p, p + i)
  <2>1. a.n \in Nat /\ e <= p + a.n BY <1>1, MessageIs DEF a
  <2> QED BY <1>1, <2>1 DEF Follows, a
<1>4. \A i \in 1 .. e - p : s[i] \in Answers(a) BY <1>2, <1>3 DEF Neat, a
<1>5. ASSUME NEW i \in 1 .. e - p, NEW j \in 1 .. e - p, s[i] = s[j] PROVE i = j
  <2>1. t[p + i] = t[p + j] BY <1>2, <1>5
  <2>2. p + i = p + j BY <1>3, <2>1 DEF Neat
  <2> QED BY <1>1, <2>2
<1>6. Some(s, a) BY <1>2, <1>4, <1>5 DEF Some
<1> QED BY <1>2, <1>6 DEF s, a

\* Results of a in two lists that have none in common.
LEMMA SomeBoth ==
  ASSUME NEW a, NEW k, NEW o, Some(k, a), Some(o, a),
         \A i \in 1 .. Len(k), j \in 1 .. Len(o) : k[i] # o[j]
  PROVE  /\ Some(k \o o, a) /\ Len(k \o o) = Len(k) + Len(o)
         /\ \A i \in 1 .. Len(k) : (k \o o)[i] = k[i]
         /\ \A i \in 1 .. Len(o) : (k \o o)[Len(k) + i] = o[i]
<1> DEFINE s == k \o o
           m == Len(k)
           n == Len(o)
<1>1. /\ m \in Nat /\ n \in Nat /\ s \in Seq(Message) /\ Len(s) = m + n
      /\ (\A i \in 1 .. m : s[i] = k[i]) /\ (\A i \in 1 .. n : s[m + i] = o[i])
  BY DEF Some
<1> HIDE DEF s
<1>2. ASSUME NEW i \in 1 .. m + n
      PROVE  \/ i \in 1 .. m /\ s[i] = k[i]
             \/ i > m /\ i - m \in 1 .. n /\ s[i] = o[i - m]
  <2>1. CASE i \in 1 .. m BY <1>1, <2>1
  <2>2. CASE i \notin 1 .. m
    <3> QED BY <1>1, <2>2
  <2> QED BY <2>1, <2>2
<1>3. \A i \in 1 .. m + n : s[i] \in Answers(a) BY <1>2 DEF Some
<1>4. ASSUME NEW i \in 1 .. m + n, NEW j \in 1 .. m + n, s[i] = s[j] PROVE i = j
  <2>1. CASE i \in 1 .. m /\ j \in 1 .. m BY <1>1, <1>4, <2>1 DEF Some
  <2>2. CASE i \notin 1 .. m /\ j \notin 1 .. m
    <3>1. i - m = j - m BY <1>2, <1>4, <2>2 DEF Some
    <3> QED BY <1>1, <3>1
  <2>3. CASE (i \in 1 .. m) # (j \in 1 .. m) BY <1>2, <1>4, <2>3
  <2> QED BY <2>1, <2>2, <2>3
<1>5. Some(s, a) BY <1>1, <1>3, <1>4 DEF Some
<1> QED BY <1>1, <1>5 DEF s

\* Only a reply is owed results.
LEMMA OwedToNone ==
  ASSUME NEW t, NEW p, t[p].role # "assistant"
  PROVE  Owed(t, p) = <<>>
BY DEF Owed

\* Owed has the results of the message at p that are not there yet.
LEMMA OwedIs ==
  ASSUME NEW t \in Seq(Message), NEW c, NEW b, Neat(t, c, b), NEW p \in Is(t, "assistant")
  PROVE  /\ Some(Owed(t, p), t[p])
         /\ \A i \in 1 .. Len(Owed(t, p)) : Owed(t, p)[i] \notin ToSet(t)
         /\ \A m \in Answers(t[p]) : m \in ToSet(t) \/ \E i \in 1 .. Len(Owed(t, p)) : Owed(t, p)[i] = m
<1> DEFINE a == t[p]
           n == a.n
           rs == ResultsFor(a)
           K == {j \in DOMAIN rs : rs[j] \notin ToSet(t)}
           o == Owed(t, p)
<1>1. p \in DOMAIN t /\ DOMAIN t = 1 .. Len(t) /\ a \in Message /\ a.role = "assistant" /\ n \in Nat
  BY MessageIs DEF Is
<1>2. \A q \in 1 .. p - 1 : t[q] # t[p]
  <2> SUFFICES ASSUME NEW q \in 1 .. p - 1, t[q] = t[p] PROVE FALSE OBVIOUS
  <2>1. q \in DOMAIN t /\ q # p BY <1>1
  <2>2. q \in Is(t, "assistant") /\ t[q].id = t[p].id BY <1>1, <2>1 DEF Is
  <2>3. q = p BY <2>2 DEF Neat
  <2> QED BY <2>1, <2>3
<1>3. /\ DOMAIN rs = 1 .. n /\ rs \in Seq(Message)
      /\ \A j \in 1 .. n : rs[j] = Msg("result", a.id, j) /\ rs[j].n = j
  <2>1. \A j \in 1 .. n : Msg("result", a.id, j) \in Message BY <1>1, AnswerIs DEF Answers
  <2>2. rs = [j \in 1 .. n |-> Msg("result", a.id, j)] BY DEF ResultsFor
  <2>3. \A j \in 1 .. n : Msg("result", a.id, j).n = j BY DEF Msg
  <2> HIDE DEF rs, n
  <2>4. rs \in [1 .. n -> Message] BY <2>1, <2>2
  <2> QED BY <1>1, <2>2, <2>3, <2>4, SeqDef
<1>4. o = FlattenSeq(Selecting(rs, K))
  <2>1. o = FlattenSeq([j \in DOMAIN rs |-> IF rs[j] \in ToSet(t) THEN <<>> ELSE <<rs[j]>>])
    BY <1>1, <1>2 DEF Owed
  <2> HIDE DEF rs
  <2> HIDE DEF o
  <2> QED BY <2>1 DEF Selecting
<1> HIDE DEF rs, o, n, a
<1>5. K \in SUBSET DOMAIN rs /\ K \subseteq 1 .. n BY <1>3
<1>6. \A j \in 1 .. n : j \in K <=> rs[j] \notin ToSet(t) BY <1>3
<1> HIDE DEF K
<1>7. o \in Seq(Message) BY <1>3, <1>4, <1>5, SelectedAre
<1>8. PICK at : Picks(at, rs, K) BY <1>3, <1>5, SelectedAre
<1>9. /\ at \in [1 .. Len(o) -> K]
      /\ \A k \in K : \E i \in 1 .. Len(o) : at[i] = k
      /\ \A i \in 1 .. Len(o) : o[i] = rs[at[i]]
  BY <1>4, <1>8 DEF Picks
<1>10. ASSUME NEW i \in 1 .. Len(o)
       PROVE  o[i] \in Answers(a) /\ o[i] \notin ToSet(t) /\ at[i] \in 1 .. n /\ o[i].n = at[i]
  <2> QED BY <1>3, <1>6, <1>5, <1>9 DEF Answers, n
<1>11. ASSUME NEW i \in 1 .. Len(o), NEW j \in 1 .. Len(o), o[i] = o[j] PROVE i = j
  <2>1. at[i] = at[j] BY <1>10, <1>11
  <2>2. /\ i \in 1 .. Len(FlattenSeq(Selecting(rs, K)))
        /\ j \in 1 .. Len(FlattenSeq(Selecting(rs, K)))
    BY <1>4
  <2>3. rs \in Seq(Message) BY <1>3
  <2> QED BY ONLY <1>5, <1>8, <2>1, <2>2, <2>3, PicksOnce
<1>12. ASSUME NEW m \in Answers(a), m \notin ToSet(t) PROVE \E i \in 1 .. Len(o) : o[i] = m
  <2>1. PICK j \in 1 .. n : m = rs[j] BY <1>3 DEF Answers, n
  <2>2. j \in K BY <1>6, <1>12, <2>1
  <2> QED BY <1>9, <2>1, <2>2
<1>13. Some(o, a) BY <1>7, <1>10, <1>11 DEF Some
<1> QED BY <1>10, <1>12, <1>13 DEF o, a
\* The message at p is the one that lacks results: o are these, and k those that are there.
Lacks(t, p, o) ==
  LET k == SubSeq(t, p + 1, Len(t)) IN
  /\ \A q \in DOMAIN t : q # p => Owed(t, q) = <<>>
  /\ o = Owed(t, p)
  /\ Some(k \o o, t[p]) /\ Len(k \o o) = t[p].n
  /\ Some(o \o k, t[p]) /\ Len(o \o k) = t[p].n
  /\ o # <<>> /\ Some(o, t[p])

\* A neat list lacks nothing, or one message at its end lacks results.
LEMMA WhoLacks ==
  ASSUME NEW t \in Seq(Message), NEW c, NEW b, Neat(t, c, b)
  PROVE  \/ Full(t) /\ \A p \in DOMAIN t : Owed(t, p) = <<>>
         \/ \E p \in Is(t, "assistant") : Lacks(t, p, Owed(t, p))
<1>1. Len(t) \in Nat /\ DOMAIN t = 1 .. Len(t) OBVIOUS
<1>2. ASSUME NEW p \in Is(t, "assistant")
      PROVE  p \in 1 .. Len(t) /\ t[p] \in Message /\ t[p].n \in Nat /\ t[p].id \in Nat
             /\ t[p].role = "assistant"
  <2> QED BY <1>1, MessageIs DEF Is
<1>3. ASSUME NEW p \in Is(t, "assistant"), p + t[p].n <= Len(t) PROVE Owed(t, p) = <<>>
  <2> DEFINE e == p + t[p].n
             s == SubSeq(t, p + 1, e)
             o == Owed(t, p)
  <2>1. e \in p .. Len(t) /\ e <= p + t[p].n /\ e - p = t[p].n BY <1>1, <1>2, <1>3
  <2>2. Some(s, t[p]) /\ Len(s) = e - p /\ \A i \in 1 .. e - p : s[i] = t[p + i] BY <2>1, BehindIs
  <2> HIDE DEF s
  <2>3. \A m \in Answers(t[p]) : \E i \in 1 .. Len(s) : s[i] = m BY <1>2, <2>1, <2>2, SomeSize
  <2>4. \A m \in Answers(t[p]) : m \in ToSet(t)
    <3> QED BY <2>3, <1>1, <1>2, <2>1, <2>2, SMTT(30) DEF ToSet
  <2>5. Some(o, t[p]) /\ \A i \in 1 .. Len(o) : o[i] \notin ToSet(t) BY OwedIs
  <2> HIDE DEF o
  <2>6. \A i \in 1 .. Len(o) : FALSE BY <2>4, <2>5 DEF Some
  <2>7. o \in Seq(Message) BY <2>5 DEF Some
  <2> QED BY <2>6, <2>7 DEF o
<1>4. ASSUME NEW q \in DOMAIN t, q \notin Is(t, "assistant") PROVE Owed(t, q) = <<>>
  <2>1. t[q].role # "assistant" BY <1>4 DEF Is
  <2> QED BY <2>1, OwedToNone
<1>5. CASE Full(t) BY <1>3, <1>4, <1>5 DEF Full
<1>6. CASE ~ Full(t)
  <2>1. PICK p \in Is(t, "assistant") : ~ (p + t[p].n <= Len(t)) BY <1>6 DEF Full
  <2> DEFINE k == SubSeq(t, p + 1, Len(t))
             o == Owed(t, p)
             a == t[p]
  <2>2. p \in 1 .. Len(t) /\ a \in Message /\ a.n \in Nat /\ a.role = "assistant" /\ Len(t) < p + a.n
    BY <1>1, <1>2, <2>1
  <2>3. ASSUME NEW q \in DOMAIN t, q # p PROVE Owed(t, q) = <<>>
    <3>1. CASE q \notin Is(t, "assistant") BY <1>4, <3>1
    <3>2. CASE q \in Is(t, "assistant")
      <4>1. q \in 1 .. Len(t) /\ t[q].n \in Nat /\ t[q] \in Message BY <1>2, <3>2
      <4>2. ASSUME p < q PROVE FALSE
        <5>1. Follows(t, p, q) BY <1>1, <2>2, <4>1, <4>2 DEF Follows
        <5>2. t[q] \in Answers(t[p]) BY <5>1 DEF Neat
        <5>3. t[q].role = "result" BY <2>2, <5>2, AnswerIs
        <5> QED BY <3>2, <5>3 DEF Is
      <4>3. ASSUME q < p, Len(t) < q + t[q].n PROVE FALSE
        <5>1. Follows(t, q, p) /\ p \in DOMAIN t BY <1>1, <2>2, <4>1, <4>3 DEF Follows
        <5>2. t[p] \in Answers(t[q]) BY <3>2, <5>1 DEF Neat
        <5>3. t[p].role = "result" BY <4>1, <5>2, AnswerIs
        <5> QED BY <2>2, <5>3
      <4>4. q + t[q].n <= Len(t) BY <1>1, <2>2, <2>3, <4>1, <4>2, <4>3
      <4> QED BY <1>3, <3>2, <4>4
    <3> QED BY <3>1, <3>2
  <2>4. Len(t) \in p .. Len(t) /\ Len(t) <= p + a.n BY <1>1, <2>2
  <2>5. Some(k, a) /\ Len(k) = Len(t) - p /\ \A i \in 1 .. Len(t) - p : k[i] = t[p + i]
    BY <2>4, BehindIs
  <2>6. /\ Some(o, a) /\ \A i \in 1 .. Len(o) : o[i] \notin ToSet(t)
        /\ \A m \in Answers(a) : m \in ToSet(t) \/ \E i \in 1 .. Len(o) : o[i] = m
    BY OwedIs
  <2> HIDE DEF k, o
  <2>7. \A i \in 1 .. Len(k) : k[i] \in ToSet(t)
    <3> QED BY <1>1, <2>2, <2>5 DEF ToSet
  <2>8. ASSUME NEW m \in Answers(a), m \in ToSet(t) PROVE \E i \in 1 .. Len(k) : k[i] = m
    <3>1. PICK q \in DOMAIN t : m = t[q] BY <2>8 DEF ToSet
    <3>2. q \in Is(t, "result") /\ m.id = a.id BY <2>2, <2>8, <3>1, AnswerIs DEF Is
    <3>3. PICK r \in Is(t, "assistant") : Follows(t, r, q) BY <3>2 DEF Neat
    <3>4. t[q] \in Answers(t[r]) BY <3>1, <3>3 DEF Neat
    <3>5. t[r].id = a.id BY <1>2, <3>1, <3>2, <3>4, AnswerIs
    <3>6. r = p BY <3>5 DEF Neat
    <3>7. q - p \in 1 .. Len(k) /\ p + (q - p) = q BY <1>1, <2>2, <2>5, <3>3, <3>6 DEF Follows
    <3> QED BY <2>5, <3>1, <3>7
  <2>9. /\ \A i \in 1 .. Len(k), j \in 1 .. Len(o) : k[i] # o[j]
        /\ \A i \in 1 .. Len(o), j \in 1 .. Len(k) : o[i] # k[j]
    BY <2>6, <2>7
  <2> HIDE DEF a
  <2>10. /\ Some(k \o o, a) /\ Len(k \o o) = Len(k) + Len(o)
         /\ \A i \in 1 .. Len(k) : (k \o o)[i] = k[i]
         /\ \A i \in 1 .. Len(o) : (k \o o)[Len(k) + i] = o[i]
    BY <2>5, <2>6, <2>9, SomeBoth, SMTT(30)
  <2>11. Some(o \o k, a) /\ Len(o \o k) = Len(o) + Len(k) BY <2>5, <2>6, <2>9, SomeBoth, SMTT(30)
  <2>12. Len(k) \in Nat /\ Len(o) \in Nat /\ o \in Seq(Message) BY <2>5, <2>6 DEF Some
  <2>13. ASSUME NEW m \in Answers(a) PROVE \E i \in 1 .. Len(k \o o) : (k \o o)[i] = m
    <3>1. CASE m \in ToSet(t)
      <4>1. PICK i \in 1 .. Len(k) : k[i] = m BY <2>8, <3>1
      <4>2. i \in 1 .. Len(k \o o) BY <2>10, <2>12
      <4> QED BY <2>10, <4>1, <4>2
    <3>2. CASE m \notin ToSet(t)
      <4>1. PICK i \in 1 .. Len(o) : o[i] = m BY <2>6, <3>2
      <4>2. Len(k) + i \in 1 .. Len(k \o o) BY <2>10, <2>12
      <4> QED BY <2>10, <4>1, <4>2
    <3> QED BY <3>1, <3>2
  <2>14. Len(k \o o) = a.n BY <2>2, <2>10, <2>13, SomeSize
  <2>15. Len(o \o k) = a.n BY <2>10, <2>11, <2>12, <2>14
  <2>16. o # <<>>
    <3> SUFFICES ASSUME o = <<>> PROVE FALSE OBVIOUS
    <3>1. Len(o) = 0 OBVIOUS
    <3> QED BY <1>1, <2>2, <2>5, <2>10, <2>12, <2>14, <3>1
  <2>17. Lacks(t, p, o) BY <2>3, <2>6, <2>10, <2>11, <2>14, <2>15, <2>16 DEF Lacks, k, o, a
  <2> QED BY <2>17 DEF o
<1> QED BY <1>5, <1>6

\* A list lacks results at one place: what is before it, and what the repair makes of the rest.
LEMMA LackingParts ==
  ASSUME NEW t \in Seq(Message), NEW c \in Nat, NEW b \in Nat, Neat(t, c, b),
         NEW p \in Is(t, "assistant"), NEW o, Lacks(t, p, o)
  PROVE  LET u == SubSeq(t, 1, p)
             k == SubSeq(t, p + 1, Len(t))
         IN  /\ p \in 1 .. Len(t) /\ u \in Seq(Message) /\ Len(u) = p /\ u # <<>> /\ u[Len(u)] = t[p]
             /\ t[p].role = "assistant" /\ Neat(u, c, b)
             /\ k \in Seq(Message) /\ Len(k) = Len(t) - p /\ t = u \o k
             /\ o \in Seq(Message) /\ o # <<>>
<1> DEFINE u == SubSeq(t, 1, p)
           k == SubSeq(t, p + 1, Len(t))
<1>1. p \in 1 .. Len(t) /\ Len(t) \in Nat /\ t[p].role = "assistant" BY DEF Is
<1>2. u \in Seq(Message) /\ Len(u) = p /\ u[p] = t[p] BY <1>1
<1>3. Neat(u, c, b)
  <2>1. p \in 0 .. Len(t) BY <1>1
  <2> QED BY <2>1, NeatFront
<1>4. k \in Seq(Message) /\ Len(k) = Len(t) - p
  <2>1. p + 1 \in 1 .. Len(t) + 1 /\ Len(t) \in 0 .. Len(t) BY <1>1
  <2>2. k \in Seq(Message) /\ Len(k) = IF p + 1 <= Len(t) THEN Len(t) - (p + 1) + 1 ELSE 0 BY <2>1
  <2> HIDE DEF k
  <2> QED BY <1>1, <2>2
<1>5. t = u \o k
  <2>1. SubSeq(t, 1, p) \o SubSeq(t, p + 1, Len(t)) = SubSeq(t, 1, Len(t))
    BY <1>1, ConcatAdjacentSubSeq
  <2>2. SubSeq(t, 1, Len(t)) = t BY SubSeqFull
  <2> QED BY <2>1, <2>2
<1>6. o \in Seq(Message) /\ o # <<>> BY DEF Lacks, Some
<1>7. u # <<>> BY <1>1, <1>2
<1> QED BY <1>1, <1>2, <1>3, <1>4, <1>5, <1>6, <1>7

\* What is owed, as a sequence of sequences.
LEMMA OwedRows ==
  ASSUME NEW t \in Seq(Message)
  PROVE  [p \in DOMAIN t |-> Owed(t, p)] \in Seq(Seq(Message))
<1> DEFINE ss == [p \in DOMAIN t |-> Owed(t, p)]
<1>1. Len(t) \in Nat /\ DOMAIN t = 1 .. Len(t) OBVIOUS
<1>2. ss \in [1 .. Len(t) -> Seq(Message)] BY <1>1, OwedType
<1>3. ss \in Seq(Seq(Message))
  <2> HIDE DEF ss
  <2> QED BY <1>1, <1>2, SeqDef
<1> QED BY <1>3

\* The repair at the end.
LEMMA RepairEnds ==
  ASSUME NEW t \in Seq(Message), NEW c \in Nat, NEW b \in Nat, Neat(t, c, b)
  PROVE  /\ Repaired(t) \in Seq(Message) /\ Neat(Repaired(t), c, b) /\ Full(Repaired(t))
         /\ Len(t) <= Len(Repaired(t)) /\ SubSeq(Repaired(t), 1, Len(t)) = t
<1> DEFINE ss == [p \in DOMAIN t |-> Owed(t, p)]
           f == FlattenSeq(ss)
<1>1. /\ ss \in Seq(Seq(Message)) /\ DOMAIN t = 1 .. Len(t) /\ Len(t) \in Nat /\ Len(ss) = Len(t)
      /\ \A q \in 1 .. Len(t) : ss[q] = Owed(t, q)
  BY OwedRows
<1>2. Repaired(t) = t \o f BY DEF Repaired
<1> HIDE DEF ss
<1>3. f \in Seq(Message) BY <1>1, FlattenPlaces
<1>4. Repaired(t) \in Seq(Message) /\ Len(t) <= Len(Repaired(t)) /\ SubSeq(Repaired(t), 1, Len(t)) = t
  <2> HIDE DEF f
  <2>1. SubSeq(t \o f, 1, Len(t)) = t BY <1>3, SubSeqOfConcat1, SubSeqFull
  <2> QED BY <1>2, <1>3, <2>1
<1>5. CASE Full(t) /\ \A p \in DOMAIN t : Owed(t, p) = <<>>
  <2>1. f = <<>>
    <3> DEFINE g == [i \in 0 .. Len(t) |-> <<>>]
    <3>1. g[0] = <<>> /\ g[Len(ss)] = <<>> BY <1>1
    <3>2. ASSUME NEW k \in 0 .. Len(ss) - 1 PROVE g[k + 1] = g[k] \o ss[k + 1]
      <4>1. k \in 0 .. Len(t) /\ k + 1 \in 0 .. Len(t) /\ k + 1 \in 1 .. Len(t) BY <1>1
      <4>2. ss[k + 1] = <<>> BY <1>1, <1>5, <4>1
      <4> QED BY <4>1, <4>2
    <3> HIDE DEF g
    <3> QED BY <1>1, <3>1, <3>2, FlattenIs
  <2>2. Repaired(t) = t BY <1>2, <2>1
  <2> QED BY <1>4, <1>5, <2>2
<1>6. ASSUME NEW p \in Is(t, "assistant"), Lacks(t, p, Owed(t, p))
      PROVE  Neat(Repaired(t), c, b) /\ Full(Repaired(t))
  <2> DEFINE o == Owed(t, p)
             u == SubSeq(t, 1, p)
             k == SubSeq(t, p + 1, Len(t))
  <2>1. /\ p \in 1 .. Len(t) /\ u \in Seq(Message) /\ Len(u) = p /\ u # <<>> /\ u[Len(u)] = t[p]
        /\ t[p].role = "assistant" /\ Neat(u, c, b)
        /\ k \in Seq(Message) /\ Len(k) = Len(t) - p /\ t = u \o k
        /\ o \in Seq(Message) /\ o # <<>>
    BY <1>6, LackingParts
  <2>2. f = o
    <3>1. p \in 1 .. Len(ss) /\ ss[p] = o BY <1>1, <2>1
    <3> QED BY <1>1, <1>6, <3>1, FlattenOne DEF Lacks
  <2>3. Some(k \o o, t[p]) /\ Len(k \o o) = t[p].n BY <1>6 DEF Lacks
  <2> HIDE DEF f, u, k, o
  <2>4. Neat(u \o (k \o o), c, b) /\ Full(u \o (k \o o)) BY <2>1, <2>3, NeatResults
  <2>5. Repaired(t) = u \o (k \o o)
    <3>1. Repaired(t) = (u \o k) \o o BY <1>2, <2>1, <2>2
    <3>2. (u \o k) \o o = u \o (k \o o) BY <2>1, ConcatAssociative, SMTT(60)
    <3> QED BY <3>1, <3>2
  <2> QED BY <2>4, <2>5
<1> QED BY <1>4, <1>5, <1>6, WhoLacks

\* What RepairedInPlace puts together.
LEMMA InPlaceRows ==
  ASSUME NEW t \in Seq(Message)
  PROVE  LET ss == [p \in DOMAIN t |-> <<t[p]>> \o Owed(t, p)]
         IN  /\ ss \in Seq(Seq(Message)) /\ Len(ss) = Len(t)
             /\ \A q \in 1 .. Len(t) : ss[q] = <<t[q]>> \o Owed(t, q)
<1> DEFINE ss == [p \in DOMAIN t |-> <<t[p]>> \o Owed(t, p)]
<1>1. Len(t) \in Nat /\ DOMAIN t = 1 .. Len(t) OBVIOUS
<1>2. ASSUME NEW p \in 1 .. Len(t)
      PROVE  <<t[p]>> \o Owed(t, p) \in Seq(Message)
  <2> DEFINE o == Owed(t, p)
             m == t[p]
  <2>1. o \in Seq(Message) /\ m \in Message BY <1>1, OwedType
  <2> HIDE DEF o, m
  <2>2. <<m>> \o o \in Seq(Message) BY <2>1
  <2> QED BY <2>2 DEF o, m
<1>3. ss \in [1 .. Len(t) -> Seq(Message)] /\ \A q \in 1 .. Len(t) : ss[q] = <<t[q]>> \o Owed(t, q)
  BY <1>1, <1>2
<1> HIDE DEF ss
<1>4. ss \in Seq(Seq(Message)) /\ Len(ss) = Len(t) BY <1>1, <1>3, SeqDef
<1> QED BY <1>3, <1>4 DEF ss

\* The repair in place, when nothing is lacking.
LEMMA InPlaceNone ==
  ASSUME NEW t \in Seq(Message), \A p \in DOMAIN t : Owed(t, p) = <<>>
  PROVE  RepairedInPlace(t) = t
<1> DEFINE ss == [p \in DOMAIN t |-> <<t[p]>> \o Owed(t, p)]
           g == [i \in 0 .. Len(t) |-> SubSeq(t, 1, i)]
<1>1. /\ ss \in Seq(Seq(Message)) /\ Len(ss) = Len(t) /\ Len(t) \in Nat
      /\ \A q \in 1 .. Len(t) : ss[q] = <<t[q]>> \o Owed(t, q)
  BY InPlaceRows, SMTT(30)
<1>2. RepairedInPlace(t) = FlattenSeq(ss) BY DEF RepairedInPlace
<1> HIDE DEF ss
<1>3. \A i \in 0 .. Len(t) : g[i] = SubSeq(t, 1, i) OBVIOUS
<1> HIDE DEF g
<1>4. g[0] = <<>> /\ g[Len(t)] = t BY <1>1, <1>3, SubSeqEmpty, SubSeqFull, SMTT(30)
<1>5. ASSUME NEW k \in 0 .. Len(ss) - 1 PROVE g[k + 1] = g[k] \o ss[k + 1]
  <2>1. k \in 0 .. Len(t) - 1 /\ k \in 0 .. Len(t) /\ k + 1 \in 0 .. Len(t) /\ k + 1 \in 1 .. Len(t)
        /\ 1 \in 1 .. k + 1
    BY <1>1
  <2>2. Owed(t, k + 1) = <<>> BY <2>1
  <2>3. ss[k + 1] = <<t[k + 1]>> \o <<>> BY <1>1, <2>2, <2>1
  <2>4. <<t[k + 1]>> \o <<>> = <<t[k + 1]>> BY <2>1
  <2>5. SubSeq(t, 1, k + 1) = SubSeq(t, 1, k) \o <<t[k + 1]>> BY <2>1, OneLonger
  <2> QED BY <2>3, <2>4, <2>5, <1>3, <2>1
<1>6. FlattenSeq(ss) = g[Len(ss)] BY <1>1, <1>4, <1>5, FlattenIs
<1> QED BY <1>1, <1>2, <1>4, <1>6

\* When something is lacking at p.
LEMMA InPlaceIs ==
  ASSUME NEW t \in Seq(Message), NEW p \in 1 .. Len(t),
         \A q \in DOMAIN t : q # p => Owed(t, q) = <<>>
  PROVE  RepairedInPlace(t) = SubSeq(t, 1, p) \o (Owed(t, p) \o SubSeq(t, p + 1, Len(t)))
<1> DEFINE ss == [q \in DOMAIN t |-> <<t[q]>> \o Owed(t, q)]
           o == Owed(t, p)
           u == SubSeq(t, 1, p)
           r(i) == SubSeq(t, p + 1, i)
           g == [i \in 0 .. Len(t) |-> IF i < p THEN SubSeq(t, 1, i) ELSE (u \o o) \o r(i)]
<1>1. /\ ss \in Seq(Seq(Message)) /\ Len(ss) = Len(t) /\ Len(t) \in Nat /\ p \in Nat
      /\ \A q \in 1 .. Len(t) : ss[q] = <<t[q]>> \o Owed(t, q)
  BY InPlaceRows, SMTT(30)
<1>2. RepairedInPlace(t) = FlattenSeq(ss) BY DEF RepairedInPlace
<1> HIDE DEF ss
<1>3. \A i \in 0 .. Len(t) : (i < p => g[i] = SubSeq(t, 1, i)) /\ (~ (i < p) => g[i] = (u \o o) \o r(i))
  OBVIOUS
<1> HIDE DEF g
<1>4. u \in Seq(Message) /\ o \in Seq(Message) /\ u \o o \in Seq(Message)
  <2>1. u \in Seq(Message) /\ o \in Seq(Message) BY OwedType
  <2> HIDE DEF u, o
  <2> QED BY <2>1
<1>5. g[0] = <<>>
  <2>1. 0 \in 0 .. Len(t) /\ 0 < p BY <1>1
  <2>2. SubSeq(t, 1, 0) = <<>> BY SubSeqEmpty
  <2> QED BY <1>3, <2>1, <2>2
<1>6. ASSUME NEW k \in 0 .. Len(ss) - 1 PROVE g[k + 1] = g[k] \o ss[k + 1]
  <2>1. /\ k \in 0 .. Len(t) - 1 /\ k \in 0 .. Len(t) /\ k + 1 \in 0 .. Len(t) /\ k + 1 \in 1 .. Len(t)
        /\ 1 \in 1 .. k + 1
    BY <1>1
  <2>2. <<t[k + 1]>> \o <<>> = <<t[k + 1]>> /\ <<t[k + 1]>> \in Seq(Message) BY <2>1
  <2>3. SubSeq(t, 1, k + 1) = SubSeq(t, 1, k) \o <<t[k + 1]>> BY <2>1, OneLonger
  <2>4. CASE k + 1 < p
    <3>1. k < p /\ k + 1 # p BY <1>1, <2>1, <2>4
    <3>2. Owed(t, k + 1) = <<>> BY <2>1, <3>1
    <3>3. ss[k + 1] = <<t[k + 1]>> \o <<>> BY <1>1, <2>1, <3>2
    <3> QED BY <2>2, <2>3, <3>3, <1>3, <2>1, <2>4, <3>1
  <2>5. CASE k + 1 = p
    <3>1. k < p /\ ~ (p < p) BY <1>1, <2>1, <2>5
    <3>2. ss[k + 1] = <<t[k + 1]>> \o o BY <1>1, <2>1, <2>5
    <3>3. r(p) = <<>> BY <1>1, SubSeqEmpty
    <3>4. (u \o o) \o <<>> = u \o o
      <4> HIDE DEF u, o
      <4> QED BY <1>4
    <3>5. u = SubSeq(t, 1, k) \o <<t[k + 1]>> BY <2>3, <2>5
    <3>6. SubSeq(t, 1, k) \in Seq(Message) BY <2>1
    <3> HIDE DEF u, o, r
    <3>7. (SubSeq(t, 1, k) \o <<t[k + 1]>>) \o o = SubSeq(t, 1, k) \o (<<t[k + 1]>> \o o)
      <4>1. \A x, y, z \in Seq(Message) : (x \o y) \o z = x \o (y \o z)
        BY ConcatAssociative, SMTT(60)
      <4> QED BY <1>4, <2>2, <3>6, <4>1, ZenonT(30)
    <3> QED BY <3>2, <1>3, <2>1, <2>5, <3>1, <3>3, <3>4, <3>5, <3>7
  <2>6. CASE p < k + 1
    <3>1. ~ (k < p) /\ ~ (k + 1 < p) /\ k + 1 # p /\ p + 1 \in 1 .. k + 1 BY <1>1, <2>1, <2>6
    <3>2. Owed(t, k + 1) = <<>> BY <2>1, <3>1
    <3>3. ss[k + 1] = <<t[k + 1]>> \o <<>> BY <1>1, <2>1, <3>2
    <3>4. r(k + 1) = r(k) \o <<t[k + 1]>> /\ r(k) \in Seq(Message)
      <4>1. SubSeq(t, p + 1, k) \in Seq(Message) BY <1>1, <2>1
      <4> QED BY <2>1, <3>1, <4>1, OneLonger
    <3> HIDE DEF u, o, r
    <3>5. ((u \o o) \o r(k)) \o <<t[k + 1]>> = (u \o o) \o (r(k) \o <<t[k + 1]>>)
      <4>1. \A x, y, z \in Seq(Message) : (x \o y) \o z = x \o (y \o z)
        BY ConcatAssociative, SMTT(30)
      <4> QED BY <1>4, <2>2, <3>4, <4>1, ZenonT(30)
    <3> QED BY <2>2, <3>3, <1>3, <2>1, <3>1, <3>4, <3>5
  <2>7. k + 1 < p \/ k + 1 = p \/ p < k + 1 BY <1>1, <2>1
  <2> QED BY <2>4, <2>5, <2>6, <2>7
<1>7. FlattenSeq(ss) = g[Len(ss)] BY <1>1, <1>5, <1>6, FlattenIs
<1>8. g[Len(t)] = (u \o o) \o r(Len(t))
  <2>1. ~ (Len(t) < p) /\ Len(t) \in 0 .. Len(t) BY <1>1
  <2> QED BY <1>3, <2>1
<1>9. (u \o o) \o r(Len(t)) = u \o (o \o r(Len(t)))
  <2>1. r(Len(t)) \in Seq(Message) BY <1>1
  <2> HIDE DEF u, o, r
  <2> QED BY <1>4, <2>1, ConcatAssociative, SMTT(60)
<1> QED BY <1>1, <1>2, <1>7, <1>8, <1>9
------------------------------------------------------------------------------
(* Tidy journals *)

\* Entries that are written behind it leave a context as it is.
LEMMA ContextStays ==
  ASSUME NEW j, Stored(j), NEW k \in Seq(Entry), Stored(j \o k)
  PROVE  \A e \in 0 .. Len(j) : Context(j \o k, e) = Context(j, e)
BY RowsStay DEF Context

\* A leaf has the context of the entry it points to.
LEMMA ContextOfLeaf ==
  ASSUME NEW j, Stored(j), NEW e \in 1 .. Len(j), j[e].kind = "leaf"
  PROVE  Context(j, e) = Context(j, j[e].parent)
<1>1. Rows(j, e) = RowsWith(j, e, Rows(j, j[e].parent)) BY RowsStep
<1>2. Rows(j, e) = Rows(j, j[e].parent) BY <1>1 DEF RowsWith
<1> QED BY <1>2 DEF Context

\* From entry at[0] on, the messages ms are in a row, each on the one before it.
Line(l, at, ms) ==
  /\ at[0] \in 0 .. Len(l)
  /\ \A k \in 1 .. Len(ms) :
       /\ at[k] \in 1 .. Len(l) /\ l[at[k]].kind = "message"
       /\ l[at[k]].parent = at[k - 1] /\ l[at[k]].msg = ms[k]

\* The contexts of such a row of entries.
LEMMA LineContexts ==
  ASSUME NEW l, Stored(l), NEW ms \in Seq(Message), NEW at, Line(l, at, ms)
  PROVE  \A k \in 0 .. Len(ms) : Context(l, at[k]) = Context(l, at[0]) \o SubSeq(ms, 1, k)
<1> DEFINE n == Len(ms)
           c == Context(l, at[0])
           U == {k \in Nat : k <= n => Context(l, at[k]) = c \o SubSeq(ms, 1, k)}
<1>1. n \in Nat /\ c \in Seq(Message)
  <2>1. at[0] \in 0 .. Len(l) BY DEF Line
  <2> QED BY <2>1, ContextType
<1> HIDE DEF c
<1>2. 0 \in U
  <2>1. SubSeq(ms, 1, 0) = <<>> BY SubSeqEmpty
  <2>2. c \o <<>> = c BY <1>1
  <2> QED BY <2>1, <2>2 DEF c
<1>3. ASSUME NEW k \in Nat, k \in U PROVE k + 1 \in U
  <2> SUFFICES ASSUME k + 1 <= n PROVE Context(l, at[k + 1]) = c \o SubSeq(ms, 1, k + 1) OBVIOUS
  <2>1. k <= n /\ k + 1 \in 1 .. Len(ms) /\ (k + 1) - 1 = k /\ k \in 0 .. Len(ms) - 1 /\ 1 \in 1 .. k + 1
    BY <1>1
  <2>2. Context(l, at[k]) = c \o SubSeq(ms, 1, k) BY <1>3, <2>1
  <2> HIDE DEF U, n
  <2>3. /\ at[k + 1] \in 1 .. Len(l) /\ l[at[k + 1]].kind = "message"
        /\ l[at[k + 1]].parent = at[(k + 1) - 1] /\ l[at[k + 1]].msg = ms[k + 1]
    BY <2>1 DEF Line
  <2>4. Context(l, at[k + 1]) = Append(Context(l, at[k]), ms[k + 1])
    <3> QED BY <2>1, <2>3, ContextOfMessage
  <2> DEFINE a == SubSeq(ms, 1, k)
             x == ms[k + 1]
  <2>5. a \in Seq(Message) /\ x \in Message BY <2>1
  <2>6. SubSeq(ms, 1, k + 1) = a \o <<x>> BY <2>1, OneLonger
  <2> HIDE DEF a, x
  <2>7. c \o a \in Seq(Message) /\ <<x>> \in Seq(Message) BY <1>1, <2>5
  <2>8. Append(c \o a, x) = (c \o a) \o <<x>> BY <2>5, <2>7, AppendIsConcat
  <2>9. (c \o a) \o <<x>> = c \o (a \o <<x>>) BY <1>1, <2>5, <2>7, ConcatAssociative, SMTT(30)
  <2> QED BY <2>2, <2>4, <2>6, <2>8, <2>9 DEF a, x
<1>4. \A k \in Nat : k \in U
  <2> HIDE DEF U
  <2> QED BY <1>2, <1>3, Induction
<1>5. \A k \in 0 .. n : k \in Nat /\ k <= n /\ k \in U BY <1>1, <1>4
<1> HIDE DEF n
<1> QED BY <1>5 DEF c, n

\* Every path of the journal is neat.
Tidy(j, c, b) == \A e \in 0 .. Len(j) : Neat(Context(j, e), c, b)

\* In a tidy journal every context is neat.
LEMMA TidyContext ==
  ASSUME NEW j, NEW c, NEW b, Tidy(j, c, b), NEW e \in 0 .. Len(j)
  PROVE  Neat(Context(j, e), c, b)
BY DEF Tidy

\* New entries, when their paths are neat.
LEMMA TidyBoth ==
  ASSUME NEW j, Stored(j), NEW t \in Seq(Entry), Stored(j \o t), NEW c, NEW b, Tidy(j, c, b),
         \A i \in 1 .. Len(t) : Neat(Context(j \o t, Len(j) + i), c, b)
  PROVE  Tidy(j \o t, c, b)
<1> DEFINE l == j \o t
<1>1. j \in Seq(Entry) /\ Len(j) \in Nat /\ Len(t) \in Nat BY DEF Stored
<1>2. Len(l) = Len(j) + Len(t) BY <1>1
<1>3. \A e \in 0 .. Len(j) : Context(l, e) = Context(j, e) BY ContextStays
<1> HIDE DEF l
<1>4. ASSUME NEW e \in 0 .. Len(l) PROVE Neat(Context(l, e), c, b)
  <2>1. CASE e \in 0 .. Len(j) BY <1>3, <2>1, TidyContext
  <2>2. CASE e \notin 0 .. Len(j)
    <3> QED BY <1>1, <1>2, <2>2 DEF l
  <2> QED BY <2>1, <2>2
<1> QED BY <1>4 DEF Tidy, l

\* A write that was cut off.
LEMMA TidyPart ==
  ASSUME NEW j, Stored(j), NEW t \in Seq(Entry), After(Len(j), t), NEW c, NEW b, Tidy(j \o t, c, b),
         NEW k \in 1 .. Len(t)
  PROVE  Stored(j \o SubSeq(t, 1, k)) /\ Tidy(j \o SubSeq(t, 1, k), c, b)
<1> DEFINE s == SubSeq(t, 1, k)
           r == SubSeq(t, k + 1, Len(t))
           l == j \o s
<1>1. j \in Seq(Entry) /\ Len(j) \in Nat /\ Len(t) \in Nat /\ k \in DOMAIN t BY DEF Stored
<1>2. s \in Seq(Entry) /\ After(Len(j), s) BY <1>1, AfterPart, SMTT(60)
<1>3. r \in Seq(Entry) /\ t = s \o r
  <2>1. SubSeq(t, 1, k) \o SubSeq(t, k + 1, Len(t)) = SubSeq(t, 1, Len(t))
    <3>1. 1 \in 1 .. Len(t) + 1 /\ k \in 1 - 1 .. Len(t) /\ Len(t) \in k .. Len(t) BY <1>1
    <3> QED BY <3>1, ConcatAdjacentSubSeq
  <2>2. SubSeq(t, 1, Len(t)) = t BY SubSeqFull
  <2>3. r \in Seq(Entry) BY <1>1
  <2> QED BY <2>1, <2>2, <2>3
<1> HIDE DEF s, r
<1>4. Stored(l) /\ l \in Seq(Entry) /\ Len(l) = Len(j) + Len(s) BY <1>1, <1>2, AfterBoth DEF Stored
<1>5. l \o r = j \o t /\ Stored(j \o t)
  <2>1. (j \o s) \o r = j \o (s \o r) BY <1>1, <1>2, <1>3, ConcatAssociative, SMTT(30)
  <2> QED BY <1>3, <2>1, AfterBoth
<1> HIDE DEF l
<1>6. 0 .. Len(l) \subseteq 0 .. Len(l \o r)
  <2>1. Len(l) \in Nat /\ Len(r) \in Nat /\ Len(l \o r) = Len(l) + Len(r)
    <3>1. l \in Seq(Entry) /\ r \in Seq(Entry) BY <1>3, <1>4
    <3> QED BY <3>1
  <2> QED BY <2>1
<1>7. ASSUME NEW e \in 0 .. Len(l) PROVE Neat(Context(l, e), c, b)
  <2>1. e \in 0 .. Len(j \o t) BY <1>5, <1>6
  <2>2. Neat(Context(j \o t, e), c, b) BY <2>1, TidyContext
  <2> QED BY <1>5, <1>3, <1>4, ContextStays, <2>2, ZenonT(30)
<1>8. Tidy(l, c, b) BY <1>7 DEF Tidy
<1> QED BY <1>4, <1>8 DEF l, s
\* What Persist writes.
LEMMA TidyChain ==
  ASSUME NEW j, Stored(j), NEW leaf \in 0 .. Len(j), NEW ms \in Seq(Message), NEW l, NEW last,
         WrittenOut(l, last, j, leaf, ms), NEW c \in Nat, NEW b \in Nat, Tidy(j, c, b),
         Neat(Context(j, leaf) \o ms, c, b)
  PROVE  Tidy(l, c, b)
<1> DEFINE t == Chain(Len(j), leaf, ms)
           base == Len(j)
           n == Len(ms)
           at == [k \in 0 .. n |-> IF k = 0 THEN leaf ELSE base + 2 * k - 1]
<1>1. base \in Nat /\ leaf \in Nat /\ n \in Nat /\ j \in Seq(Entry) /\ leaf <= base BY DEF Stored
<1>2. Pairs(t, base, leaf, ms) /\ After(base, t) /\ l = j \o t
  BY <1>1, ChainHasPairs, ChainIsAfter DEF WrittenOut
<1>3. \A k \in 0 .. n : at[k] = IF k = 0 THEN leaf ELSE base + 2 * k - 1 OBVIOUS
<1> HIDE DEF t, base, at
<1>4. /\ t \in Seq(Entry) /\ Len(t) = 2 * n
      /\ \A k \in 1 .. n :
           /\ t[2 * k - 1] = MessageEntry(IF k = 1 THEN leaf ELSE base + 2 * k - 3, ms[k])
           /\ t[2 * k] = LeafEntry(base + 2 * k - 1)
  BY <1>2 DEF Pairs
<1>5. /\ Stored(l) /\ Len(l) = base + 2 * n
      /\ \A i \in 1 .. Len(t) : l[base + i] = t[i]
  BY <1>1, <1>2, <1>4, AfterBoth, ZenonT(60) DEF base
<1>6. ASSUME NEW k \in 1 .. n
      PROVE  /\ at[k] = base + (2 * k - 1) /\ at[k] \in 1 .. Len(l)
             /\ l[at[k]] = MessageEntry(at[k - 1], ms[k])
  <2>1. k - 1 \in 0 .. n /\ k \in 0 .. n /\ k # 0 /\ (k = 1 <=> k - 1 = 0) /\ 2 * k - 1 \in 1 .. 2 * n
        /\ base + 2 * k - 1 = base + (2 * k - 1) /\ base + 2 * (k - 1) - 1 = base + 2 * k - 3
        /\ base + (2 * k - 1) \in 1 .. base + 2 * n
    BY <1>1
  <2>2. l[base + (2 * k - 1)] = t[2 * k - 1] BY <1>4, <1>5, <2>1
  <2> QED BY <1>4, <1>5, <2>1, <1>3, <2>2, ZenonT(30)
<1>7. at[0] = leaf /\ leaf \in 0 .. Len(l)
  <2>1. 0 \in 0 .. n BY <1>1
  <2>2. leaf \in 0 .. Len(l) BY <1>1, <1>5
  <2> QED BY <1>3, <2>1, <2>2
<1>8. Line(l, at, ms)
  <2>1. ASSUME NEW k \in 1 .. n
        PROVE  /\ l[at[k]].kind = "message" /\ l[at[k]].parent = at[k - 1]
               /\ l[at[k]].msg = ms[k]
    <3>1. l[at[k]] = MessageEntry(at[k - 1], ms[k]) BY <1>6
    <3> QED BY <3>1 DEF MessageEntry
  <2> QED BY <1>6, <1>7, <2>1 DEF Line
<1>9. Context(l, leaf) = Context(j, leaf) BY <1>2, <1>4, <1>5, ContextStays
<1>10. ASSUME NEW k \in 1 .. n PROVE Neat(Context(l, at[k]), c, b)
  <2> DEFINE u == Context(j, leaf)
  <2>1. k \in 0 .. Len(ms) /\ u \in Seq(Message) BY <1>1, ContextType
  <2>2. Context(l, at[k]) = u \o SubSeq(ms, 1, k)
    <3>1. Context(l, at[k]) = Context(l, at[0]) \o SubSeq(ms, 1, k)
      BY <1>5, <1>8, <2>1, LineContexts, SMTT(30)
    <3> QED BY <1>7, <1>9, <3>1
  <2> HIDE DEF u
  <2>3. /\ SubSeq(u \o ms, 1, Len(u) + k) = u \o SubSeq(ms, 1, k)
        /\ Len(u) + k \in 0 .. Len(u \o ms) /\ u \o ms \in Seq(Message)
    BY <2>1, FrontOfJoin
  <2>4. Neat(u \o ms, c, b) BY DEF u
  <2>5. Neat(SubSeq(u \o ms, 1, Len(u) + k), c, b) BY <2>3, <2>4, NeatFront
  <2> QED BY <2>2, <2>3, <2>5
<1>11. ASSUME NEW i \in 1 .. Len(t) PROVE Neat(Context(l, base + i), c, b)
  <2>1. PICK k \in 1 .. n : i = 2 * k - 1 \/ i = 2 * k
    <3>1. i \in 1 .. 2 * n BY <1>4
    <3>2. (i + 1) \div 2 \in 1 .. n /\ (i = 2 * ((i + 1) \div 2) - 1 \/ i = 2 * ((i + 1) \div 2))
      BY <1>1, <3>1
    <3> QED BY <3>2
  <2>2. CASE i = 2 * k - 1 BY <1>6, <1>10, <2>2
  <2>3. CASE i = 2 * k
    <3>1. l[base + i] = LeafEntry(base + 2 * k - 1) BY <1>4, <1>5, <2>3
    <3>2. base + 2 * k - 1 = base + (2 * k - 1) /\ base + i \in 1 .. Len(l) BY <1>1, <1>4, <1>5
    <3>3. l[base + i].kind = "leaf" /\ l[base + i].parent = at[k] BY <1>6, <3>1, <3>2 DEF LeafEntry
    <3>4. Context(l, base + i) = Context(l, at[k]) BY <1>5, <3>2, <3>3, ContextOfLeaf, SMTT(30)
    <3> QED BY <1>10, <3>4
  <2> QED BY <2>1, <2>2, <2>3
<1> QED BY <1>2, <1>4, <1>5, <1>11, TidyBoth DEF base

\* The rows of a path hold the messages of entries on it, and summaries.
LEMMA RowsHoldEntries ==
  ASSUME NEW j, Stored(j)
  PROVE  \A e \in 0 .. Len(j) : \A i \in DOMAIN Rows(j, e) :
           LET r == Rows(j, e)[i] IN
           /\ r.id \in 1 .. Len(j)
           /\ \/ j[r.id].kind = "message" /\ r.msg = j[r.id].msg
              \/ r.msg = Summary(r.id)
<1> DEFINE S == {r \in MessageRow : /\ r.id \in 1 .. Len(j)
                                    /\ \/ j[r.id].kind = "message" /\ r.msg = j[r.id].msg
                                       \/ r.msg = Summary(r.id)}
           odd == {e \in 0 .. Len(j) : Rows(j, e) \notin Seq(S)}
<1>1. Len(j) \in Nat BY DEF Stored
<1>2. ASSUME odd # {} PROVE FALSE
  <2>1. odd \in SUBSET Nat BY <1>1
  <2>2. PICK e \in odd : \A d \in odd : e <= d
    <3> HIDE DEF odd
    <3> QED BY <1>2, <2>1, LeastNumber
  <2>3. CASE e = 0
    <3>1. Rows(j, e) = <<>> BY <2>3, RowsOfNone
    <3>2. <<>> \in Seq(S)
      <4> HIDE DEF S
      <4> QED OBVIOUS
    <3> QED BY <2>2, <3>1, <3>2
  <2>4. CASE e # 0
    <3> DEFINE before == Rows(j, j[e].parent)
    <3>1. e \in 1 .. Len(j) /\ e \in Nat BY <1>1, <2>2, <2>4
    <3>2. j[e].parent \in 0 .. Len(j) /\ j[e].parent \in Nat /\ j[e].parent < e /\ j[e] \in Entry
      BY <3>1, StoredBefore
    <3>3. before \in Seq(S)
      <4>1. ~ (e <= j[e].parent) BY <3>1, <3>2
      <4> QED BY <2>2, <3>2, <4>1
    <3>4. Rows(j, e) = RowsWith(j, e, before) BY <3>1, RowsStep
    <3> HIDE DEF before
    <3>5. CASE j[e].kind = "message"
      <4>1. [id |-> e, msg |-> j[e].msg] \in S BY <3>1, <3>2, <3>5, EntryTypes DEF MessageRow
      <4> HIDE DEF S
      <4>2. Append(before, [id |-> e, msg |-> j[e].msg]) \in Seq(S) BY <3>3, <4>1
      <4> QED BY <2>2, <3>4, <3>5, <4>2 DEF RowsWith
    <3>6. CASE j[e].kind = "compaction"
      <4>1. [id |-> e, msg |-> Summary(e)] \in S BY <3>1 DEF MessageRow, Message, Summary, Msg
      <4> HIDE DEF S
      <4>2. Compacted(before, e, j[e].replaces) \in Seq(S) BY <3>1, <3>3, <4>1, CompactedIn
      <4> QED BY <2>2, <3>4, <3>6, <4>2 DEF RowsWith
    <3>7. CASE j[e].kind \notin {"message", "compaction"}
      <4>1. RowsWith(j, e, before) = before BY <3>7 DEF RowsWith
      <4> QED BY <2>2, <3>3, <3>4, <4>1
    <3> QED BY <3>5, <3>6, <3>7
  <2> QED BY <2>3, <2>4
<1>3. ASSUME NEW e \in 0 .. Len(j), NEW i \in DOMAIN Rows(j, e)
      PROVE  Rows(j, e)[i] \in S
  <2>1. Rows(j, e) \in Seq(S) BY <1>2
  <2> HIDE DEF S
  <2> QED BY <2>1
<1> QED BY <1>3

\* A repair writes what is lacking at p, and what follows, on the entry of p.
Mended(rep, base, id, w) ==
  /\ rep \in Seq(Entry) /\ Len(rep) = Len(w) + 1
  /\ \A k \in 1 .. Len(w) : rep[k] = MessageEntry(IF k = 1 THEN id ELSE base + k - 1, w[k])
  /\ rep[Len(w) + 1] = LeafEntry(base + Len(w))

\* The repair of a context in which the message at p lacks results.
LEMMA RepairWrites ==
  ASSUME Stored(journal), NEW leaf \in 0 .. Len(journal), NEW c \in Nat, NEW b \in Nat,
         Neat(Context(journal, leaf), c, b), NEW p \in Is(Context(journal, leaf), "assistant"),
         NEW o, o = Owed(Context(journal, leaf), p), Lacks(Context(journal, leaf), p, o)
  PROVE  Mended(Repair(Rows(journal, leaf)), Len(journal), Rows(journal, leaf)[p].id,
                o \o SubSeq(Context(journal, leaf), p + 1, Len(Context(journal, leaf))))
<1> DEFINE base == Len(journal)
           rows == Rows(journal, leaf)
           t == Messages(rows)
           fixed == RepairedInPlace(t)
           open == {q \in 0 .. Len(t) : q = Len(t) \/ t[q + 1] # fixed[q + 1]}
           same == Least(open)
           id(k) == base + k
           n == Len(fixed) - same
           before(k) == IF k = 1 THEN rows[same].id ELSE id(k - 1)
           entries == [k \in 1 .. n |-> MessageEntry(before(k), fixed[same + k])]
           last == LeafEntry(id(Len(entries)))
           u == SubSeq(t, 1, p)
           r == SubSeq(t, p + 1, Len(t))
           w == o \o r
<1>1. base \in Nat /\ rows \in Seq(MessageRow) /\ t \in Seq(Message) /\ t = Context(journal, leaf)
      /\ Len(t) = Len(rows) /\ Repair(rows) \in Seq(Entry)
  <2>1. t = Context(journal, leaf) BY DEF Context
  <2>2. rows \in Seq(MessageRow) /\ Repair(rows) \in Seq(Entry) BY RowsType, RepairIsAfter
  <2>3. Len(t) = Len(rows)
    <3> HIDE DEF rows
    <3> QED BY <2>2 DEF Messages
  <2> QED BY <2>1, <2>2, <2>3, ContextType DEF Stored
<1>2. Repair(rows) = IF fixed = t THEN <<>> ELSE Append(entries, last) BY DEF Repair
<1> HIDE DEF rows, t, base
<1>3. /\ p \in 1 .. Len(t) /\ u \in Seq(Message) /\ Len(u) = p
      /\ r \in Seq(Message) /\ Len(r) = Len(t) - p /\ t = u \o r
      /\ o \in Seq(Message) /\ o # <<>>
  BY <1>1, LackingParts, ZenonT(30)
<1>4. fixed = u \o w
  <2> QED BY <1>1, <1>3, InPlaceIs, ZenonT(30) DEF Lacks
<1>5. o[1] \notin ToSet(t) /\ 1 \in 1 .. Len(o) /\ Len(o) \in Nat
  <2>1. \A i \in 1 .. Len(o) : o[i] \notin ToSet(t) BY <1>1, OwedIs
  <2>2. 1 \in 1 .. Len(o) /\ Len(o) \in Nat BY <1>3
  <2> QED BY <2>1, <2>2
<1>6. /\ w \in Seq(Message) /\ Len(w) = Len(o) + Len(r) /\ w[1] = o[1] /\ Len(w) \in Nat /\ Len(w) # 0
  <2> HIDE DEF r
  <2> QED BY <1>3, <1>5, SMTT(60)
<1> HIDE DEF fixed, u, r
<1>7. /\ fixed \in Seq(Message) /\ Len(fixed) = p + Len(w)
      /\ \A i \in 1 .. p : fixed[i] = u[i] /\ t[i] = u[i]
      /\ \A i \in 1 .. Len(w) : fixed[p + i] = w[i]
  <2>1. \A i \in 1 .. p : t[i] = u[i] BY <1>3
  <2> HIDE DEF w
  <2>2. /\ u \o w \in Seq(Message) /\ Len(u \o w) = Len(u) + Len(w)
        /\ \A i \in 1 .. Len(u) : (u \o w)[i] = u[i]
        /\ \A i \in 1 .. Len(w) : (u \o w)[Len(u) + i] = w[i]
    <3>1. u \in Seq(Message) /\ w \in Seq(Message) BY <1>3, <1>6
    <3> QED BY ONLY <3>1
  <2> QED BY <1>3, <1>4, <2>1, <2>2
<1>8. fixed # t
  <2> SUFFICES ASSUME fixed = t PROVE FALSE OBVIOUS
  <2>1. p + 1 \in DOMAIN t /\ t[p + 1] = o[1]
    <3>1. p + 1 \in 1 .. Len(fixed) /\ 1 \in 1 .. Len(w) BY <1>3, <1>6, <1>7
    <3>2. fixed[p + 1] = w[1] BY <1>7, <3>1
    <3> QED BY <1>6, <1>7, <3>1, <3>2
  <2> QED BY <1>5, <2>1 DEF ToSet
<1> HIDE DEF w
<1>9. same = p
  <2>1. Len(t) \in Nat /\ p \in 0 .. Len(t) /\ p \in Nat BY <1>1, <1>3
  <2>2. p \in open
    <3>1. CASE p = Len(t) BY <2>1, <3>1
    <3>2. CASE p # Len(t)
      <4>1. p + 1 \in DOMAIN t /\ 1 \in 1 .. Len(w) BY <1>1, <1>3, <1>6, <3>2, SMTT(30)
      <4>2. fixed[p + 1] = o[1] /\ t[p + 1] \in ToSet(t) BY <1>6, <1>7, <4>1 DEF ToSet
      <4> QED BY <1>5, <2>1, <4>2
    <3> QED BY <3>1, <3>2
  <2>3. \A q \in open : ~ (q < p)
    <3> SUFFICES ASSUME NEW q \in open, q < p PROVE FALSE OBVIOUS
    <3>1. q + 1 \in 1 .. p /\ q # Len(t) BY <2>1
    <3>2. t[q + 1] # fixed[q + 1] BY <3>1
    <3> QED BY <1>7, <3>1, <3>2
  <2>4. open \in SUBSET Nat /\ open # {} BY <2>1, <2>2
  <2> HIDE DEF open
  <2>5. Least(open) <= p /\ ~ (Least(open) < p) /\ Least(open) \in Nat BY <2>2, <2>3, <2>4, LeastIs
  <2> QED BY <2>1, <2>5
<1> HIDE DEF same
<1>10. n = Len(w) BY <1>3, <1>6, <1>7, <1>9, SMTT(30)
<1> HIDE DEF n
<1>11. ASSUME NEW k \in 1 .. Len(w)
       PROVE  before(k) = (IF k = 1 THEN rows[p].id ELSE base + k - 1) /\ fixed[same + k] = w[k]
              /\ MessageEntry(before(k), fixed[same + k]) \in Entry
  <2>1. before(k) = IF k = 1 THEN rows[p].id ELSE base + k - 1 BY <1>1, <1>6, <1>9
  <2>2. fixed[same + k] = w[k] /\ w[k] \in Message BY <1>6, <1>7, <1>9, SMTT(30)
  <2>3. before(k) \in Nat
    <3>1. rows[p] \in MessageRow BY <1>1, <1>3
    <3>2. rows[p].id \in Nat BY <3>1 DEF MessageRow
    <3> QED BY <1>1, <1>6, <2>1, <3>2, SMTT(30)
  <2> HIDE DEF before
  <2> QED BY <2>1, <2>2, <2>3, EntriesAreEntries
<1> HIDE DEF before
<1>12. /\ entries \in Seq(Entry) /\ Len(entries) = Len(w)
       /\ \A k \in 1 .. Len(w) : entries[k] = MessageEntry(before(k), fixed[same + k])
  <2>1. entries \in [1 .. Len(w) -> Entry]
        /\ \A k \in 1 .. Len(w) : entries[k] = MessageEntry(before(k), fixed[same + k])
    BY <1>10, <1>11
  <2> HIDE DEF entries
  <2> QED BY <1>6, <2>1, SeqDef
<1> DEFINE all == Append(entries, last)
<1>13. last = LeafEntry(base + Len(w)) /\ last \in Entry
  <2>1. last = LeafEntry(base + Len(w)) /\ base + Len(w) \in Nat
    <3> HIDE DEF entries
    <3> QED BY <1>1, <1>6, <1>12
  <2> HIDE DEF last
  <2> QED BY <2>1, EntriesAreEntries
<1> HIDE DEF entries, last
<1>14. /\ all \in Seq(Entry) /\ Len(all) = Len(w) + 1 /\ all[Len(w) + 1] = last
       /\ \A k \in 1 .. Len(w) : all[k] = entries[k]
  BY <1>6, <1>12, <1>13
<1>15. Repair(rows) = all BY <1>2, <1>8
<1> HIDE DEF all
<1>16. Mended(all, base, rows[p].id, w) BY <1>13, <1>14, <1>11, <1>12 DEF Mended
<1> QED BY <1>1, <1>15, <1>16 DEF w, r, rows, base

\* The beginning of results of a.
LEMMA SomeFront ==
  ASSUME NEW a, NEW ms, Some(ms, a), NEW k \in 0 .. Len(ms)
  PROVE  Some(SubSeq(ms, 1, k), a)
<1> DEFINE s == SubSeq(ms, 1, k)
<1>1. ms \in Seq(Message) BY DEF Some
<1>2. s \in Seq(Message) /\ Len(s) = k /\ \A i \in 1 .. k : s[i] = ms[i] /\ i \in 1 .. Len(ms)
  BY <1>1
<1> HIDE DEF s
<1>3. Some(s, a) BY <1>2 DEF Some
<1> QED BY <1>3 DEF s

\* When the last entry is a leaf, it is the latest.
LEMMA LatestLeafIsLast ==
  ASSUME NEW j, Stored(j), NEW n, n = Len(j), n # 0, j[n].kind = "leaf"
  PROVE  LatestLeaf(j) = j[n].target
<1> DEFINE leaves == {e \in DOMAIN j : j[e].kind = "leaf"}
           last == CHOOSE e \in leaves : \A f \in leaves : f <= e
<1>1. n \in Nat /\ DOMAIN j = 1 .. n /\ n \in DOMAIN j BY DEF Stored
<1>2. n \in leaves /\ (\A f \in leaves : f <= n) /\ leaves \subseteq 1 .. n BY <1>1
<1> HIDE DEF leaves
<1>3. last \in leaves /\ \A f \in leaves : f <= last BY <1>2
<1>4. last = n
  <2> HIDE DEF last
  <2>1. n <= last /\ last <= n /\ last \in 1 .. n BY <1>2, <1>3
  <2> QED BY <1>1, <2>1
<1>5. LatestLeaf(j) = j[last].target BY <1>2 DEF LatestLeaf, leaves
<1> QED BY <1>4, <1>5

\* A repair keeps the journal tidy, and its context lacks nothing.
LEMMA RepairIsTidy ==
  ASSUME Stored(journal), NEW leaf, leaf = LatestLeaf(journal), NEW c \in Nat, NEW b \in Nat,
         Tidy(journal, c, b), NEW rep, rep = Repair(Rows(journal, leaf))
  PROVE  /\ rep \in Seq(Entry) /\ After(Len(journal), rep)
         /\ Stored(journal \o rep) /\ Tidy(journal \o rep, c, b)
         /\ Full(Context(journal \o rep, LatestLeaf(journal \o rep)))
<1> DEFINE base == Len(journal)
           t == Context(journal, leaf)
           l == journal \o rep
<1>1. leaf \in 0 .. base /\ base \in Nat /\ journal \in Seq(Entry) BY LatestLeafIsThere DEF Stored
<1>2. rep \in Seq(Entry) /\ After(base, rep) BY <1>1, RepairIsAfter
<1>3. Stored(l) /\ Len(l) = base + Len(rep) /\ \A i \in 1 .. Len(rep) : l[base + i] = rep[i]
  BY <1>2, AfterBoth
<1>4. t \in Seq(Message) /\ Neat(t, c, b) BY <1>1, ContextType, TidyContext
<1>5. CASE Full(t) /\ \A p \in DOMAIN t : Owed(t, p) = <<>>
  <2>1. RepairedInPlace(t) = t BY <1>4, <1>5, InPlaceNone
  <2>2. t = Messages(Rows(journal, leaf)) BY DEF Context
  <2>3. rep = <<>> BY <2>1, <2>2 DEF Repair
  <2>4. l = journal BY <1>1, <2>3
  <2> QED BY <1>2, <1>5, <2>4
<1>6. ASSUME NEW p \in Is(t, "assistant"), Lacks(t, p, Owed(t, p))
      PROVE  Tidy(l, c, b) /\ Full(Context(l, LatestLeaf(l)))
  <2> DEFINE o == Owed(t, p)
             r == SubSeq(t, p + 1, Len(t))
             w == o \o r
             a == t[p]
             rows == Rows(journal, leaf)
             d == rows[p].id
             u == Context(journal, d)
             n == Len(w)
  <2>1. Mended(rep, base, d, w) BY <1>1, <1>4, <1>6, RepairWrites
  <2>2. Some(w, a) /\ n = a.n /\ w \in Seq(Message) /\ n \in Nat
    <3>1. Some(w, a) /\ n = a.n BY <1>6 DEF Lacks
    <3> HIDE DEF w
    <3>2. w \in Seq(Message) BY <3>1 DEF Some
    <3>3. Len(w) \in Nat BY <3>2
    <3> QED BY <3>1, <3>2, <3>3
  <2>3. a.role = "assistant" /\ p \in DOMAIN t BY DEF Is
  <2>4. n # 0
    <3>1. o \in Seq(Message) /\ r \in Seq(Message) /\ o # <<>> BY <1>4, <1>6, LackingParts, SMTT(30)
    <3> HIDE DEF o, r
    <3> QED BY <3>1
  <2> HIDE DEF w
  <2>5. d \in 1 .. base /\ journal[d].kind = "message" /\ journal[d].msg = a
    <3>1. t = [i \in DOMAIN rows |-> rows[i].msg] BY DEF Context, Messages
    <3> HIDE DEF t
    <3>2. p \in DOMAIN rows /\ a = rows[p].msg BY <2>3, <3>1
    <3>3. Summary(d).role = "summary" BY DEF Summary, Msg
    <3> QED BY <2>3, <3>2, <1>1, RowsHoldEntries, <3>3
  <2>6. u \in Seq(Message) /\ u # <<>> /\ u[Len(u)] = a /\ Neat(u, c, b)
    <3> DEFINE v == Context(journal, journal[d].parent)
    <3>1. v \in Seq(Message) /\ a \in Message /\ u = Append(v, a) BY <2>5, ContextOfMessage
    <3>2. d \in 0 .. base BY <1>1, <2>5
    <3>3. Neat(u, c, b) BY <3>2, TidyContext
    <3> HIDE DEF u, v, a
    <3> QED BY <3>1, <3>3
  <2>7. /\ Len(rep) = n + 1 /\ rep[n + 1] = LeafEntry(base + n)
        /\ \A k \in 1 .. n : rep[k] = MessageEntry(IF k = 1 THEN d ELSE base + k - 1, w[k])
    BY <2>1 DEF Mended
  <2> HIDE DEF a, rows, d, t, base, l, n
  <2> DEFINE at == [k \in 0 .. n |-> IF k = 0 THEN d ELSE base + k]
  <2>8. \A k \in 0 .. n : at[k] = IF k = 0 THEN d ELSE base + k OBVIOUS
  <2> HIDE DEF at
  <2>9. ASSUME NEW k \in 1 .. n
        PROVE  /\ at[k] = base + k /\ base + k \in 1 .. Len(l)
               /\ l[at[k]].kind = "message" /\ l[at[k]].parent = at[k - 1] /\ l[at[k]].msg = w[k]
    <3>1. k - 1 \in 0 .. n /\ k \in 0 .. n /\ k # 0 /\ (k = 1 <=> k - 1 = 0) /\ k \in 1 .. Len(rep)
          /\ base + (k - 1) = base + k - 1 /\ base + k \in 1 .. Len(l)
      <4>1. base \in Nat /\ n \in Nat /\ Len(rep) = n + 1 /\ Len(l) = base + Len(rep) /\ k \in 1 .. n
        BY <1>1, <1>3, <2>2, <2>7
      <4> QED BY ONLY <4>1
    <3>2. at[k] = base + k /\ at[k - 1] = IF k = 1 THEN d ELSE base + k - 1 BY <2>8, <3>1
    <3>3. l[at[k]] = MessageEntry(at[k - 1], w[k]) BY <1>3, <2>7, <3>1, <3>2
    <3> QED BY <3>1, <3>2, <3>3 DEF MessageEntry
  <2>10. at[0] = d /\ d \in 0 .. Len(l)
    <3>1. 0 \in 0 .. n /\ d \in 0 .. Len(l) BY <1>1, <1>3, <2>2, <2>5, <2>7, SMTT(30)
    <3> QED BY <2>8, <3>1
  <2>11. Line(l, at, w) BY <2>9, <2>10 DEF Line, n
  <2>12. Context(l, d) = u
    <3>1. d \in 0 .. Len(journal) BY <1>1, <2>5 DEF base
    <3> QED BY <1>2, <1>3, <3>1, ContextStays DEF l
  <2>13. ASSUME NEW k \in 1 .. n
         PROVE  /\ Neat(Context(l, base + k), c, b)
                /\ k = n => Full(Context(l, base + k))
    <3> DEFINE s == SubSeq(w, 1, k)
    <3>1. k \in 0 .. Len(w) BY <2>2 DEF n
    <3>2. Context(l, at[k]) = Context(l, at[0]) \o s BY <1>3, <2>2, <2>11, <3>1, LineContexts
    <3>3. Some(s, a) /\ Len(s) = k BY <2>2, <3>1, SomeFront
    <3> HIDE DEF s
    <3>4. Neat(u \o s, c, b) /\ (Len(s) = a.n => Full(u \o s)) BY <2>3, <2>6, <3>3, NeatResults
    <3> QED BY <2>2, <2>9, <2>10, <2>12, <3>2, <3>3, <3>4
  <2>14. /\ base + (n + 1) \in 1 .. Len(l) /\ Len(l) = base + (n + 1) /\ n \in 1 .. n
         /\ l[base + (n + 1)] = LeafEntry(base + n)
    <3>1. n + 1 \in 1 .. Len(rep) BY <2>2, <2>7
    <3> QED BY <1>1, <1>3, <2>2, <2>4, <2>7, <3>1, SMTT(30) DEF n
  <2>15. l[base + (n + 1)].kind = "leaf" /\ l[base + (n + 1)].parent = base + n
         /\ l[base + (n + 1)].target = base + n
    BY <2>14 DEF LeafEntry
  <2>16. \A i \in 1 .. Len(rep) : Neat(Context(l, base + i), c, b)
    <3> SUFFICES ASSUME NEW i \in 1 .. Len(rep) PROVE Neat(Context(l, base + i), c, b) OBVIOUS
    <3>1. i \in 1 .. n \/ i = n + 1 BY <2>2, <2>7
    <3> QED BY <2>13, <2>14, <1>3, <2>15, ContextOfLeaf, <3>1
  <2>17. Tidy(l, c, b) BY <1>2, <1>3, <2>16, TidyBoth DEF l, base
  <2>18. LatestLeaf(l) = base + n
    <3>1. Len(l) # 0 BY <1>1, <2>14
    <3> QED BY <1>3, <2>14, <2>15, <3>1, LatestLeafIsLast
  <2> QED BY <2>13, <2>14, <2>17, <2>18
<1> QED BY <1>2, <1>3, <1>4, <1>5, <1>6, WhoLacks
------------------------------------------------------------------------------
(* Compactions keep calls and results together *)

\* No entry is behind two rows.
Distinct(rows) == \A i, k \in 1 .. Len(rows) : rows[i].id = rows[k].id => i = k

\* A compaction brings no entry in a second time.
LEMMA CompactedDistinct ==
  ASSUME NEW rows \in Seq(MessageRow), Distinct(rows), NEW id \in Nat, NEW ids,
         \A i \in 1 .. Len(rows) : rows[i].id # id
  PROVE  Distinct(Compacted(rows, id, ids))
<1> DEFINE n == Len(rows)
           gone == {p \in DOMAIN rows : rows[p].id \in ids}
           row == [id |-> id, msg |-> Summary(id)]
           at(p) == IF p \notin gone THEN <<rows[p]>>
                    ELSE IF \A q \in gone : p <= q THEN <<row>> ELSE <<>>
           ss == [p \in DOMAIN rows |-> at(p)]
<1>1. row \in MessageRow /\ row.id = id /\ n \in Nat /\ DOMAIN rows = 1 .. n
  BY DEF MessageRow, Message, Summary, Msg
<1>2. Compacted(rows, id, ids) = IF gone = {} THEN Append(rows, row) ELSE FlattenSeq(ss)
  BY DEF Compacted
<1> HIDE DEF row
<1>3. CASE gone = {}
  <2> DEFINE s == Append(rows, row)
  <2>1. Len(s) = n + 1 /\ s[n + 1] = row /\ \A i \in 1 .. n : s[i] = rows[i] BY <1>1
  <2> HIDE DEF s, n
  <2>2. ASSUME NEW i \in 1 .. n + 1, NEW k \in 1 .. n + 1, s[i].id = s[k].id PROVE i = k
    <3> QED BY <1>1, <2>1, <2>2 DEF Distinct, n
  <2>3. Distinct(s) BY <2>1, <2>2 DEF Distinct
  <2> QED BY <1>2, <1>3, <2>3 DEF s
<1>4. CASE gone # {}
  <2> DEFINE first == Least(gone)
             other == [p \in DOMAIN rows |-> IF p = first THEN row ELSE rows[p]]
             K == {p \in DOMAIN rows : p \notin gone \/ p = first}
  <2>1. gone \in SUBSET Nat /\ gone \subseteq 1 .. n BY <1>1
  <2>2. first \in gone /\ \A q \in gone : first <= q
    <3> HIDE DEF gone
    <3> QED BY <1>4, <2>1, LeastIs
  <2> HIDE DEF gone, first
  <2>3. other \in Seq(MessageRow) /\ Len(other) = n /\ DOMAIN other = 1 .. n
        /\ \A p \in 1 .. n : other[p] = IF p = first THEN row ELSE rows[p]
    <3>1. \A p \in 1 .. n : rows[p] \in MessageRow BY <1>1
    <3>2. other \in [1 .. n -> MessageRow]
          /\ \A p \in 1 .. n : other[p] = IF p = first THEN row ELSE rows[p]
      BY <1>1, <3>1
    <3> HIDE DEF other, n
    <3> QED BY <1>1, <3>2, SeqDef
  <2>4. ss = Selecting(other, K)
    <3>1. ASSUME NEW p \in 1 .. n PROVE at(p) = IF p \in K THEN <<other[p]>> ELSE <<>>
      <4>1. CASE p \notin gone BY <1>1, <2>2, <2>3, <4>1
      <4>2. CASE p = first BY <1>1, <2>2, <2>3, <4>2
      <4>3. CASE p \in gone /\ p # first
        <5>1. ~ (\A q \in gone : p <= q) BY <2>1, <2>2, <4>3
        <5> QED BY <4>3, <5>1
      <4> QED BY <4>1, <4>2, <4>3
    <3> HIDE DEF at, other, K
    <3> QED BY <1>1, <2>3, <3>1 DEF Selecting
  <2>5. K \in SUBSET DOMAIN other BY <1>1, <2>3
  <2> DEFINE F == FlattenSeq(Selecting(other, K))
  <2> HIDE DEF ss, other, K
  <2>6. PICK pick : Picks(pick, other, K) BY <2>3, <2>5, SelectedAre
  <2>7. pick \in [1 .. Len(F) -> K] /\ \A i \in 1 .. Len(F) : F[i] = other[pick[i]]
    BY <2>6 DEF Picks
  <2>8. ASSUME NEW i \in 1 .. Len(F), NEW k \in 1 .. Len(F), F[i].id = F[k].id PROVE i = k
    <3>1. pick[i] \in 1 .. n /\ pick[k] \in 1 .. n BY <2>3, <2>5, <2>7
    <3>2. other[pick[i]].id = other[pick[k]].id BY <2>7, <2>8
    <3>3. pick[i] = pick[k] BY <1>1, <2>3, <3>1, <3>2, SMTT(30) DEF Distinct
    <3> QED BY ONLY <2>3, <2>5, <2>6, <2>8, <3>3, PicksOnce DEF F
  <2>9. Distinct(F) BY <2>8 DEF Distinct
  <2> QED BY <1>2, <1>4, <2>4, <2>9
<1> QED BY <1>3, <1>4

\* So no entry is twice on a path.
LEMMA RowsAreDistinct ==
  ASSUME NEW j, Stored(j)
  PROVE  \A e \in 0 .. Len(j) : Distinct(Rows(j, e))
<1> DEFINE odd == {e \in 0 .. Len(j) : ~ Distinct(Rows(j, e))}
<1> SUFFICES ASSUME odd # {} PROVE FALSE OBVIOUS
<1>1. Len(j) \in Nat /\ odd \in SUBSET Nat BY DEF Stored
<1>2. PICK e \in odd : \A d \in odd : e <= d
  <2> HIDE DEF odd
  <2> QED BY <1>1, LeastNumber
<1>3. CASE e = 0
  <2>1. Rows(j, e) = <<>> BY <1>3, RowsOfNone
  <2>2. Distinct(<<>>) BY DEF Distinct
  <2> QED BY <1>2, <2>1, <2>2
<1>4. CASE e # 0
  <2> DEFINE p == j[e].parent
             before == Rows(j, p)
  <2>1. e \in 1 .. Len(j) /\ e \in Nat BY <1>1, <1>2, <1>4
  <2>2. p \in 0 .. Len(j) /\ p \in Nat /\ p < e /\ j[e] \in Entry BY <2>1, StoredBefore
  <2>3. Distinct(before)
    <3>1. ~ (e <= p) BY <2>1, <2>2
    <3> QED BY <1>2, <2>2, <3>1
  <2>4. before \in Seq(MessageRow) /\ DOMAIN before = 1 .. Len(before) /\ Len(before) \in Nat
    <3>1. before \in Seq(MessageRow) BY <2>2, RowsType
    <3> QED BY <3>1
  <2>5. \A i \in 1 .. Len(before) : before[i].id # e
    <3>1. \A i \in 1 .. Len(before) : before[i].id \in 1 .. p BY <2>2, <2>4, RowsComeFromPath
    <3> HIDE DEF before, p
    <3> QED BY <2>1, <2>2, <3>1
  <2>6. Rows(j, e) = RowsWith(j, e, before) BY <2>1, RowsStep
  <2> HIDE DEF p, before
  <2>7. CASE j[e].kind = "message"
    <3> DEFINE row == [id |-> e, msg |-> j[e].msg]
               s == Append(before, row)
               n == Len(before)
    <3>1. Rows(j, e) = s BY <2>6, <2>7 DEF RowsWith
    <3>2. row.id = e OBVIOUS
    <3> HIDE DEF row
    <3>3. Len(s) = n + 1 /\ s[n + 1] = row /\ \A i \in 1 .. n : s[i] = before[i] BY <2>4
    <3> HIDE DEF s, n
    <3>4. ASSUME NEW i \in 1 .. n + 1, NEW k \in 1 .. n + 1, s[i].id = s[k].id PROVE i = k
      <4> QED BY <2>3, <2>5, <3>2, <3>3, <3>4, <2>4, SMTT(30) DEF Distinct, n
    <3>5. Distinct(s) BY <3>3, <3>4 DEF Distinct
    <3> QED BY <1>2, <3>1, <3>5
  <2>8. CASE j[e].kind = "compaction"
    <3>1. Rows(j, e) = Compacted(before, e, j[e].replaces) BY <2>6, <2>8 DEF RowsWith
    <3>2. Distinct(Compacted(before, e, j[e].replaces)) BY <2>1, <2>3, <2>4, <2>5, CompactedDistinct
    <3> QED BY <1>2, <3>1, <3>2
  <2>9. CASE j[e].kind \notin {"message", "compaction"}
    <3>1. Rows(j, e) = before BY <2>6, <2>9 DEF RowsWith
    <3> QED BY <1>2, <2>3, <3>1
  <2> QED BY <2>7, <2>8, <2>9
<1> QED BY <1>3, <1>4

\* What is replaced is the beginning, and what is kept begins with no result.
GoodCut(rows, ids) ==
  \E n \in 1 .. Len(rows) : /\ ids = Prefix(rows, n)
                            /\ n < Len(rows) => rows[n + 1].msg.role # "result"

\* What _recent_preserving_compaction_plan and _manual_compaction_plan choose.
LEMMA PlanIsGood ==
  ASSUME NEW rows \in Seq(MessageRow), NEW ids \in RecentPreserving(rows) \cup Whole(rows)
  PROVE  GoodCut(rows, ids)
<1> DEFINE m == Len(rows)
<1>1. m \in Nat /\ DOMAIN rows = 1 .. m OBVIOUS
<1>2. CASE ids \in Whole(rows)
  <2>1. ids = Prefix(rows, m) /\ ids # {} BY <1>2 DEF Whole
  <2>2. m # 0 BY <2>1 DEF Prefix
  <2>3. m \in 1 .. m /\ ~ (m < m) BY <1>1, <2>2
  <2> QED BY <2>1, <2>3 DEF GoodCut
<1>3. CASE ids \in RecentPreserving(rows)
  <2>1. PICK c \in DOMAIN rows : ids = Prefix(rows, FirstKept(rows, c) - 1) /\ ids # {}
    BY <1>3 DEF RecentPreserving
  <2> DEFINE k == FirstKept(rows, c)
             U == UserFrom(rows, c + 1)
             R == {p \in c .. Len(rows) : rows[p].msg.role # "result"} \cup {Len(rows) + 1}
  <2>2. k \in 1 .. m + 1 BY FirstKeptIsThere
  <2>3. k # 1
    <3> SUFFICES ASSUME k = 1 PROVE FALSE OBVIOUS
    <3>1. k - 1 = 0 BY <2>2
    <3>2. ids = Prefix(rows, 0) BY <2>1, <3>1
    <3> QED BY <2>1, <3>2 DEF Prefix
  <2>4. U \in SUBSET Nat /\ R \in SUBSET Nat /\ R # {} BY <1>1 DEF UserFrom
  <2>5. Least(R) \in R
    <3> HIDE DEF R
    <3> QED BY <2>4, LeastIs
  <2>6. U # {} => Least(U) \in U
    <3> HIDE DEF U
    <3> QED BY <2>4, LeastIs
  <2>7. \A p : IsUser(rows[p].msg) => rows[p].msg.role # "result" BY DEF IsUser
  <2>8. k < m + 1 => rows[k].msg.role # "result"
    <3>1. \/ k = c /\ IsUser(rows[c].msg)
          \/ U # {} /\ k = Least(U)
          \/ k = Least(R)
      BY <2>3 DEF FirstKept
    <3> HIDE DEF k
    <3>2. CASE k = c /\ IsUser(rows[c].msg) BY <2>7, <3>2
    <3>3. CASE U # {} /\ k = Least(U)
      <4>1. IsUser(rows[k].msg) BY <2>6, <3>3, SMTT(30) DEF UserFrom
      <4> QED BY <2>7, <4>1
    <3>4. CASE k = Least(R) BY <1>1, <2>5, <3>4
    <3> QED BY <3>1, <3>2, <3>3, <3>4
  <2> HIDE DEF k
  <2>9. ids = Prefix(rows, k - 1) BY <2>1 DEF k
  <2> QED BY <2>8, <1>1, <2>2, <2>3, <2>9 DEF GoodCut
<1> QED BY <1>2, <1>3
\* A compaction of the beginning leaves its summary and the rest.
LEMMA CompactedIsRest ==
  ASSUME NEW rows \in Seq(MessageRow), Distinct(rows), NEW id \in Nat, NEW n \in 1 .. Len(rows),
         NEW row, row = [id |-> id, msg |-> Summary(id)]
  PROVE  /\ row \in MessageRow
         /\ Compacted(rows, id, Prefix(rows, n)) = <<row>> \o SubSeq(rows, n + 1, Len(rows))
<1> DEFINE m == Len(rows)
           ids == Prefix(rows, n)
           gone == {p \in DOMAIN rows : rows[p].id \in ids}
           at(p) == IF p \notin gone THEN <<rows[p]>>
                    ELSE IF \A q \in gone : p <= q THEN <<row>> ELSE <<>>
           ss == [p \in DOMAIN rows |-> at(p)]
           r(k) == SubSeq(rows, n + 1, k)
           g == [k \in 0 .. m |-> IF k = 0 THEN <<>> ELSE IF k <= n THEN <<row>> ELSE <<row>> \o r(k)]
<1>1. row \in MessageRow /\ m \in Nat /\ DOMAIN rows = 1 .. m /\ n \in 1 .. m /\ n \in Nat
  BY DEF MessageRow, Message, Summary, Msg
<1>2. Compacted(rows, id, ids) = IF gone = {} THEN Append(rows, row) ELSE FlattenSeq(ss)
  BY DEF Compacted
<1>3. gone = 1 .. n
  <2>1. ASSUME NEW p \in gone PROVE p \in 1 .. n
    <3>1. p \in 1 .. m /\ \E q \in 1 .. n : rows[p].id = rows[q].id BY <1>1 DEF Prefix
    <3>2. PICK q \in 1 .. n : rows[p].id = rows[q].id BY <3>1
    <3>3. q \in 1 .. m BY <1>1
    <3>4. p = q BY <3>1, <3>2, <3>3 DEF Distinct
    <3> QED BY <3>4
  <2>2. ASSUME NEW p \in 1 .. n PROVE p \in gone BY <1>1 DEF Prefix
  <2> HIDE DEF gone
  <2> QED BY <2>1, <2>2
<1> HIDE DEF gone, ids
<1>4. gone # {}
  <2>1. 1 \in 1 .. n BY <1>1
  <2> QED BY <1>3, <2>1
<1>5. ASSUME NEW p \in 1 .. m
      PROVE  /\ p = 1 => at(p) = <<row>>
             /\ p # 1 /\ p <= n => at(p) = <<>>
             /\ ~ (p <= n) => at(p) = <<rows[p]>>
  <2>1. CASE p = 1 BY <1>1, <1>3, <2>1
  <2>2. CASE p # 1 /\ p <= n
    <3> QED BY <1>1, <2>2, <1>3
  <2>3. CASE ~ (p <= n) BY <1>1, <1>3, <2>3
  <2> QED BY <2>1, <2>2, <2>3
<1>6. \A p \in 1 .. m : rows[p] \in MessageRow /\ <<rows[p]>> \in Seq(MessageRow) BY <1>1
<1>7. ss \in Seq(Seq(MessageRow)) /\ Len(ss) = m /\ \A p \in 1 .. m : ss[p] = at(p)
  <2>1. \A p \in 1 .. m : at(p) \in Seq(MessageRow)
    <3> SUFFICES ASSUME NEW p \in 1 .. m PROVE at(p) \in Seq(MessageRow) OBVIOUS
    <3> QED BY <1>6, <1>1
  <2> HIDE DEF at
  <2>2. ss \in [1 .. m -> Seq(MessageRow)] /\ \A p \in 1 .. m : ss[p] = at(p) BY <1>1, <2>1
  <2> HIDE DEF ss
  <2> QED BY <1>1, <2>2, SeqDef
<1> HIDE DEF at, ss
<1>8. \A k \in 0 .. m : /\ k = 0 => g[k] = <<>>
                        /\ k # 0 /\ k <= n => g[k] = <<row>>
                        /\ ~ (k <= n) => g[k] = <<row>> \o r(k)
  BY <1>1
<1> HIDE DEF g
<1> DEFINE x == <<row>>
<1>9. x \in Seq(MessageRow) BY <1>1
<1>10. ASSUME NEW k \in 0 .. m - 1 PROVE g[k + 1] = g[k] \o ss[k + 1]
  <2>1. k \in 0 .. m /\ k + 1 \in 0 .. m /\ k + 1 \in 1 .. m /\ k + 1 # 0 /\ k \in Nat BY <1>1
  <2> HIDE DEF x
  <2>2. x \o <<>> = x /\ <<>> \o x = x BY <1>9
  <2>3. CASE k = 0
    <3>1. g[k] = <<>> /\ g[k + 1] = x /\ ss[k + 1] = x BY <1>1, <1>5, <1>7, <1>8, <2>1, <2>3 DEF x
    <3> QED BY <2>2, <3>1
  <2>4. CASE k # 0 /\ k + 1 <= n
    <3>1. g[k] = x /\ g[k + 1] = x /\ ss[k + 1] = <<>> BY <1>1, <1>5, <1>7, <1>8, <2>1, <2>4, SMTT(30) DEF x
    <3> QED BY <2>2, <3>1
  <2>5. CASE ~ (k + 1 <= n)
    <3> DEFINE y == <<rows[k + 1]>>
    <3>1. g[k + 1] = x \o r(k + 1) /\ ss[k + 1] = y /\ y \in Seq(MessageRow)
      BY <1>1, <1>5, <1>6, <1>7, <1>8, <2>1, <2>5 DEF x
    <3>2. r(k + 1) = r(k) \o y /\ r(k) \in Seq(MessageRow)
      <4>1. n + 1 \in 1 .. m /\ k + 1 \in n + 1 .. m /\ (k + 1) - 1 = k BY <1>1, <2>1, <2>5
      <4>2. SubSeq(rows, n + 1, k) \in Seq(MessageRow) BY <1>1, <2>1, <4>1
      <4> QED BY <4>1, SubSeqRecursiveSecond, <4>2
    <3>3. g[k] = x \o r(k)
      <4>1. CASE k <= n
        <5>1. k < n + 1 /\ k # 0 /\ n + 1 \in Int /\ k \in Int BY <1>1, <2>1, <2>5, <4>1
        <5>2. r(k) = <<>> BY <5>1, SubSeqEmpty
        <5>3. g[k] = x BY <1>8, <2>1, <4>1, <5>1 DEF x
        <5> QED BY <2>2, <5>2, <5>3
      <4>2. CASE ~ (k <= n) BY <1>8, <2>1, <4>2 DEF x
      <4> QED BY <4>1, <4>2
    <3> HIDE DEF y, r
    <3>4. (x \o r(k)) \o y = x \o (r(k) \o y)
      <4>1. \A u, v, w \in Seq(MessageRow) : (u \o v) \o w = u \o (v \o w)
        BY ONLY ConcatAssociative, SMTT(60)
      <4> QED BY <1>9, <3>1, <3>2, <4>1, ZenonT(30)
    <3> QED BY <3>1, <3>2, <3>3, <3>4
  <2> QED BY <2>3, <2>4, <2>5
<1>11. FlattenSeq(ss) = g[m]
  <2>1. g[0] = <<>> BY <1>1, <1>8
  <2> QED BY <1>7, <1>10, <2>1, FlattenIs
<1>12. g[m] = x \o r(m)
  <2>1. CASE m = n
    <3>1. m < n + 1 /\ m # 0 /\ m <= n /\ m \in 0 .. m /\ n + 1 \in Int /\ m \in Int BY <1>1, <2>1
    <3>2. r(m) = <<>> BY <3>1, SubSeqEmpty
    <3>3. g[m] = x BY <1>8, <3>1 DEF x
    <3> HIDE DEF x
    <3>4. x \o <<>> = x BY <1>9
    <3> QED BY <3>2, <3>3, <3>4
  <2>2. CASE m # n
    <3>1. ~ (m <= n) /\ m \in 0 .. m
      <4>1. m \in Nat /\ n \in 1 .. m BY <1>1
      <4> HIDE DEF m
      <4> QED BY <2>2, <4>1
    <3> QED BY <1>8, <3>1 DEF x
  <2> QED BY <2>1, <2>2
<1> QED BY <1>1, <1>2, <1>4, <1>11, <1>12 DEF ids

\* So does the context of its entry.
LEMMA CompactionIsNeat ==
  ASSUME NEW l, Stored(l), NEW e \in 1 .. Len(l), l[e].kind = "compaction",
         GoodCut(Rows(l, l[e].parent), l[e].replaces), NEW c \in Nat, NEW b \in Nat,
         Neat(Context(l, l[e].parent), c, b)
  PROVE  Neat(Context(l, e), c, b)
<1> DEFINE p == l[e].parent
           rows == Rows(l, p)
           t == Context(l, p)
           row == [id |-> e, msg |-> Summary(e)]
<1>1. p \in 0 .. Len(l) /\ e \in Nat BY StoredBefore
<1>2. rows \in Seq(MessageRow) /\ Distinct(rows) /\ t \in Seq(Message)
  BY <1>1, RowsType, RowsAreDistinct, ContextType
<1>3. PICK n \in 1 .. Len(rows) : /\ l[e].replaces = Prefix(rows, n)
                                  /\ n < Len(rows) => rows[n + 1].msg.role # "result"
  BY DEF GoodCut
<1>4. Rows(l, e) = Compacted(rows, e, l[e].replaces)
  <2>1. Rows(l, e) = RowsWith(l, e, rows) BY RowsStep
  <2> QED BY <2>1 DEF RowsWith
<1>5. t = [i \in DOMAIN rows |-> rows[i].msg] BY DEF Context, Messages
<1> DEFINE m == Summary(e)
<1>6. m \in Message /\ m.role = "summary" /\ row.msg = m BY <1>1 DEF Summary, Msg, Message
<1> HIDE DEF rows, t, p, m
<1> DEFINE r == SubSeq(rows, n + 1, Len(rows))
           s == SubSeq(t, n + 1, Len(t))
           all == <<row>> \o r
<1>7. row \in MessageRow /\ Rows(l, e) = all BY <1>1, <1>2, <1>3, <1>4, CompactedIsRest, SMTT(30)
<1> HIDE DEF row
<1>8. Len(rows) \in Nat /\ DOMAIN rows = 1 .. Len(rows) /\ Len(t) = Len(rows)
      /\ \A i \in 1 .. Len(rows) : t[i] = rows[i].msg
  BY <1>2, <1>5
<1> DEFINE k == Len(rows) - n
<1>9. k \in Nat /\ n + 1 \in 1 .. Len(rows) + 1 /\ n \in Nat
      /\ \A i \in 1 .. k : (n + 1) + i - 1 = n + i /\ n + i \in 1 .. Len(rows)
  BY <1>8
<1>10. r \in Seq(MessageRow) /\ Len(r) = k /\ \A i \in 1 .. k : r[i] = rows[n + i]
  <2>1. r \in Seq(MessageRow) /\ Len(r) = IF n + 1 <= Len(rows) THEN Len(rows) - (n + 1) + 1 ELSE 0
    BY <1>2, <1>8, <1>9
  <2>2. \A i \in 1 .. Len(r) : r[i] = rows[(n + 1) + i - 1] BY <1>2, <1>8, <1>9
  <2> HIDE DEF r
  <2>3. Len(r) = k BY <1>8, <1>9, <2>1
  <2> HIDE DEF k
  <2> QED BY <1>9, <2>1, <2>2, <2>3
<1>11. s \in Seq(Message) /\ Len(s) = k /\ \A i \in 1 .. k : s[i] = t[n + i]
  <2>1. s \in Seq(Message) /\ Len(s) = IF n + 1 <= Len(t) THEN Len(t) - (n + 1) + 1 ELSE 0
    BY <1>2, <1>8, <1>9
  <2>2. \A i \in 1 .. Len(s) : s[i] = t[(n + 1) + i - 1] BY <1>2, <1>8, <1>9
  <2> HIDE DEF s
  <2>3. Len(s) = k BY <1>8, <1>9, <2>1
  <2> HIDE DEF k
  <2> QED BY <1>9, <2>1, <2>2, <2>3
<1> HIDE DEF r, s, k
<1>12. /\ all \in Seq(MessageRow) /\ Len(all) = k + 1 /\ all[1] = row
       /\ \A i \in 1 .. k : all[1 + i] = r[i]
  <2>1. <<row>> \in Seq(MessageRow) /\ Len(<<row>>) = 1 /\ <<row>>[1] = row BY <1>7
  <2> DEFINE x == <<row>>
  <2> HIDE DEF x
  <2> QED BY <1>9, <1>10, <2>1 DEF x
<1>13. /\ <<m>> \o s \in Seq(Message) /\ Len(<<m>> \o s) = k + 1 /\ (<<m>> \o s)[1] = m
       /\ \A i \in 1 .. k : (<<m>> \o s)[1 + i] = s[i]
  <2>1. <<m>> \in Seq(Message) /\ Len(<<m>>) = 1 /\ <<m>>[1] = m BY <1>6
  <2> DEFINE x == <<m>>
  <2> HIDE DEF x
  <2> QED BY <1>9, <1>11, <2>1 DEF x
<1> DEFINE out == [i \in DOMAIN all |-> all[i].msg]
           new == <<m>> \o s
<1>14. Context(l, e) = out BY <1>7 DEF Context, Messages
<1> HIDE DEF all, new
<1>15. out = new
  <2>1. DOMAIN out = 1 .. k + 1 /\ DOMAIN new = 1 .. k + 1 BY <1>9, <1>12, <1>13 DEF new
  <2>2. ASSUME NEW i \in 1 .. k + 1 PROVE all[i].msg = new[i]
    <3>1. CASE i = 1 BY <1>6, <1>12, <1>13, <3>1 DEF new
    <3>2. CASE i # 1
      <4>1. i - 1 \in 1 .. k /\ 1 + (i - 1) = i BY <1>9, <3>2
      <4>2. all[i] = rows[n + (i - 1)] /\ new[i] = t[n + (i - 1)] /\ n + (i - 1) \in 1 .. Len(rows)
        BY <1>9, <1>10, <1>11, <1>12, <1>13, <4>1, ZenonT(30) DEF new
      <4> QED BY <1>8, <4>2
    <3> QED BY <3>1, <3>2
  <2>3. \A i \in 1 .. k + 1 : out[i] = new[i] BY <1>9, <1>12, <2>2
  <2>4. out \in Seq(Message) /\ new \in Seq(Message) /\ Len(out) = k + 1 /\ Len(new) = k + 1
    <3>1. new \in Seq(Message) /\ Len(new) = k + 1 BY <1>13 DEF new
    <3>2. \A i \in 1 .. k + 1 : new[i] \in Message BY <2>1, <3>1
    <3>3. out \in [1 .. k + 1 -> Message] BY <1>9, <1>12, <2>2, <3>2, SMTT(30)
    <3> HIDE DEF out
    <3>4. k + 1 \in Nat BY <1>9
    <3> QED BY <3>1, <3>3, <3>4, SeqDef, SMTT(30)
  <2> HIDE DEF out
  <2> QED BY <2>3, <2>4, SeqEqual
<1>16. Neat(new, c, b)
  <2>1. n \in 0 .. Len(t) /\ (n < Len(t) => t[n + 1].role # "result")
    <3>1. n < Len(rows) => n + 1 \in 1 .. Len(rows) BY <1>8
    <3> QED BY <1>3, <1>8, <1>9, <3>1
  <2>2. Neat(t, c, b) BY DEF t, p
  <2>3. m.role \notin {"assistant", "result"} BY <1>6
  <2> QED BY <1>2, <1>6, <2>1, <2>2, <2>3, NeatRest DEF new, s
<1> QED BY <1>14, <1>15, <1>16
------------------------------------------------------------------------------
(* What the provider is given *)

\* A list that is neat and lacks nothing is what Closed asks for: the results are as many as the
\* calls, each at a place of its own behind its reply.
LEMMA NeatIsClosed ==
  ASSUME NEW t \in Seq(Message), NEW b, scene.calls \in Nat, Neat(t, scene.calls, b), Full(t)
  PROVE  Closed(t)
<1> DEFINE c == scene.calls
           A == Is(t, "assistant")
           R == Is(t, "result")
           C == {x \in A \X (1 .. c) : x[2] <= t[x[1]].n}
           f == [x \in C |-> x[1] + x[2]]
<1>1. Len(t) \in Nat /\ DOMAIN t = 1 .. Len(t) /\ c \in Nat /\ A \subseteq 1 .. Len(t)
      /\ \A p \in A : t[p].n \in Nat /\ t[p].n <= c /\ t[p] \in Message /\ t[p].role = "assistant"
  <2>1. \A p \in DOMAIN t : t[p] \in Message OBVIOUS
  <2> QED BY <2>1, MessageIs DEF Is, Neat
<1>2. ASSUME NEW p \in A PROVE ToSet(SubSeq(t, p + 1, p + t[p].n)) = ToSet(ResultsFor(t[p]))
  <2> DEFINE n == t[p].n
             s == SubSeq(t, p + 1, p + n)
  <2>1. p \in 1 .. Len(t) /\ n \in Nat /\ p + n <= Len(t) /\ t[p] \in Message BY <1>1 DEF Full
  <2>2. p + n \in p .. Len(t) /\ p + n <= p + t[p].n /\ (p + n) - p = n BY <1>1, <2>1
  <2>3. Some(s, t[p]) /\ Len(s) = n
    <3> QED BY <2>2, BehindIs
  <2> HIDE DEF s
  <2>4. \A m \in Answers(t[p]) : \E i \in 1 .. Len(s) : s[i] = m BY <2>1, <2>3, SomeSize
  <2>5. s \in Seq(Message) /\ \A i \in 1 .. Len(s) : s[i] \in Answers(t[p]) BY <2>3 DEF Some
  <2>6. DOMAIN s = 1 .. Len(s) BY <2>5
  <2>7. ToSet(s) = Answers(t[p]) BY <2>4, <2>5, <2>6 DEF ToSet
  <2>8. ToSet(ResultsFor(t[p])) = Answers(t[p]) BY DEF ToSet, ResultsFor, Answers
  <2> QED BY <2>7, <2>8 DEF s
<1>3. \A p \in A, q \in DOMAIN t : Follows(t, p, q) => t[q].role = "result"
  <2> SUFFICES ASSUME NEW p \in A, NEW q \in DOMAIN t, Follows(t, p, q) PROVE t[q].role = "result"
    OBVIOUS
  <2>1. t[q] \in Answers(t[p]) BY DEF Neat
  <2> QED BY <1>1, <2>1, AnswerIs
<1>4. ASSUME NEW x \in C
      PROVE  /\ x[1] \in A /\ x[2] \in 1 .. t[x[1]].n /\ x = <<x[1], x[2]>>
             /\ x[1] + x[2] \in R /\ Follows(t, x[1], x[1] + x[2])
  <2>1. x[1] \in A /\ x[2] \in 1 .. c /\ x[2] <= t[x[1]].n /\ x = <<x[1], x[2]>> OBVIOUS
  <2>2. x[1] + t[x[1]].n <= Len(t) BY <2>1 DEF Full
  <2> QED BY <1>3, <2>1, <1>1, <2>2 DEF Is, Follows
<1>5. ASSUME NEW x \in C, NEW y \in C, x[1] + x[2] = y[1] + y[2], x[1] < y[1] PROVE FALSE
  <2>1. /\ x[1] \in A /\ x[2] \in 1 .. t[x[1]].n /\ y[1] \in A /\ y[2] \in 1 .. t[y[1]].n
        /\ x[1] \in 1 .. Len(t) /\ y[1] \in 1 .. Len(t) /\ t[x[1]].n \in Nat /\ t[y[1]].n \in Nat
    BY <1>1, <1>4
  <2> QED BY <1>1, <1>3, <2>1, <1>5, SMTT(30) DEF Follows
<1>6. ASSUME NEW x \in C, NEW y \in C, x[1] + x[2] = y[1] + y[2] PROVE x = y
  <2>1. ~ (x[1] < y[1]) /\ ~ (y[1] < x[1]) BY <1>5, <1>6
  <2>2. x[1] = y[1] /\ x[2] = y[2] BY <1>6, <1>1, <1>4, <2>1
  <2> QED BY <1>4, <2>2
<1>7. ASSUME NEW q \in R PROVE \E x \in C : x[1] + x[2] = q
  <2>1. PICK p \in A : Follows(t, p, q) BY DEF Neat
  <2>2. q \in 1 .. Len(t) BY <1>1 DEF Is
  <2>3. q - p \in 1 .. t[p].n /\ q - p \in 1 .. c /\ p + (q - p) = q BY <1>1, <2>1, <2>2 DEF Follows
  <2>4. <<p, q - p>> \in C BY <1>1, <2>3
  <2> QED BY <2>3, <2>4
<1>8. f \in [C -> R] /\ \A x \in C : f[x] = x[1] + x[2] BY <1>4
<1>9. IsFiniteSet(R)
  <2>1. R \in SUBSET (1 .. Len(t)) BY <1>1 DEF Is
  <2>2. IsFiniteSet(1 .. Len(t)) BY <1>1, FS_Interval
  <2> QED BY <2>1, <2>2, FS_Subset
<1>10. f \in Injection(C, R) /\ f \in Surjection(C, R)
  <2> HIDE DEF C, R, f
  <2> QED BY <1>6, <1>7, <1>8 DEF Injection, IsInjective, Surjection
<1>11. Cardinality(C) = Cardinality(R)
  <2> HIDE DEF C, R, f
  <2> QED BY <1>9, <1>10, FS_Injection
<1> QED BY <1>2, <1>11 DEF Closed

\* The bound of the ids may grow.
LEMMA NeatLater ==
  ASSUME NEW t \in Seq(Message), NEW c, NEW b \in Nat, Neat(t, c, b), NEW d \in Nat, b <= d
  PROVE  Neat(t, c, d)
<1>1. \A p \in Is(t, "assistant") : t[p].id <= d
  <2> SUFFICES ASSUME NEW p \in Is(t, "assistant") PROVE t[p].id <= d OBVIOUS
  <2>1. p \in DOMAIN t BY DEF Is
  <2>2. t[p].id \in Nat BY <2>1, MessageIs
  <2>3. t[p].id <= b BY DEF Neat
  <2> QED BY <2>2, <2>3
<1> QED BY <1>1 DEF Neat

\* The same of a journal.
LEMMA TidyLater ==
  ASSUME NEW j, Stored(j), NEW c, NEW b \in Nat, Tidy(j, c, b), NEW d \in Nat, b <= d
  PROVE  Tidy(j, c, d)
<1> SUFFICES ASSUME NEW e \in 0 .. Len(j) PROVE Neat(Context(j, e), c, d) BY DEF Tidy
<1>1. Context(j, e) \in Seq(Message) BY ContextType
<1>2. Neat(Context(j, e), c, b) BY TidyContext
<1> QED BY <1>1, <1>2, NeatLater

\* A write completes the branch to the transcript.
LEMMA EndedTidies ==
  ASSUME JournalType, NEW t \in Seq(Message), Ended(t), persisted <= Len(t),
         Context(journal, head) = SubSeq(t, 1, persisted),
         NEW c \in Nat, NEW b \in Nat, Tidy(journal, c, b), Neat(t, c, b)
  PROVE  /\ Tidy(journal', c, b) /\ Context(journal', head') = t
         /\ persisted' = Len(t) /\ SubSeq(t, 1, persisted') = t
<1> DEFINE new == Unsaved(t, persisted)
           here == Context(journal, head)
<1>1. persisted \in Nat /\ persisted \in 0 .. Len(t) /\ Stored(journal) /\ head \in 0 .. Len(journal)
  BY DEF JournalType
<1>2. new \in Seq(Message) /\ here \in Seq(Message) BY <1>1, UnsavedType, ContextType
<1>3. here \o new = t
  <2>1. 1 \in 1 .. Len(t) + 1 /\ persisted \in 1 - 1 .. Len(t) /\ Len(t) \in persisted .. Len(t)
    BY <1>1
  <2>2. SubSeq(t, 1, persisted) \o SubSeq(t, persisted + 1, Len(t)) = SubSeq(t, 1, Len(t))
    BY <2>1, ConcatAdjacentSubSeq
  <2>3. SubSeq(t, 1, Len(t)) = t OBVIOUS
  <2> QED BY <2>2, <2>3 DEF Unsaved
<1>4. /\ Context(journal', head') = here \o new
      /\ persisted' = persisted + Len(new)
  BY EndedWrites
<1>5. WrittenOut(journal', head', journal, head, new) BY DEF Ended, Persist, WrittenOut
<1>6. Len(new) = Len(t) - persisted BY <1>1 DEF Unsaved
<1> HIDE DEF new, here
<1>7. Neat(here \o new, c, b) BY <1>3
<1>8. Tidy(journal', c, b) BY <1>1, <1>2, <1>5, <1>7, TidyChain DEF here
<1>9. persisted' = Len(t) BY <1>1, <1>4, <1>6
<1>10. SubSeq(t, 1, Len(t)) = t OBVIOUS
<1> QED BY <1>3, <1>4, <1>8, <1>9, <1>10

\* A run starts on a repaired transcript.
LEMMA LaunchTidies ==
  ASSUME NEW t \in Seq(Message), NEW c \in Nat, NEW b \in Nat, Neat(t, c, b),
         NEW new, new = <<>> \/ \E m \in Message : m.role = "user" /\ new = <<m>>,
         Launch(t, new)
  PROVE  /\ Neat(memory', c, b) /\ Full(memory')
         /\ persisted' <= Len(memory') /\ SubSeq(memory', 1, persisted') = t
<1> DEFINE u == Repaired(t)
<1>1. /\ u \in Seq(Message) /\ Neat(u, c, b) /\ Full(u)
      /\ Len(t) <= Len(u) /\ SubSeq(u, 1, Len(t)) = t
  BY RepairEnds
<1>2. memory' = u \o new /\ persisted' = Len(t) BY DEF Launch
<1> HIDE DEF u
<1>3. CASE new = <<>>
  <2>1. u \o new = u BY <1>1, <1>3
  <2> QED BY <1>1, <1>2, <2>1
<1>4. CASE \E m \in Message : m.role = "user" /\ new = <<m>>
  <2>1. PICK m \in Message : m.role = "user" /\ new = <<m>> BY <1>4
  <2> DEFINE v == Append(u, m)
  <2>2. u \o new = v BY <1>1, <2>1, AppendIsConcat
  <2>3. Neat(v, c, b) /\ Full(v) BY <1>1, <2>1, NeatUser
  <2>4. Len(v) = Len(u) + 1 /\ Len(t) \in Nat /\ Len(u) \in Nat BY <1>1
  <2>5. SubSeq(v, 1, Len(t)) = SubSeq(u, 1, Len(t))
    <3>1. Len(t) \in 0 .. Len(u) BY <1>1, <2>4
    <3> QED BY <1>1, <2>1, <3>1, FrontOfMore
  <2> HIDE DEF v
  <2> QED BY <1>1, <1>2, <2>2, <2>3, <2>4, <2>5, SMTT(30)
<1> QED BY <1>3, <1>4
------------------------------------------------------------------------------
(* The invariant of a calm session *)

\* The first k results of a.
First(a, k) == [i \in 1 .. k |-> Msg("result", a.id, i)]

\* The harness has its own list, and neither it nor any branch is out of order.
InOrder ==
  /\ ~ detached
  /\ Tidy(journal, scene.calls, made)
  /\ pc # "answered" => Neat(memory, scene.calls, made)

\* Whatever a provider may be called with next has all its results.
Complete == pc \in {"open", "provider"} \/ (pc = "ending" /\ reply.n = 0) => Full(memory)

\* A reply that is shown is the newest message, and its transcript lacks nothing.
Replied ==
  pc = "answered" =>
    /\ reply.role = "assistant" /\ reply.id = made /\ reply.n <= scene.calls /\ done = 0
    /\ made - 1 \in Nat /\ Neat(memory, scene.calls, made - 1) /\ Full(memory)

\* While calls are executed the transcript ends with the reply and the results that are there.
Executing ==
  pc \in {"tools", "shown"} =>
    /\ done < reply.n
    /\ \E u \in Seq(Message) : /\ u # <<>> /\ u[Len(u)] = reply /\ reply.role = "assistant"
                               /\ Neat(u, scene.calls, made)
                               /\ memory = u \o First(reply, done)

\* The branch on disk is the transcript, or in a run the part that counts as persisted.
OnDisk ==
  /\ pc = "idle" => memory = Context(journal, head)
  /\ pc \notin {"idle", "down"} =>
       persisted <= Len(memory) /\ Context(journal, head) = SubSeq(memory, 1, persisted)

\* At most one compaction is awaited, and nothing else happens then.
OneCompaction ==
  /\ settling = <<>> \/ Len(settling) = 1
  /\ settling # <<>> => /\ pc = "idle" /\ overflow # "seen"
                        /\ GoodCut(Rows(journal, head), settling[1].replaces)

Orderly == InOrder /\ Complete /\ Replied /\ Executing /\ OnDisk /\ OneCompaction

\* The number of calls of a scene.
LEMMA CallsType ==
  JournalType => scene.calls \in Nat
BY JournalScenes DEF JournalType

\* A run that starts.
LEMMA LaunchIsOrderly ==
  ASSUME JournalType, UNCHANGED scene, NEW t \in Seq(Message), NEW new,
         new = <<>> \/ \E m \in Message : m.role = "user" /\ new = <<m>>, Launch(t, new),
         Neat(t, scene.calls, made), made' \in Nat, made <= made', ~ detached',
         Stored(journal'), Tidy(journal', scene.calls, made), Context(journal', head') = t,
         settling' = <<>>
  PROVE  Orderly'
<1>1. new \in Seq(Message)
  <2>1. \A m \in Message : <<m>> \in Seq(Message) OBVIOUS
  <2>2. <<>> \in Seq(Message) OBVIOUS
  <2> QED BY <2>1, <2>2
<1>2. made \in Nat /\ scene.calls \in Nat /\ new \in Seq(Message) BY <1>1, CallsType DEF JournalType
<1>3. /\ Neat(memory', scene.calls, made) /\ Full(memory')
      /\ persisted' <= Len(memory') /\ SubSeq(memory', 1, persisted') = t
  BY <1>2, LaunchTidies
<1>4. memory' \in Seq(Message) BY <1>2, LaunchStarts
<1>5. pc' = "open" BY DEF Launch
<1>6. InOrder' BY <1>2, <1>3, <1>4, NeatLater, TidyLater DEF InOrder
<1>7. Complete' /\ Replied' /\ Executing' BY <1>3, <1>5 DEF Complete, Replied, Executing
<1>8. OnDisk' /\ OneCompaction' BY <1>3, <1>5 DEF OnDisk, OneCompaction
<1> QED BY <1>6, <1>7, <1>8 DEF Orderly

\* In a calm session prompts are taken when it has settled.
LEMMA CalmIsSettled ==
  ASSUME Calm, Accepting
  PROVE  Settled
BY DEF Calm, Accepting

\* A prompt, and a run that is continued, start from the branch on disk.
LEMMA PromptOrders ==
  ASSUME JournalInv, Orderly, Calm, Prompt, UNCHANGED scene
  PROVE  Orderly'
<1>1. /\ JournalType /\ made \in Nat /\ memory \in Seq(Message) /\ Stored(journal)
  BY DEF JournalInv, JournalType
<1>2. /\ Settled /\ made' = made + 1 /\ Launch(memory, <<UserMessage>>)
      /\ UNCHANGED <<journal, head, detached, settling>>
  BY CalmIsSettled DEF Prompt
<1>3. pc = "idle" /\ settling = <<>> BY <1>2 DEF Settled
<1>4. UserMessage \in Message /\ UserMessage.role = "user" /\ made <= made' /\ made' \in Nat
  BY <1>1, <1>2, UserMessageType DEF UserMessage, Msg
<1> QED BY <1>1, <1>2, <1>3, <1>4, LaunchIsOrderly DEF Orderly, InOrder, OnDisk

LEMMA ContinueOrders ==
  ASSUME JournalInv, Orderly, Calm, Continue, UNCHANGED scene
  PROVE  Orderly'
<1>1. /\ JournalType /\ made \in Nat /\ memory \in Seq(Message) /\ Stored(journal)
  BY DEF JournalInv, JournalType
<1>2. /\ pc = "idle" /\ settling = <<>> /\ Launch(memory, <<>>)
      /\ UNCHANGED <<journal, head, detached, settling, made>>
  BY DEF Continue, Settled
<1>3. made <= made' /\ made' \in Nat BY <1>1, <1>2
<1> QED BY <1>1, <1>2, <1>3, LaunchIsOrderly DEF Orderly, InOrder, OnDisk

\* What an action of a run finds.
LEMMA RunFinds ==
  ASSUME JournalInv, Orderly, pc \notin {"idle", "down"}
  PROVE  /\ JournalType /\ made \in Nat /\ memory \in Seq(Message) /\ Stored(journal)
         /\ reply \in Message /\ done \in Nat /\ persisted \in Nat /\ scene.calls \in Nat
         /\ head \in 0 .. Len(journal)
         /\ ~ detached /\ Tidy(journal, scene.calls, made) /\ settling = <<>>
         /\ persisted \in 0 .. Len(memory) /\ Context(journal, head) = SubSeq(memory, 1, persisted)
         /\ persisted <= Len(memory)
<1>1. /\ JournalType /\ made \in Nat /\ memory \in Seq(Message) /\ Stored(journal)
      /\ reply \in Message /\ done \in Nat /\ persisted \in Nat /\ head \in 0 .. Len(journal)
  BY DEF JournalInv, JournalType
<1>2. /\ ~ detached /\ Tidy(journal, scene.calls, made) /\ settling = <<>>
      /\ persisted <= Len(memory) /\ Context(journal, head) = SubSeq(memory, 1, persisted)
  BY DEF Orderly, InOrder, OnDisk, OneCompaction
<1>3. persisted \in 0 .. Len(memory) BY <1>1, <1>2
<1> QED BY <1>1, <1>2, <1>3, CallsType

\* The prompt is written.
LEMMA OpenOrders ==
  ASSUME JournalInv, Orderly, Calm, Open, UNCHANGED scene
  PROVE  Orderly'
<1>1. /\ pc = "open" /\ pc' = "provider"
      /\ UNCHANGED <<memory, detached, settling, made, reply, done>>
  BY DEF Open
<1>2. /\ JournalType /\ made \in Nat /\ memory \in Seq(Message) /\ scene.calls \in Nat
      /\ ~ detached /\ Tidy(journal, scene.calls, made) /\ settling = <<>>
      /\ persisted <= Len(memory) /\ Context(journal, head) = SubSeq(memory, 1, persisted)
  BY <1>1, RunFinds
<1>3. Neat(memory, scene.calls, made) /\ Full(memory) BY <1>1 DEF Orderly, InOrder, Complete
<1>4. /\ Tidy(journal', scene.calls, made)
      /\ persisted' <= Len(memory) /\ Context(journal', head') = SubSeq(memory, 1, persisted')
  <2>1. CASE Ended(memory)
    <3>1. /\ Tidy(journal', scene.calls, made) /\ Context(journal', head') = memory
          /\ persisted' = Len(memory) /\ SubSeq(memory, 1, persisted') = memory
      BY <1>2, <1>3, <2>1, EndedTidies
    <3>2. Len(memory) \in Nat BY <1>2
    <3> QED BY <3>1, <3>2
  <2>2. CASE UNCHANGED <<journal, head, persisted>> BY <1>2, <2>2
  <2> QED BY <2>1, <2>2 DEF Open
<1>5. InOrder' /\ Complete' /\ Replied' /\ Executing'
  BY <1>1, <1>2, <1>3, <1>4 DEF InOrder, Complete, Replied, Executing
<1>6. OnDisk' /\ OneCompaction' BY <1>1, <1>2, <1>4 DEF OnDisk, OneCompaction
<1> QED BY <1>5, <1>6 DEF Orderly

\* A message the loop adds.
LEMMA AddedIs ==
  ASSUME ~ detached, memory \in Seq(Message), NEW m \in Message, Add(<<m>>)
  PROVE  memory' = Append(memory, m) /\ ~ detached'
<1>1. memory' = memory \o <<m>> /\ detached' = detached BY DEF Add
<1> QED BY <1>1, AppendIsConcat

\* A steering message comes when nothing is lacking.
LEMMA InjectOrders ==
  ASSUME JournalInv, Orderly, Calm, Inject, UNCHANGED scene
  PROVE  Orderly'
<1>1. /\ pc = "provider" \/ (pc = "ending" /\ reply.n = 0)
      /\ pc' = "provider" /\ made' = made + 1 /\ Add(<<UserMessage>>) /\ Ended(memory')
      /\ UNCHANGED <<reply, done, settling>>
  BY DEF Inject
<1>2. /\ JournalType /\ made \in Nat /\ memory \in Seq(Message) /\ scene.calls \in Nat
      /\ ~ detached /\ Tidy(journal, scene.calls, made) /\ settling = <<>> /\ Stored(journal)
      /\ persisted \in 0 .. Len(memory) /\ Context(journal, head) = SubSeq(memory, 1, persisted)
  BY <1>1, RunFinds
<1>3. Neat(memory, scene.calls, made) /\ Full(memory) BY <1>1 DEF Orderly, InOrder, Complete
<1> DEFINE m == UserMessage
           t == Append(memory, m)
<1>4. m \in Message /\ m.role = "user" /\ made <= made' /\ made' \in Nat
  BY <1>1, <1>2, UserMessageType DEF UserMessage, Msg
<1>5. memory' = t /\ ~ detached' BY <1>1, <1>2, <1>4, AddedIs
<1> HIDE DEF m
<1>6. /\ t \in Seq(Message) /\ Len(t) = Len(memory) + 1
      /\ SubSeq(t, 1, persisted) = SubSeq(memory, 1, persisted)
  BY <1>2, <1>4, FrontOfMore
<1>7. Neat(t, scene.calls, made) /\ Full(t) BY <1>2, <1>3, <1>4, NeatUser
<1> HIDE DEF t
<1>8. Neat(t, scene.calls, made') /\ Tidy(journal, scene.calls, made')
  BY <1>2, <1>4, <1>6, <1>7, NeatLater, TidyLater
<1>9. persisted <= Len(t) /\ Len(t) \in Nat /\ Ended(t) BY <1>1, <1>2, <1>5, <1>6
<1>10. /\ Tidy(journal', scene.calls, made') /\ Context(journal', head') = t
       /\ persisted' = Len(t) /\ SubSeq(t, 1, persisted') = t
  BY <1>2, <1>4, <1>6, <1>8, <1>9, EndedTidies
<1>11. OnDisk' /\ OneCompaction' BY <1>1, <1>2, <1>5, <1>9, <1>10 DEF OnDisk, OneCompaction
<1> QED BY <1>1, <1>5, <1>7, <1>8, <1>10, <1>11 DEF Orderly, InOrder, Complete, Replied, Executing

\* A new reply has a new id.
LEMMA AnswerOrders ==
  ASSUME JournalInv, Orderly, Calm, Answer, UNCHANGED scene
  PROVE  Orderly'
<1>1. /\ pc = "provider" /\ pc' = "answered" /\ made' = made + 1 /\ done' = 0 /\ Ended(memory)
      /\ UNCHANGED <<memory, detached, settling>>
  BY DEF Answer
<1>2. /\ JournalType /\ made \in Nat /\ memory \in Seq(Message) /\ scene.calls \in Nat
      /\ ~ detached /\ Tidy(journal, scene.calls, made) /\ settling = <<>> /\ Stored(journal)
      /\ persisted <= Len(memory) /\ Context(journal, head) = SubSeq(memory, 1, persisted)
  BY <1>1, RunFinds
<1>3. Neat(memory, scene.calls, made) /\ Full(memory) BY <1>1 DEF Orderly, InOrder, Complete
<1>4. made' \in Nat /\ made <= made' /\ made' - 1 = made BY <1>1, <1>2
<1>5. reply'.role = "assistant" /\ reply'.id = made' /\ reply'.n <= scene.calls
  <2>1. PICK n \in 0 .. scene.calls : reply' = Msg("assistant", made + 1, n) BY DEF Answer
  <2>2. n <= scene.calls BY <1>2
  <2> QED BY <1>1, <2>1, <2>2 DEF Msg
<1>6. /\ Tidy(journal', scene.calls, made') /\ Context(journal', head') = memory
      /\ persisted' = Len(memory) /\ SubSeq(memory, 1, persisted') = memory
  BY <1>1, <1>2, <1>4, <1>3, NeatLater, TidyLater, EndedTidies
<1>7. InOrder' /\ Complete' /\ Executing' BY <1>1, <1>2, <1>6 DEF InOrder, Complete, Executing
<1>8. Replied'
  <2> QED BY <1>1, <1>2, <1>4, <1>5, <1>3 DEF Replied
<1>9. OnDisk' /\ OneCompaction'
  <2>1. persisted' <= Len(memory) BY <1>2, <1>6
  <2> QED BY <1>1, <1>2, <1>6, <2>1 DEF OnDisk, OneCompaction
<1> QED BY <1>7, <1>8, <1>9 DEF Orderly

\* No result.
LEMMA NoAnswers ==
  ASSUME NEW a \in Message
  PROVE  Some(<<>>, a) /\ First(a, 0) = <<>>
BY DEF Some, First

\* The first results, and the next one.
LEMMA FirstIs ==
  ASSUME NEW a \in Message, NEW k \in Nat, k <= a.n
  PROVE  /\ Some(First(a, k), a) /\ Len(First(a, k)) = k
         /\ Append(First(a, k), Msg("result", a.id, k + 1)) = First(a, k + 1)
<1> DEFINE f(l) == First(a, l)
           m(i) == Msg("result", a.id, i)
<1>1. a.n \in Nat /\ a.id \in Nat BY MessageIs
<1>2. ASSUME NEW l \in Nat
      PROVE  f(l) \in Seq(Message) /\ Len(f(l)) = l /\ \A i \in 1 .. l : f(l)[i] = m(i)
  <2>1. \A i \in 1 .. l : m(i) \in Message BY <1>1, MsgType
  <2> HIDE DEF m
  <2>2. f(l) \in [1 .. l -> Message] /\ \A i \in 1 .. l : f(l)[i] = m(i) BY <2>1 DEF First, m
  <2> HIDE DEF f
  <2> QED BY <2>2, SeqDef
<1>3. ASSUME NEW i \in 1 .. k PROVE m(i) \in Answers(a) BY <1>1 DEF Answers
<1>4. ASSUME NEW i, NEW j, m(i) = m(j) PROVE i = j BY <1>4 DEF Msg
<1>5. m(k + 1) \in Message /\ k + 1 \in Nat
  <2>1. k + 1 \in Nat OBVIOUS
  <2> QED BY <1>1, <2>1, MsgType
<1> HIDE DEF f, m
<1>6. Some(f(k), a)
  <2>1. \A i \in 1 .. k : f(k)[i] \in Answers(a) BY <1>2, <1>3
  <2> QED BY <1>2, <1>4, <2>1 DEF Some
<1>7. Append(f(k), m(k + 1)) = f(k + 1)
  <2> DEFINE v == Append(f(k), m(k + 1))
             w == f(k + 1)
  <2>1. /\ v \in Seq(Message) /\ Len(v) = k + 1 /\ v[k + 1] = m(k + 1)
        /\ \A i \in 1 .. k : v[i] = f(k)[i]
    BY <1>2, <1>5
  <2>2. w \in Seq(Message) /\ Len(w) = k + 1 /\ \A i \in 1 .. k + 1 : w[i] = m(i) BY <1>2, <1>5
  <2> HIDE DEF v, w
  <2>3. ASSUME NEW i \in 1 .. k + 1 PROVE v[i] = w[i]
    <3>1. CASE i = k + 1 BY <2>1, <2>2, <3>1
    <3>2. CASE i # k + 1
      <4>1. i \in 1 .. k BY <3>2
      <4> QED BY <1>2, <2>1, <2>2, <4>1
    <3> QED BY <3>1, <3>2
  <2>4. v = w BY <2>1, <2>2, <2>3, SeqEqual
  <2> QED BY <2>4 DEF v, w
<1> QED BY <1>2, <1>6, <1>7 DEF f, m

\* The reply that ends enters a transcript that lacks nothing; without calls it lacks nothing then.
LEMMA TakeAnswerOrders ==
  ASSUME JournalInv, Orderly, Calm, TakeAnswer, UNCHANGED scene
  PROVE  Orderly'
<1>1. /\ pc = "answered" /\ pc' \in {"ending", "tools"} /\ (pc' = "tools" => reply.n # 0)
      /\ Add(<<reply>>) /\ UNCHANGED <<journal, head, reply, done, persisted, settling, made>>
  BY DEF TakeAnswer
<1>2. /\ made \in Nat /\ memory \in Seq(Message) /\ scene.calls \in Nat /\ reply \in Message
      /\ ~ detached /\ Tidy(journal, scene.calls, made) /\ settling = <<>>
      /\ persisted \in 0 .. Len(memory) /\ Context(journal, head) = SubSeq(memory, 1, persisted)
  BY <1>1, RunFinds
<1>3. /\ reply.role = "assistant" /\ reply.id = made /\ reply.n <= scene.calls /\ done = 0
      /\ made - 1 \in Nat /\ Neat(memory, scene.calls, made - 1) /\ Full(memory)
  BY <1>1 DEF Orderly, Replied
<1> DEFINE t == Append(memory, reply)
<1>4. memory' = t /\ ~ detached' BY <1>1, <1>2, AddedIs
<1>5. /\ t \in Seq(Message) /\ Len(t) = Len(memory) + 1 /\ t # <<>> /\ t[Len(t)] = reply
      /\ SubSeq(t, 1, persisted) = SubSeq(memory, 1, persisted)
  BY <1>2, FrontOfMore
<1>6. Neat(t, scene.calls, made)
  <2> QED BY <1>2, <1>3, NeatReply
<1> HIDE DEF t
<1>7. Some(<<>>, reply) /\ First(reply, 0) = <<>> BY <1>2, NoAnswers
<1>8. t \o <<>> = t /\ Len(<<>>) = 0 BY <1>5
<1>9. reply.n = 0 => Full(t)
  <2>1. Len(<<>>) = reply.n => Full(t \o <<>>) BY <1>2, <1>3, <1>5, <1>6, <1>7, NeatResults
  <2> QED BY <1>8, <2>1
<1>10. persisted <= Len(t) BY <1>2, <1>5
<1>11. InOrder' /\ Complete' /\ Replied'
  BY <1>1, <1>2, <1>4, <1>6, <1>9 DEF InOrder, Complete, Replied
<1>12. Executing'
  <2>1. t = t \o First(reply, done) BY <1>3, <1>7, <1>8
  <2>2. reply.n # 0 => done < reply.n
    <3>1. reply.n \in Nat BY <1>2, MessageIs
    <3> QED BY <1>3, <3>1
  <2> QED BY <1>1, <1>3, <1>4, <1>5, <1>6, <2>1, <2>2 DEF Executing
<1>13. OnDisk' /\ OneCompaction' BY <1>1, <1>2, <1>4, <1>5, <1>10 DEF OnDisk, OneCompaction
<1> QED BY <1>11, <1>12, <1>13 DEF Orderly

\* A result is shown: the transcript is written.
LEMMA ShowResultOrders ==
  ASSUME JournalInv, Orderly, Calm, ShowResult, UNCHANGED scene
  PROVE  Orderly'
<1>1. /\ pc = "tools" /\ pc' = "shown" /\ Ended(memory)
      /\ UNCHANGED <<memory, detached, settling, reply, done, made>>
  BY DEF ShowResult
<1>2. /\ JournalType /\ made \in Nat /\ memory \in Seq(Message) /\ scene.calls \in Nat
      /\ ~ detached /\ Tidy(journal, scene.calls, made) /\ settling = <<>>
      /\ persisted <= Len(memory) /\ Context(journal, head) = SubSeq(memory, 1, persisted)
  BY <1>1, RunFinds
<1>3. Neat(memory, scene.calls, made) BY <1>1 DEF Orderly, InOrder
<1>4. /\ Tidy(journal', scene.calls, made) /\ Context(journal', head') = memory
      /\ persisted' = Len(memory) /\ SubSeq(memory, 1, persisted') = memory
  BY <1>1, <1>2, <1>3, EndedTidies
<1>5. InOrder' /\ Complete' /\ Replied' BY <1>1, <1>2, <1>3, <1>4 DEF InOrder, Complete, Replied
<1>6. Executing' BY <1>1 DEF Orderly, Executing
<1>7. OnDisk' /\ OneCompaction'
  <2>1. persisted' <= Len(memory) BY <1>2, <1>4
  <2> QED BY <1>1, <1>2, <1>4, <2>1 DEF OnDisk, OneCompaction
<1> QED BY <1>5, <1>6, <1>7 DEF Orderly

\* A result comes directly behind the ones before it, and the last one completes the transcript.
LEMMA StoreResultOrders ==
  ASSUME JournalInv, Orderly, Calm, StoreResult, UNCHANGED scene
  PROVE  Orderly'
<1> DEFINE m == Msg("result", reply.id, done + 1)
           t == Append(memory, m)
<1>1. /\ pc = "shown" /\ Add(<<m>>) /\ done' = done + 1
      /\ pc' = IF done' = reply.n THEN "provider" ELSE "tools"
      /\ UNCHANGED <<journal, head, reply, persisted, settling, made>>
  BY DEF StoreResult
<1>2. /\ made \in Nat /\ memory \in Seq(Message) /\ scene.calls \in Nat /\ reply \in Message
      /\ ~ detached /\ Tidy(journal, scene.calls, made) /\ settling = <<>> /\ done \in Nat
      /\ persisted \in 0 .. Len(memory) /\ Context(journal, head) = SubSeq(memory, 1, persisted)
  BY <1>1, RunFinds
<1>3. done < reply.n /\ \E u \in Seq(Message) :
        /\ u # <<>> /\ u[Len(u)] = reply /\ reply.role = "assistant"
        /\ Neat(u, scene.calls, made) /\ memory = u \o First(reply, done)
  BY <1>1 DEF Orderly, Executing
<1>4. PICK u \in Seq(Message) :
        /\ u # <<>> /\ u[Len(u)] = reply /\ reply.role = "assistant"
        /\ Neat(u, scene.calls, made) /\ memory = u \o First(reply, done)
  BY <1>3
<1>5. reply.n \in Nat /\ reply.id \in Nat /\ done + 1 \in Nat /\ done <= reply.n /\ done + 1 <= reply.n
  BY <1>2, <1>3, MessageIs
<1>6. m \in Message BY <1>5, MsgType
<1>7. Append(First(reply, done), m) = First(reply, done + 1) /\ Some(First(reply, done), reply)
  BY <1>2, <1>5, FirstIs
<1>8. memory' = t /\ ~ detached' BY <1>1, <1>2, <1>6, AddedIs
<1>9. /\ t \in Seq(Message) /\ Len(t) = Len(memory) + 1
       /\ SubSeq(t, 1, persisted) = SubSeq(memory, 1, persisted)
  BY <1>2, <1>6, FrontOfMore
<1> HIDE DEF m
<1>10. t = u \o First(reply, done + 1)
  <2> DEFINE r == First(reply, done)
             x == <<m>>
  <2>1. r \in Seq(Message) /\ x \in Seq(Message) BY <1>6, <1>7 DEF Some
  <2>2. t = memory \o x /\ Append(r, m) = r \o x BY <1>2, <1>6, <2>1, AppendIsConcat
  <2> HIDE DEF r, x, t
  <2>3. (u \o r) \o x = u \o (r \o x) BY <2>1, ConcatAssociative, SMTT(30)
  <2> QED BY <1>4, <1>7, <2>2, <2>3 DEF r
<1> HIDE DEF t
<1>11. /\ Neat(t, scene.calls, made)
       /\ done + 1 = reply.n => Full(t)
  BY <1>2, <1>4, <1>5, FirstIs, <1>10, NeatResults, ZenonT(30)
<1>12. persisted <= Len(t) BY <1>2, <1>9
<1>13. pc' \in {"provider", "tools"} /\ (pc' = "provider" <=> done' = reply.n) BY <1>1
<1>14. InOrder' /\ Complete' /\ Replied'
  BY <1>1, <1>2, <1>8, <1>11, <1>13 DEF InOrder, Complete, Replied
<1>15. Executing'
  <2>1. done' # reply.n => done' < reply.n BY <1>1, <1>5
  <2> QED BY <1>1, <1>4, <1>8, <1>10, <1>13, <2>1 DEF Executing
<1>16. OnDisk' /\ OneCompaction' BY <1>1, <1>2, <1>8, <1>9, <1>12, <1>13 DEF OnDisk, OneCompaction
<1> QED BY <1>14, <1>15, <1>16 DEF Orderly

\* The last write makes the branch on disk the transcript.
LEMMA EndRunOrders ==
  ASSUME JournalInv, Orderly, Calm, EndRun, UNCHANGED scene
  PROVE  Orderly'
<1>1. /\ pc = "ending" /\ pc' = "idle" /\ Ended(memory) /\ ~ detached'
      /\ UNCHANGED <<memory, settling, reply, done, made>>
  BY DEF EndRun, Attach
<1>2. /\ JournalType /\ made \in Nat /\ memory \in Seq(Message) /\ scene.calls \in Nat
      /\ ~ detached /\ Tidy(journal, scene.calls, made) /\ settling = <<>>
      /\ persisted <= Len(memory) /\ Context(journal, head) = SubSeq(memory, 1, persisted)
  BY <1>1, RunFinds
<1>3. Neat(memory, scene.calls, made) BY <1>1 DEF Orderly, InOrder
<1>4. Tidy(journal', scene.calls, made) /\ Context(journal', head') = memory
  BY <1>1, <1>2, <1>3, EndedTidies
<1>5. InOrder' /\ Complete' /\ Replied' /\ Executing'
  BY <1>1, <1>3, <1>4 DEF InOrder, Complete, Replied, Executing
<1>6. OnDisk' /\ OneCompaction' BY <1>1, <1>2, <1>4 DEF OnDisk, OneCompaction
<1> QED BY <1>5, <1>6 DEF Orderly

\* A compaction starts when no other is awaited, and with a plan for the branch on disk.
LEMMA StartCompactionOrders ==
  ASSUME JournalInv, Orderly, Calm, StartCompaction, UNCHANGED scene
  PROVE  Orderly'
<1> DEFINE rows == Rows(journal, head)
<1>1. rows \in Seq(MessageRow) BY RowsType DEF JournalInv, JournalType
<1> HIDE DEF rows
<1>2. PICK ids \in RecentPreserving(rows) \cup Whole(rows), next \in {"settle", "prompt", "retry"} :
        /\ next = "settle" => Settled
        /\ next = "prompt" => Accepting
        /\ next = "retry" => pc = "idle" /\ overflow = "seen"
        /\ settling' = Append(settling, [replaces |-> ids, next |-> next])
  BY DEF StartCompaction, rows
<1>3. /\ overflow' = "unwatched"
      /\ UNCHANGED <<journal, head, memory, detached, pc, reply, done, persisted, made>>
  BY DEF StartCompaction
<1>4. pc = "idle" /\ settling = <<>>
  <2>1. CASE next = "retry" BY <1>2, <2>1 DEF Orderly, OneCompaction
  <2>2. CASE next # "retry" BY <1>2, <2>2, CalmIsSettled DEF Settled
  <2> QED BY <2>1, <2>2
<1> DEFINE one == [replaces |-> ids, next |-> next]
<1>5. one.replaces = ids /\ settling' = <<one>> BY <1>2, <1>4
<1> HIDE DEF one
<1>6. Len(settling') = 1 /\ settling'[1] = one BY <1>5
<1>7. GoodCut(rows, ids) BY <1>1, PlanIsGood
<1>8. OneCompaction' BY <1>3, <1>4, <1>5, <1>6, <1>7 DEF OneCompaction, rows
<1> QED BY <1>8, <1>3 DEF Orderly, InOrder, Complete, Replied, Executing, OnDisk

\* The entries that a compaction replaces.
LEMMA ReplacesType ==
  ASSUME settling \in Seq(Settlings), NEW k \in DOMAIN settling
  PROVE  settling[k].replaces \in SUBSET Nat
<1>1. settling[k] \in Settlings OBVIOUS
<1> QED BY <1>1 DEF Settlings

\* Of one compaction there is none left.
LEMMA ForgetOne ==
  ASSUME settling \in Seq(Settlings), settling = <<>> \/ Len(settling) = 1,
         NEW k \in DOMAIN settling, Forget(k)
  PROVE  settling' = <<>> /\ k = 1 /\ settling # <<>>
<1>1. DOMAIN settling = 1 .. Len(settling) /\ settling # <<>> /\ Len(settling) = 1 /\ k = 1
  <2>1. DOMAIN settling = 1 .. Len(settling) OBVIOUS
  <2>2. settling # <<>> OBVIOUS
  <2> QED BY <2>1, <2>2
<1> DEFINE a == SubSeq(settling, 1, k - 1)
           b == SubSeq(settling, k + 1, Len(settling))
<1>2. a = <<>> /\ b = <<>> BY <1>1
<1>3. settling' = a \o b BY DEF Forget, RemoveAt
<1>4. <<>> \o <<>> = <<>> OBVIOUS
<1> QED BY <1>1, <1>2, <1>3, <1>4

\* What follows a compaction, on a transcript that is the branch on disk.
LEMMA ProceedOrders ==
  ASSUME JournalType, Complete, Replied, Executing, UNCHANGED scene, pc = "idle",
         NEW next, NEW t \in Seq(Message), Proceed(next, t), Neat(t, scene.calls, made), ~ detached',
         Stored(journal'), Tidy(journal', scene.calls, made), Context(journal', head') = t,
         settling' = <<>>
  PROVE  Orderly'
<1>1. made \in Nat /\ made + 1 \in Nat /\ made <= made + 1 /\ made <= made BY DEF JournalType
<1>2. CASE made' = made + 1 /\ Launch(t, <<UserMessage>>)
  <2> QED BY <1>1, <1>2, UserMessageType, LaunchIsOrderly DEF UserMessage, Msg
<1>3. CASE Launch(t, <<>>) /\ made' = made BY <1>1, <1>3, LaunchIsOrderly
<1>4. CASE memory' = t /\ UNCHANGED <<run, made>>
  <2>1. UNCHANGED <<pc, reply, done, persisted, overflow, made>> BY <1>4 DEF run
  <2>2. OnDisk' /\ OneCompaction' BY <1>4, <2>1 DEF OnDisk, OneCompaction
  <2> QED BY <1>4, <2>1, <2>2 DEF Orderly, InOrder, Complete, Replied, Executing
<1> QED BY <1>2, <1>3, <1>4 DEF Proceed

\* What a compaction that is awaited finds when it is done.
LEMMA SettlingFinds ==
  ASSUME JournalInv, Orderly, settling # <<>>
  PROVE  /\ JournalType /\ Stored(journal) /\ head \in 0 .. Len(journal) /\ Len(journal) \in Nat
         /\ settling \in Seq(Settlings) /\ memory \in Seq(Message) /\ made \in Nat
         /\ scene.calls \in Nat /\ pc = "idle" /\ ~ detached
         /\ Tidy(journal, scene.calls, made) /\ Neat(memory, scene.calls, made)
         /\ memory = Context(journal, head) /\ Len(settling) = 1
         /\ GoodCut(Rows(journal, head), settling[1].replaces)
         /\ Complete /\ Replied /\ Executing
BY CallsType DEF JournalInv, JournalType, Stored, Orderly, InOrder, OnDisk, OneCompaction

\* The entry of a compaction, which may be the last one of a crash.
LEMMA CompactionIsTidy ==
  ASSUME Stored(journal), head \in 0 .. Len(journal), NEW ids \in SUBSET Nat,
         GoodCut(Rows(journal, head), ids), NEW c \in Nat, NEW b \in Nat, Tidy(journal, c, b),
         NEW l, l = journal \o <<CompactionEntry(head, ids)>>
  PROVE  /\ <<CompactionEntry(head, ids)>> \in Seq(Entry)
         /\ Stored(l) /\ Len(l) = Len(journal) + 1 /\ Tidy(l, c, b)
<1> DEFINE entry == CompactionEntry(head, ids)
           one == <<entry>>
           base == Len(journal)
           id == base + 1
<1>1. base \in Nat /\ head \in Nat /\ head < id /\ id \in Nat BY DEF Stored
<1>2. /\ entry \in Entry /\ entry.parent = head /\ entry.kind = "compaction" /\ entry.replaces = ids
  BY <1>1, EntriesAreEntries DEF CompactionEntry
<1> HIDE DEF entry
<1>3. one \in Seq(Entry) /\ Len(one) = 1 /\ DOMAIN one = {1} /\ one[1] = entry BY <1>2
<1>4. After(base, one) BY <1>1, <1>2, <1>3 DEF After
<1>5. l = journal \o one BY DEF entry
<1> HIDE DEF one
<1>6. Stored(l) /\ Len(l) = base + 1 BY <1>3, <1>4, <1>5, AfterBoth
<1>7. l[id] = entry /\ id \in 1 .. Len(l)
  <2>1. l[base + 1] = one[1] BY <1>3, <1>5 DEF Stored
  <2> QED BY <1>1, <1>3, <1>6, <2>1
<1>8. Rows(l, head) = Rows(journal, head) /\ Context(l, head) = Context(journal, head)
  BY <1>3, <1>5, <1>6, RowsStay DEF Context
<1> HIDE DEF base, id
<1>9. Neat(Context(l, id), c, b)
  <2>1. Neat(Context(l, l[id].parent), c, b) BY <1>2, <1>7, <1>8, TidyContext
  <2> QED BY <1>2, <1>6, <1>7, <2>1, <1>8, CompactionIsNeat
<1>10. Tidy(l, c, b)
  <2>1. \A i \in 1 .. Len(one) : Neat(Context(journal \o one, Len(journal) + i), c, b)
    <3>1. \A i \in 1 .. Len(one) : i = 1 BY <1>3
    <3> QED BY <1>5, <1>9, <3>1 DEF id, base
  <2> QED BY <1>3, <1>5, <1>6, <2>1, TidyBoth
<1> QED BY <1>3, <1>6, <1>10 DEF one, entry, base

\* A leaf adds nothing.
LEMMA LeafIsTidy ==
  ASSUME NEW j, Stored(j), NEW target \in 0 .. Len(j), NEW c \in Nat, NEW b \in Nat, Tidy(j, c, b),
         NEW l, l = j \o <<LeafEntry(target)>>
  PROVE  /\ <<LeafEntry(target)>> \in Seq(Entry)
         /\ Stored(l) /\ Len(l) = Len(j) + 1 /\ Tidy(l, c, b)
         /\ Context(l, target) = Context(j, target)
<1> DEFINE entry == LeafEntry(target)
           one == <<entry>>
           base == Len(j)
           id == base + 1
<1>1. base \in Nat /\ target \in Nat /\ target < id /\ id \in Nat BY DEF Stored
<1>2. entry \in Entry /\ entry.parent = target /\ entry.kind = "leaf" /\ entry.target = target
  BY <1>1, EntriesAreEntries DEF LeafEntry
<1> HIDE DEF entry
<1>3. one \in Seq(Entry) /\ Len(one) = 1 /\ DOMAIN one = {1} /\ one[1] = entry BY <1>2
<1>4. After(base, one) BY <1>1, <1>2, <1>3 DEF After
<1>5. l = j \o one BY DEF entry
<1> HIDE DEF one
<1>6. Stored(l) /\ Len(l) = base + 1 BY <1>3, <1>4, <1>5, AfterBoth
<1>7. l[id] = entry /\ id \in 1 .. Len(l)
  <2>1. l[base + 1] = one[1] BY <1>3, <1>5 DEF Stored
  <2> QED BY <1>1, <1>3, <1>6, <2>1
<1>8. Context(l, target) = Context(j, target) BY <1>3, <1>5, <1>6, ContextStays
<1> HIDE DEF base, id
<1>9. Neat(Context(l, id), c, b)
  <2>1. Context(l, id) = Context(l, target) BY <1>2, <1>6, <1>7, ContextOfLeaf
  <2> QED BY <1>8, <2>1, TidyContext
<1>10. Tidy(l, c, b)
  <2>1. \A i \in 1 .. Len(one) : Neat(Context(j \o one, Len(j) + i), c, b)
    <3>1. \A i \in 1 .. Len(one) : i = 1 BY <1>3
    <3> QED BY <1>5, <1>9, <3>1 DEF id, base
  <2> QED BY <1>3, <1>5, <1>6, <2>1, TidyBoth
<1> QED BY <1>3, <1>6, <1>8, <1>10 DEF one, entry, base

\* A branch goes to a context of the tidy journal.
LEMMA BranchOrders ==
  ASSUME JournalInv, Orderly, Calm, Branch, UNCHANGED scene
  PROVE  Orderly'
<1>1. /\ JournalType /\ Stored(journal) /\ journal \in Seq(Entry) /\ made \in Nat
      /\ Len(journal) \in Nat
  BY DEF JournalInv, JournalType, Stored
<1>2. PICK e \in DOMAIN journal : \E target \in {journal[e].parent, e} :
        /\ journal' = Append(journal, LeafEntry(target)) /\ head' = target
        /\ memory' = Context(journal', target)
  BY DEF Branch
<1>3. PICK target \in {journal[e].parent, e} :
        /\ journal' = Append(journal, LeafEntry(target)) /\ head' = target
        /\ memory' = Context(journal', target)
  BY <1>2
<1>4. target \in 0 .. Len(journal)
  <2>1. e \in 1 .. Len(journal) BY <1>1
  <2> QED BY <1>1, <2>1, StoredBefore
<1>5. /\ pc = "idle" /\ settling = <<>>
      /\ UNCHANGED <<detached, pc, reply, done, persisted, overflow, settling, made>>
  BY DEF Branch, Settled, run
<1>6. ~ detached /\ Tidy(journal, scene.calls, made) /\ scene.calls \in Nat
  BY <1>1, CallsType DEF Orderly, InOrder
<1>7. journal' = journal \o <<LeafEntry(target)>>
  <2>1. target \in Nat BY <1>4
  <2>2. LeafEntry(target) \in Entry BY <2>1, EntriesAreEntries
  <2> QED BY <1>1, <1>3, <2>2, AppendIsConcat
<1>8. /\ Stored(journal') /\ Len(journal') = Len(journal) + 1 /\ Tidy(journal', scene.calls, made)
      /\ Context(journal', target) = Context(journal, target)
  BY <1>1, <1>4, <1>6, <1>7, LeafIsTidy, ZenonT(60)
<1>9. Neat(memory', scene.calls, made) BY <1>3, <1>4, <1>6, <1>8, TidyContext
<1>10. OnDisk' /\ OneCompaction' BY <1>3, <1>5 DEF OnDisk, OneCompaction
<1> QED BY <1>5, <1>6, <1>8, <1>9, <1>10 DEF Orderly, InOrder, Complete, Replied, Executing

\* The branch the compaction was planned for is still there when its summary arrives.
LEMMA FinishCompactionOrders ==
  ASSUME JournalInv, Orderly, Calm, FinishCompaction, UNCHANGED scene
  PROVE  Orderly'
<1> DEFINE id == Len(journal) + 1
           first(k) == CompactionEntry(head, settling[k].replaces)
           tail(k) == <<first(k), LeafEntry(id)>>
           new(k) == journal \o tail(k)
<1>1. PICK k \in DOMAIN settling :
        /\ journal' = new(k) /\ head' = id
        /\ Proceed(settling[k].next, Context(new(k), id))
        /\ detached' = (pc # "idle")
        /\ Forget(k)
  BY DEF FinishCompaction
<1>2. settling # <<>>
  <2>1. settling \in Seq(Settlings) BY DEF JournalInv, JournalType
  <2> QED BY <1>1, <2>1
<1>3. /\ JournalType /\ Stored(journal) /\ head \in 0 .. Len(journal) /\ Len(journal) \in Nat
      /\ settling \in Seq(Settlings) /\ made \in Nat
      /\ scene.calls \in Nat /\ pc = "idle"
      /\ Tidy(journal, scene.calls, made) /\ Len(settling) = 1
      /\ GoodCut(Rows(journal, head), settling[1].replaces)
      /\ Complete /\ Replied /\ Executing
  BY <1>2, SettlingFinds
<1>4. settling' = <<>> /\ k = 1 BY <1>1, <1>3, ForgetOne
<1> DEFINE ids == settling[1].replaces
           one == <<CompactionEntry(head, ids)>>
           l == journal \o one
<1>5. ids \in SUBSET Nat
  <2>1. k \in DOMAIN settling OBVIOUS
  <2>2. settling \in Seq(Settlings) BY <1>3
  <2>3. settling[k].replaces \in SUBSET Nat BY ONLY <2>1, <2>2, ReplacesType
  <2> QED BY <1>4, <2>3
<1>6. /\ one \in Seq(Entry) /\ Stored(l) /\ Len(l) = id /\ Tidy(l, scene.calls, made)
  BY <1>3, <1>5, CompactionIsTidy, ZenonT(30)
<1>7. id \in Nat /\ id \in 0 .. id BY <1>3
<1> DEFINE last == <<LeafEntry(id)>>
<1>8. journal' = l \o last
  <2>1. tail(k) = one \o last BY <1>4
  <2>2. last \in Seq(Entry) /\ journal \in Seq(Entry)
    <3>1. LeafEntry(id) \in Entry BY <1>7, EntriesAreEntries
    <3> QED BY <1>3, <3>1 DEF Stored
  <2>3. journal' = journal \o tail(k) BY <1>1
  <2> HIDE DEF tail, one, last, id
  <2>4. (journal \o one) \o last = journal \o (one \o last)
    BY <1>6, <2>2, ConcatAssociative, SMTT(30)
  <2> QED BY <2>1, <2>3, <2>4
<1>9. journal' = new(k) /\ ~ detached' BY <1>1, <1>3
<1> DEFINE t == Context(new(k), id)
<1>10. Proceed(settling[k].next, t) /\ head' = id BY <1>1
<1> HIDE DEF l, id, new, one
<1>11. /\ Stored(journal') /\ Len(journal') = id + 1 /\ Tidy(journal', scene.calls, made)
  BY <1>3, <1>6, <1>7, <1>8, LeafIsTidy, ZenonT(30)
<1>12. id \in 0 .. Len(journal') BY <1>7, <1>11
<1>13. Neat(t, scene.calls, made) /\ t \in Seq(Message) /\ Context(journal', head') = t
  BY <1>9, <1>10, <1>11, <1>12, TidyContext, ContextType
<1> HIDE DEF t
<1> QED BY <1>3, <1>4, <1>9, <1>10, <1>11, <1>13, ProceedOrders

\* Without a summary nothing has changed.
LEMMA AbandonCompactionOrders ==
  ASSUME JournalInv, Orderly, Calm, AbandonCompaction, UNCHANGED scene
  PROVE  Orderly'
<1>1. PICK k \in DOMAIN settling :
        /\ Proceed("prompt", memory) \/ UNCHANGED <<memory, run, made>>
        /\ UNCHANGED <<detached, old>> /\ Forget(k) /\ UNCHANGED <<journal, head>>
  BY DEF AbandonCompaction
<1>2. settling # <<>>
  <2>1. settling \in Seq(Settlings) BY DEF JournalInv, JournalType
  <2> QED BY <1>1, <2>1
<1>3. /\ JournalType /\ Stored(journal) /\ settling \in Seq(Settlings) /\ memory \in Seq(Message)
      /\ pc = "idle" /\ ~ detached
      /\ Tidy(journal, scene.calls, made) /\ Neat(memory, scene.calls, made)
      /\ memory = Context(journal, head) /\ Len(settling) = 1
      /\ Complete /\ Replied /\ Executing
  BY <1>2, SettlingFinds
<1>4. settling' = <<>> BY <1>1, <1>3, ForgetOne
<1> QED BY <1>1, <1>3, <1>4, ProceedOrders DEF Proceed

\* What a crash leaves is the beginning of a write, or the entry of a compaction.
LEMMA WritingIsTidy ==
  ASSUME JournalInv, Orderly, pc # "down", NEW tail \in Writing
  PROVE  Tidy(journal \o tail, scene.calls, made)
<1> DEFINE new == Unsaved(memory, persisted)
           all == Chain(Len(journal), head, new)
           here == Context(journal, head)
           c == scene.calls
<1>1. /\ JournalType /\ Stored(journal) /\ Len(journal) \in Nat /\ head \in 0 .. Len(journal)
      /\ memory \in Seq(Message) /\ persisted \in Nat /\ settling \in Seq(Settlings)
      /\ made \in Nat /\ c \in Nat /\ Tidy(journal, c, made) /\ head \in Nat
  BY CallsType DEF JournalInv, JournalType, Stored, Orderly, InOrder
<1>2. Neat(memory, c, made)
  <2>1. CASE pc # "answered" BY <2>1 DEF Orderly, InOrder
  <2>2. CASE pc = "answered"
    <3>1. made - 1 \in Nat /\ Neat(memory, c, made - 1) BY <2>2 DEF Orderly, Replied
    <3>2. made - 1 <= made BY <1>1
    <3> QED BY <1>1, <3>1, <3>2, NeatLater
  <2> QED BY <2>1, <2>2
<1>3. CASE tail = <<>>
  <2>1. journal \o tail = journal BY <1>1, <1>3 DEF Stored
  <2> QED BY <1>1, <2>1
<1>4. CASE pc # "idle" /\ \E k \in DOMAIN all : tail = SubSeq(all, 1, k)
  <2>1. /\ persisted \in 0 .. Len(memory) /\ here = SubSeq(memory, 1, persisted) BY <1>4, RunFinds
  <2>2. new \in Seq(Message) /\ here \in Seq(Message) BY <1>1, UnsavedType, ContextType, SMTT(60)
  <2>3. here \o new = memory
    <3>1. /\ 1 \in 1 .. Len(memory) + 1 /\ persisted \in 1 - 1 .. Len(memory)
          /\ Len(memory) \in persisted .. Len(memory)
      BY <1>1, <2>1
    <3>2. SubSeq(memory, 1, persisted) \o SubSeq(memory, persisted + 1, Len(memory))
            = SubSeq(memory, 1, Len(memory))
      BY <1>1, <3>1, ConcatAdjacentSubSeq
    <3>3. SubSeq(memory, 1, Len(memory)) = memory BY <1>1
    <3> QED BY <2>1, <3>2, <3>3 DEF Unsaved
  <2> HIDE DEF new, here
  <2>4. PICK k \in DOMAIN all : tail = SubSeq(all, 1, k) BY <1>4
  <2>5. all \in Seq(Entry) /\ After(Len(journal), all)
    <3> QED BY <1>1, <2>2, ChainHasPairs, ChainIsAfter DEF Pairs
  <2> DEFINE l == journal \o all
             last == IF new = <<>> THEN head ELSE Len(journal) + 2 * Len(new) - 1
  <2>6. WrittenOut(l, last, journal, head, new) BY DEF WrittenOut
  <2>7. Neat(Context(journal, head) \o new, c, made) BY <1>2, <2>3 DEF here
  <2> HIDE DEF l, last
  <2>8. Tidy(l, c, made) BY <1>1, <2>2, <2>6, <2>7, TidyChain
  <2> HIDE DEF all
  <2>9. k \in 1 .. Len(all) BY <2>5
  <2> QED BY <1>1, <2>4, <2>5, <2>8, <2>9, TidyPart DEF l
<1>5. CASE \E k \in DOMAIN settling : tail = <<CompactionEntry(head, settling[k].replaces)>>
  <2>1. PICK k \in DOMAIN settling : tail = <<CompactionEntry(head, settling[k].replaces)>> BY <1>5
  <2>2. settling # <<>> BY <1>1, <2>1
  <2>3. Len(settling) = 1 /\ GoodCut(Rows(journal, head), settling[1].replaces)
    BY <2>2, SettlingFinds
  <2>4. k = 1 BY <1>1, <2>1, <2>3
  <2>5. settling[1].replaces \in SUBSET Nat
    <3>1. settling[k].replaces \in SUBSET Nat BY <1>1, <2>1, ReplacesType
    <3> QED BY <2>4, <3>1
  <2> QED BY <1>1, <2>1, <2>3, <2>4, <2>5, CompactionIsTidy
<1> QED BY <1>3, <1>4, <1>5 DEF Writing

\* An empty list.
LEMMA NoneIsNeat ==
  ASSUME NEW c, NEW b
  PROVE  Neat(<<>>, c, b)
BY DEF Neat, Is

\* A crash, whatever it leaves.
LEMMA CrashOrders ==
  ASSUME JournalInv, Orderly, Calm, Crash, UNCHANGED scene
  PROVE  Orderly'
<1>1. PICK tail \in Writing : journal' = journal \o tail BY DEF Crash
<1>2. /\ pc # "down" /\ pc' = "down" /\ memory' = <<>> /\ settling' = <<>> /\ ~ detached' /\ made' = made
  BY DEF Crash, Attach
<1>3. Tidy(journal', scene.calls, made) BY <1>1, <1>2, WritingIsTidy
<1>4. InOrder' BY <1>2, <1>3, NoneIsNeat DEF InOrder
<1> QED BY <1>4, <1>2 DEF Orderly, Complete, Replied, Executing, OnDisk, OneCompaction

\* What a restart finds.
LEMMA DownFinds ==
  ASSUME JournalInv, Orderly, pc = "down"
  PROVE  /\ Stored(journal) /\ Len(journal) \in Nat /\ made \in Nat /\ scene.calls \in Nat
         /\ Tidy(journal, scene.calls, made) /\ ~ detached /\ settling = <<>>
BY CallsType DEF JournalInv, JournalType, Stored, Orderly, InOrder, OneCompaction

\* A restart repairs what it loads.
LEMMA LoadOrders ==
  ASSUME JournalInv, Orderly, Calm, Load, UNCHANGED scene
  PROVE  Orderly' /\ Full(memory')
<1> DEFINE leaf == LatestLeaf(journal)
           rep == Repair(Rows(journal, leaf))
<1>1. /\ pc = "down" /\ pc' = "idle" /\ journal' = journal \o rep /\ head' = LatestLeaf(journal')
      /\ memory' = Context(journal', head') /\ UNCHANGED <<detached, settling, made>>
  BY DEF Load
<1>2. /\ Stored(journal) /\ made \in Nat /\ scene.calls \in Nat
      /\ Tidy(journal, scene.calls, made) /\ ~ detached /\ settling = <<>>
  BY <1>1, DownFinds
<1> HIDE DEF leaf, rep
<1>3. /\ Stored(journal') /\ Tidy(journal', scene.calls, made)
      /\ Full(Context(journal', LatestLeaf(journal')))
  BY <1>1, <1>2, RepairIsTidy DEF leaf, rep
<1>4. Neat(memory', scene.calls, made) BY <1>1, <1>3, LatestLeafIsThere, TidyContext
<1> QED
  BY <1>1, <1>3, <1>2, <1>4 DEF Orderly, InOrder, Complete, Replied, Executing, OnDisk,
     OneCompaction

\* A repair that is cut off.
LEMMA CrashInLoadOrders ==
  ASSUME JournalInv, Orderly, Calm, CrashInLoad, UNCHANGED scene
  PROVE  Orderly'
<1> DEFINE leaf == LatestLeaf(journal)
           rep == Repair(Rows(journal, leaf))
<1>1. PICK k \in DOMAIN rep : journal' = journal \o SubSeq(rep, 1, k) BY DEF CrashInLoad
<1>2. pc = "down" /\ UNCHANGED <<memory, detached, pc, reply, done, settling, made>>
  BY DEF CrashInLoad, run
<1>3. /\ Stored(journal) /\ made \in Nat /\ scene.calls \in Nat
      /\ Tidy(journal, scene.calls, made) /\ ~ detached /\ settling = <<>>
  BY <1>2, DownFinds
<1> HIDE DEF leaf, rep
<1>4. /\ rep \in Seq(Entry) /\ After(Len(journal), rep)
      /\ Tidy(journal \o rep, scene.calls, made)
  BY <1>3, RepairIsTidy DEF leaf, rep
<1>5. k \in 1 .. Len(rep) BY <1>4
<1>6. Tidy(journal', scene.calls, made) BY <1>1, <1>3, <1>4, <1>5, TidyPart
<1>7. InOrder' BY <1>2, <1>3, <1>6 DEF Orderly, InOrder
<1> QED BY <1>7, <1>2, <1>3 DEF Orderly, Complete, Replied, Executing, OnDisk, OneCompaction
------------------------------------------------------------------------------

\* In a calm session everything is in order.
CalmInv == JournalInv /\ (Calm => Orderly)

\* The initial states.
LEMMA CalmStarts == JournalInit => CalmInv
<1> SUFFICES ASSUME JournalInit PROVE CalmInv OBVIOUS
<1>1. journal = <<>> /\ memory = <<>> /\ head = 0 /\ ~ detached /\ pc = "idle" /\ settling = <<>>
  BY DEF JournalInit
<1>2. JournalInv BY JournalStarts
<1>3. Context(journal, 0) = <<>>
  <2>1. Rows(journal, 0) = <<>> BY <1>2, RowsOfNone DEF JournalInv, JournalType
  <2> QED BY <2>1 DEF Context, Messages
<1>4. Tidy(journal, scene.calls, made)
  <2>1. \A e \in 0 .. Len(journal) : e = 0 BY <1>1
  <2> QED BY <1>3, <2>1, NoneIsNeat DEF Tidy
<1>5. InOrder BY <1>1, <1>4, NoneIsNeat DEF InOrder
<1> QED
  BY <1>2, <1>5, <1>1, <1>3 DEF CalmInv, Orderly, Complete, Replied, Executing, OnDisk,
     OneCompaction

\* Nothing happens.
LEMMA CalmStays == JournalInv /\ Orderly /\ UNCHANGED journalVars => Orderly'
<1> SUFFICES ASSUME Orderly, UNCHANGED journalVars PROVE Orderly' OBVIOUS
<1>1. InOrder' /\ Complete' /\ Replied' /\ Executing' /\ OnDisk' /\ OneCompaction'
  BY DEF Orderly, InOrder, Complete, Replied, Executing, OnDisk, OneCompaction, journalVars, run
<1> QED BY <1>1 DEF Orderly

\* Every step.
LEMMA CalmSteps == CalmInv /\ [JournalNext]_journalVars => CalmInv'
<1> SUFFICES ASSUME CalmInv, [JournalNext]_journalVars PROVE CalmInv' OBVIOUS
<1>1. JournalInv /\ (Calm => Orderly) /\ JournalInv' BY JournalSteps DEF CalmInv
<1>2. scene' = scene BY DEF JournalNext, journalVars
<1>3. ASSUME Calm PROVE Orderly'
  <2>1. Orderly /\ ~ Cancel /\ ~ Raise /\ ~ TerminalOutput
    BY <1>1, <1>3 DEF Calm, Cancel, Raise, TerminalOutput
  <2>2. CASE UNCHANGED journalVars BY <1>1, <2>1, <2>2, CalmStays
  <2>3. CASE Prompt \/ Continue \/ Run
    BY <1>1, <1>2, <1>3, <2>1, <2>3, PromptOrders, ContinueOrders, OpenOrders, InjectOrders,
       AnswerOrders, TakeAnswerOrders, ShowResultOrders, StoreResultOrders, EndRunOrders DEF Run
  <2>4. CASE StartCompaction \/ FinishCompaction \/ AbandonCompaction \/ Branch
    BY <1>1, <1>2, <1>3, <2>1, <2>4, StartCompactionOrders, FinishCompactionOrders,
       AbandonCompactionOrders, BranchOrders
  <2>5. CASE Crash \/ Load \/ CrashInLoad
    BY <1>1, <1>2, <1>3, <2>1, <2>5, CrashOrders, LoadOrders, CrashInLoadOrders
  <2> QED BY <2>1, <2>2, <2>3, <2>4, <2>5 DEF JournalNext
<1>4. Calm' => Calm BY <1>2 DEF Calm
<1> QED BY <1>1, <1>3, <1>4 DEF CalmInv

\* Every call of a provider is made with results directly behind their calls: a run starts on the
\* transcript that _append_interrupted_tool_results has repaired, a compaction replaces a beginning
\* and keeps no result without its call, a branch and a restart go to a context of the journal, and
\* load repairs in place what a crash, or a reply that failed, has left open.
THEOREM ProvidersGetClosed == Spec => []ClosedBeforeProvider
<1>1. Init => CalmInv BY CalmStarts DEF Init
<1>2. CalmInv /\ [Next]_vars => CalmInv' BY CalmSteps DEF Next, vars, journalVars
<1>3. CalmInv => ClosedBeforeProvider
  <2> SUFFICES ASSUME JournalInv, Calm => Orderly, pc = "provider", Calm
               PROVE  Closed(LoopList)
    BY DEF CalmInv, ClosedBeforeProvider
  <2>1. Orderly OBVIOUS
  <2> QED
    BY <2>1, CallsType, NeatIsClosed DEF JournalInv, JournalType, Orderly, InOrder, Complete,
       LoopList
<1> QED BY <1>1, <1>2, <1>3, PTL DEF Spec
=============================================================================
