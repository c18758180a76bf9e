---------------------- MODULE LoopAndExtensionsProofs ----------------------
(***************************************************************************)
(* Theorems about AgentLoop and about Extensions.                          *)
(*                                                                         *)
(* AgentLoop, for every value of the constants.                            *)
(*                                                                         *)
(* The repair of a transcript (_append_interrupted_tool_results) is        *)
(* defined by ranking the unanswered calls, so what it does is proved from *)
(* facts about cardinalities: RankCovers says that the ranks of a finite   *)
(* set of places are 1, 2, ..., and RepairCloses that a repaired           *)
(* transcript has a result for every call.                                 *)
(*                                                                         *)
(* Each theorem has its own strengthening of the property: Cursor (there   *)
(* is a result left to hand over), History (which transcripts a pc can be  *)
(* reached with), Budget (turns used at a pc), PendingPlace (where drained *)
(* messages can wait), and, for the order of a transcript, Lines (each     *)
(* queue is handed over from its front), Waits (a follow-up comes after    *)
(* an answer) and Shape (results stand behind their assistant message).    *)
(*                                                                         *)
(* Extensions, for any number of places and keys and any bounds.           *)
(*                                                                         *)
(* NoDuplicateIds counts widgets; Lined says which one it is: until a      *)
(* widget crashes, a place of the document holds at most what is taken for *)
(* mounted there, and the removal that is awaited is of that very widget.  *)
(* HooksDecide speaks of every handler in order; WalkInOrder says how far  *)
(* a walk is, in the list it walks over and in what it owed at its start.  *)
(*                                                                         *)
(* OnlyCurrent speaks of events told in turn; InTurn says, for each stage  *)
(* of the flow that is under way, which extensions were told already.      *)
(***************************************************************************)
EXTENDS AgentLoop, Extensions, SequenceLemmas, FiniteSetTheorems, SequenceTheorems, TLAPS

------------------------------------------------------------------------------
(* Ranking places *)

\* Source order of calls is a strict total order.
LEMMA BeforeOrder ==
  /\ \A x \in Nat \X Nat : ~Before(x, x)
  /\ \A x, y \in Nat \X Nat : x # y => Before(x, y) \/ Before(y, x)
  /\ \A x, y, z \in Nat \X Nat : Before(x, y) /\ Before(y, z) => Before(x, z)
<1>1. \A x, y \in Nat \X Nat :
        /\ x[1] \in Nat /\ x[2] \in Nat /\ y[1] \in Nat /\ y[2] \in Nat
        /\ x # y => x[1] # y[1] \/ x[2] # y[2]
  OBVIOUS
<1> QED
  BY <1>1 DEF Before

\* The k-th element of a finite set of places exists for every k up to its size,
\* and every element is the k-th for one of them.
LEMMA RankCovers ==
  ASSUME NEW S \in SUBSET (Nat \X Nat), IsFiniteSet(S)
  PROVE  /\ Cardinality(S) \in Nat
         /\ \A k \in 1 .. Cardinality(S) :
              /\ Nth(S, k) \in S
              /\ Cardinality({y \in S : Before(y, Nth(S, k))}) = k - 1
         /\ \A x \in S : \E k \in 1 .. Cardinality(S) : Nth(S, k) = x
<1> DEFINE n == Cardinality(S)
           below(x) == {y \in S : Before(y, x)}
           size == [x \in S |-> Cardinality(below(x))]
<1>1. n \in Nat
  BY FS_CardinalityType
<1>2. ASSUME NEW x \in S
      PROVE  IsFiniteSet(below(x)) /\ Cardinality(below(x)) \in Nat /\ Cardinality(below(x)) < n
  <2>1. below(x) \in SUBSET S /\ x \notin below(x)
    BY BeforeOrder
  <2> HIDE DEF below
  <2>2. /\ IsFiniteSet(below(x)) /\ Cardinality(below(x)) <= n
        /\ n = Cardinality(below(x)) => S = below(x)
    BY <2>1, FS_Subset
  <2>3. Cardinality(below(x)) \in Nat
    BY <2>2, FS_CardinalityType
  <2>4. Cardinality(below(x)) # n
    BY <1>2, <2>1, <2>2
  <2> HIDE DEF n
  <2> QED
    BY <1>1, <2>2, <2>3, <2>4
<1>3. ASSUME NEW x \in S, NEW y \in S, Before(x, y)
      PROVE  Cardinality(below(x)) < Cardinality(below(y))
  <2>1. below(x) \in SUBSET below(y)
    BY <1>3, BeforeOrder
  <2>2. x \in below(y) /\ x \notin below(x)
    BY <1>3, BeforeOrder
  <2> HIDE DEF below
  <2>3. IsFiniteSet(below(y)) /\ Cardinality(below(x)) \in Nat /\ Cardinality(below(y)) \in Nat
    BY <1>2
  <2>4. /\ Cardinality(below(x)) <= Cardinality(below(y))
        /\ Cardinality(below(y)) = Cardinality(below(x)) => below(y) = below(x)
    BY <2>1, <2>3, FS_Subset
  <2>5. Cardinality(below(x)) # Cardinality(below(y))
    BY <2>2, <2>4
  <2> QED
    BY <2>3, <2>4, <2>5
<1>4. \A x \in S : size[x] \in Nat /\ size[x] < n
  BY <1>2
<1>5. \A x, y \in S : Before(x, y) => size[x] < size[y]
  BY <1>3
<1>6. \A x \in S : size[x] = Cardinality({y \in S : Before(y, x)})
  OBVIOUS
<1> DEFINE rank == [x \in S |-> size[x] + 1]
<1> HIDE DEF n, below, size
<1>7. rank \in [S -> 1 .. n]
  BY <1>1, <1>4
<1>8. \A x, y \in S : size[x] = size[y] => x = y
  BY <1>4, <1>5, BeforeOrder
<1>9. rank \in Injection(S, 1 .. n)
  <2>1. \A x, y \in S : rank[x] = rank[y] => x = y
    BY <1>4, <1>8
  <2> QED
    BY <1>7, <2>1 DEF Injection, IsInjective
<1>10. IsFiniteSet(1 .. n) /\ Cardinality(1 .. n) = n
  BY <1>1, FS_Interval
<1>11. rank \in Surjection(S, 1 .. n)
  BY <1>9, <1>10, FS_Injection DEF n
<1>12. \A k \in 1 .. n : \E x \in S : size[x] = k - 1
  <2> SUFFICES ASSUME NEW k \in 1 .. n PROVE \E x \in S : size[x] = k - 1
    OBVIOUS
  <2>1. PICK x \in S : rank[x] = k
    BY <1>11 DEF Surjection
  <2> QED
    BY <1>1, <1>4, <2>1
<1>13. \A k : Nth(S, k) = CHOOSE x \in S : size[x] = k - 1
  <2> SUFFICES ASSUME NEW k PROVE Nth(S, k) = CHOOSE x \in S : size[x] = k - 1
    OBVIOUS
  <2>1. \A x : (x \in S /\ Cardinality({y \in S : Before(y, x)}) = k - 1)
                 <=> (x \in S /\ size[x] = k - 1)
    BY <1>6
  <2> QED
    BY <2>1 DEF Nth
<1>14. ASSUME NEW k \in 1 .. n PROVE Nth(S, k) \in S /\ size[Nth(S, k)] = k - 1
  <2>1. PICK x \in S : size[x] = k - 1
    BY <1>12
  <2> QED
    BY <1>13, <2>1
<1>15. ASSUME NEW x \in S PROVE \E k \in 1 .. n : Nth(S, k) = x
  <2>1. size[x] + 1 \in 1 .. n
    BY <1>1, <1>4
  <2>2. Nth(S, size[x] + 1) \in S /\ size[Nth(S, size[x] + 1)] = (size[x] + 1) - 1
    BY <1>14, <2>1
  <2>3. size[Nth(S, size[x] + 1)] = size[x]
    BY <1>4, <2>2
  <2>4. Nth(S, size[x] + 1) = x
    BY <1>8, <2>2, <2>3
  <2> QED
    BY <2>1, <2>4
<1> QED
  BY <1>1, <1>6, <1>14, <1>15 DEF n

------------------------------------------------------------------------------
(* Transcripts *)

\* The places of the calls of a transcript are a finite set of pairs.
LEMMA CallPlacesFinite ==
  ASSUME NEW t \in Seq(Message)
  PROVE  /\ CallPlaces(t) \in SUBSET (Nat \X Nat)
         /\ IsFiniteSet(CallPlaces(t))
         /\ \A x \in CallPlaces(t) :
              /\ x[1] \in 1 .. Len(t)
              /\ t[x[1]] \in AssistantMessage
              /\ x[2] \in DOMAIN t[x[1]].calls
              /\ CallAt(t, x) \in CallId
<1> USE BoundAssumption
<1>1. ASSUME NEW p \in PlacesOf(t, "assistant")
      PROVE  /\ p \in 1 .. Len(t) /\ t[p] \in AssistantMessage
             /\ DOMAIN t[p].calls \in SUBSET (1 .. MaxCalls)
             /\ \A j \in DOMAIN t[p].calls : t[p].calls[j] \in CallId
  <2>1. p \in 1 .. Len(t) /\ t[p] \in Message /\ t[p].role = "assistant"
    BY DEF PlacesOf
  <2>2. t[p] \in AssistantMessage
    BY <2>1 DEF Message, UserMessage, ToolResult
  <2>3. PICK n \in 0 .. MaxCalls : t[p].calls \in [1 .. n -> CallId]
    BY <2>2 DEF AssistantMessage, CallList
  <2> QED
    BY <2>1, <2>2, <2>3
<1>2. ASSUME NEW x \in CallPlaces(t)
      PROVE  /\ x \in (1 .. Len(t)) \X (1 .. MaxCalls)
             /\ x[1] \in PlacesOf(t, "assistant")
             /\ x[2] \in DOMAIN t[x[1]].calls
  <2>1. PICK p \in PlacesOf(t, "assistant") : x \in {p} \X DOMAIN t[p].calls
    BY DEF CallPlaces
  <2> QED
    BY <1>1, <2>1
<1>3. CallPlaces(t) \in SUBSET ((1 .. Len(t)) \X (1 .. MaxCalls))
  BY <1>2
<1>4. Len(t) \in Nat
  OBVIOUS
<1>5. IsFiniteSet(1 .. Len(t)) /\ IsFiniteSet(1 .. MaxCalls)
  BY <1>4, FS_Interval
<1>6. IsFiniteSet((1 .. Len(t)) \X (1 .. MaxCalls))
  BY <1>5, FS_Product
<1>7. IsFiniteSet(CallPlaces(t))
  BY <1>3, <1>6, FS_Subset
<1>8. CallPlaces(t) \in SUBSET (Nat \X Nat)
  BY <1>3
<1> QED
  BY <1>1, <1>2, <1>7, <1>8 DEF CallAt

------------------------------------------------------------------------------
(* What the transcript says of its calls *)

\* The result of the call at place x is in the transcript, after the call.
Answers(t, x) == \E q \in x[1] + 1 .. Len(t) : t[q] = Result(CallAt(t, x))

Distinct(t) == \A x, y \in CallPlaces(t) : CallAt(t, x) = CallAt(t, y) => x = y

ResultsFollow(t) ==
  \A x \in CallPlaces(t), q \in PlacesOf(t, "result") :
    t[q].call = CallAt(t, x) => x[1] < q

\* The calls of reply n + 1 have not been seen yet.
Known(t, n) ==
  /\ \A x \in CallPlaces(t) : CallAt(t, x).reply <= n
  /\ \A q \in PlacesOf(t, "result") : t[q].call.reply <= n

Sound(t, n) == Distinct(t) /\ ResultsFollow(t) /\ Known(t, n)

\* The answer a is in the transcript, its first n calls have their results, and
\* so have all calls of other answers.
Waiting(t, a, n) ==
  \E p \in PlacesOf(t, "assistant") :
    /\ t[p] = a
    /\ \A x \in CallPlaces(t) : x[1] # p \/ x[2] <= n => Answers(t, x)

\* A message that is not an answer with tool calls.
Quiet(m) == m.role = "assistant" => m.calls = <<>>

\* The role of a message says which kind of record it is.
LEMMA Roles ==
  /\ \A m \in Message : m.role = "assistant" => m \in AssistantMessage
  /\ \A m \in Message : m.role = "result" => m \in ToolResult
  /\ \A m \in UserMessage : m.role = "user"
  /\ \A m \in AssistantMessage : m.role = "assistant"
  /\ \A m \in ToolResult : m.role = "result"
BY DEF Message, UserMessage, AssistantMessage, ToolResult

\* The calls of a reply are a sequence of call ids.
LEMMA CallListTypes ==
  ASSUME NEW c \in CallList
  PROVE  /\ Len(c) \in 0 .. MaxCalls
         /\ DOMAIN c = 1 .. Len(c)
         /\ \A j \in 1 .. Len(c) : c[j] \in CallId
<1>1. PICK n \in 0 .. MaxCalls : c \in [1 .. n -> CallId]
  BY DEF CallList
<1>2. n \in Nat
  BY BoundAssumption
<1>3. c \in Seq(CallId) /\ Len(c) = n
  BY <1>1, <1>2
<1> QED
  BY <1>1, <1>3

\* A reply is a message.
LEMMA ReplyTypes ==
  ASSUME NEW a \in AssistantMessage
  PROVE  a \in Message /\ a.calls \in CallList
BY DEF AssistantMessage, Message

\* Messages without calls leave the calls, and their results, where they are.
LEMMA ExtendQuiet ==
  ASSUME NEW t \in Seq(Message), NEW s \in Seq(Message),
         \A i \in 1 .. Len(s) : Quiet(s[i])
  PROVE  /\ t \o s \in Seq(Message)
         /\ CallPlaces(t \o s) = CallPlaces(t)
         /\ \A x \in CallPlaces(t) : CallAt(t \o s, x) = CallAt(t, x)
         /\ \A x \in CallPlaces(t) : Answers(t, x) => Answers(t \o s, x)
         /\ \A q \in PlacesOf(t \o s, "result") :
              \/ q \in PlacesOf(t, "result") /\ (t \o s)[q] = t[q]
              \/ \E i \in 1 .. Len(s) :
                   q = Len(t) + i /\ (t \o s)[q] = s[i] /\ s[i].role = "result"
<1> DEFINE u == t \o s
<1>1. /\ u \in Seq(Message) /\ Len(u) = Len(t) + Len(s)
      /\ Len(t) \in Nat /\ Len(s) \in Nat
      /\ \A i \in 1 .. Len(t) : u[i] = t[i]
      /\ \A i \in 1 .. Len(s) : u[Len(t) + i] = s[i]
      /\ DOMAIN u = 1 .. Len(u) /\ DOMAIN t = 1 .. Len(t)
  BY ConcatProperties
<1> HIDE DEF u
<1>2. \A q \in DOMAIN u :
        q \in 1 .. Len(t) \/ \E i \in 1 .. Len(s) : q = Len(t) + i
  <2> SUFFICES ASSUME NEW q \in DOMAIN u, q \notin 1 .. Len(t)
               PROVE  \E i \in 1 .. Len(s) : q = Len(t) + i
    OBVIOUS
  <2>1. q - Len(t) \in 1 .. Len(s) /\ q = Len(t) + (q - Len(t))
    BY <1>1
  <2> QED
    BY <2>1
<1>3. CallPlaces(u) \in SUBSET CallPlaces(t)
  <2> SUFFICES ASSUME NEW x \in CallPlaces(u) PROVE x \in CallPlaces(t)
    OBVIOUS
  <2>1. PICK p \in PlacesOf(u, "assistant") : x \in {p} \X DOMAIN u[p].calls
    BY DEF CallPlaces
  <2>2. p \in DOMAIN u /\ u[p].role = "assistant" /\ u[p].calls # <<>>
    BY <2>1 DEF PlacesOf
  <2>3. p \in 1 .. Len(t)
    BY <1>1, <1>2, <2>2, ZenonT(30) DEF Quiet
  <2>4. p \in PlacesOf(t, "assistant") /\ u[p] = t[p]
    BY <1>1, <2>2, <2>3 DEF PlacesOf
  <2> QED
    BY <2>1, <2>4 DEF CallPlaces
<1>4. CallPlaces(t) \in SUBSET CallPlaces(u)
  <2> SUFFICES ASSUME NEW x \in CallPlaces(t) PROVE x \in CallPlaces(u)
    OBVIOUS
  <2>1. PICK p \in PlacesOf(t, "assistant") : x \in {p} \X DOMAIN t[p].calls
    BY DEF CallPlaces
  <2>2. p \in PlacesOf(u, "assistant") /\ u[p] = t[p]
    BY <1>1, <2>1 DEF PlacesOf
  <2> QED
    BY <2>1, <2>2 DEF CallPlaces
<1>5. \A x \in CallPlaces(t) : x[1] \in 1 .. Len(t) /\ u[x[1]] = t[x[1]]
  BY <1>1, CallPlacesFinite
<1>6. \A x \in CallPlaces(t) : CallAt(u, x) = CallAt(t, x)
  BY <1>5 DEF CallAt
<1>7. \A x \in CallPlaces(t) : Answers(t, x) => Answers(u, x)
  <2> SUFFICES ASSUME NEW x \in CallPlaces(t), NEW q \in x[1] + 1 .. Len(t),
                      t[q] = Result(CallAt(t, x))
               PROVE  \E r \in x[1] + 1 .. Len(u) : u[r] = Result(CallAt(u, x))
    BY DEF Answers
  <2>1. q \in x[1] + 1 .. Len(u) /\ u[q] = t[q]
    BY <1>1, <1>5
  <2> QED
    BY <1>6, <2>1
<1>8. \A q \in PlacesOf(u, "result") :
        \/ q \in PlacesOf(t, "result") /\ u[q] = t[q]
        \/ \E i \in 1 .. Len(s) :
             q = Len(t) + i /\ u[q] = s[i] /\ s[i].role = "result"
  BY <1>1, <1>2, ZenonT(30) DEF PlacesOf
<1> QED
  BY <1>1, <1>3, <1>4, <1>6, <1>7, <1>8 DEF u

\* Messages without calls keep a transcript sound when the results among them
\* are of calls that are already there.
LEMMA QuietKeepsSound ==
  ASSUME NEW t \in Seq(Message), NEW s \in Seq(Message), NEW n, Sound(t, n),
         \A i \in 1 .. Len(s) :
           /\ Quiet(s[i])
           /\ s[i].role = "result" => \E x \in CallPlaces(t) : s[i].call = CallAt(t, x)
  PROVE  Sound(t \o s, n)
<1> DEFINE u == t \o s
<1>1. /\ CallPlaces(u) = CallPlaces(t)
      /\ \A x \in CallPlaces(t) : CallAt(u, x) = CallAt(t, x)
      /\ \A q \in PlacesOf(u, "result") :
           \/ q \in PlacesOf(t, "result") /\ u[q] = t[q]
           \/ \E i \in 1 .. Len(s) : q = Len(t) + i /\ u[q] = s[i] /\ s[i].role = "result"
  BY ExtendQuiet
<1> HIDE DEF u
<1>2. Distinct(u)
  BY <1>1 DEF Sound, Distinct
<1>3. ResultsFollow(u)
  <2> SUFFICES ASSUME NEW x \in CallPlaces(t), NEW q \in PlacesOf(u, "result"),
                      u[q].call = CallAt(t, x)
               PROVE  x[1] < q
    BY <1>1 DEF ResultsFollow
  <2>1. CASE q \in PlacesOf(t, "result") /\ u[q] = t[q]
    BY <2>1 DEF Sound, ResultsFollow
  <2>2. CASE \E i \in 1 .. Len(s) : q = Len(t) + i
    BY <2>2, CallPlacesFinite
  <2> QED
    BY <1>1, <2>1, <2>2
<1>4. Known(u, n)
  <2>1. ASSUME NEW q \in PlacesOf(u, "result") PROVE u[q].call.reply <= n
    <3>1. CASE q \in PlacesOf(t, "result") /\ u[q] = t[q]
      BY <3>1 DEF Sound, Known
    <3>2. CASE \E i \in 1 .. Len(s) : u[q] = s[i] /\ s[i].role = "result"
      BY <3>2 DEF Sound, Known
    <3> QED
      BY <1>1, <3>1, <3>2
  <2> QED
    BY <1>1, <2>1 DEF Sound, Known
<1> QED
  BY <1>2, <1>3, <1>4 DEF u, Sound

\* The places of the repair: unanswered calls, the first of each id.
LEMMA UnansweredFinite ==
  ASSUME NEW t \in Seq(Message)
  PROVE  /\ Unanswered(t) \in SUBSET CallPlaces(t)
         /\ Unanswered(t) \in SUBSET (Nat \X Nat)
         /\ IsFiniteSet(Unanswered(t))
<1>1. Unanswered(t) \in SUBSET CallPlaces(t)
  BY DEF Unanswered
<1> QED
  BY <1>1, CallPlacesFinite, FS_Subset

\* _append_interrupted_tool_results adds results of calls that are there ...
LEMMA RepairType ==
  ASSUME NEW t \in Seq(Message)
  PROVE  \E s \in Seq(Message) :
           /\ Repaired(t) = t \o s
           /\ Len(s) = Cardinality(Unanswered(t))
           /\ \A k \in 1 .. Len(s) :
                /\ Quiet(s[k])
                /\ Nth(Unanswered(t), k) \in CallPlaces(t)
                /\ s[k] = Result(CallAt(t, Nth(Unanswered(t), k)))
<1> DEFINE open == Unanswered(t)
           n == Cardinality(open)
           s == [k \in 1 .. n |-> Result(CallAt(t, Nth(open, k)))]
<1>1. n \in Nat /\ \A k \in 1 .. n : Nth(open, k) \in CallPlaces(t)
  BY UnansweredFinite, RankCovers
<1>2. Repaired(t) = t \o s
  BY DEF Repaired
<1> HIDE DEF open, n
<1>3. \A k \in 1 .. n : s[k] \in Message /\ Quiet(s[k])
  <2> SUFFICES ASSUME NEW k \in 1 .. n PROVE s[k] \in Message /\ Quiet(s[k])
    OBVIOUS
  <2>1. CallAt(t, Nth(open, k)) \in CallId
    BY <1>1, CallPlacesFinite
  <2> QED
    BY <2>1 DEF Result, Message, ToolResult, Quiet
<1>4. s \in Seq(Message) /\ Len(s) = n
  BY <1>1, <1>3
<1> QED
  BY <1>1, <1>2, <1>3, <1>4 DEF open, n

\* A repaired transcript is a transcript.
LEMMA RepairedType ==
  ASSUME NEW t \in Seq(Message) PROVE Repaired(t) \in Seq(Message)
<1>1. PICK s \in Seq(Message) : Repaired(t) = t \o s
  BY RepairType
<1> QED
  BY <1>1, ConcatProperties

\* ... and leaves no call of a sound transcript without one.
LEMMA RepairCloses ==
  ASSUME NEW t \in Seq(Message), NEW n, Sound(t, n)
  PROVE  /\ Repaired(t) \in Seq(Message)
         /\ Sound(Repaired(t), n)
         /\ AllAnswered(Repaired(t))
<1>1. PICK s \in Seq(Message) :
        /\ Repaired(t) = t \o s
        /\ Len(s) = Cardinality(Unanswered(t))
        /\ \A k \in 1 .. Len(s) :
             /\ Quiet(s[k])
             /\ Nth(Unanswered(t), k) \in CallPlaces(t)
             /\ s[k] = Result(CallAt(t, Nth(Unanswered(t), k)))
  BY RepairType
<1> DEFINE u == t \o s
<1>2. /\ u \in Seq(Message)
      /\ CallPlaces(u) = CallPlaces(t)
      /\ \A x \in CallPlaces(t) : CallAt(u, x) = CallAt(t, x)
      /\ \A x \in CallPlaces(t) : Answers(t, x) => Answers(u, x)
  BY <1>1, ExtendQuiet
<1>3. Sound(u, n)
  <2>1. \A k \in 1 .. Len(s) : \E x \in CallPlaces(t) : s[k].call = CallAt(t, x)
    BY <1>1 DEF Result
  <2> QED
    BY <1>1, <2>1, QuietKeepsSound
<1>4. ASSUME NEW x \in CallPlaces(t) PROVE Answers(u, x)
  <2>1. CASE CallAt(t, x) \in Returned(t)
    <3>1. PICK q \in PlacesOf(t, "result") : t[q].call = CallAt(t, x)
      BY <2>1 DEF Returned
    <3>2. x[1] < q /\ q \in 1 .. Len(t) /\ x[1] \in 1 .. Len(t)
      BY <3>1, CallPlacesFinite DEF Sound, ResultsFollow, PlacesOf
    <3>3. t[q] = Result(CallAt(t, x))
      BY <3>1, <3>2, Roles DEF PlacesOf, ToolResult, Result
    <3> QED
      BY <1>2, <3>2, <3>3 DEF Answers
  <2>2. CASE CallAt(t, x) \notin Returned(t)
    <3>1. ~Before(x, x)
      BY CallPlacesFinite, BeforeOrder
    <3>2. x \in Unanswered(t)
      BY <2>2, <3>1 DEF Unanswered, Sound, Distinct
    <3>3. PICK k \in 1 .. Len(s) : Nth(Unanswered(t), k) = x
      BY <1>1, <3>2, UnansweredFinite, RankCovers
    <3>4. u[Len(t) + k] = s[k] /\ Len(t) + k \in x[1] + 1 .. Len(u)
      BY ConcatProperties, CallPlacesFinite, SMTT(30)
    <3> QED
      BY <1>1, <1>2, <3>3, <3>4 DEF Answers
  <2> QED
    BY <2>1, <2>2
<1>5. AllAnswered(u)
  BY <1>2, <1>4 DEF AllAnswered, Answers
<1> QED
  BY <1>1, <1>2, <1>3, <1>5

\* One more message without calls, and without a result.
LEMMA AppendQuiet ==
  ASSUME NEW t \in Seq(Message), NEW m \in Message, NEW n, Sound(t, n),
         Quiet(m), m.role # "result"
  PROVE  /\ Append(t, m) \in Seq(Message)
         /\ Sound(Append(t, m), n)
         /\ AllAnswered(t) => AllAnswered(Append(t, m))
         /\ \A a, k : Waiting(t, a, k) => Waiting(Append(t, m), a, k)
<1>1. <<m>> \in Seq(Message) /\ Len(<<m>>) = 1 /\ <<m>>[1] = m
  OBVIOUS
<1>2. Append(t, m) = t \o <<m>>
  OBVIOUS
<1> DEFINE s == <<m>>
<1>3. s \in Seq(Message) /\ \A i \in 1 .. Len(s) : Quiet(s[i]) /\ s[i].role # "result"
  BY <1>1
<1> HIDE DEF s
<1>4. t \o s \in Seq(Message) /\ Sound(t \o s, n)
  BY <1>3, QuietKeepsSound
<1>5. /\ CallPlaces(t \o s) = CallPlaces(t)
      /\ \A x \in CallPlaces(t) : Answers(t, x) => Answers(t \o s, x)
  BY <1>3, ExtendQuiet
<1>6. AllAnswered(t) => AllAnswered(t \o s)
  BY <1>5 DEF AllAnswered, Answers
<1>7. Append(t, m) = t \o s
  BY <1>2 DEF s
<1>8. \A p \in PlacesOf(t, "assistant") : p \in PlacesOf(t \o s, "assistant") /\ (t \o s)[p] = t[p]
  BY <1>3, ConcatProperties DEF PlacesOf
<1>9. \A a, k : Waiting(t, a, k) => Waiting(t \o s, a, k)
  BY <1>5, <1>8 DEF Waiting
<1> QED
  BY <1>4, <1>6, <1>7, <1>9

\* An answer whose calls are new, at the end of the transcript.
LEMMA AppendReply ==
  ASSUME NEW t \in Seq(Message), NEW n \in Nat, Sound(t, n),
         NEW a \in AssistantMessage,
         \A j \in DOMAIN a.calls : a.calls[j] = [reply |-> n + 1, index |-> j]
  PROVE  LET u == Append(t, a)
         IN  /\ u \in Seq(Message)
             /\ Sound(u, n + 1)
             /\ AllAnswered(t) => Waiting(u, a, 0)
             /\ AllAnswered(t) /\ a.calls = <<>> => AllAnswered(u)
<1> DEFINE u == Append(t, a)
           new == Len(t) + 1
<1>1. /\ u \in Seq(Message) /\ Len(u) = new /\ Len(t) \in Nat
      /\ u[new] = a /\ \A p \in 1 .. Len(t) : u[p] = t[p]
  BY DEF Message
<1> HIDE DEF u
<1>2. a.role = "assistant"
  BY Roles
<1>3. new \in PlacesOf(u, "assistant")
  BY <1>1, <1>2 DEF PlacesOf
<1>4. PlacesOf(u, "result") = PlacesOf(t, "result")
  BY <1>1, <1>2 DEF PlacesOf
<1>5. \A x \in CallPlaces(u) :
        \/ x \in CallPlaces(t) /\ x[1] \in 1 .. Len(t) /\ CallAt(u, x) = CallAt(t, x)
        \/ x = <<new, x[2]>> /\ x[2] \in DOMAIN a.calls
             /\ CallAt(u, x) = [reply |-> n + 1, index |-> x[2]]
  <2> SUFFICES ASSUME NEW x \in CallPlaces(u), ~(x = <<new, x[2]>> /\ x[2] \in DOMAIN a.calls
                             /\ CallAt(u, x) = [reply |-> n + 1, index |-> x[2]])
               PROVE  x \in CallPlaces(t) /\ x[1] \in 1 .. Len(t) /\ CallAt(u, x) = CallAt(t, x)
    OBVIOUS
  <2>1. PICK p \in PlacesOf(u, "assistant") : x \in {p} \X DOMAIN u[p].calls
    BY DEF CallPlaces
  <2>2. p # new
    BY <1>1, <2>1 DEF CallAt
  <2>3. p \in 1 .. Len(t) /\ u[p] = t[p] /\ p \in PlacesOf(t, "assistant")
    BY <1>1, <2>1, <2>2 DEF PlacesOf
  <2> QED
    BY <2>1, <2>3 DEF CallPlaces, CallAt
<1>6. \A x \in CallPlaces(t) : CallAt(t, x).reply # n + 1
  <2> SUFFICES ASSUME NEW x \in CallPlaces(t) PROVE CallAt(t, x).reply # n + 1
    OBVIOUS
  <2>1. CallAt(t, x) \in CallId /\ CallAt(t, x).reply <= n
    BY CallPlacesFinite DEF Sound, Known
  <2>2. CallAt(t, x).reply \in Int
    BY <2>1, BoundAssumption DEF CallId
  <2> QED
    BY <2>1, <2>2
<1>7. Distinct(u)
  <2> SUFFICES ASSUME NEW x \in CallPlaces(u), NEW y \in CallPlaces(u),
                      CallAt(u, x) = CallAt(u, y)
               PROVE  x = y
    BY DEF Distinct
  <2>1. \A z \in CallPlaces(u) :
          \/ /\ z \in CallPlaces(t) /\ CallAt(u, z) = CallAt(t, z)
             /\ CallAt(u, z).reply # n + 1
          \/ /\ z = <<new, z[2]>>
             /\ CallAt(u, z).reply = n + 1 /\ CallAt(u, z).index = z[2]
    BY <1>5, <1>6
  <2>2. CASE CallAt(u, x).reply # n + 1
    BY <2>1, <2>2 DEF Sound, Distinct
  <2>3. CASE CallAt(u, x).reply = n + 1
    <3>1. /\ x = <<new, x[2]>> /\ CallAt(u, x).index = x[2]
          /\ y = <<new, y[2]>> /\ CallAt(u, y).index = y[2]
      BY <2>1, <2>3
    <3>2. x[2] = y[2]
      BY <3>1
    <3> QED
      BY <3>1, <3>2
  <2> QED
    BY <2>2, <2>3
<1>8. \A q \in PlacesOf(t, "result") :
        /\ q \in 1 .. Len(t) /\ u[q] = t[q] /\ t[q].call.reply \in Int
        /\ t[q].call.reply <= n
  <2> SUFFICES ASSUME NEW q \in PlacesOf(t, "result")
               PROVE  q \in 1 .. Len(t) /\ u[q] = t[q] /\ t[q].call.reply \in Int
    BY DEF Sound, Known
  <2>1. q \in 1 .. Len(t) /\ t[q].role = "result"
    BY DEF PlacesOf
  <2>2. t[q].call \in CallId
    BY <2>1, Roles DEF ToolResult
  <2> QED
    BY <1>1, <2>1, <2>2, BoundAssumption DEF CallId
<1>9. ResultsFollow(u)
  <2> SUFFICES ASSUME NEW x \in CallPlaces(u), NEW q \in PlacesOf(t, "result"),
                      u[q].call = CallAt(u, x)
               PROVE  x[1] < q
    BY <1>4 DEF ResultsFollow
  <2>1. CallAt(u, x) # [reply |-> n + 1, index |-> x[2]]
    BY <1>8
  <2>2. x \in CallPlaces(t) /\ CallAt(u, x) = CallAt(t, x)
    BY <1>5, <2>1
  <2> QED
    BY <1>8, <2>2 DEF Sound, ResultsFollow
<1>10. Known(u, n + 1)
  <2>1. ASSUME NEW x \in CallPlaces(u) PROVE CallAt(u, x).reply <= n + 1
    <3>1. CASE x \in CallPlaces(t) /\ CallAt(u, x) = CallAt(t, x)
      <4>1. CallAt(t, x) \in CallId /\ CallAt(t, x).reply <= n
        BY <3>1, CallPlacesFinite DEF Sound, Known
      <4>2. CallAt(t, x).reply \in Int
        BY <4>1, BoundAssumption DEF CallId
      <4> QED
        BY <3>1, <4>1, <4>2
    <3>2. CASE CallAt(u, x) = [reply |-> n + 1, index |-> x[2]]
      BY <3>2
    <3> QED
      BY <1>5, <3>1, <3>2
  <2>2. ASSUME NEW q \in PlacesOf(u, "result") PROVE u[q].call.reply <= n + 1
    BY <1>4, <1>8
  <2> QED
    BY <2>1, <2>2 DEF Known
<1>11. ASSUME AllAnswered(t), NEW x \in CallPlaces(u), x[1] # new PROVE Answers(u, x)
  <2>1. x \in CallPlaces(t) /\ CallAt(u, x) = CallAt(t, x) /\ x[1] \in 1 .. Len(t)
    BY <1>5, <1>11
  <2>2. PICK q \in x[1] + 1 .. Len(t) : t[q] = Result(CallAt(t, x))
    BY <1>11, <2>1 DEF AllAnswered
  <2>3. q \in x[1] + 1 .. Len(u) /\ u[q] = t[q]
    BY <1>1, <2>1, <2>2
  <2> QED
    BY <2>1, <2>2, <2>3 DEF Answers
<1>12. ASSUME AllAnswered(t) PROVE Waiting(u, a, 0)
  <2>1. \A x \in CallPlaces(u) : x[1] # new \/ x[2] <= 0 => Answers(u, x)
    BY <1>1, <1>11, <1>12, CallPlacesFinite, CallListTypes, ReplyTypes
  <2> QED
    BY <1>1, <1>3, <2>1 DEF Waiting
<1>13. ASSUME AllAnswered(t), a.calls = <<>> PROVE AllAnswered(u)
  <2>1. \A x \in CallPlaces(u) : x[1] # new
    BY <1>1, <1>5, <1>13
  <2> QED
    BY <1>11, <1>13, <2>1 DEF AllAnswered, Answers
<1> QED
  BY <1>1, <1>7, <1>9, <1>10, <1>12, <1>13 DEF u, Sound

------------------------------------------------------------------------------
(* Types *)

\* While results are handed over, one of the batch is still missing.
Cursor ==
  pc \in {"tools", "shown"} => batch = "open" /\ Len(answered) < Len(reply.calls)

TypeInv == TypeOK /\ Cursor

\* What is taken from a queue, and what stays, are messages of users.
LEMMA QueueTypes ==
  ASSUME NEW q \in Seq(UserMessage)
  PROVE  /\ Drained(q) \in Seq(UserMessage)
         /\ Rest(q) \in Seq(UserMessage)
         /\ q # <<>> => Head(q) \in UserMessage /\ Tail(q) \in Seq(UserMessage)
         /\ AllButLast(q) \in Seq(UserMessage)
<1>1. q # <<>> => Head(q) \in UserMessage /\ Tail(q) \in Seq(UserMessage)
  OBVIOUS
<1>2. Drained(q) \in Seq(UserMessage) /\ Rest(q) \in Seq(UserMessage)
  BY <1>1 DEF Drained, Rest
<1>3. AllButLast(q) \in Seq(UserMessage)
  <2>1. Len(q) \in Nat /\ \A i \in 1 .. Len(q) - 1 : q[i] \in UserMessage
    OBVIOUS
  <2> QED
    BY <2>1, SubSeqProperties DEF AllButLast
<1> QED
  BY <1>1, <1>2, <1>3

\* The messages the loop itself makes.
LEMMA Constructors ==
  /\ Refusal \in AssistantMessage /\ NoReply \in AssistantMessage
  /\ Refusal.calls = <<>> /\ NoReply.calls = <<>>
  /\ \A c \in CallId : Result(c) \in Message
<1>1. <<>> \in CallList
  <2>1. 0 \in 0 .. MaxCalls /\ <<>> \in [1 .. 0 -> CallId]
    BY BoundAssumption
  <2> QED
    BY <2>1 DEF CallList
<1> QED
  BY <1>1 DEF Refusal, NoReply, Assistant, AssistantMessage, Result, ToolResult, Message

\* The harness starts idle and empty.
LEMMA InitTypes == Init => TypeInv
BY Constructors, BoundAssumption, TurnsAssumption DEF Init, TypeInv, TypeOK, Cursor

\* Proceed appends a user message or a refusal, or nothing.
LEMMA ProceedTypes ==
  ASSUME TypeInv, NEW q \in Seq(UserMessage), Proceed(q)
  PROVE  /\ transcript' \in Seq(Message)
         /\ pending' \in Seq(UserMessage)
         /\ pc' \in {"injected", "ending", "provider"}
<1>1. q # <<>> => Head(q) \in Message
  BY QueueTypes DEF Message
<1> QED
  <2>1. transcript \in Seq(Message) /\ Refusal \in Message /\ <<>> \in Seq(UserMessage)
    BY Constructors, ReplyTypes DEF TypeInv, TypeOK
  <2>2. CASE q # <<>>
    <3>1. transcript' = Append(transcript, Head(q)) /\ pending' = Tail(q) /\ pc' = "injected"
      BY <2>2 DEF Proceed
    <3>2. Append(transcript, Head(q)) \in Seq(Message)
      BY <1>1, <2>1, <2>2, AppendProperties
    <3> QED
      BY <2>2, <3>1, <3>2, QueueTypes
  <2>3. CASE q = <<>>
    BY <2>1, <2>3 DEF Proceed
  <2> QED
    BY <2>2, <2>3

\* Leaving a run only repairs the transcript and resets the flags.
LEMMA LeaveTypes ==
  ASSUME TypeInv, Leave
  PROVE  /\ transcript' \in Seq(Message)
         /\ signal' = "none" /\ pc' = "idle" /\ pending' = <<>>
         /\ batch' \in {"idle", "open", "complete", "aborted"} => TypeInv'
<1>1. Repaired(transcript) \in Seq(Message)
  BY RepairedType DEF TypeInv, TypeOK
<1>2. /\ transcript' \in Seq(Message)
      /\ signal' = "none" /\ pc' = "idle" /\ pending' = <<>>
  BY <1>1 DEF Leave, TypeInv, TypeOK
<1> QED
  BY <1>2 DEF Leave, counters, TypeInv, TypeOK, Cursor

\* A run starts on the transcript t.
LEMMA StartTypes ==
  ASSUME TypeInv, NEW t \in Seq(Message), Start(t), users' \in 0 .. MaxUserMsgs
  PROVE  TypeInv'
<1>1. Len(t) \in Nat /\ runs + 1 \in 0 .. MaxRuns
  BY BoundAssumption DEF Start, TypeInv, TypeOK
<1> QED
  BY <1>1, Constructors, TurnsAssumption DEF Start, TypeInv, TypeOK, Cursor

\* There is room for one more accepted message.
LEMMA NewMessage ==
  ASSUME TypeInv, users < MaxUserMsgs
  PROVE  /\ users + 1 \in 0 .. MaxUserMsgs
         /\ \A via \in {"prompt", "steer", "follow_up", "external"} :
              User(via) \in UserMessage /\ User(via) \in Message
BY BoundAssumption DEF TypeInv, TypeOK, User, UserMessage, Message

\* Callers of the harness keep the types.
LEMMA CallerTypes ==
  ASSUME TypeInv, Caller
  PROVE  TypeInv'
<1>1. CASE Prompt
  <2>1. Repaired(transcript) \in Seq(Message)
    BY RepairedType DEF TypeInv, TypeOK
  <2>2. User("prompt") \in Message /\ users' \in 0 .. MaxUserMsgs
    BY <1>1, NewMessage DEF Prompt
  <2>3. Append(Repaired(transcript), User("prompt")) \in Seq(Message)
    BY <2>1, <2>2, AppendProperties
  <2> QED
    BY <1>1, <2>2, <2>3, StartTypes DEF Prompt
<1>2. CASE Continue
  <2>1. Repaired(transcript) \in Seq(Message)
    BY RepairedType DEF TypeInv, TypeOK
  <2> QED
    BY <1>2, <2>1, StartTypes DEF Continue, TypeInv, TypeOK
<1>3. CASE Steer
  <2>1. Append(steering, User("steer")) \in Seq(UserMessage)
    BY <1>3, NewMessage, AppendProperties DEF Steer, Accept, TypeInv, TypeOK
  <2> QED
    BY <1>3, <2>1, NewMessage DEF Steer, Accept, run, TypeInv, TypeOK, Cursor
<1>4. CASE FollowUp
  <2>1. Append(followUp, User("follow_up")) \in Seq(UserMessage)
    BY <1>4, NewMessage, AppendProperties DEF FollowUp, Accept, TypeInv, TypeOK
  <2> QED
    BY <1>4, <2>1, NewMessage DEF FollowUp, Accept, run, TypeInv, TypeOK, Cursor
<1>5. CASE AppendMessage
  <2>1. Append(transcript, User("external")) \in Seq(Message)
    BY <1>5, NewMessage, AppendProperties DEF AppendMessage, Accept, TypeInv, TypeOK
  <2> QED
    BY <1>5, <2>1, NewMessage DEF AppendMessage, Accept, run, TypeInv, TypeOK, Cursor
<1>6. CASE Withdraw
  <2>1. steering' \in Seq(UserMessage) /\ followUp' \in Seq(UserMessage)
    <3>1. /\ steering \in Seq(UserMessage) /\ followUp \in Seq(UserMessage)
          /\ <<>> \in Seq(UserMessage)
      BY DEF TypeInv, TypeOK
    <3>2. /\ steering' \in {steering, AllButLast(steering), <<>>}
          /\ followUp' \in {followUp, AllButLast(followUp), <<>>}
      BY <1>6 DEF Withdraw
    <3> QED
      BY <3>1, <3>2, QueueTypes
  <2> QED
    BY <1>6, <2>1 DEF Withdraw, run, counters, TypeInv, TypeOK, Cursor
<1>7. CASE Cancel
  BY <1>7 DEF Cancel, run, counters, TypeInv, TypeOK, Cursor
<1> QED
  BY <1>1, <1>2, <1>3, <1>4, <1>5, <1>6, <1>7 DEF Caller

\* The loop keeps the types, on every way out of a run too.
LEMMA LoopTypes ==
  ASSUME TypeInv, Loop \/ ProviderRaises \/ BatchFails \/ Abandon
  PROVE  TypeInv'
<1>12. CASE Finish
  BY <1>12, LeaveTypes DEF Finish, TypeInv, TypeOK
<1>13. CASE ProviderRaises
  BY <1>13, LeaveTypes DEF ProviderRaises, TypeInv, TypeOK
<1>14. CASE BatchFails
  <2>1. batch' = "aborted"
    BY <1>14 DEF BatchFails, Batch!Abort
  <2> QED
    BY <1>14, <2>1, LeaveTypes DEF BatchFails
<1>15. CASE Abandon
  <2>1. batch' \in {"idle", "open", "complete", "aborted"}
    BY <1>15 DEF Abandon, TypeInv, TypeOK
  <2> QED
    BY <1>15, <2>1, LeaveTypes DEF Abandon
<1> USE DEF TypeInv, TypeOK, Cursor
<1>1. CASE RefuseRun
  <2>1. Append(transcript, Refusal) \in Seq(Message)
    BY Constructors, ReplyTypes, AppendProperties
  <2> QED
    BY <1>1, <2>1 DEF RefuseRun, counters
<1>2. CASE Open
  <2>1. Drained(steering) \in Seq(UserMessage) /\ Rest(steering) \in Seq(UserMessage)
    BY QueueTypes
  <2>2. /\ transcript' \in Seq(Message) /\ pending' \in Seq(UserMessage)
        /\ pc' \in {"injected", "ending", "provider"}
    BY <1>2, <2>1, ProceedTypes DEF Open
  <2> QED
    BY <1>2, <2>1, <2>2 DEF Open, counters
<1>3. CASE Inject
  <2>1. /\ transcript' \in Seq(Message) /\ pending' \in Seq(UserMessage)
        /\ pc' \in {"injected", "ending", "provider"}
    BY <1>3, ProceedTypes DEF Inject
  <2> QED
    BY <1>3, <2>1 DEF Inject, counters
<1>4. CASE ProviderReplies
  <2>1. PICK n \in 0 .. MaxCalls, stop \in {"done", "failed"} :
          reply' = Assistant([j \in 1 .. n |-> NewCall(j)], stop)
    BY <1>4 DEF ProviderReplies
  <2>2. replies + 1 \in 0 .. MaxReplies /\ 0 \in 0 .. MaxReplies
    BY <1>4, BoundAssumption DEF ProviderReplies
  <2>3. \A j \in 1 .. n : NewCall(j) \in CallId
    BY <2>2, BoundAssumption DEF NewCall, CallId
  <2>4. [j \in 1 .. n |-> NewCall(j)] \in CallList
    BY <2>3 DEF CallList
  <2>5. reply' \in AssistantMessage
    BY <2>1, <2>4 DEF Assistant, AssistantMessage
  <2> QED
    BY <1>4, <2>2, <2>5 DEF ProviderReplies
<1>5. ASSUME TakeReply
      PROVE  /\ transcript' \in Seq(Message)
             /\ UNCHANGED <<steering, followUp, signal, turn, pending, reply, base, maxTurns,
                            users, replies, runs>>
  BY <1>5, ReplyTypes, AppendProperties DEF TakeReply, counters
<1>6. CASE TakeFailure
  BY <1>5, <1>6 DEF TakeFailure
<1>7. CASE TakeText
  BY <1>5, <1>7 DEF TakeText
<1>8. CASE TakeCalls
  <2>1. batch' = "open" /\ answered' = <<>> /\ Len(reply'.calls) \in Nat \ {0}
    BY <1>8 DEF TakeCalls, Batch!Open
  <2> QED
    BY <1>5, <1>8, <2>1 DEF TakeCalls
<1>9. CASE ShowResult
  BY <1>9 DEF ShowResult, counters
<1>10. CASE StoreResult
  <2>1. Len(answered) + 1 \in 1 .. Len(reply.calls)
    BY <1>10, ReplyTypes, CallListTypes, SMTT(30) DEF StoreResult
  <2>2. Result(reply.calls[Len(answered) + 1]) \in Message
    BY <2>1, ReplyTypes, CallListTypes, Constructors
  <2>3. transcript' \in Seq(Message)
    BY <1>10, <2>2, AppendProperties DEF StoreResult
  <2>4. /\ answered' \in Seq(Nat) /\ Len(answered') = Len(answered) + 1
        /\ Len(reply'.calls) = Len(reply.calls)
        /\ batch' = IF Len(answered') = Len(reply.calls) THEN "complete" ELSE "open"
    BY <1>10 DEF StoreResult, Batch!Answer
  <2>5. Len(reply.calls) \in Nat
    BY ReplyTypes, CallListTypes
  <2>6. pc' = "turnEnd" \/ (pc' = "tools" /\ batch' = "open" /\ Len(answered') < Len(reply.calls))
    BY <1>10, <2>1, <2>4, <2>5, SMTT(30) DEF StoreResult
  <2> QED
    BY <1>10, <2>3, <2>4, <2>6 DEF StoreResult, counters
<1>11. CASE EndTurn
  <2>1. /\ Drained(steering) \in Seq(UserMessage) /\ Rest(steering) \in Seq(UserMessage)
        /\ Drained(followUp) \in Seq(UserMessage) /\ Rest(followUp) \in Seq(UserMessage)
    BY QueueTypes
  <2>2. /\ turn' = turn + 1 /\ steering' = Rest(steering)
        /\ pending' \in {Drained(steering), Drained(followUp)}
        /\ followUp' \in {followUp, Rest(followUp)}
        /\ pc' \in {"turnStart", "ending"}
        /\ UNCHANGED <<transcript, signal, reply, answered, batch, base, maxTurns, counters>>
    BY <1>11 DEF EndTurn
  <2> QED
    BY <2>1, <2>2, SMTT(30) DEF counters
<1> QED
  BY <1>1, <1>2, <1>3, <1>4, <1>6, <1>7, <1>8, <1>9, <1>10, <1>11, <1>12, <1>13, <1>14,
     <1>15 DEF Loop

\* So does every step.
LEMMA NextTypes ==
  ASSUME TypeInv, [Next]_vars
  PROVE  TypeInv'
<1>1. CASE Next
  BY <1>1, CallerTypes, LoopTypes DEF Next
<1>2. CASE UNCHANGED vars
  BY <1>2 DEF vars, run, counters, TypeInv, TypeOK, Cursor
<1> QED
  BY <1>1, <1>2

\* Type correctness of the loop, its queues and its transcript: a result is only
\* looked up while one of the batch is missing, whatever happens in between.
THEOREM TypeCorrect == Spec => []TypeOK
<1>1. TypeInv /\ [Next]_vars => TypeInv'
  BY NextTypes
<1>2. TypeInv => TypeOK
  BY DEF TypeInv
<1> QED
  BY InitTypes, <1>1, <1>2, PTL DEF Spec

------------------------------------------------------------------------------
(* The history a provider is given *)

\* The last reply is not in the transcript before TakeFailure, TakeText or TakeCalls.
Seen == IF pc = "answered" THEN replies - 1 ELSE replies

Closed == {"opening", "injected", "provider", "answered", "turnEnd", "turnStart"}

History ==
  /\ Sound(transcript, Seen)
  /\ pc = "answered" =>
       /\ replies > 0
       /\ \A j \in DOMAIN reply.calls : reply.calls[j] = [reply |-> replies, index |-> j]
  /\ pc \in Closed => AllAnswered(transcript)
  /\ pc \in {"tools", "shown"} => Waiting(transcript, reply, Len(answered))

\* A bound on the replies that were seen may grow.
LEMMA SoundLater ==
  ASSUME NEW t \in Seq(Message), NEW n \in Int, NEW k \in Int, n <= k, Sound(t, n)
  PROVE  Sound(t, k)
<1>1. \A c \in CallId : c.reply \in Int
  BY BoundAssumption DEF CallId
<1>2. ASSUME NEW x \in CallPlaces(t) PROVE CallAt(t, x).reply <= k
  BY <1>1, CallPlacesFinite DEF Sound, Known
<1>3. ASSUME NEW q \in PlacesOf(t, "result") PROVE t[q].call.reply <= k
  <2>1. t[q].call \in CallId
    BY Roles DEF PlacesOf, ToolResult
  <2> QED
    BY <1>1, <2>1 DEF Sound, Known
<1> QED
  BY <1>2, <1>3 DEF Sound, Known

\* A repair closes the transcript of any state.
LEMMA SeenTypes ==
  ASSUME TypeInv, History
  PROVE  /\ Seen \in Int /\ replies \in Int /\ Sound(transcript, replies)
         /\ transcript \in Seq(Message)
         /\ Repaired(transcript) \in Seq(Message)
         /\ Sound(Repaired(transcript), replies)
         /\ AllAnswered(Repaired(transcript))
<1>1. Seen \in Int /\ replies \in Int /\ Seen <= replies /\ transcript \in Seq(Message)
  BY BoundAssumption DEF TypeInv, TypeOK, Seen
<1>2. Sound(transcript, replies)
  BY <1>1, SoundLater DEF History
<1> QED
  BY <1>1, <1>2, RepairCloses

\* However a run is left, its transcript stays sound; after a cancellation every
\* call in it has a result.
LEMMA LeaveHistory ==
  ASSUME TypeInv, History, Leave
  PROVE  History' /\ (signal = "cancelled" => AllAnswered(transcript'))
<1>1. pc' = "idle" /\ replies' = replies
  BY DEF Leave, counters
<1>2. Sound(transcript', replies) /\ (signal = "cancelled" => AllAnswered(transcript'))
  BY SeenTypes DEF Leave
<1> QED
  BY <1>1, <1>2 DEF History, Seen, Closed

\* A user message, or a refusal, leaves no new call behind.
LEMMA AppendHistory ==
  ASSUME TypeInv, History, NEW m \in Message, Quiet(m), m.role # "result"
  PROVE  /\ Sound(Append(transcript, m), Seen)
         /\ AllAnswered(transcript) => AllAnswered(Append(transcript, m))
         /\ \A a, k : Waiting(transcript, a, k) => Waiting(Append(transcript, m), a, k)
BY AppendQuiet, SeenTypes DEF History

\* Messages of users, and refusals, are without calls and results.
LEMMA QuietUsers ==
  /\ \A m \in UserMessage : m \in Message /\ Quiet(m) /\ m.role # "result"
  /\ Refusal \in Message /\ Quiet(Refusal) /\ Refusal.role # "result"
BY Constructors, ReplyTypes, Roles DEF Quiet, Message

\* Injecting a message, refusing the turn or going on to the provider.
LEMMA ProceedHistory ==
  ASSUME TypeInv, History, pc \in Closed \ {"answered"}, NEW q \in Seq(UserMessage), Proceed(q),
         replies' = replies
  PROVE  History'
<1>1. AllAnswered(transcript) /\ Sound(transcript, Seen) /\ Seen = replies
  BY DEF History, Seen
<1>2. CASE q # <<>>
  <2>1. Head(q) \in UserMessage
    BY <1>2, QueueTypes
  <2>2. pc' = "injected" /\ transcript' = Append(transcript, Head(q))
    BY <1>2 DEF Proceed
  <2>3. Sound(transcript', replies') /\ AllAnswered(transcript')
    BY <1>1, <2>1, <2>2, AppendHistory, QuietUsers
  <2> QED
    BY <2>2, <2>3 DEF History, Seen
<1>3. CASE q = <<>> /\ OverBudget(turn)
  <2>1. pc' = "ending" /\ transcript' = Append(transcript, Refusal)
    BY <1>3 DEF Proceed
  <2>2. Sound(transcript', replies')
    BY <1>1, <2>1, AppendHistory, QuietUsers
  <2> QED
    BY <2>1, <2>2 DEF History, Seen, Closed
<1>4. CASE q = <<>> /\ ~OverBudget(turn)
  BY <1>1, <1>4 DEF Proceed, History, Seen
<1> QED
  BY <1>2, <1>3, <1>4

\* An empty transcript is sound.
LEMMA InitHistory == Init => History
<1> SUFFICES ASSUME Init PROVE History
  OBVIOUS
<1>1. transcript = <<>> /\ pc = "idle" /\ CallPlaces(transcript) = {}
      /\ PlacesOf(transcript, "result") = {}
  BY DEF Init, CallPlaces, PlacesOf
<1> QED
  BY <1>1 DEF History, Sound, Distinct, ResultsFollow, Known, Closed

\* Callers start runs on a repaired transcript and add quiet messages only.
LEMMA CallerHistory ==
  ASSUME TypeInv, History, Caller
  PROVE  History'
<1>1. CASE Prompt
  <2>1. /\ pc' = "opening" /\ replies' = replies
        /\ transcript' = Append(Repaired(transcript), User("prompt"))
        /\ User("prompt") \in UserMessage
    BY <1>1, NewMessage DEF Prompt, Start
  <2>2. Sound(transcript', replies) /\ AllAnswered(transcript')
    BY <2>1, SeenTypes, QuietUsers, AppendQuiet
  <2> QED
    BY <2>1, <2>2 DEF History, Seen, Closed
<1>2. CASE Continue
  <2>1. pc' = "opening" /\ replies' = replies /\ transcript' = Repaired(transcript)
    BY <1>2 DEF Continue, Start
  <2> QED
    BY <2>1, SeenTypes DEF History, Seen, Closed
<1>3. CASE AppendMessage
  <2>1. /\ User("external") \in UserMessage
        /\ transcript' = Append(transcript, User("external"))
        /\ UNCHANGED <<pc, replies, reply, answered>>
    BY <1>3, NewMessage DEF AppendMessage, Accept, run
  <2>2. /\ Sound(transcript', Seen)
        /\ AllAnswered(transcript) => AllAnswered(transcript')
        /\ \A a, k : Waiting(transcript, a, k) => Waiting(transcript', a, k)
    BY <2>1, AppendHistory, QuietUsers
  <2> QED
    BY <2>1, <2>2 DEF History, Seen
<1>4. CASE Steer \/ FollowUp \/ Withdraw \/ Cancel
  <2>1. UNCHANGED <<transcript, pc, replies, reply, answered>>
    BY <1>4 DEF Steer, FollowUp, Accept, Withdraw, Cancel, run, counters
  <2> QED
    BY <2>1 DEF History, Seen
<1> QED
  BY <1>1, <1>2, <1>3, <1>4 DEF Caller

\* The reply enters a transcript in which everything is answered.
LEMMA TakeHistory ==
  ASSUME TypeInv, History, TakeReply, pc = "answered"
  PROVE  /\ Sound(transcript', replies)
         /\ Waiting(transcript', reply, 0)
         /\ reply.calls = <<>> => AllAnswered(transcript')
<1>1. /\ transcript \in Seq(Message) /\ reply \in AssistantMessage
      /\ replies - 1 \in Nat /\ (replies - 1) + 1 = replies
      /\ Sound(transcript, replies - 1) /\ AllAnswered(transcript)
      /\ \A j \in DOMAIN reply.calls :
           reply.calls[j] = [reply |-> (replies - 1) + 1, index |-> j]
  BY BoundAssumption DEF TypeInv, TypeOK, History, Seen, Closed
<1> DEFINE n == replies - 1
<1> HIDE DEF n
<1>2. /\ Sound(Append(transcript, reply), n + 1)
      /\ Waiting(Append(transcript, reply), reply, 0)
      /\ reply.calls = <<>> => AllAnswered(Append(transcript, reply))
  BY <1>1, AppendReply DEF n
<1>3. transcript' = Append(transcript, reply)
  BY DEF TakeReply
<1> QED
  BY <1>1, <1>2, <1>3 DEF n

\* The next result answers the next call of the last reply.
LEMMA StoreHistory ==
  ASSUME TypeInv, History, StoreResult
  PROVE  History'
<1> DEFINE t == transcript
           k == Len(answered) + 1
           m == Result(reply.calls[k])
           s == <<m>>
           u == t \o s
<1>1. /\ t \in Seq(Message) /\ reply \in AssistantMessage
      /\ k \in 1 .. Len(reply.calls) /\ Len(reply.calls) \in Nat
      /\ DOMAIN reply.calls = 1 .. Len(reply.calls)
      /\ Sound(t, replies) /\ Waiting(t, reply, k - 1)
  BY ReplyTypes, CallListTypes, SMTT(30) DEF StoreResult, TypeInv, TypeOK, Cursor, History, Seen
<1>2. /\ u = transcript' /\ replies' = replies /\ reply' = reply
      /\ Len(answered') = k /\ pc' \in {"turnEnd", "tools"}
      /\ pc' = "turnEnd" => k = Len(reply.calls)
  <2>1. Append(t, m) = u
    BY <1>1
  <2>2. /\ transcript' = Append(t, m) /\ replies' = replies /\ reply' = reply
        /\ answered' = Append(answered, k)
        /\ batch' = IF Len(answered') = Len(reply.calls) THEN "complete" ELSE "open"
        /\ pc' = IF batch' = "complete" THEN "turnEnd" ELSE "tools"
    BY DEF StoreResult, Batch!Answer, counters
  <2>3. Len(answered') = k
    BY <2>2 DEF TypeInv, TypeOK
  <2> QED
    BY <2>1, <2>2, <2>3
<1>3. PICK p \in PlacesOf(t, "assistant") :
        /\ t[p] = reply
        /\ \A x \in CallPlaces(t) : x[1] # p \/ x[2] <= k - 1 => Answers(t, x)
  BY <1>1 DEF Waiting
<1>4. m \in Message /\ m.role = "result" /\ m.call = reply.calls[k]
  BY <1>1, ReplyTypes, CallListTypes, Constructors DEF Result
<1>5. <<p, k>> \in CallPlaces(t) /\ CallAt(t, <<p, k>>) = reply.calls[k]
  BY <1>1, <1>3 DEF CallPlaces, CallAt
<1>6. s \in Seq(Message) /\ Len(s) = 1 /\ s[1] = m
  BY <1>4
<1> HIDE DEF s, m
<1>7. \A i \in 1 .. Len(s) :
        /\ Quiet(s[i])
        /\ \E x \in CallPlaces(t) : s[i].call = CallAt(t, x)
  BY <1>4, <1>5, <1>6 DEF Quiet
<1>8. Sound(u, replies)
  BY <1>1, <1>6, <1>7, QuietKeepsSound
<1>9. /\ CallPlaces(u) = CallPlaces(t)
      /\ \A x \in CallPlaces(t) : CallAt(u, x) = CallAt(t, x)
      /\ \A x \in CallPlaces(t) : Answers(t, x) => Answers(u, x)
  BY <1>1, <1>6, <1>7, ExtendQuiet
<1>10. /\ Len(u) = Len(t) + 1 /\ u[Len(t) + 1] = m /\ u[p] = t[p]
       /\ p \in 1 .. Len(t) /\ p \in PlacesOf(u, "assistant") /\ Len(t) \in Nat
  <2>1. Len(t) \in Nat /\ p \in 1 .. Len(t) /\ t[p].role = "assistant"
    BY <1>1, <1>3 DEF PlacesOf
  <2>2. u = Append(t, m)
    BY <1>1 DEF s
  <2>3. /\ Append(t, m) \in Seq(Message) /\ Len(Append(t, m)) = Len(t) + 1
        /\ Append(t, m)[Len(t) + 1] = m /\ \A i \in 1 .. Len(t) : Append(t, m)[i] = t[i]
    BY <1>1, <1>4, AppendProperties
  <2> HIDE DEF u
  <2>4. u[Len(t) + 1] = m /\ u[p] = t[p] /\ Len(u) = Len(t) + 1 /\ DOMAIN u = 1 .. Len(u)
    BY <2>1, <2>2, <2>3
  <2> QED
    BY <2>1, <2>4 DEF PlacesOf
<1> HIDE DEF u
<1>11. Answers(u, <<p, k>>)
  <2>1. u[Len(t) + 1] = Result(CallAt(u, <<p, k>>))
    BY <1>5, <1>9, <1>10 DEF m
  <2>2. Len(t) + 1 \in p + 1 .. Len(u)
    BY <1>10
  <2> QED
    BY <2>1, <2>2 DEF Answers
<1>12. \A x \in CallPlaces(t) : x = <<x[1], x[2]>> /\ x[1] \in Nat /\ x[2] \in Nat
  BY <1>1, CallPlacesFinite
<1>13. \A x \in CallPlaces(u) : x[1] # p \/ x[2] <= k => Answers(u, x)
  <2> SUFFICES ASSUME NEW x \in CallPlaces(t), x[1] # p \/ x[2] <= k PROVE Answers(u, x)
    BY <1>9
  <2>1. CASE x[1] # p \/ x[2] <= k - 1
    BY <1>3, <1>9, <2>1
  <2>2. CASE x[1] = p /\ x[2] = k
    BY <1>11, <1>12, <2>2
  <2> QED
    BY <1>1, <1>12, <2>1, <2>2
<1>14. Waiting(u, reply, k)
  BY <1>3, <1>10, <1>13 DEF Waiting
<1>15. k = Len(reply.calls) => AllAnswered(u)
  <2> SUFFICES ASSUME k = Len(reply.calls), NEW x \in CallPlaces(t) PROVE Answers(u, x)
    BY <1>9 DEF AllAnswered, Answers
  <2>1. x[1] = p => x[2] <= k
    BY <1>1, <1>3, CallPlacesFinite
  <2> QED
    BY <1>9, <1>13, <2>1
<1> QED
  BY <1>2, <1>8, <1>14, <1>15 DEF History, Seen, Closed

\* The loop calls the provider only when its transcript is closed.
LEMMA LoopHistory ==
  ASSUME UniqueCallIds, TypeInv, History, Loop
  PROVE  History'
<1>1. CASE RefuseRun
  <2>1. /\ pc' = "ending" /\ replies' = replies /\ Seen = replies
        /\ transcript' = Append(transcript, Refusal)
    BY <1>1 DEF RefuseRun, counters, Seen
  <2>2. Sound(transcript', replies)
    BY <2>1, AppendHistory, QuietUsers
  <2> QED
    BY <2>1, <2>2 DEF History, Seen, Closed
<1>2. CASE Open
  BY <1>2, QueueTypes, ProceedHistory DEF Open, counters, Closed, TypeInv, TypeOK
<1>3. CASE Inject
  BY <1>3, ProceedHistory DEF Inject, counters, Closed, TypeInv, TypeOK
<1>4. CASE ProviderReplies
  <2>1. PICK n \in 0 .. MaxCalls, stop \in {"done", "failed"} :
          reply' = Assistant([j \in 1 .. n |-> NewCall(j)], stop)
    BY <1>4 DEF ProviderReplies
  <2>2. /\ pc = "provider" /\ pc' = "answered" /\ transcript' = transcript
        /\ replies' = replies + 1 /\ replies \in Nat
    BY <1>4, BoundAssumption DEF ProviderReplies, TypeInv, TypeOK
  <2>3. \A j \in DOMAIN reply'.calls : reply'.calls[j] = [reply |-> replies', index |-> j]
    BY <2>1, <2>2 DEF Assistant, NewCall
  <2>4. Sound(transcript', replies' - 1) /\ AllAnswered(transcript') /\ replies' > 0
    BY <2>2 DEF History, Seen, Closed
  <2> QED
    BY <2>2, <2>3, <2>4 DEF History, Seen
<1>5. CASE TakeFailure
  BY <1>5, TakeHistory DEF TakeFailure, TakeReply, counters, History, Seen, Closed
<1>6. CASE TakeText
  BY <1>6, TakeHistory DEF TakeText, TakeReply, counters, History, Seen, Closed
<1>7. CASE TakeCalls
  <2>1. answered' = <<>> /\ pc' = "tools" /\ pc = "answered" /\ TakeReply
    BY <1>7 DEF TakeCalls, TakeReply, Batch!Open
  <2> QED
    BY <2>1, TakeHistory DEF TakeReply, counters, History, Seen, Closed
<1>8. CASE ShowResult
  BY <1>8 DEF ShowResult, counters, History, Seen, Closed
<1>9. CASE StoreResult
  BY <1>9, StoreHistory
<1>10. CASE EndTurn
  <2>1. /\ pc = "turnEnd" /\ pc' \in {"turnStart", "ending"}
        /\ UNCHANGED <<transcript, reply, replies>>
    BY <1>10 DEF EndTurn, counters
  <2> QED
    BY <2>1 DEF History, Seen, Closed
<1>11. CASE Finish
  BY <1>11, LeaveHistory DEF Finish
<1> QED
  BY <1>1, <1>2, <1>3, <1>4, <1>5, <1>6, <1>7, <1>8, <1>9, <1>10, <1>11 DEF Loop

\* So does every step.
LEMMA NextHistory ==
  ASSUME UniqueCallIds, TypeInv, History, [Next]_vars
  PROVE  History'
<1>1. CASE Loop
  BY <1>1, LoopHistory
<1>2. CASE ProviderRaises \/ BatchFails \/ Abandon
  BY <1>2, LeaveHistory DEF ProviderRaises, BatchFails, Abandon
<1>3. CASE Caller
  BY <1>3, CallerHistory
<1>4. CASE UNCHANGED vars
  BY <1>4 DEF vars, run, counters, History, Seen
<1> QED
  BY <1>1, <1>2, <1>3, <1>4 DEF Next

\* The invariant behind both theorems that follow.
LEMMA HistoryHolds == ASSUME UniqueCallIds PROVE Spec => [](TypeInv /\ History)
<1>1. TypeInv /\ History /\ [Next]_vars => (TypeInv /\ History)'
  BY NextTypes, NextHistory
<1> QED
  BY InitTypes, InitHistory, <1>1, PTL DEF Spec

\* No provider is called while a tool call of the history lacks its result:
\* the repair at the start of every run, and a batch that only ends the turn when
\* it is complete, make up for every way an earlier run can have ended.  It needs
\* ids that are never reused: the repair takes any result of an id for the answer.
THEOREM ProviderSeesAnswers == ASSUME UniqueCallIds PROVE Spec => []AnsweredBeforeProvider
<1>1. History => AnsweredBeforeProvider
  BY DEF History, AnsweredBeforeProvider, Closed
<1> QED
  BY HistoryHolds, <1>1, PTL

\* A cancelled run leaves no tool call without a result, wherever it was cancelled
\* and however it then ended.
THEOREM CancellationCloses == ASSUME UniqueCallIds PROVE Spec => CancelledRunIsClosed
<1>1. TypeInv /\ History /\ [Next]_vars
        => [Running /\ ~Running' /\ signal = "cancelled" => AllAnswered(transcript')]_vars
  <2> SUFFICES ASSUME TypeInv, History, [Next]_vars,
                      Running, ~Running', signal = "cancelled"
               PROVE  AllAnswered(transcript')
    OBVIOUS
  <2>1. CASE Leave
    BY <2>1, LeaveHistory
  <2>2. CASE Loop /\ ~Finish
    BY <2>2 DEF Loop, RefuseRun, Open, Inject, Proceed, ProviderReplies, TakeFailure, TakeText,
                TakeCalls, ShowResult, StoreResult, EndTurn, Running
  <2>3. CASE Caller \/ UNCHANGED vars
    BY <2>3 DEF Caller, Prompt, Continue, Start, Steer, FollowUp, AppendMessage, Accept,
                Withdraw, Cancel, vars, run, Running
  <2> QED
    BY <2>1, <2>2, <2>3 DEF Next, Finish, ProviderRaises, BatchFails, Abandon
<1> QED
  BY HistoryHolds, <1>1, PTL DEF Spec, CancelledRunIsClosed

------------------------------------------------------------------------------
(* The turn limit *)

\* The answers of the provider after place b of a transcript.
Turns(t, b) ==
  {p \in b + 1 .. Len(t) : p \in PlacesOf(t, "assistant") /\ t[p].stop # "refused"}

Used == Cardinality(Turns(transcript, base))
Limit == IF maxTurns < 0 THEN 0 ELSE maxTurns

\* Before the provider is called a turn is not used up yet; once the reply is in
\* the transcript it is.
Budget ==
  Running =>
    /\ base <= Len(transcript)
    /\ maxTurns # None =>
         /\ Used <= Limit
         /\ pc = "opening" => Used = 0 /\ turn = 1
         /\ pc \in {"injected", "turnStart", "provider", "answered"} =>
              Used <= turn - 1 /\ turn - 1 <= Limit
         /\ pc \in {"provider", "answered", "tools", "shown", "turnEnd"} => turn <= maxTurns
         /\ pc \in {"tools", "shown", "turnEnd"} => Used <= turn

\* A message more is at most one answer more, and none unless it is an answer.
LEMMA TurnsGrow ==
  ASSUME NEW t \in Seq(Message), NEW m \in Message, NEW b \in Nat, b <= Len(t)
  PROVE  /\ Len(Append(t, m)) = Len(t) + 1
         /\ Cardinality(Turns(t, b)) \in Nat
         /\ Cardinality(Turns(Append(t, m), b)) \in Nat
         /\ Cardinality(Turns(Append(t, m), b)) <= Cardinality(Turns(t, b)) + 1
         /\ m.role # "assistant" \/ m.stop = "refused" =>
              Cardinality(Turns(Append(t, m), b)) = Cardinality(Turns(t, b))
<1> DEFINE u == Append(t, m)
           new == Len(t) + 1
<1>1. /\ u \in Seq(Message) /\ Len(u) = new /\ Len(t) \in Nat /\ u[new] = m
      /\ \A p \in 1 .. Len(t) : u[p] = t[p]
      /\ DOMAIN u = 1 .. new /\ DOMAIN t = 1 .. Len(t)
  BY AppendProperties
<1> HIDE DEF u
<1>2. Turns(t, b) \in SUBSET (b + 1 .. Len(t)) /\ IsFiniteSet(b + 1 .. Len(t))
  <2>1. b + 1 \in Int /\ Len(t) \in Int
    BY <1>1
  <2>2. IsFiniteSet(b + 1 .. Len(t))
    BY <2>1, FS_Interval
  <2> QED
    BY <2>2 DEF Turns
<1>3. IsFiniteSet(Turns(t, b)) /\ Cardinality(Turns(t, b)) \in Nat
  BY <1>2, FS_Subset, FS_CardinalityType
<1>4. \A p \in b + 1 .. new :
        p \in Turns(u, b) <=> (p \in Turns(t, b) \/ (p = new /\ m.role = "assistant"
                                                       /\ m.stop # "refused"))
  BY <1>1 DEF Turns, PlacesOf
<1>5. Turns(u, b) \in SUBSET (b + 1 .. new) /\ Turns(t, b) \in SUBSET (b + 1 .. new)
  BY <1>1, <1>2 DEF Turns
<1>6. CASE m.role = "assistant" /\ m.stop # "refused"
  <2>1. Turns(u, b) = Turns(t, b) \cup {new}
    BY <1>1, <1>4, <1>5, <1>6
  <2>2. Cardinality(Turns(t, b) \cup {new})
          = IF new \in Turns(t, b) THEN Cardinality(Turns(t, b)) ELSE Cardinality(Turns(t, b)) + 1
    BY <1>3, FS_AddElement
  <2> QED
    BY <1>1, <1>3, <1>6, <2>1, <2>2 DEF u
<1>7. CASE ~(m.role = "assistant" /\ m.stop # "refused")
  <2>1. Turns(u, b) = Turns(t, b)
    BY <1>4, <1>5, <1>7
  <2> QED
    BY <1>1, <1>3, <2>1 DEF u
<1> QED
  BY <1>6, <1>7

\* The same for the transcript of the run.
LEMMA UsedGrows ==
  ASSUME TypeInv, Budget, Running, NEW m \in Message,
         transcript' = Append(transcript, m), base' = base
  PROVE  /\ base' <= Len(transcript')
         /\ Used \in Nat /\ Used' \in Nat /\ Used' <= Used + 1
         /\ m.role # "assistant" \/ m.stop = "refused" => Used' = Used
<1>1. transcript \in Seq(Message) /\ base \in Nat /\ base <= Len(transcript)
  BY DEF TypeInv, TypeOK, Budget
<1>2. /\ Len(Append(transcript, m)) = Len(transcript) + 1 /\ Len(transcript) \in Nat
      /\ Append(transcript, m) \in Seq(Message)
  BY <1>1, AppendProperties
<1>3. Used' = Cardinality(Turns(Append(transcript, m), base))
  BY DEF Used
<1>4. Used' \in Nat
  BY <1>1, <1>3, TurnsGrow
<1> QED
  BY <1>1, <1>2, <1>3, <1>4, TurnsGrow DEF Used

\* A limit, when there is one, is a natural number after clamping.
LEMMA LimitTypes ==
  ASSUME TypeInv
  PROVE  /\ turn \in Nat \ {0}
         /\ maxTurns # None => maxTurns \in Int /\ Limit \in Nat
         /\ maxTurns # None /\ turn <= maxTurns => Limit = maxTurns
BY DEF TypeInv, TypeOK, Limit

\* A new run has used none of its turns.
LEMMA StartBudget ==
  ASSUME TypeInv, NEW t \in Seq(Message), Start(t)
  PROVE  Budget'
<1>1. /\ transcript' = t /\ base' = Len(t) /\ pc' = "opening" /\ turn' = 1
      /\ Len(t) \in Nat /\ maxTurns' \in TurnLimits
  BY DEF Start
<1>2. Turns(t, Len(t)) = {}
  BY <1>1 DEF Turns
<1>3. Used' = 0
  BY <1>1, <1>2, FS_EmptySet DEF Used
<1>4. maxTurns' # None => Limit' \in Nat
  BY <1>1, TurnsAssumption DEF Limit
<1> QED
  BY <1>1, <1>3, <1>4 DEF Budget

\* The provider is only reached within the limit.
LEMMA ProceedBudget ==
  ASSUME TypeInv, Budget, pc \in {"opening", "injected", "turnStart"},
         NEW q \in Seq(UserMessage), Proceed(q), UNCHANGED <<base, turn, maxTurns>>
  PROVE  Budget'
<1>1. /\ Running /\ base <= Len(transcript)
      /\ maxTurns # None => Used <= turn - 1 /\ turn - 1 <= Limit
  BY LimitTypes DEF Budget, Running
<1>2. Limit' = Limit /\ turn' = turn /\ maxTurns' = maxTurns
  BY DEF Limit
<1>3. CASE q # <<>>
  <2>1. Head(q) \in Message /\ Head(q).role # "assistant"
    BY <1>3, QueueTypes, Roles DEF Message
  <2>2. transcript' = Append(transcript, Head(q)) /\ pc' = "injected"
    BY <1>3 DEF Proceed
  <2>3. base' <= Len(transcript') /\ Used' = Used /\ Used \in Nat
    BY <1>1, <2>1, <2>2, UsedGrows
  <2> QED
    BY <1>1, <1>2, <2>2, <2>3, LimitTypes DEF Budget
<1>4. CASE q = <<>> /\ OverBudget(turn)
  <2>1. Refusal \in Message /\ Refusal.stop = "refused"
    BY Constructors, ReplyTypes DEF Refusal, Assistant
  <2>2. transcript' = Append(transcript, Refusal) /\ pc' = "ending"
    BY <1>4 DEF Proceed
  <2>3. base' <= Len(transcript') /\ Used' = Used /\ Used \in Nat
    BY <1>1, <2>1, <2>2, UsedGrows
  <2> QED
    BY <1>1, <1>2, <2>2, <2>3, LimitTypes DEF Budget
<1>5. CASE q = <<>> /\ ~OverBudget(turn)
  <2>1. UNCHANGED transcript /\ pc' = "provider"
    BY <1>5 DEF Proceed
  <2>2. Used' = Used
    BY <2>1 DEF Used
  <2>3. maxTurns # None => turn <= maxTurns
    BY <1>5, LimitTypes DEF OverBudget
  <2> QED
    BY <1>1, <1>2, <2>1, <2>2, <2>3, LimitTypes DEF Budget
<1> QED
  BY <1>3, <1>4, <1>5

\* The loop uses up at most one turn per provider call.
LEMMA LoopBudget ==
  ASSUME TypeInv, Budget, Loop
  PROVE  Budget'
<1>1. CASE RefuseRun
  <2>1. Refusal \in Message /\ Refusal.stop = "refused"
    BY Constructors, ReplyTypes DEF Refusal, Assistant
  <2>2. /\ Running /\ pc = "opening" /\ pc' = "ending"
        /\ transcript' = Append(transcript, Refusal) /\ UNCHANGED <<base, maxTurns>>
    BY <1>1 DEF RefuseRun, Running
  <2>3. base' <= Len(transcript') /\ Used' = Used /\ Limit' = Limit
    BY <2>1, <2>2, UsedGrows DEF Limit
  <2> QED
    BY <2>2, <2>3, LimitTypes DEF Budget
<1>2. CASE Open
  BY <1>2, QueueTypes, ProceedBudget DEF Open, TypeInv, TypeOK
<1>3. CASE Inject
  BY <1>3, ProceedBudget DEF Inject, TypeInv, TypeOK
<1>4. CASE ProviderReplies \/ ShowResult
  <2>1. /\ UNCHANGED <<transcript, base, turn, maxTurns>>
        /\ \/ pc = "provider" /\ pc' = "answered"
           \/ pc = "tools" /\ pc' = "shown"
    BY <1>4 DEF ProviderReplies, ShowResult
  <2>2. Used' = Used /\ Limit' = Limit
    BY <2>1 DEF Used, Limit
  <2> QED
    BY <2>1, <2>2 DEF Budget, Running
<1>5. CASE TakeFailure \/ TakeText \/ TakeCalls
  <2>1. /\ Running /\ pc = "answered" /\ pc' \in {"ending", "turnEnd", "tools"}
        /\ transcript' = Append(transcript, reply) /\ reply \in Message
        /\ UNCHANGED <<base, turn, maxTurns>>
    BY <1>5, ReplyTypes DEF TakeFailure, TakeText, TakeCalls, TakeReply, Running, TypeInv, TypeOK
  <2>2. /\ base' <= Len(transcript') /\ Used' <= Used + 1 /\ Limit' = Limit
        /\ Used \in Nat /\ Used' \in Nat
    BY <2>1, UsedGrows DEF Limit
  <2> QED
    BY <2>1, <2>2, LimitTypes DEF Budget
<1>6. CASE StoreResult
  <2> DEFINE m == Result(reply.calls[Len(answered) + 1])
  <2>1. Len(answered) + 1 \in 1 .. Len(reply.calls)
    BY <1>6, ReplyTypes, CallListTypes DEF StoreResult, TypeInv, TypeOK, Cursor
  <2>2. m \in Message /\ m.role # "assistant"
    BY <2>1, ReplyTypes, CallListTypes, Constructors DEF Result, TypeInv, TypeOK
  <2>3. /\ Running /\ pc = "shown" /\ pc' \in {"turnEnd", "tools"}
        /\ transcript' = Append(transcript, m) /\ UNCHANGED <<base, turn, maxTurns>>
    BY <1>6 DEF StoreResult, Running
  <2>4. base' <= Len(transcript') /\ Used' = Used /\ Limit' = Limit
    BY <2>2, <2>3, UsedGrows DEF Limit
  <2> QED
    BY <2>3, <2>4 DEF Budget
<1>7. CASE EndTurn
  <2>1. /\ pc = "turnEnd" /\ pc' \in {"turnStart", "ending"} /\ turn' = turn + 1
        /\ UNCHANGED <<transcript, base, maxTurns>>
    BY <1>7 DEF EndTurn
  <2>2. Used' = Used /\ Limit' = Limit
    BY <2>1 DEF Used, Limit
  <2>3. maxTurns # None => Used <= turn /\ turn <= maxTurns /\ maxTurns = Limit /\ Used <= Limit
    BY <2>1, LimitTypes DEF Budget, Running
  <2> QED
    BY <2>1, <2>2, <2>3, LimitTypes DEF Budget, Running
<1>8. CASE Finish
  BY <1>8 DEF Finish, Leave, Budget, Running
<1> QED
  BY <1>1, <1>2, <1>3, <1>4, <1>5, <1>6, <1>7, <1>8 DEF Loop

\* Callers start a new budget or leave it alone.
LEMMA CallerBudget ==
  ASSUME TypeInv, Budget, Caller
  PROVE  Budget'
<1>1. CASE Prompt
  <2>1. Repaired(transcript) \in Seq(Message) /\ User("prompt") \in Message
    BY <1>1, RepairedType, NewMessage DEF Prompt, TypeInv, TypeOK
  <2>2. Append(Repaired(transcript), User("prompt")) \in Seq(Message)
    BY <2>1, AppendProperties
  <2> QED
    BY <1>1, <2>2, StartBudget DEF Prompt
<1>2. CASE Continue
  <2>1. Repaired(transcript) \in Seq(Message)
    BY RepairedType DEF TypeInv, TypeOK
  <2> QED
    BY <1>2, <2>1, StartBudget DEF Continue
<1>3. CASE AppendMessage
  <2>1. User("external") \in Message /\ User("external").role # "assistant"
    BY <1>3, NewMessage DEF AppendMessage, Accept, User
  <2>2. /\ transcript' = Append(transcript, User("external"))
        /\ UNCHANGED <<pc, base, turn, maxTurns>>
    BY <1>3 DEF AppendMessage, Accept, run
  <2>3. Running => base' <= Len(transcript') /\ Used' = Used /\ Limit' = Limit
    BY <2>1, <2>2, UsedGrows DEF Limit
  <2> QED
    BY <2>2, <2>3 DEF Budget, Running
<1>4. CASE Steer \/ FollowUp \/ Withdraw \/ Cancel
  <2>1. UNCHANGED <<transcript, pc, base, turn, maxTurns>>
    BY <1>4 DEF Steer, FollowUp, Accept, Withdraw, Cancel, run
  <2> QED
    BY <2>1 DEF Budget, Running, Used, Limit
<1> QED
  BY <1>1, <1>2, <1>3, <1>4 DEF Caller

\* max_turns holds for every limit, none and negative ones included, and
\* whatever is steered into a run or queued behind it: the check before each
\* provider call and the one before the first turn leave no way around it.
THEOREM TurnLimitHolds == Spec => []TurnBudget
<1>1. Init => Budget
  BY DEF Init, Budget, Running
<1>2. TypeInv /\ Budget /\ [Next]_vars => (TypeInv /\ Budget)'
  <2> SUFFICES ASSUME TypeInv, Budget, [Next]_vars PROVE Budget'
    BY NextTypes
  <2>1. CASE Loop
    BY <2>1, LoopBudget
  <2>2. CASE ProviderRaises \/ BatchFails \/ Abandon
    BY <2>2 DEF ProviderRaises, BatchFails, Abandon, Leave, Budget, Running
  <2>3. CASE Caller
    BY <2>3, CallerBudget
  <2>4. CASE UNCHANGED vars
    BY <2>4 DEF vars, run, Budget, Running, Used, Limit
  <2> QED
    BY <2>1, <2>2, <2>3, <2>4 DEF Next
<1>3. TypeInv /\ Budget => TurnBudget
  <2> SUFFICES ASSUME TypeInv, Budget, Running, maxTurns # None
               PROVE  Used + (IF pc = "answered" THEN 1 ELSE 0) <= Limit
    BY DEF TurnBudget, Used, Turns, Limit
  <2>1. Used \in Nat
    BY TurnsGrow, Constructors, ReplyTypes DEF Budget, TypeInv, TypeOK, Used
  <2> QED
    BY <2>1, LimitTypes DEF Budget
<1> QED
  BY InitTypes, <1>1, <1>2, <1>3, PTL DEF Spec

------------------------------------------------------------------------------
(* No accepted message is lost *)

Ids(q) == {q[p].id : p \in DOMAIN q}
UserIds(t) == {t[p].id : p \in PlacesOf(t, "user")}

\* Drained messages wait only where Inject follows.
PendingPlace == pc \notin {"injected", "turnStart"} => pending = <<>>

\* Where an accepted message can be, before and after a step.
LEMMA AcceptedParts ==
  /\ Accepted = UserIds(transcript) \cup Ids(steering) \cup Ids(followUp) \cup Ids(pending)
  /\ Accepted' = UserIds(transcript') \cup Ids(steering') \cup Ids(followUp')
                   \cup Ids(pending')
BY DEF Accepted, UserIds, Ids

\* Draining divides a queue into what is taken and what stays.
LEMMA QueueIds ==
  ASSUME NEW q \in Seq(UserMessage)
  PROVE  /\ Ids(q) \subseteq Ids(Drained(q)) \cup Ids(Rest(q))
         /\ q # <<>> => Ids(q) \subseteq {Head(q).id} \cup Ids(Tail(q))
         /\ \A m \in UserMessage : Ids(q) \subseteq Ids(Append(q, m))
<1>1. ASSUME q # <<>> PROVE Ids(q) \subseteq {Head(q).id} \cup Ids(Tail(q))
  <2>1. /\ Len(q) \in Nat /\ DOMAIN q = 1 .. Len(q) /\ Head(q) = q[1]
        /\ Len(Tail(q)) = Len(q) - 1 /\ DOMAIN Tail(q) = 1 .. Len(q) - 1
        /\ \A i \in 1 .. Len(q) - 1 : Tail(q)[i] = q[i + 1]
    BY <1>1
  <2> SUFFICES ASSUME NEW p \in 1 .. Len(q), p # 1 PROVE q[p].id \in Ids(Tail(q))
    BY <2>1 DEF Ids
  <2>2. p - 1 \in 1 .. Len(q) - 1 /\ (p - 1) + 1 = p
    BY <2>1
  <2>3. Tail(q)[p - 1] = q[p]
    BY <2>1, <2>2
  <2> QED
    BY <2>1, <2>2, <2>3 DEF Ids
<1>2. Ids(q) \subseteq Ids(Drained(q)) \cup Ids(Rest(q))
  <2>1. CASE QueueMode = "all" \/ q = <<>>
    BY <2>1 DEF Drained
  <2>2. CASE ~(QueueMode = "all" \/ q = <<>>)
    <3>1. Ids(<<Head(q)>>) = {Head(q).id}
      BY DEF Ids
    <3> QED
      BY <1>1, <2>2, <3>1 DEF Drained, Rest
  <2> QED
    BY <2>1, <2>2
<1>3. ASSUME NEW m \in UserMessage PROVE Ids(q) \subseteq Ids(Append(q, m))
  <2>1. \A i \in DOMAIN q : i \in DOMAIN Append(q, m) /\ Append(q, m)[i] = q[i]
    BY AppendProperties, LenProperties
  <2> QED
    BY <2>1 DEF Ids
<1> QED
  BY <1>1, <1>2, <1>3

\* The transcript only grows: by one message, or by a repair.
LEMMA TranscriptIds ==
  ASSUME NEW t \in Seq(Message)
  PROVE  /\ \A m \in Message :
              /\ UserIds(t) \subseteq UserIds(Append(t, m))
              /\ m.role = "user" => m.id \in UserIds(Append(t, m))
         /\ UserIds(t) \subseteq UserIds(Repaired(t))
<1>1. ASSUME NEW m \in Message
      PROVE  /\ UserIds(t) \subseteq UserIds(Append(t, m))
             /\ m.role = "user" => m.id \in UserIds(Append(t, m))
  <2>1. /\ \A i \in DOMAIN t : i \in DOMAIN Append(t, m) /\ Append(t, m)[i] = t[i]
        /\ Len(t) + 1 \in DOMAIN Append(t, m) /\ Append(t, m)[Len(t) + 1] = m
    BY AppendProperties, LenProperties
  <2> QED
    BY <2>1 DEF UserIds, PlacesOf
<1>2. UserIds(t) \subseteq UserIds(Repaired(t))
  <2>1. PICK s \in Seq(Message) : Repaired(t) = t \o s
    BY RepairType
  <2>2. \A i \in DOMAIN t : i \in DOMAIN (t \o s) /\ (t \o s)[i] = t[i]
    BY ConcatProperties, LenProperties
  <2> QED
    BY <2>1, <2>2 DEF UserIds, PlacesOf
<1> QED
  BY <1>1, <1>2

\* Proceed moves the messages of q, one at a time, into the transcript.
LEMMA ProceedKeeps ==
  ASSUME TypeInv, NEW q \in Seq(UserMessage), Proceed(q)
  PROVE  /\ UserIds(transcript) \cup Ids(q) \subseteq UserIds(transcript') \cup Ids(pending')
         /\ PendingPlace'
<1>1. transcript \in Seq(Message)
  BY DEF TypeInv, TypeOK
<1>2. CASE q # <<>>
  <2>1. /\ transcript' = Append(transcript, Head(q)) /\ pending' = Tail(q) /\ pc' = "injected"
        /\ Head(q) \in Message /\ Head(q).role = "user"
    BY <1>2, QueueTypes, Roles DEF Proceed, Message
  <2> QED
    BY <1>1, <1>2, <2>1, TranscriptIds, QueueIds DEF PendingPlace
<1>3. CASE q = <<>>
  <2>1. Refusal \in Message /\ Ids(q) = {}
    BY <1>3, Constructors, ReplyTypes DEF Ids
  <2>2. /\ transcript' \in {transcript, Append(transcript, Refusal)}
        /\ pending' = <<>>
    BY <1>3 DEF Proceed
  <2> QED
    BY <1>1, <2>1, <2>2, TranscriptIds DEF PendingPlace
<1> QED
  BY <1>2, <1>3

\* Leaving a run drops what is pending, and nothing else.
LEMMA LeaveKeeps ==
  ASSUME TypeInv, Leave
  PROVE  /\ PendingPlace'
         /\ Accepted \subseteq Accepted' \/ (~Running' /\ pending # <<>>)
<1>1. /\ transcript' \in {transcript, Repaired(transcript)} /\ transcript \in Seq(Message)
      /\ pc' = "idle" /\ pending' = <<>> /\ UNCHANGED <<steering, followUp>>
  BY DEF Leave, TypeInv, TypeOK
<1>2. UserIds(transcript) \subseteq UserIds(transcript')
  BY <1>1, TranscriptIds
<1>3. pending = <<>> => Accepted \subseteq Accepted'
  BY <1>1, <1>2, AcceptedParts
<1> QED
  BY <1>1, <1>3 DEF PendingPlace, Running

\* The loop only moves messages.
LEMMA LoopKeeps ==
  ASSUME TypeInv, PendingPlace, Loop, ~Finish
  PROVE  PendingPlace' /\ Accepted \subseteq Accepted'
<1>1. /\ transcript \in Seq(Message) /\ steering \in Seq(UserMessage)
      /\ followUp \in Seq(UserMessage) /\ pending \in Seq(UserMessage)
  BY DEF TypeInv, TypeOK
<1>2. ASSUME NEW m \in Message, transcript' = Append(transcript, m),
             UNCHANGED <<steering, followUp, pending>>
      PROVE  Accepted \subseteq Accepted'
  BY <1>1, <1>2, TranscriptIds, AcceptedParts
<1>3. CASE RefuseRun
  <2>1. Refusal \in Message
    BY Constructors, ReplyTypes
  <2> QED
    BY <1>2, <1>3, <2>1 DEF RefuseRun, PendingPlace
<1>4. CASE Open
  <2>1. /\ Drained(steering) \in Seq(UserMessage) /\ Proceed(Drained(steering))
        /\ steering' = Rest(steering) /\ followUp' = followUp /\ pending = <<>>
    BY <1>1, <1>4, QueueTypes DEF Open, PendingPlace
  <2>2. /\ UserIds(transcript) \cup Ids(Drained(steering))
             \subseteq UserIds(transcript') \cup Ids(pending')
        /\ PendingPlace'
    BY <2>1, ProceedKeeps
  <2>3. Ids(steering) \subseteq Ids(Drained(steering)) \cup Ids(steering')
    BY <1>1, <2>1, QueueIds
  <2>4. Ids(pending) = {}
    BY <2>1 DEF Ids
  <2> QED
    BY <2>1, <2>2, <2>3, <2>4, AcceptedParts
<1>5. CASE Inject
  BY <1>1, <1>5, ProceedKeeps, AcceptedParts DEF Inject
<1>6. CASE ProviderReplies \/ ShowResult
  <2>1. /\ UNCHANGED <<transcript, steering, followUp, pending>>
        /\ pc \in {"provider", "tools"}
    BY <1>6 DEF ProviderReplies, ShowResult
  <2> QED
    BY <2>1, AcceptedParts DEF PendingPlace
<1>7. CASE TakeFailure \/ TakeText \/ TakeCalls
  <2>1. /\ transcript' = Append(transcript, reply) /\ reply \in Message /\ pc = "answered"
        /\ UNCHANGED <<steering, followUp, pending>>
    BY <1>7, ReplyTypes DEF TakeFailure, TakeText, TakeCalls, TakeReply, TypeInv, TypeOK
  <2> QED
    BY <1>2, <2>1 DEF PendingPlace
<1>8. CASE StoreResult
  <2> DEFINE m == Result(reply.calls[Len(answered) + 1])
  <2>1. Len(answered) + 1 \in 1 .. Len(reply.calls)
    BY <1>8, ReplyTypes, CallListTypes, SMTT(30) DEF StoreResult, TypeInv, TypeOK, Cursor
  <2>2. m \in Message
    BY <2>1, ReplyTypes, CallListTypes, Constructors DEF TypeInv, TypeOK
  <2>3. transcript' = Append(transcript, m) /\ UNCHANGED <<steering, followUp, pending>>
        /\ pc = "shown"
    BY <1>8 DEF StoreResult
  <2> HIDE DEF m
  <2> QED
    BY <1>2, <2>2, <2>3 DEF PendingPlace
<1>9. CASE EndTurn
  <2>1. /\ pending = <<>> /\ UNCHANGED transcript /\ steering' = Rest(steering)
        /\ \/ /\ pending' = Drained(steering) /\ UNCHANGED followUp
              /\ pc' = "turnStart"
           \/ /\ pending' = Drained(followUp) /\ followUp' = Rest(followUp)
              /\ Drained(steering) = <<>>
              /\ pc' = "turnStart" \/ Drained(followUp) = <<>>
    BY <1>9 DEF EndTurn, PendingPlace
  <2>2. /\ Ids(steering) \subseteq Ids(Drained(steering)) \cup Ids(Rest(steering))
        /\ Ids(followUp) \subseteq Ids(Drained(followUp)) \cup Ids(Rest(followUp))
    BY <1>1, QueueIds
  <2>3. Ids(<<>>) = {}
    BY DEF Ids
  <2>4. PendingPlace'
    BY <2>1 DEF PendingPlace
  <2>5. Ids(steering) \cup Ids(followUp)
          \subseteq Ids(steering') \cup Ids(followUp') \cup Ids(pending')
    BY <2>1, <2>2, <2>3
  <2> QED
    BY <2>1, <2>3, <2>4, <2>5, AcceptedParts
<1> QED
  BY <1>3, <1>4, <1>5, <1>6, <1>7, <1>8, <1>9 DEF Loop

\* Callers add messages, and drop one only to withdraw it.
LEMMA CallerKeeps ==
  ASSUME TypeInv, PendingPlace, Caller
  PROVE  PendingPlace' /\ (Withdraw \/ Accepted \subseteq Accepted')
<1>1. /\ transcript \in Seq(Message) /\ steering \in Seq(UserMessage)
      /\ followUp \in Seq(UserMessage) /\ Repaired(transcript) \in Seq(Message)
  BY RepairedType DEF TypeInv, TypeOK
<1>2. CASE Prompt
  <2>1. /\ transcript' = Append(Repaired(transcript), User("prompt"))
        /\ User("prompt") \in Message /\ pc = "idle"
        /\ UNCHANGED <<steering, followUp, pending>>
    BY <1>2, NewMessage DEF Prompt, Start
  <2>2. UserIds(transcript) \subseteq UserIds(transcript')
    BY <1>1, <2>1, TranscriptIds
  <2> QED
    BY <2>1, <2>2, AcceptedParts DEF PendingPlace
<1>3. CASE Continue
  <2>1. /\ transcript' = Repaired(transcript) /\ pc = "idle"
        /\ UNCHANGED <<steering, followUp, pending>>
    BY <1>3 DEF Continue, Start
  <2> QED
    BY <1>1, <2>1, TranscriptIds, AcceptedParts DEF PendingPlace
<1>4. CASE Steer
  BY <1>1, <1>4, NewMessage, QueueIds, AcceptedParts DEF Steer, Accept, run, PendingPlace
<1>5. CASE FollowUp
  BY <1>1, <1>5, NewMessage, QueueIds, AcceptedParts DEF FollowUp, Accept, run, PendingPlace
<1>6. CASE AppendMessage
  BY <1>1, <1>6, NewMessage, TranscriptIds, AcceptedParts
     DEF AppendMessage, Accept, run, PendingPlace
<1>7. CASE Withdraw
  BY <1>7 DEF Withdraw, run, PendingPlace
<1>8. CASE Cancel
  BY <1>8, AcceptedParts DEF Cancel, run, PendingPlace
<1> QED
  BY <1>2, <1>3, <1>4, <1>5, <1>6, <1>7, <1>8 DEF Caller

\* An accepted message stays in a queue, in pending or in the transcript for good,
\* except when its sender withdraws it or when a run ends between draining a queue
\* and adding what it drained: no other step of the loop or its callers drops one.
THEOREM AcceptedIsKept == Spec => MessagesKept
<1>1. Init => PendingPlace
  BY DEF Init, PendingPlace
<1>2. TypeInv /\ PendingPlace /\ [Next]_vars
        => /\ (TypeInv /\ PendingPlace)'
           /\ [\/ Accepted \subseteq Accepted'
               \/ Withdraw
               \/ ~Running' /\ pending # <<>>]_vars
  <2> SUFFICES ASSUME TypeInv, PendingPlace, [Next]_vars
               PROVE  /\ PendingPlace'
                      /\ \/ UNCHANGED vars
                         \/ Accepted \subseteq Accepted'
                         \/ Withdraw
                         \/ ~Running' /\ pending # <<>>
    BY NextTypes
  <2>1. CASE Loop /\ ~Finish
    BY <2>1, LoopKeeps
  <2>2. CASE Leave
    BY <2>2, LeaveKeeps
  <2>3. CASE Caller
    BY <2>3, CallerKeeps
  <2>4. CASE UNCHANGED vars
    BY <2>4 DEF vars, run, PendingPlace
  <2> QED
    BY <2>1, <2>2, <2>3, <2>4 DEF Next, Finish, ProviderRaises, BatchFails, Abandon
<1> QED
  BY InitTypes, <1>1, <1>2, PTL DEF Spec, MessagesKept

\* Where drained messages wait.
LEMMA NextPending ==
  ASSUME TypeInv, PendingPlace, [Next]_vars
  PROVE  PendingPlace'
<1>1. CASE UNCHANGED vars
  BY <1>1 DEF vars, run, PendingPlace
<1> QED
  BY <1>1, LoopKeeps, LeaveKeeps, CallerKeeps
     DEF Next, Finish, ProviderRaises, BatchFails, Abandon

------------------------------------------------------------------------------
(* Queued messages stay in the order they were accepted *)

QueuedIds(s, via) == {s[p].id : p \in Queued(s, via)}
Less(A, B) == \A x \in A, y \in B : x < y

\* One queue and what was taken from it, on the way into the transcript; the messages
\* accepted so far are 1 .. n.
Line(t, p, q, via, n) ==
  /\ InOrder(t, via) /\ InOrder(p, via) /\ InOrder(q, via)
  /\ Less(QueuedIds(t, via), QueuedIds(p, via))
  /\ Less(QueuedIds(t, via), QueuedIds(q, via))
  /\ Less(QueuedIds(p, via), QueuedIds(q, via))
  /\ \A x \in QueuedIds(t, via) \cup QueuedIds(p, via) \cup QueuedIds(q, via) : x <= n

\* Steering messages and follow-ups have a line each.
Lines ==
  /\ Line(transcript, pending, steering, "steer", users)
  /\ Line(transcript, pending, followUp, "follow_up", users)
  /\ QueuedIds(steering, "follow_up") = {}
  /\ QueuedIds(followUp, "steer") = {}

\* The queued messages of two sequences, one after the other.
LEMMA Joined ==
  ASSUME NEW a \in Seq(Message), NEW b \in Seq(Message), NEW via
  PROVE  /\ a \o b \in Seq(Message)
         /\ QueuedIds(a \o b, via) = QueuedIds(a, via) \cup QueuedIds(b, via)
         /\ InOrder(a \o b, via) <=>
              /\ InOrder(a, via) /\ InOrder(b, via)
              /\ Less(QueuedIds(a, via), QueuedIds(b, via))
<1> DEFINE u == a \o b
<1>1. /\ u \in Seq(Message) /\ Len(u) = Len(a) + Len(b)
      /\ Len(a) \in Nat /\ Len(b) \in Nat
      /\ \A i \in 1 .. Len(a) : u[i] = a[i]
      /\ \A i \in 1 .. Len(b) : u[Len(a) + i] = b[i]
      /\ DOMAIN u = 1 .. Len(u) /\ DOMAIN a = 1 .. Len(a) /\ DOMAIN b = 1 .. Len(b)
  BY ConcatProperties
<1> HIDE DEF u
<1>2. \A i \in Queued(a, via) : i \in 1 .. Len(a) /\ i \in Queued(u, via) /\ u[i] = a[i]
  BY <1>1 DEF Queued
<1>3. \A i \in Queued(b, via) :
        i \in 1 .. Len(b) /\ Len(a) + i \in Queued(u, via) /\ u[Len(a) + i] = b[i]
  BY <1>1 DEF Queued
<1>4. ASSUME NEW i \in Queued(u, via)
      PROVE  \/ i \in 1 .. Len(a) /\ i \in Queued(a, via) /\ u[i] = a[i]
             \/ /\ i - Len(a) \in 1 .. Len(b) /\ i - Len(a) \in Queued(b, via)
                /\ u[i] = b[i - Len(a)]
  <2>1. i \in 1 .. Len(u)
    BY <1>1 DEF Queued
  <2>2. CASE i \in 1 .. Len(a)
    BY <1>1, <2>2 DEF Queued
  <2>3. CASE i \notin 1 .. Len(a)
    <3>1. i - Len(a) \in 1 .. Len(b) /\ Len(a) + (i - Len(a)) = i
      BY <1>1, <2>1, <2>3
    <3> QED
      BY <1>1, <3>1 DEF Queued
  <2> QED
    BY <2>2, <2>3
<1>5. QueuedIds(u, via) = QueuedIds(a, via) \cup QueuedIds(b, via)
  <2>1. QueuedIds(a, via) \cup QueuedIds(b, via) \subseteq QueuedIds(u, via)
    <3>1. ASSUME NEW i \in Queued(a, via) PROVE a[i].id \in QueuedIds(u, via)
      BY <1>2 DEF QueuedIds
    <3>2. ASSUME NEW i \in Queued(b, via) PROVE b[i].id \in QueuedIds(u, via)
      BY <1>3 DEF QueuedIds
    <3> QED
      BY <3>1, <3>2 DEF QueuedIds
  <2>2. ASSUME NEW i \in Queued(u, via)
        PROVE  u[i].id \in QueuedIds(a, via) \cup QueuedIds(b, via)
    BY <1>4 DEF QueuedIds
  <2> QED
    BY <2>1, <2>2 DEF QueuedIds
<1>6. ASSUME InOrder(u, via)
      PROVE  /\ InOrder(a, via) /\ InOrder(b, via)
             /\ Less(QueuedIds(a, via), QueuedIds(b, via))
  <2>1. InOrder(a, via)
    BY <1>2, <1>6 DEF InOrder
  <2>2. ASSUME NEW i \in Queued(b, via), NEW j \in Queued(b, via), i < j PROVE b[i].id < b[j].id
    <3>1. Len(a) + i < Len(a) + j
      BY <1>1, <1>3, <2>2
    <3> QED
      BY <1>3, <1>6, <3>1 DEF InOrder
  <2>3. ASSUME NEW i \in Queued(a, via), NEW j \in Queued(b, via) PROVE a[i].id < b[j].id
    <3>1. i < Len(a) + j
      BY <1>1, <1>2, <1>3
    <3> QED
      BY <1>2, <1>3, <1>6, <3>1 DEF InOrder
  <2> QED
    BY <2>1, <2>2, <2>3 DEF InOrder, Less, QueuedIds
<1>7. ASSUME InOrder(a, via), InOrder(b, via), Less(QueuedIds(a, via), QueuedIds(b, via)),
             NEW i \in Queued(u, via), NEW j \in Queued(u, via), i < j
      PROVE  u[i].id < u[j].id
  <2>1. CASE i \in 1 .. Len(a) /\ j \in 1 .. Len(a)
    <3>1. i - Len(a) \notin 1 .. Len(b) /\ j - Len(a) \notin 1 .. Len(b)
      BY <1>1, <2>1
    <3> QED
      BY <1>4, <1>7, <3>1 DEF InOrder
  <2>2. CASE i \in 1 .. Len(a) /\ j \notin 1 .. Len(a)
    <3>1. i - Len(a) \notin 1 .. Len(b)
      BY <1>1, <2>2
    <3>2. u[i].id \in QueuedIds(a, via) /\ u[j].id \in QueuedIds(b, via)
      BY <1>4, <2>2, <3>1 DEF QueuedIds
    <3> QED
      BY <1>7, <3>2 DEF Less
  <2>3. CASE i \notin 1 .. Len(a)
    <3>1. i \in Nat /\ j \in Nat /\ j \notin 1 .. Len(a)
      BY <1>1, <1>7, <2>3 DEF Queued
    <3>2. i - Len(a) < j - Len(a)
      BY <1>1, <1>7, <3>1
    <3> QED
      BY <1>4, <1>7, <2>3, <3>1, <3>2 DEF InOrder
  <2> QED
    BY <2>1, <2>2, <2>3
<1>8. InOrder(u, via) <=>
        /\ InOrder(a, via) /\ InOrder(b, via)
        /\ Less(QueuedIds(a, via), QueuedIds(b, via))
  BY <1>6, <1>7 DEF InOrder
<1> QED
  BY <1>1, <1>5, <1>8 DEF u

\* Nothing queued, and one message.
LEMMA ShortLines ==
  /\ \A via : QueuedIds(<<>>, via) = {} /\ InOrder(<<>>, via)
  /\ \A via, m : InOrder(<<m>>, via)
  /\ \A via, m : QueuedIds(<<m>>, via)
                   = IF m.role = "user" /\ m.via = via THEN {m.id} ELSE {}
<1>1. ASSUME NEW m, NEW via
      PROVE  /\ InOrder(<<m>>, via)
             /\ QueuedIds(<<m>>, via) = IF m.role = "user" /\ m.via = via THEN {m.id} ELSE {}
  <2>1. DOMAIN <<m>> = {1} /\ <<m>>[1] = m
    OBVIOUS
  <2> DEFINE s == <<m>>
  <2> HIDE DEF s
  <2>2. DOMAIN s = {1} /\ s[1] = m
    BY <2>1 DEF s
  <2>3. InOrder(s, via)
    BY <2>2 DEF InOrder, Queued
  <2>4. QueuedIds(s, via) = IF m.role = "user" /\ m.via = via THEN {m.id} ELSE {}
    BY <2>2 DEF QueuedIds, Queued
  <2> QED
    BY <2>3, <2>4 DEF s
<1> QED
  BY <1>1 DEF QueuedIds, InOrder, Queued

\* Every message of a user has a number, and a queue is a sequence of messages.
LEMMA QueueMessages ==
  ASSUME NEW q \in Seq(UserMessage)
  PROVE  q \in Seq(Message)
<1>1. \A m \in UserMessage : m \in Message
  BY DEF Message
<1> QED
  BY <1>1

LEMMA IdsAreNumbers ==
  ASSUME NEW t \in Seq(Message), NEW via
  PROVE  QueuedIds(t, via) \subseteq Int
<1> SUFFICES ASSUME NEW p \in Queued(t, via) PROVE t[p].id \in Int
  BY DEF QueuedIds
<1>1. t[p] \in Message /\ t[p].role = "user"
  BY DEF Queued
<1>2. t[p] \in UserMessage
  BY <1>1 DEF Message, UserMessage, AssistantMessage, ToolResult
<1> QED
  BY <1>2, BoundAssumption DEF UserMessage

\* A queue is what is taken from it and then what stays in it, or its first messages and
\* the last one.
LEMMA QueueParts ==
  ASSUME NEW q \in Seq(UserMessage)
  PROVE  /\ q = Drained(q) \o Rest(q)
         /\ q # <<>> => q = <<Head(q)>> \o Tail(q)
         /\ q # <<>> => q = AllButLast(q) \o <<q[Len(q)]>>
<1>1. q # <<>> => q = <<Head(q)>> \o Tail(q)
  OBVIOUS
<1>2. q = Drained(q) \o Rest(q)
  BY <1>1 DEF Drained, Rest
<1>3. q # <<>> => q = AllButLast(q) \o <<q[Len(q)]>>
  BY DEF AllButLast
<1> QED
  BY <1>1, <1>2, <1>3

\* Messages that are not of the queue go anywhere.
LEMMA Unqueued ==
  ASSUME NEW t \in Seq(Message), NEW p \in Seq(Message), NEW q \in Seq(Message),
         NEW via, NEW n, Line(t, p, q, via, n),
         NEW s \in Seq(Message), QueuedIds(s, via) = {}
  PROVE  /\ Line(t \o s, p, q, via, n)
         /\ Line(t \o s, <<>>, q, via, n)
         /\ Line(t, s, q, via, n)
         /\ Line(t, p, s, via, n)
<1>1. InOrder(s, via)
  BY DEF InOrder, QueuedIds
<1> QED
  BY <1>1, Joined, ShortLines, SMTT(30) DEF Line, Less

\* The line moves towards the transcript.
LEMMA LineMoves ==
  ASSUME NEW t \in Seq(Message), NEW p \in Seq(Message), NEW q \in Seq(Message),
         NEW via, NEW n
  PROVE  /\ Line(t, <<>>, p \o q, via, n) => Line(t, p, q, via, n)
         /\ Line(t, p \o q, <<>>, via, n) => Line(t \o p, q, <<>>, via, n)
         /\ \A r \in Seq(Message) :
              Line(t, p \o q, r, via, n) => Line(t \o p, q, r, via, n)
         /\ \A r \in Seq(Message) :
              Line(t, r, p \o q, via, n) => Line(t, r, p, via, n)
<1>1. <<>> \in Seq(Message)
  OBVIOUS
<1>2. Line(t, <<>>, p \o q, via, n) => Line(t, p, q, via, n)
  BY Joined, ShortLines DEF Line, Less
<1>3. ASSUME NEW r \in Seq(Message), Line(t, p \o q, r, via, n)
      PROVE  Line(t \o p, q, r, via, n)
  BY <1>3, Joined, SMTT(30) DEF Line, Less
<1>4. ASSUME NEW r \in Seq(Message), Line(t, r, p \o q, via, n)
      PROVE  Line(t, r, p, via, n)
  BY <1>4, Joined DEF Line, Less
<1> QED
  BY <1>1, <1>2, <1>3, <1>4

\* A message that is accepted now is the last of its line.
LEMMA LineGrows ==
  ASSUME NEW t \in Seq(Message), NEW p \in Seq(Message), NEW q \in Seq(Message),
         NEW via, NEW n \in Nat, Line(t, p, q, via, n),
         NEW m \in Message, m.role = "user" => m.id = n + 1
  PROVE  /\ Line(t, p, q, via, n + 1)
         /\ Line(t, p, Append(q, m), via, n + 1)
<1>1. /\ QueuedIds(t, via) \subseteq Int /\ QueuedIds(p, via) \subseteq Int
      /\ QueuedIds(q, via) \subseteq Int
  BY IdsAreNumbers
<1>2. Line(t, p, q, via, n + 1)
  BY <1>1 DEF Line
<1> DEFINE s == <<m>>
<1>3. /\ s \in Seq(Message) /\ Append(q, m) = q \o s
      /\ InOrder(s, via) /\ QueuedIds(s, via) \subseteq {n + 1}
  <2>1. s \in Seq(Message) /\ Append(q, m) = q \o s
    OBVIOUS
  <2>2. InOrder(s, via)
    BY ShortLines
  <2>3. QueuedIds(s, via) \subseteq {n + 1}
    <3>1. QueuedIds(s, via) = IF m.role = "user" /\ m.via = via THEN {m.id} ELSE {}
      BY ShortLines
    <3> QED
      BY <3>1
  <2> QED
    BY <2>1, <2>2, <2>3
<1> HIDE DEF s
<1>4. /\ InOrder(q \o s, via)
      /\ QueuedIds(q \o s, via) = QueuedIds(q, via) \cup QueuedIds(s, via)
  <2>1. Less(QueuedIds(q, via), QueuedIds(s, via))
    BY <1>1, <1>3 DEF Line, Less
  <2> QED
    BY <1>3, <2>1, Joined DEF Line
<1>5. Line(t, p, q \o s, via, n + 1)
  BY <1>1, <1>3, <1>4 DEF Line, Less
<1> QED
  BY <1>2, <1>3, <1>5

\* A repair adds results only.
LEMMA RepairUnqueued ==
  ASSUME NEW t \in Seq(Message)
  PROVE  \E s \in Seq(Message) :
           /\ Repaired(t) = t \o s
           /\ \A i \in DOMAIN s : s[i].role = "result"
           /\ \A via : QueuedIds(s, via) = {}
<1>1. PICK s \in Seq(Message) :
        /\ Repaired(t) = t \o s
        /\ \A k \in 1 .. Len(s) : s[k] = Result(CallAt(t, Nth(Unanswered(t), k)))
  BY RepairType
<1>2. \A c : Result(c).role = "result"
  BY DEF Result
<1>3. \A i \in DOMAIN s : s[i].role = "result"
  BY <1>1, <1>2
<1> QED
  BY <1>1, <1>3 DEF QueuedIds, Queued

\* What TypeInv says of the sequences, all of them of messages.
LEMMA LineTypes ==
  ASSUME TypeInv
  PROVE  /\ transcript \in Seq(Message) /\ users \in Nat
         /\ pending \in Seq(UserMessage) /\ pending \in Seq(Message)
         /\ steering \in Seq(UserMessage) /\ steering \in Seq(Message)
         /\ followUp \in Seq(UserMessage) /\ followUp \in Seq(Message)
         /\ <<>> \in Seq(Message)
BY QueueMessages DEF TypeInv, TypeOK

\* Proceed moves what it is given into the transcript.
LEMMA ProceedLines ==
  ASSUME TypeInv, NEW q \in Seq(UserMessage), Proceed(q),
         NEW r \in Seq(Message), NEW via, NEW n, Line(transcript, q, r, via, n)
  PROVE  Line(transcript', pending', r, via, n)
<1>1. transcript \in Seq(Message) /\ q \in Seq(Message) /\ <<>> \in Seq(Message)
  BY LineTypes, QueueMessages
<1>2. CASE q # <<>>
  <2> DEFINE s == <<Head(q)>>
             rest == Tail(q)
  <2>1. s \in Seq(Message) /\ rest \in Seq(Message) /\ q = s \o rest
    BY <1>1, <1>2
  <2>2. transcript' = transcript \o s /\ pending' = rest
    BY <1>1, <1>2, SMTT(30) DEF Proceed
  <2> HIDE DEF s, rest
  <2> QED
    BY <1>1, <2>1, <2>2, LineMoves
<1>3. CASE q = <<>>
  <2> DEFINE s == <<Refusal>>
  <2>1. s \in Seq(Message)
    BY QuietUsers
  <2>2. transcript' \in {transcript, transcript \o s} /\ pending' = <<>>
    BY <1>1, <1>3 DEF Proceed
  <2>3. QueuedIds(s, via) = {}
    <3>1. Refusal.role # "user"
      BY DEF Refusal, Assistant
    <3> QED
      BY <3>1, ShortLines
  <2> HIDE DEF s
  <2>4. Line(transcript, <<>>, r, via, n)
    BY <1>3
  <2>5. Line(transcript \o s, <<>>, r, via, n)
    BY <1>1, <2>1, <2>3, <2>4, Unqueued
  <2> QED
    BY <2>2, <2>4, <2>5
<1> QED
  BY <1>2, <1>3

\* Leaving a run drops what is pending.
LEMMA LeaveLines ==
  ASSUME TypeInv, Lines, Leave
  PROVE  Lines'
<1>1. PICK s \in Seq(Message) :
        /\ Repaired(transcript) = transcript \o s
        /\ \A via : QueuedIds(s, via) = {}
  BY LineTypes, RepairUnqueued
<1>2. transcript \in Seq(Message) /\ transcript \o <<>> = transcript /\ <<>> \in Seq(Message)
      /\ \A via : QueuedIds(<<>>, via) = {}
  BY LineTypes, ShortLines
<1>3. /\ transcript' \in {transcript \o <<>>, transcript \o s} /\ pending' = <<>>
      /\ UNCHANGED <<steering, followUp, users>>
  BY <1>1, <1>2 DEF Leave, counters
<1>4. /\ Line(transcript', pending', steering', "steer", users')
      /\ Line(transcript', pending', followUp', "follow_up", users')
  <2>1. ASSUME NEW x \in Seq(Message), \A via : QueuedIds(x, via) = {}
        PROVE  /\ Line(transcript \o x, <<>>, steering, "steer", users)
               /\ Line(transcript \o x, <<>>, followUp, "follow_up", users)
    BY <2>1, LineTypes, Unqueued DEF Lines
  <2> QED
    BY <1>1, <1>2, <1>3, <2>1
<1> QED
  BY <1>3, <1>4 DEF Lines

\* The loop hands messages on and adds its own, which are no user's.
LEMMA LoopLines ==
  ASSUME TypeInv, PendingPlace, Lines, Loop
  PROVE  Lines'
<1> USE LineTypes
<1>1. ASSUME NEW m \in Message, m.role # "user", transcript' = Append(transcript, m),
             UNCHANGED <<pending, steering, followUp, users>>
      PROVE  Lines'
  <2> DEFINE s == <<m>>
  <2>1. /\ s \in Seq(Message) /\ transcript' = transcript \o s
        /\ \A via : QueuedIds(s, via) = {}
    <3>1. s \in Seq(Message) /\ transcript' = transcript \o s
      BY <1>1
    <3>2. \A via : QueuedIds(s, via) = {}
      BY <1>1, ShortLines
    <3> QED
      BY <3>1, <3>2
  <2> HIDE DEF s
  <2> QED
    BY <1>1, <2>1, Unqueued DEF Lines
<1>2. CASE RefuseRun
  <2>1. Refusal \in Message /\ Refusal.role # "user"
    BY QuietUsers DEF Refusal, Assistant
  <2> QED
    BY <1>1, <1>2, <2>1 DEF RefuseRun, counters
<1>3. CASE Open
  <2> DEFINE d == Drained(steering)
             r == Rest(steering)
  <2>1. /\ d \in Seq(UserMessage) /\ d \in Seq(Message) /\ r \in Seq(Message)
        /\ steering = d \o r
    BY QueueTypes, QueueParts, QueueMessages
  <2>2. /\ Proceed(d) /\ pending = <<>>
        /\ steering' = r /\ UNCHANGED <<followUp, users>>
    BY <1>3 DEF Open, PendingPlace, counters
  <2> HIDE DEF d, r
  <2>3. /\ QueuedIds(d, "follow_up") = {} /\ QueuedIds(r, "follow_up") = {}
    BY <2>1, Joined DEF Lines
  <2>4. Line(transcript, d, r, "steer", users)
    BY <2>1, <2>2, LineMoves DEF Lines
  <2>5. Line(transcript, d, followUp, "follow_up", users)
    BY <2>1, <2>2, <2>3, Unqueued DEF Lines
  <2>6. /\ Line(transcript', pending', r, "steer", users)
        /\ Line(transcript', pending', followUp, "follow_up", users)
    BY <2>1, <2>2, <2>4, <2>5, ProceedLines
  <2> QED
    BY <2>2, <2>3, <2>6 DEF Lines
<1>4. CASE Inject
  <2>1. Proceed(pending) /\ UNCHANGED <<steering, followUp, users>>
    BY <1>4 DEF Inject, counters
  <2> QED
    BY <2>1, ProceedLines DEF Lines
<1>5. CASE ProviderReplies \/ ShowResult
  <2>1. UNCHANGED <<transcript, pending, steering, followUp, users>>
    BY <1>5 DEF ProviderReplies, ShowResult, counters
  <2> QED
    BY <2>1 DEF Lines
<1>6. CASE TakeFailure \/ TakeText \/ TakeCalls
  <2>1. /\ transcript' = Append(transcript, reply) /\ reply \in Message /\ reply.role # "user"
        /\ UNCHANGED <<pending, steering, followUp, users>>
    BY <1>6, ReplyTypes, Roles
       DEF TakeFailure, TakeText, TakeCalls, TakeReply, counters, TypeInv, TypeOK
  <2> QED
    BY <1>1, <2>1
<1>7. CASE StoreResult
  <2> DEFINE m == Result(reply.calls[Len(answered) + 1])
  <2>1. Len(answered) + 1 \in 1 .. Len(reply.calls)
    BY <1>7, ReplyTypes, CallListTypes, SMTT(30) DEF StoreResult, TypeInv, TypeOK, Cursor
  <2>2. m \in Message /\ m.role # "user"
    BY <2>1, ReplyTypes, CallListTypes, Constructors DEF Result, TypeInv, TypeOK
  <2>3. transcript' = Append(transcript, m) /\ UNCHANGED <<pending, steering, followUp, users>>
    BY <1>7 DEF StoreResult, counters
  <2> HIDE DEF m
  <2> QED
    BY <1>1, <2>2, <2>3
<1>8. CASE EndTurn
  <2> DEFINE d == Drained(steering)
             r == Rest(steering)
             e == Drained(followUp)
             g == Rest(followUp)
  <2>1. /\ d \in Seq(Message) /\ r \in Seq(Message) /\ steering = d \o r
        /\ e \in Seq(Message) /\ g \in Seq(Message) /\ followUp = e \o g
    BY QueueTypes, QueueParts, QueueMessages
  <2>2. /\ pending = <<>> /\ UNCHANGED <<transcript, users>> /\ steering' = r
        /\ \/ pending' = d /\ UNCHANGED followUp
           \/ pending' = e /\ followUp' = g
    BY <1>8 DEF EndTurn, PendingPlace, counters
  <2> HIDE DEF d, r, e, g
  <2>3. /\ QueuedIds(d, "follow_up") = {} /\ QueuedIds(r, "follow_up") = {}
        /\ QueuedIds(e, "steer") = {} /\ QueuedIds(g, "steer") = {}
    BY <2>1, Joined DEF Lines
  <2>4. /\ Line(transcript, d, r, "steer", users)
        /\ Line(transcript, e, g, "follow_up", users)
    BY <2>1, <2>2, LineMoves DEF Lines
  <2>5. Line(transcript, d, followUp, "follow_up", users)
    BY <2>1, <2>2, <2>3, Unqueued DEF Lines
  <2>6. Line(transcript, e, r, "steer", users)
    <3>1. Line(transcript, <<>>, r, "steer", users)
      BY <2>4, ShortLines DEF Line, Less
    <3> QED
      BY <2>1, <2>3, <3>1, Unqueued
  <2> QED
    BY <2>2, <2>3, <2>4, <2>5, <2>6 DEF Lines
<1>9. CASE Finish
  BY <1>9, LeaveLines DEF Finish
<1> QED
  BY <1>2, <1>3, <1>4, <1>5, <1>6, <1>7, <1>8, <1>9 DEF Loop

\* Callers add to the end of a line or take from it.
LEMMA CallerLines ==
  ASSUME TypeInv, Lines, Caller
  PROVE  Lines'
<1> USE LineTypes
<1>1. PICK s \in Seq(Message) :
        /\ Repaired(transcript) = transcript \o s
        /\ \A via : QueuedIds(s, via) = {}
  BY RepairUnqueued
<1>2. transcript \o s \in Seq(Message)
  BY Joined
<1>3. /\ Line(transcript \o s, pending, steering, "steer", users)
      /\ Line(transcript \o s, pending, followUp, "follow_up", users)
  BY <1>1, Unqueued DEF Lines
<1>4. CASE Prompt
  <2> DEFINE m == User("prompt")
             b == <<m>>
  <2>1. m \in Message /\ users' = users + 1 /\ UNCHANGED <<pending, steering, followUp>>
    BY <1>4, NewMessage DEF Prompt, Start
  <2>2. m.role = "user" /\ m.via = "prompt" /\ m.id = users + 1
    BY DEF User
  <2>3. /\ b \in Seq(Message) /\ transcript' = (transcript \o s) \o b
        /\ QueuedIds(b, "steer") = {} /\ QueuedIds(b, "follow_up") = {}
    <3>1. b \in Seq(Message) /\ transcript' = (transcript \o s) \o b
      <4> DEFINE a == transcript \o s
      <4>1. a \in Seq(Message) /\ transcript' = Append(a, m)
        BY <1>1, <1>2, <1>4 DEF Prompt, Start
      <4> HIDE DEF a, m
      <4>2. b \in Seq(Message) /\ Append(a, m) = a \o b
        BY <2>1, <4>1
      <4> QED
        BY <4>1, <4>2 DEF a
    <3>2. QueuedIds(b, "steer") = {} /\ QueuedIds(b, "follow_up") = {}
      BY <2>2, ShortLines
    <3> QED
      BY <3>1, <3>2
  <2> HIDE DEF m, b
  <2>4. /\ Line(transcript \o s, pending, steering, "steer", users + 1)
        /\ Line(transcript \o s, pending, followUp, "follow_up", users + 1)
    BY <1>2, <1>3, <2>1, <2>2, LineGrows
  <2>5. /\ Line((transcript \o s) \o b, pending, steering, "steer", users + 1)
        /\ Line((transcript \o s) \o b, pending, followUp, "follow_up", users + 1)
    BY <1>2, <2>3, <2>4, Unqueued
  <2> QED
    BY <2>1, <2>3, <2>5 DEF Lines
<1>5. CASE Continue
  <2>1. transcript' = transcript \o s /\ UNCHANGED <<pending, steering, followUp, users>>
    BY <1>1, <1>5 DEF Continue, Start
  <2> QED
    BY <1>3, <2>1 DEF Lines
<1>6. CASE Steer
  <2>1. /\ User("steer") \in Message /\ User("steer").id = users + 1
        /\ User("steer").via = "steer" /\ users' = users + 1
        /\ steering' = Append(steering, User("steer"))
        /\ UNCHANGED <<transcript, pending, followUp>>
    BY <1>6, NewMessage DEF Steer, Accept, run, User
  <2> DEFINE m == User("steer")
  <2> HIDE DEF m
  <2>2. /\ Line(transcript, pending, Append(steering, m), "steer", users + 1)
        /\ Line(transcript, pending, followUp, "follow_up", users + 1)
    BY <2>1, LineGrows DEF Lines, m
  <2>3. QueuedIds(Append(steering, m), "follow_up") = {}
    <3> DEFINE b == <<m>>
    <3>1. b \in Seq(Message) /\ Append(steering, m) = steering \o b
      BY <2>1 DEF m
    <3>2. QueuedIds(b, "follow_up") = {}
      BY <2>1, ShortLines DEF m
    <3> HIDE DEF b
    <3>3. QueuedIds(steering \o b, "follow_up") = QueuedIds(steering, "follow_up") \cup QueuedIds(b, "follow_up")
      BY <3>1, Joined
    <3> QED
      BY <3>1, <3>2, <3>3 DEF Lines
  <2> QED
    BY <2>1, <2>2, <2>3 DEF Lines, m
<1>7. CASE FollowUp
  <2>1. /\ User("follow_up") \in Message /\ User("follow_up").id = users + 1
        /\ User("follow_up").via = "follow_up" /\ users' = users + 1
        /\ followUp' = Append(followUp, User("follow_up"))
        /\ UNCHANGED <<transcript, pending, steering>>
    BY <1>7, NewMessage DEF FollowUp, Accept, run, User
  <2> DEFINE m == User("follow_up")
  <2> HIDE DEF m
  <2>2. /\ Line(transcript, pending, Append(followUp, m), "follow_up", users + 1)
        /\ Line(transcript, pending, steering, "steer", users + 1)
    BY <2>1, LineGrows DEF Lines, m
  <2>3. QueuedIds(Append(followUp, m), "steer") = {}
    <3> DEFINE b == <<m>>
    <3>1. b \in Seq(Message) /\ Append(followUp, m) = followUp \o b
      BY <2>1 DEF m
    <3>2. QueuedIds(b, "steer") = {}
      BY <2>1, ShortLines DEF m
    <3> HIDE DEF b
    <3>3. QueuedIds(followUp \o b, "steer") = QueuedIds(followUp, "steer") \cup QueuedIds(b, "steer")
      BY <3>1, Joined
    <3> QED
      BY <3>1, <3>2, <3>3 DEF Lines
  <2> QED
    BY <2>1, <2>2, <2>3 DEF Lines, m
<1>8. CASE AppendMessage
  <2> DEFINE m == User("external")
             b == <<m>>
  <2>1. m \in Message /\ users' = users + 1 /\ UNCHANGED <<pending, steering, followUp>>
    BY <1>8, NewMessage DEF AppendMessage, Accept, run
  <2>2. m.role = "user" /\ m.via = "external" /\ m.id = users + 1
    BY DEF User
  <2>3. b \in Seq(Message) /\ transcript' = transcript \o b
    BY <1>8, <2>1 DEF AppendMessage
  <2>4. QueuedIds(b, "steer") = {} /\ QueuedIds(b, "follow_up") = {}
    BY <2>2, ShortLines
  <2> HIDE DEF m, b
  <2>5. /\ Line(transcript, pending, steering, "steer", users + 1)
        /\ Line(transcript, pending, followUp, "follow_up", users + 1)
    BY <2>1, <2>2, LineGrows DEF Lines
  <2>6. /\ Line(transcript \o b, pending, steering, "steer", users + 1)
        /\ Line(transcript \o b, pending, followUp, "follow_up", users + 1)
    BY <2>3, <2>4, <2>5, Unqueued
  <2> QED
    BY <2>1, <2>3, <2>6 DEF Lines
<1>9. CASE Withdraw
  <2>1. ASSUME NEW q \in Seq(UserMessage), NEW w, w \in {q, <<>>} \/ (q # <<>> /\ w = AllButLast(q))
        PROVE  \E b \in Seq(Message) : q = w \o b /\ w \in Seq(Message)
    <3>1. q \in Seq(Message) /\ q \o <<>> = q /\ <<>> \o q = q /\ <<>> \in Seq(Message)
      BY QueueMessages
    <3>2. q # <<>> => /\ <<q[Len(q)]>> \in Seq(Message) /\ AllButLast(q) \in Seq(Message)
                      /\ q = AllButLast(q) \o <<q[Len(q)]>>
      <4> SUFFICES ASSUME q # <<>>
                   PROVE  /\ <<q[Len(q)]>> \in Seq(Message) /\ AllButLast(q) \in Seq(Message)
                          /\ q = AllButLast(q) \o <<q[Len(q)]>>
        OBVIOUS
      <4>1. q[Len(q)] \in Message
        BY <3>1
      <4>2. AllButLast(q) \in Seq(Message)
        BY QueueTypes, QueueMessages
      <4>3. <<q[Len(q)]>> \in Seq(Message)
        BY <4>1
      <4>4. q = AllButLast(q) \o <<q[Len(q)]>>
        BY QueueParts
      <4> QED
        BY <4>2, <4>3, <4>4
    <3> QED
      BY <2>1, <3>1, <3>2
  <2>2. /\ steering' \in {steering, <<>>} \/ (steering # <<>> /\ steering' = AllButLast(steering))
        /\ followUp' \in {followUp, <<>>} \/ (followUp # <<>> /\ followUp' = AllButLast(followUp))
        /\ UNCHANGED <<transcript, pending, users>>
    BY <1>9 DEF Withdraw, run, counters
  <2>3. PICK b \in Seq(Message) : steering = steering' \o b /\ steering' \in Seq(Message)
    BY <2>1, <2>2
  <2>4. PICK c \in Seq(Message) : followUp = followUp' \o c /\ followUp' \in Seq(Message)
    BY <2>1, <2>2
  <2>5. /\ Line(transcript, pending, steering', "steer", users)
        /\ Line(transcript, pending, followUp', "follow_up", users)
    BY <2>3, <2>4, LineMoves DEF Lines
  <2>6. QueuedIds(steering', "follow_up") = {} /\ QueuedIds(followUp', "steer") = {}
    BY <2>3, <2>4, Joined DEF Lines
  <2> QED
    BY <2>2, <2>5, <2>6 DEF Lines
<1>10. CASE Cancel
  BY <1>10 DEF Cancel, run, counters, Lines
<1> QED
  BY <1>4, <1>5, <1>6, <1>7, <1>8, <1>9, <1>10 DEF Caller

LEMMA NextLines ==
  ASSUME TypeInv, PendingPlace, Lines, [Next]_vars
  PROVE  Lines'
<1>1. CASE ProviderRaises \/ BatchFails \/ Abandon
  BY <1>1, LeaveLines DEF ProviderRaises, BatchFails, Abandon
<1>2. CASE UNCHANGED vars
  BY <1>2 DEF vars, run, counters, Lines
<1> QED
  BY <1>1, <1>2, LoopLines, CallerLines DEF Next

LEMMA InitLines == Init => Lines
BY ShortLines, BoundAssumption DEF Init, Lines, Line, Less

\* The lines are the order that was promised.
LEMMA LinesAreOrder ==
  ASSUME TypeInv, Lines
  PROVE  InAcceptedOrder
<1> USE LineTypes
<1>1. /\ transcript \o pending \in Seq(Message)
      /\ \A via : QueuedIds(transcript \o pending, via)
                    = QueuedIds(transcript, via) \cup QueuedIds(pending, via)
  BY Joined
<1>2. /\ InOrder(transcript \o pending, "steer")
      /\ InOrder(transcript \o pending, "follow_up")
  BY Joined DEF Lines, Line
<1> DEFINE a == transcript \o pending
<1>3. /\ InOrder(a \o steering, "steer")
      /\ InOrder(a \o followUp, "follow_up")
  <2>1. /\ a \in Seq(Message)
        /\ InOrder(a, "steer") /\ InOrder(a, "follow_up")
        /\ Less(QueuedIds(a, "steer"), QueuedIds(steering, "steer"))
        /\ Less(QueuedIds(a, "follow_up"), QueuedIds(followUp, "follow_up"))
        /\ InOrder(steering, "steer") /\ InOrder(followUp, "follow_up")
    BY <1>1, <1>2 DEF Lines, Line, Less
  <2> HIDE DEF a
  <2> QED
    BY <2>1, Joined
<1> QED
  BY <1>3 DEF InAcceptedOrder

------------------------------------------------------------------------------
(* No follow-up interrupts a chain of tool calls *)

FollowsUp(m) == m.role = "user" /\ m.via = "follow_up"

\* A follow-up may come next.
Ready(t) ==
  /\ t # <<>>
  /\ t[Len(t)] = Assistant(<<>>, "done") \/ FollowsUp(t[Len(t)])

Of(q, via) == \A i \in DOMAIN q : q[i].via = via

Waits ==
  /\ FollowUpsWait(transcript)
  /\ Of(steering, "steer") /\ Of(followUp, "follow_up")
  /\ Of(pending, "steer") \/ (Of(pending, "follow_up") /\ Ready(transcript))
  /\ pc = "turnEnd" /\ reply.calls = <<>> => Ready(transcript)

\* What is taken from a queue, and what stays, came the same way.
LEMMA OfParts ==
  ASSUME NEW q \in Seq(UserMessage), NEW via, Of(q, via)
  PROVE  /\ Of(Drained(q), via) /\ Of(Rest(q), via) /\ Of(AllButLast(q), via) /\ Of(<<>>, via)
         /\ q # <<>> => Head(q).via = via /\ Of(Tail(q), via)
         /\ \A m \in UserMessage : m.via = via => Of(Append(q, m), via)
<1>1. Of(<<>>, via)
  BY DEF Of
<1>2. ASSUME q # <<>> PROVE Head(q).via = via /\ Of(Tail(q), via) /\ Of(<<Head(q)>>, via)
  <2>1. /\ Len(q) \in Nat /\ DOMAIN q = 1 .. Len(q) /\ Head(q) = q[1]
        /\ DOMAIN Tail(q) = 1 .. Len(q) - 1
        /\ \A i \in 1 .. Len(q) - 1 : Tail(q)[i] = q[i + 1]
    BY <1>2
  <2>2. 1 \in DOMAIN q
    BY <1>2, <2>1, EmptySeq
  <2>3. Head(q).via = via
    BY <2>1, <2>2 DEF Of
  <2>4. Of(Tail(q), via)
    <3>1. ASSUME NEW i \in 1 .. Len(q) - 1 PROVE i + 1 \in DOMAIN q
      BY <2>1
    <3> QED
      BY <2>1, <3>1 DEF Of
  <2>5. DOMAIN <<Head(q)>> = {1} /\ <<Head(q)>>[1] = Head(q)
    OBVIOUS
  <2>6. Of(<<Head(q)>>, via)
    BY <2>3, <2>5 DEF Of
  <2> QED
    BY <2>3, <2>4, <2>6
<1>3. Of(Drained(q), via) /\ Of(Rest(q), via)
  BY <1>1, <1>2 DEF Drained, Rest
<1>4. Of(AllButLast(q), via)
  <2>1. /\ Len(q) \in Nat /\ DOMAIN q = 1 .. Len(q)
        /\ \A i \in 1 .. Len(q) - 1 : q[i] \in UserMessage
    OBVIOUS
  <2>2. /\ DOMAIN AllButLast(q) = 1 .. Len(q) - 1
        /\ \A i \in 1 .. Len(q) - 1 : AllButLast(q)[i] = q[i]
    BY <2>1 DEF AllButLast
  <2> QED
    BY <2>1, <2>2 DEF Of
<1>5. ASSUME NEW m \in UserMessage, m.via = via PROVE Of(Append(q, m), via)
  <2>1. /\ DOMAIN Append(q, m) = 1 .. Len(q) + 1 /\ Len(q) \in Nat
        /\ \A i \in 1 .. Len(q) : i \in DOMAIN q /\ Append(q, m)[i] = q[i]
        /\ Append(q, m)[Len(q) + 1] = m
    OBVIOUS
  <2>2. \A i \in 1 .. Len(q) + 1 : i \in 1 .. Len(q) \/ i = Len(q) + 1
    BY <2>1
  <2> HIDE DEF Of
  <2> QED
    BY <1>5, <2>1, <2>2 DEF Of
<1> QED
  BY <1>1, <1>2, <1>3, <1>4, <1>5

\* A message that is no follow-up, or comes when one may.
LEMMA WaitsAppend ==
  ASSUME NEW t \in Seq(Message), NEW m \in Message, FollowUpsWait(t),
         FollowsUp(m) => Ready(t)
  PROVE  /\ FollowUpsWait(Append(t, m))
         /\ FollowsUp(m) \/ m = Assistant(<<>>, "done") => Ready(Append(t, m))
<1> DEFINE u == Append(t, m)
<1>1. /\ u \in Seq(Message) /\ Len(u) = Len(t) + 1 /\ Len(t) \in Nat
      /\ DOMAIN t = 1 .. Len(t) /\ DOMAIN u = 1 .. Len(t) + 1
      /\ u[Len(t) + 1] = m /\ \A p \in 1 .. Len(t) : u[p] = t[p]
      /\ u # <<>>
  OBVIOUS
<1> HIDE DEF u
<1>2. ASSUME NEW p \in Queued(u, "follow_up")
      PROVE  p > 1 /\ (u[p - 1] = Assistant(<<>>, "done") \/ p - 1 \in Queued(u, "follow_up"))
  <2>1. CASE p \in 1 .. Len(t)
    <3>1. p \in Queued(t, "follow_up")
      BY <1>1, <2>1 DEF Queued
    <3>2. p > 1 /\ (t[p - 1] = Assistant(<<>>, "done") \/ p - 1 \in Queued(t, "follow_up"))
      BY <3>1 DEF FollowUpsWait
    <3>3. p - 1 \in 1 .. Len(t) /\ p - 1 \in DOMAIN u
      BY <1>1, <2>1, <3>2
    <3> QED
      BY <1>1, <3>2, <3>3 DEF Queued
  <2>2. CASE p \notin 1 .. Len(t)
    <3>1. p = Len(t) + 1 /\ FollowsUp(m)
      BY <1>1, <2>2 DEF Queued, FollowsUp
    <3>2. t # <<>> /\ (t[Len(t)] = Assistant(<<>>, "done") \/ FollowsUp(t[Len(t)]))
      BY <3>1 DEF Ready
    <3>3. Len(t) \in 1 .. Len(t) /\ p - 1 = Len(t) /\ Len(t) \in DOMAIN u /\ p > 1
      BY <1>1, <3>1, <3>2, EmptySeq
    <3> QED
      BY <1>1, <3>2, <3>3 DEF Queued, FollowsUp
  <2> QED
    BY <2>1, <2>2
<1>3. FollowUpsWait(u)
  BY <1>2 DEF FollowUpsWait
<1>4. FollowsUp(m) \/ m = Assistant(<<>>, "done") => Ready(u)
  BY <1>1 DEF Ready
<1> QED
  BY <1>3, <1>4 DEF u

\* A repair adds no follow-up.
LEMMA WaitsRepair ==
  ASSUME NEW t \in Seq(Message), FollowUpsWait(t)
  PROVE  FollowUpsWait(Repaired(t))
<1>1. PICK s \in Seq(Message) :
        /\ Repaired(t) = t \o s
        /\ \A i \in DOMAIN s : s[i].role = "result"
  BY RepairUnqueued
<1> DEFINE u == t \o s
<1>2. /\ u \in Seq(Message) /\ Len(u) = Len(t) + Len(s)
      /\ Len(t) \in Nat /\ Len(s) \in Nat
      /\ \A i \in 1 .. Len(t) : u[i] = t[i]
      /\ \A i \in 1 .. Len(s) : u[Len(t) + i] = s[i]
      /\ DOMAIN u = 1 .. Len(u) /\ DOMAIN t = 1 .. Len(t) /\ DOMAIN s = 1 .. Len(s)
  BY ConcatProperties
<1> HIDE DEF u
<1>3. ASSUME NEW p \in Queued(u, "follow_up")
      PROVE  p > 1 /\ (u[p - 1] = Assistant(<<>>, "done") \/ p - 1 \in Queued(u, "follow_up"))
  <2>1. p \in 1 .. Len(t)
    <3>1. ASSUME p \notin 1 .. Len(t) PROVE FALSE
      <4>1. p - Len(t) \in 1 .. Len(s) /\ Len(t) + (p - Len(t)) = p
        BY <1>2, <3>1 DEF Queued
      <4>2. u[p].role = "result"
        BY <1>1, <1>2, <4>1
      <4> QED
        BY <4>2 DEF Queued
    <3> QED
      BY <3>1
  <2>2. p \in Queued(t, "follow_up")
    BY <1>2, <2>1 DEF Queued
  <2>3. p > 1 /\ (t[p - 1] = Assistant(<<>>, "done") \/ p - 1 \in Queued(t, "follow_up"))
    BY <2>2 DEF FollowUpsWait
  <2>4. p - 1 \in 1 .. Len(t) /\ p - 1 \in DOMAIN u
    BY <1>2, <2>1, <2>3
  <2> QED
    BY <1>2, <2>3, <2>4 DEF Queued
<1> QED
  BY <1>1, <1>3 DEF FollowUpsWait, u

\* Proceed with steering messages, or with follow-ups when they may come.
LEMMA ProceedWaits ==
  ASSUME TypeInv, FollowUpsWait(transcript), NEW q \in Seq(UserMessage), Proceed(q),
         Of(q, "steer") \/ (Of(q, "follow_up") /\ Ready(transcript))
  PROVE  /\ FollowUpsWait(transcript')
         /\ Of(pending', "steer") \/ (Of(pending', "follow_up") /\ Ready(transcript'))
         /\ pc' # "turnEnd"
<1>1. transcript \in Seq(Message)
  BY LineTypes
<1>2. CASE q # <<>>
  <2>1. /\ transcript' = Append(transcript, Head(q)) /\ pending' = Tail(q) /\ pc' = "injected"
        /\ Head(q) \in Message /\ Head(q).role = "user"
    BY <1>2, QueueTypes, QuietUsers, Roles DEF Proceed
  <2>2. CASE Of(q, "steer")
    <3>1. Head(q).via = "steer" /\ Of(Tail(q), "steer")
      BY <1>2, <2>2, OfParts
    <3> QED
      BY <1>1, <2>1, <3>1, WaitsAppend DEF FollowsUp
  <2>3. CASE Of(q, "follow_up") /\ Ready(transcript)
    <3>1. Head(q).via = "follow_up" /\ Of(Tail(q), "follow_up")
      BY <1>2, <2>3, OfParts
    <3> QED
      BY <1>1, <2>1, <2>3, <3>1, WaitsAppend DEF FollowsUp
  <2> QED
    BY <2>2, <2>3
<1>3. CASE q = <<>>
  <2>1. /\ transcript' \in {transcript, Append(transcript, Refusal)} /\ pending' = <<>>
        /\ pc' # "turnEnd"
    BY <1>3 DEF Proceed
  <2>2. Of(<<>>, "steer")
    BY DEF Of
  <2>3. Refusal \in Message /\ ~FollowsUp(Refusal)
    BY QuietUsers DEF FollowsUp, Refusal, Assistant
  <2> QED
    BY <1>1, <2>1, <2>2, <2>3, WaitsAppend
<1> QED
  BY <1>2, <1>3

LEMMA LeaveWaits ==
  ASSUME TypeInv, Waits, Leave
  PROVE  Waits'
<1>1. /\ transcript' \in {transcript, Repaired(transcript)} /\ pending' = <<>> /\ pc' = "idle"
      /\ UNCHANGED <<steering, followUp>>
  BY DEF Leave
<1>2. FollowUpsWait(transcript') /\ Of(<<>>, "steer")
  BY <1>1, LineTypes, WaitsRepair DEF Waits, Of
<1> QED
  BY <1>1, <1>2 DEF Waits

\* The loop takes follow-ups only after an answer without calls.
LEMMA LoopWaits ==
  ASSUME TypeInv, PendingPlace, Waits, Loop
  PROVE  Waits'
<1> USE LineTypes
<1>0. Of(<<>>, "steer")
  BY DEF Of
<1>1. ASSUME NEW m \in Message, ~FollowsUp(m), transcript' = Append(transcript, m),
             pending = <<>>, UNCHANGED <<pending, steering, followUp>>,
             pc' = "turnEnd" /\ reply'.calls = <<>> => m = Assistant(<<>>, "done")
      PROVE  Waits'
  <2>1. FollowUpsWait(transcript') /\ (m = Assistant(<<>>, "done") => Ready(transcript'))
    BY <1>1, WaitsAppend DEF Waits
  <2> QED
    BY <1>0, <1>1, <2>1 DEF Waits
<1>2. CASE RefuseRun
  <2>1. Refusal \in Message /\ ~FollowsUp(Refusal)
    BY QuietUsers DEF FollowsUp, Refusal, Assistant
  <2>2. /\ transcript' = Append(transcript, Refusal) /\ pending = <<>> /\ pc' = "ending"
        /\ UNCHANGED <<pending, steering, followUp>>
    BY <1>2 DEF RefuseRun, PendingPlace
  <2> QED
    BY <1>1, <2>1, <2>2
<1>3. CASE Open
  <2>1. /\ Drained(steering) \in Seq(UserMessage) /\ Proceed(Drained(steering))
        /\ steering' = Rest(steering) /\ followUp' = followUp
        /\ Of(Drained(steering), "steer") /\ Of(Rest(steering), "steer")
    BY <1>3, QueueTypes, OfParts DEF Open, Waits
  <2>2. /\ FollowUpsWait(transcript')
        /\ Of(pending', "steer") \/ (Of(pending', "follow_up") /\ Ready(transcript'))
        /\ pc' # "turnEnd"
    BY <2>1, ProceedWaits DEF Waits
  <2> QED
    BY <2>1, <2>2 DEF Waits
<1>4. CASE Inject
  <2>1. Proceed(pending) /\ UNCHANGED <<steering, followUp>>
    BY <1>4 DEF Inject
  <2> QED
    BY <2>1, ProceedWaits DEF Waits
<1>5. CASE ProviderReplies \/ ShowResult
  <2>1. UNCHANGED <<transcript, pending, steering, followUp>> /\ pc' \in {"answered", "shown"}
    BY <1>5 DEF ProviderReplies, ShowResult
  <2> QED
    BY <2>1 DEF Waits
<1>6. CASE TakeFailure \/ TakeText \/ TakeCalls
  <2>1. /\ transcript' = Append(transcript, reply) /\ reply \in Message /\ ~FollowsUp(reply)
        /\ pending = <<>> /\ UNCHANGED <<pending, steering, followUp, reply>>
    BY <1>6, ReplyTypes, Roles DEF TakeFailure, TakeText, TakeCalls, TakeReply, TypeInv,
       TypeOK, PendingPlace, FollowsUp
  <2>2. ASSUME pc' = "turnEnd" PROVE reply = Assistant(<<>>, "done")
    <3>1. reply \in AssistantMessage /\ reply.stop = "done" /\ reply.calls = <<>>
      BY <1>6, <2>2 DEF TakeFailure, TakeText, TakeCalls, TypeInv, TypeOK
    <3> QED
      BY <3>1 DEF AssistantMessage, Assistant
  <2> QED
    BY <1>1, <2>1, <2>2
<1>7. CASE StoreResult
  <2> DEFINE m == Result(reply.calls[Len(answered) + 1])
  <2>1. Len(answered) + 1 \in 1 .. Len(reply.calls)
    BY <1>7, ReplyTypes, CallListTypes, SMTT(30) DEF StoreResult, TypeInv, TypeOK, Cursor
  <2>2. m \in Message /\ ~FollowsUp(m)
    BY <2>1, ReplyTypes, CallListTypes, Constructors DEF Result, TypeInv, TypeOK, FollowsUp
  <2>3. /\ transcript' = Append(transcript, m) /\ pending = <<>>
        /\ UNCHANGED <<pending, steering, followUp, reply>>
    BY <1>7 DEF StoreResult, PendingPlace
  <2>4. reply.calls # <<>>
    <3>1. Len(<<>>) = 0 /\ 1 .. 0 = {} /\ Len(answered) \in Nat
      BY DEF TypeInv, TypeOK
    <3> QED
      BY <2>1, <3>1
  <2> HIDE DEF m
  <2> QED
    BY <1>1, <2>2, <2>3, <2>4
<1>8. CASE EndTurn
  <2>1. /\ Of(Drained(steering), "steer") /\ Of(Rest(steering), "steer")
        /\ Of(Drained(followUp), "follow_up") /\ Of(Rest(followUp), "follow_up")
    BY OfParts DEF Waits
  <2>2. /\ UNCHANGED transcript /\ steering' = Rest(steering) /\ pc = "turnEnd"
        /\ pc' \in {"turnStart", "ending"} /\ followUp' \in {followUp, Rest(followUp)}
        /\ \/ pending' = Drained(steering)
           \/ pending' = Drained(followUp) /\ reply.calls = <<>>
    BY <1>8 DEF EndTurn
  <2> QED
    BY <2>1, <2>2 DEF Waits
<1>9. CASE Finish
  BY <1>9, LeaveWaits DEF Finish
<1> QED
  BY <1>2, <1>3, <1>4, <1>5, <1>6, <1>7, <1>8, <1>9 DEF Loop

\* Callers queue messages; one that goes straight into the transcript is no follow-up.
LEMMA CallerWaits ==
  ASSUME ~ExternalAppends, TypeInv, PendingPlace, Waits, Caller
  PROVE  Waits'
<1> USE LineTypes
<1>1. CASE Prompt
  <2>1. /\ transcript' = Append(Repaired(transcript), User("prompt")) /\ pc' = "opening"
        /\ pending = <<>> /\ UNCHANGED <<pending, steering, followUp>>
        /\ User("prompt") \in Message /\ ~FollowsUp(User("prompt"))
    BY <1>1, NewMessage DEF Prompt, Start, PendingPlace, FollowsUp, User
  <2>2. FollowUpsWait(transcript')
    BY <2>1, WaitsRepair, WaitsAppend, RepairedType DEF Waits
  <2> QED
    BY <2>1, <2>2 DEF Waits, Of
<1>2. CASE Continue
  <2>1. /\ transcript' = Repaired(transcript) /\ pc' = "opening"
        /\ pending = <<>> /\ UNCHANGED <<pending, steering, followUp>>
    BY <1>2 DEF Continue, Start, PendingPlace
  <2> QED
    BY <2>1, WaitsRepair DEF Waits, Of
<1>3. CASE Steer
  <2>1. User("steer") \in UserMessage /\ User("steer").via = "steer"
        /\ steering' = Append(steering, User("steer"))
        /\ UNCHANGED <<transcript, pending, followUp, pc, reply>>
    BY <1>3, NewMessage DEF Steer, Accept, run, User
  <2>2. Of(steering', "steer")
    BY <2>1, OfParts DEF Waits
  <2> QED
    BY <2>1, <2>2 DEF Waits
<1>4. CASE FollowUp
  <2>1. User("follow_up") \in UserMessage /\ User("follow_up").via = "follow_up"
        /\ followUp' = Append(followUp, User("follow_up"))
        /\ UNCHANGED <<transcript, pending, steering, pc, reply>>
    BY <1>4, NewMessage DEF FollowUp, Accept, run, User
  <2>2. Of(followUp', "follow_up")
    BY <2>1, OfParts DEF Waits
  <2> QED
    BY <2>1, <2>2 DEF Waits
<1>5. CASE AppendMessage
  BY <1>5 DEF AppendMessage
<1>6. CASE Withdraw
  <2>1. /\ steering' \in {steering, AllButLast(steering), <<>>}
        /\ followUp' \in {followUp, AllButLast(followUp), <<>>}
        /\ UNCHANGED <<transcript, pending, pc, reply>>
    BY <1>6 DEF Withdraw, run
  <2>2. Of(steering', "steer") /\ Of(followUp', "follow_up")
    BY <2>1, OfParts DEF Waits
  <2> QED
    BY <2>1, <2>2 DEF Waits
<1>7. CASE Cancel
  BY <1>7 DEF Cancel, run, Waits
<1> QED
  BY <1>1, <1>2, <1>3, <1>4, <1>5, <1>6, <1>7 DEF Caller

LEMMA NextWaits ==
  ASSUME ~ExternalAppends, TypeInv, PendingPlace, Waits, [Next]_vars
  PROVE  Waits'
<1>1. CASE ProviderRaises \/ BatchFails \/ Abandon
  BY <1>1, LeaveWaits DEF ProviderRaises, BatchFails, Abandon
<1>2. CASE UNCHANGED vars
  BY <1>2 DEF vars, run, Waits
<1> QED
  BY <1>1, <1>2, LoopWaits, CallerWaits DEF Next

LEMMA InitWaits == Init => Waits
BY DEF Init, Waits, FollowUpsWait, Queued, Of

------------------------------------------------------------------------------
(* Results stand where their calls say *)

\* The place of the result of the call at place x.
Slot(x) == x[1] + x[2]

\* No slot holds anything but its result, and every result is at a slot.
Placed(t) ==
  /\ \A x \in CallPlaces(t) :
       Slot(x) \in DOMAIN t => t[Slot(x)] = Result(CallAt(t, x))
  /\ \A q \in PlacesOf(t, "result") : \E x \in CallPlaces(t) : q = Slot(x)

\* Only the message at place p can have slots beyond the end.
Settled(t, p) == \A x \in CallPlaces(t) : x[1] # p => Slot(x) \in DOMAIN t

\* What is being handed over: the transcript ends with the answer a and its first n results.
Handing(t, a, n) ==
  \E p \in PlacesOf(t, "assistant") : t[p] = a /\ p + n = Len(t) /\ Settled(t, p)

\* The transcript of every pc: complete where a provider call or a new message can follow.
Shape ==
  /\ Placed(transcript)
  /\ pc \in Closed => Replayable(transcript)
  /\ pc \in {"tools", "shown"} => Handing(transcript, reply, Len(answered))

\* Places and calls of a transcript with one more message, at place z.
Grown(u, t, m, z) ==
  /\ u \in Seq(Message) /\ Len(u) = z /\ Len(t) \in Nat /\ z = Len(t) + 1 /\ u[z] = m
  /\ DOMAIN t = 1 .. Len(t) /\ DOMAIN u = 1 .. z
  /\ \A i \in DOMAIN t : i \in DOMAIN u /\ u[i] = t[i]
  /\ PlacesOf(u, "result") = PlacesOf(t, "result") \cup (IF m.role = "result" THEN {z} ELSE {})
  /\ \A x \in CallPlaces(t) :
       /\ x \in CallPlaces(u) /\ CallAt(u, x) = CallAt(t, x)
       /\ x[1] \in DOMAIN t /\ x[2] \in Nat \ {0}
  /\ \A x \in CallPlaces(u) :
       \/ x \in CallPlaces(t)
       \/ m.role = "assistant" /\ x = <<z, x[2]>> /\ x[2] \in DOMAIN m.calls

LEMMA AppendPlaces ==
  ASSUME NEW t \in Seq(Message), NEW m \in Message
  PROVE  Grown(Append(t, m), t, m, Len(t) + 1)
<1> DEFINE u == Append(t, m)
           z == Len(t) + 1
<1>1. /\ u \in Seq(Message) /\ Len(u) = z /\ Len(t) \in Nat /\ u[z] = m
      /\ DOMAIN t = 1 .. Len(t) /\ DOMAIN u = 1 .. z
      /\ \A i \in 1 .. Len(t) : u[i] = t[i]
  OBVIOUS
<1> HIDE DEF u
<1>2. /\ \A i \in DOMAIN t : i \in DOMAIN u /\ u[i] = t[i]
      /\ \A i \in DOMAIN u : i \in DOMAIN t \/ i = z
      /\ z \notin DOMAIN t /\ z \in DOMAIN u
  BY <1>1
<1>0. z = Len(t) + 1
  OBVIOUS
<1> HIDE DEF z
<1>3. PlacesOf(u, "result") = PlacesOf(t, "result") \cup (IF m.role = "result" THEN {z} ELSE {})
  BY <1>1, <1>2 DEF PlacesOf
<1>4. ASSUME NEW x \in CallPlaces(t)
      PROVE  /\ x \in CallPlaces(u) /\ CallAt(u, x) = CallAt(t, x)
             /\ x[1] \in DOMAIN t /\ x[2] \in Nat \ {0}
  <2>1. PICK p \in PlacesOf(t, "assistant") : x \in {p} \X DOMAIN t[p].calls
    BY DEF CallPlaces
  <2>2. p \in PlacesOf(u, "assistant") /\ u[p] = t[p] /\ x[1] = p /\ p \in DOMAIN t
    BY <1>2, <2>1 DEF PlacesOf
  <2>3. x \in CallPlaces(u) /\ CallAt(u, x) = CallAt(t, x)
    BY <2>1, <2>2 DEF CallPlaces, CallAt
  <2>4. t[p] \in AssistantMessage
    BY <2>1, Roles DEF PlacesOf
  <2>5. DOMAIN t[p].calls = 1 .. Len(t[p].calls)
    BY <2>4, ReplyTypes, CallListTypes
  <2>6. x[2] \in 1 .. Len(t[p].calls) /\ Len(t[p].calls) \in Nat
    BY <2>1, <2>4, <2>5, ReplyTypes, CallListTypes
  <2>7. x[2] \in Nat \ {0}
    BY <2>6
  <2> QED
    BY <2>2, <2>3, <2>7
<1>5. ASSUME NEW x \in CallPlaces(u), x \notin CallPlaces(t)
      PROVE  m.role = "assistant" /\ x = <<z, x[2]>> /\ x[2] \in DOMAIN m.calls
  <2>1. PICK p \in PlacesOf(u, "assistant") : x \in {p} \X DOMAIN u[p].calls
    BY DEF CallPlaces
  <2>2. p \notin DOMAIN t
    BY <1>2, <1>5, <2>1 DEF PlacesOf, CallPlaces
  <2>3. p = z
    BY <1>2, <2>1, <2>2 DEF PlacesOf
  <2> QED
    BY <1>1, <2>1, <2>3 DEF PlacesOf
<1>6. Grown(u, t, m, z)
  BY <1>0, <1>1, <1>2, <1>3, <1>4, <1>5 DEF Grown
<1> QED
  BY <1>6 DEF u, z

\* A message without calls, and without a result, after a complete transcript.
LEMMA ShapeQuiet ==
  ASSUME NEW t \in Seq(Message), NEW m \in Message, Quiet(m), m.role # "result",
         Replayable(t)
  PROVE  Replayable(Append(t, m))
<1> DEFINE u == Append(t, m)
           z == Len(t) + 1
<1>1. /\ \A i \in DOMAIN t : i \in DOMAIN u /\ u[i] = t[i]
      /\ PlacesOf(u, "result") = PlacesOf(t, "result")
      /\ \A x \in CallPlaces(t) : x \in CallPlaces(u) /\ CallAt(u, x) = CallAt(t, x)
      /\ \A x \in CallPlaces(u) :
           x \in CallPlaces(t) \/ (m.role = "assistant" /\ x[2] \in DOMAIN m.calls)
  <2>1. Grown(u, t, m, z)
    BY AppendPlaces
  <2> HIDE DEF u, z
  <2> QED
    BY <2>1 DEF Grown
<1> HIDE DEF u
<1>2. \A x \in CallPlaces(u) : x \in CallPlaces(t)
  BY <1>1 DEF Quiet
<1> QED
  BY <1>1, <1>2 DEF Replayable, u

\* An answer after a complete transcript.
LEMMA ShapeReply ==
  ASSUME NEW t \in Seq(Message), NEW a \in AssistantMessage, Replayable(t)
  PROVE  /\ Placed(Append(t, a))
         /\ Handing(Append(t, a), a, 0)
         /\ a.calls = <<>> => Replayable(Append(t, a))
<1> DEFINE u == Append(t, a)
           z == Len(t) + 1
<1>1. a \in Message /\ a.role = "assistant"
  BY ReplyTypes, Roles
<1>2. /\ u \in Seq(Message) /\ Len(u) = z /\ Len(t) \in Nat /\ u[z] = a
      /\ DOMAIN t = 1 .. Len(t) /\ DOMAIN u = 1 .. z
      /\ \A i \in DOMAIN t : i \in DOMAIN u /\ u[i] = t[i]
      /\ PlacesOf(u, "result") = PlacesOf(t, "result")
      /\ \A x \in CallPlaces(t) : x \in CallPlaces(u) /\ CallAt(u, x) = CallAt(t, x)
      /\ \A x \in CallPlaces(u) :
           x \in CallPlaces(t) \/ (x = <<z, x[2]>> /\ x[2] \in DOMAIN a.calls)
      /\ z = Len(t) + 1
  <2>1. Grown(u, t, a, z)
    BY <1>1, AppendPlaces
  <2> HIDE DEF u, z
  <2> QED
    BY <1>1, <2>1 DEF Grown
<1> HIDE DEF u, z
<1>3. ASSUME NEW x \in CallPlaces(u), x \in CallPlaces(t)
      PROVE  Slot(x) \in DOMAIN u /\ u[Slot(x)] = Result(CallAt(u, x))
  BY <1>2, <1>3 DEF Replayable, Slot
<1>4. ASSUME NEW x \in CallPlaces(u), x \notin CallPlaces(t)
      PROVE  x[1] = z /\ Slot(x) \notin DOMAIN u /\ x[2] \in DOMAIN a.calls
  <2>1. x = <<z, x[2]>> /\ x[2] \in DOMAIN a.calls
    BY <1>2, <1>4
  <2>2. x[2] \in 1 .. Len(a.calls) /\ Len(a.calls) \in Nat
    BY <2>1, ReplyTypes, CallListTypes
  <2>3. x[1] = z
    BY <2>1
  <2>4. z + x[2] \notin 1 .. z
    BY <1>2, <2>2
  <2> QED
    BY <1>2, <2>1, <2>3, <2>4 DEF Slot
<1>5. \A q \in PlacesOf(u, "result") : \E x \in CallPlaces(u) : q = Slot(x)
  BY <1>2 DEF Replayable, Slot
<1>6. Placed(u)
  BY <1>3, <1>4, <1>5 DEF Placed
<1>7. z \in PlacesOf(u, "assistant") /\ Settled(u, z) /\ z + 0 = Len(u)
  BY <1>1, <1>2, <1>3, <1>4 DEF PlacesOf, Settled
<1>8. Handing(u, a, 0)
  BY <1>2, <1>7 DEF Handing
<1>9. ASSUME a.calls = <<>> PROVE Replayable(u)
  <2>1. \A x \in CallPlaces(u) : x \in CallPlaces(t)
    BY <1>4, <1>9
  <2> QED
    BY <1>3, <1>5, <2>1 DEF Replayable, Slot
<1> QED
  BY <1>6, <1>8, <1>9 DEF u

\* The next result takes the next slot.
LEMMA ShapeResult ==
  ASSUME NEW t \in Seq(Message), Placed(t), NEW a \in AssistantMessage, NEW n \in Nat,
         n < Len(a.calls), Handing(t, a, n)
  PROVE  LET u == Append(t, Result(a.calls[n + 1]))
         IN  /\ Placed(u)
             /\ Handing(u, a, n + 1)
             /\ n + 1 = Len(a.calls) => Replayable(u)
<1> DEFINE m == Result(a.calls[n + 1])
           u == Append(t, m)
           z == Len(t) + 1
<1>1. /\ DOMAIN a.calls = 1 .. Len(a.calls) /\ n + 1 \in DOMAIN a.calls
      /\ Len(a.calls) \in Nat
  BY ReplyTypes, CallListTypes
<1>2. m \in Message /\ m.role = "result"
  <2>1. a.calls[n + 1] \in CallId
    BY <1>1, ReplyTypes, CallListTypes
  <2> QED
    BY <2>1, Constructors DEF Result
<1>3. /\ u \in Seq(Message) /\ Len(u) = z /\ Len(t) \in Nat /\ u[z] = m
      /\ DOMAIN t = 1 .. Len(t) /\ DOMAIN u = 1 .. z
      /\ \A i \in DOMAIN t : i \in DOMAIN u /\ u[i] = t[i]
      /\ PlacesOf(u, "result") = PlacesOf(t, "result") \cup {z}
      /\ \A x \in CallPlaces(t) : x \in CallPlaces(u) /\ CallAt(u, x) = CallAt(t, x)
                                  /\ x[1] \in DOMAIN t /\ x[2] \in Nat \ {0}
      /\ \A x \in CallPlaces(u) : x \in CallPlaces(t)
      /\ z = Len(t) + 1
  <2> HIDE DEF m
  <2>1. Grown(u, t, m, z)
    BY <1>2, AppendPlaces
  <2> HIDE DEF u, z
  <2> QED
    BY <1>2, <2>1 DEF Grown
<1> HIDE DEF u, z
<1>4. PICK p \in PlacesOf(t, "assistant") : t[p] = a /\ p + n = Len(t) /\ Settled(t, p)
  BY DEF Handing
<1>5. p \in DOMAIN t /\ p \in PlacesOf(u, "assistant") /\ u[p] = a
  BY <1>3, <1>4 DEF PlacesOf
<1> DEFINE y == <<p, n + 1>>
<1>6. y \in CallPlaces(t) /\ CallAt(t, y) = a.calls[n + 1] /\ Slot(y) = z
  <2>1. y \in {p} \X DOMAIN t[p].calls
    BY <1>1, <1>4
  <2>2. y \in CallPlaces(t) /\ CallAt(t, y) = a.calls[n + 1]
    BY <1>4, <2>1 DEF CallPlaces, CallAt
  <2>3. Slot(y) = z
    <3>1. p \in Nat /\ p + n = Len(t) /\ z = Len(t) + 1
      BY <1>3, <1>4, <1>5
    <3>2. p + (n + 1) = z
      BY ONLY <3>1, n \in Nat
    <3> QED
      BY <3>2 DEF Slot
  <2> QED
    BY <2>2, <2>3
<1>7. ASSUME NEW x \in CallPlaces(t), Slot(x) \notin DOMAIN t
      PROVE  /\ Slot(x) \in DOMAIN u => x = y
             /\ x[1] = p /\ x[2] \in DOMAIN a.calls
  <2>1. x[1] = p
    BY <1>4, <1>7 DEF Settled
  <2>2. x = <<p, x[2]>> /\ x[2] \in DOMAIN a.calls
    <3>1. PICK r \in PlacesOf(t, "assistant") : x \in {r} \X DOMAIN t[r].calls
      BY DEF CallPlaces
    <3> QED
      BY <1>4, <2>1, <3>1
  <2>3. Slot(x) \in DOMAIN u => x[2] = n + 1
    <3>1. p \in Nat /\ x[2] \in Nat /\ Slot(x) = p + x[2]
      BY <1>1, <1>3, <1>5, <2>1, <2>2 DEF Slot
    <3> QED
      BY <1>3, <1>4, <1>7, <3>1, SMTT(30)
  <2> QED
    BY <2>1, <2>2, <2>3
<1>8. ASSUME NEW x \in CallPlaces(u), Slot(x) \in DOMAIN u
      PROVE  u[Slot(x)] = Result(CallAt(u, x))
  <2>1. CASE Slot(x) \in DOMAIN t
    BY <1>3, <2>1 DEF Placed
  <2>2. CASE Slot(x) \notin DOMAIN t
    <3>1. x = y
      BY <1>3, <1>7, <1>8, <2>2
    <3> QED
      BY <1>3, <1>6, <3>1
  <2> QED
    BY <2>1, <2>2
<1>9. ASSUME NEW q \in PlacesOf(u, "result") PROVE \E x \in CallPlaces(u) : q = Slot(x)
  BY <1>3, <1>6 DEF Placed
<1>10. Placed(u)
  BY <1>8, <1>9 DEF Placed
<1>11. Settled(u, p)
  BY <1>3, <1>4 DEF Settled
<1>12. p + (n + 1) = Len(u)
  <2>1. p \in Nat /\ p + n = Len(t) /\ Len(u) = Len(t) + 1
    BY <1>3, <1>4, <1>5
  <2> QED
    BY ONLY <2>1, n \in Nat
<1>13. Handing(u, a, n + 1)
  BY <1>5, <1>11, <1>12 DEF Handing
<1>14. ASSUME n + 1 = Len(a.calls), NEW x \in CallPlaces(u) PROVE Slot(x) \in DOMAIN u
  <2>1. CASE Slot(x) \in DOMAIN t
    BY <1>3, <2>1
  <2>2. CASE Slot(x) \notin DOMAIN t
    <3>1. x[1] = p /\ x[2] \in 1 .. n + 1
      BY <1>1, <1>3, <1>7, <1>14, <2>2
    <3> QED
      BY <1>3, <1>4, <1>5, <3>1, SMTT(30) DEF Slot
  <2> QED
    BY <2>1, <2>2
<1>15. n + 1 = Len(a.calls) => Replayable(u)
  BY <1>8, <1>9, <1>14 DEF Replayable, Slot
<1> QED
  BY <1>10, <1>13, <1>15 DEF u, m, z

\* Neighbouring calls of one message are a row of known length.
LEMMA RowSize ==
  ASSUME NEW a \in Nat, NEW c \in Nat, NEW j \in Nat, c <= j
  PROVE  LET row == {y \in Nat \X Nat : y[1] = a /\ c < y[2] /\ y[2] <= j}
         IN  IsFiniteSet(row) /\ Cardinality(row) = j - c
<1> DEFINE row == {y \in Nat \X Nat : y[1] = a /\ c < y[2] /\ y[2] <= j}
           f == [i \in c + 1 .. j |-> <<a, i>>]
<1>1. f \in [c + 1 .. j -> row]
  OBVIOUS
<1>2. \A i, k \in c + 1 .. j : f[i] = f[k] => i = k
  OBVIOUS
<1>3. \A y \in row : y[2] \in c + 1 .. j /\ f[y[2]] = y
  OBVIOUS
<1> HIDE DEF row, f
<1>4. f \in Bijection(c + 1 .. j, row)
  <2>1. \A y \in row : \E i \in c + 1 .. j : f[i] = y
    BY <1>3
  <2> QED
    BY <1>1, <1>2, <2>1 DEF Bijection, Injection, IsInjective, Surjection
<1>5. IsFiniteSet(c + 1 .. j) /\ Cardinality(c + 1 .. j) = j - c
  <2>1. c + 1 \in Int /\ j \in Int
    OBVIOUS
  <2>2. IsFiniteSet(c + 1 .. j)
        /\ Cardinality(c + 1 .. j) = IF c + 1 > j THEN 0 ELSE j - (c + 1) + 1
    BY <2>1, FS_Interval
  <2> QED
    BY <2>2
<1> QED
  BY <1>4, <1>5, FS_Bijection DEF ExistsBijection, row

\* The repair fills the open slots, in order: they are those of the last answer.
LEMMA ShapeRepair ==
  ASSUME NEW t \in Seq(Message), Placed(t), Distinct(t)
  PROVE  Replayable(Repaired(t))
<1> DEFINE open == Unanswered(t)
<1>0. Len(t) \in Nat /\ DOMAIN t = 1 .. Len(t)
  OBVIOUS
<1>1. \A x \in CallPlaces(t) :
        /\ x \in Nat \X Nat /\ x = <<x[1], x[2]>> /\ x[1] \in DOMAIN t
        /\ t[x[1]] \in AssistantMessage
        /\ x[2] \in 1 .. Len(t[x[1]].calls) /\ Len(t[x[1]].calls) \in Nat
        /\ \A j \in 1 .. Len(t[x[1]].calls) : <<x[1], j>> \in CallPlaces(t)
  <2> SUFFICES ASSUME NEW x \in CallPlaces(t)
               PROVE  /\ x \in Nat \X Nat /\ x = <<x[1], x[2]>> /\ x[1] \in DOMAIN t
                      /\ t[x[1]] \in AssistantMessage
                      /\ x[2] \in 1 .. Len(t[x[1]].calls) /\ Len(t[x[1]].calls) \in Nat
                      /\ \A j \in 1 .. Len(t[x[1]].calls) : <<x[1], j>> \in CallPlaces(t)
    OBVIOUS
  <2>1. /\ x \in Nat \X Nat /\ x[1] \in DOMAIN t /\ t[x[1]] \in AssistantMessage
        /\ x[2] \in DOMAIN t[x[1]].calls
    BY <1>0, CallPlacesFinite
  <2>2. /\ DOMAIN t[x[1]].calls = 1 .. Len(t[x[1]].calls) /\ Len(t[x[1]].calls) \in Nat
    BY <2>1, ReplyTypes, CallListTypes
  <2>3. x[1] \in PlacesOf(t, "assistant")
    BY <2>1, Roles DEF PlacesOf
  <2>4. \A j \in 1 .. Len(t[x[1]].calls) : <<x[1], j>> \in CallPlaces(t)
    BY <2>2, <2>3 DEF CallPlaces
  <2> QED
    BY <2>1, <2>2, <2>4
<1>2. open = {x \in CallPlaces(t) : Slot(x) \notin DOMAIN t}
  <2>1. ASSUME NEW x \in CallPlaces(t), Slot(x) \in DOMAIN t PROVE CallAt(t, x) \in Returned(t)
    <3>1. t[Slot(x)] = Result(CallAt(t, x))
      BY <2>1 DEF Placed
    <3>2. Slot(x) \in PlacesOf(t, "result") /\ t[Slot(x)].call = CallAt(t, x)
      BY <2>1, <3>1 DEF Result, PlacesOf
    <3> QED
      BY <3>2 DEF Returned
  <2>2. ASSUME NEW x \in CallPlaces(t), Slot(x) \notin DOMAIN t
        PROVE  CallAt(t, x) \notin Returned(t)
    <3> SUFFICES ASSUME NEW q \in PlacesOf(t, "result"), t[q].call = CallAt(t, x) PROVE FALSE
      BY DEF Returned
    <3>1. PICK y \in CallPlaces(t) : q = Slot(y)
      BY DEF Placed
    <3>2. q \in DOMAIN t
      BY DEF PlacesOf
    <3>3. t[q] = Result(CallAt(t, y))
      BY <3>1, <3>2 DEF Placed
    <3>4. CallAt(t, y) = CallAt(t, x)
      BY <3>3 DEF Result
    <3>5. y = x
      BY <3>4 DEF Distinct
    <3> QED
      BY <2>2, <3>1, <3>2, <3>5
  <2>3. \A x, y \in CallPlaces(t) : Before(y, x) => CallAt(t, y) # CallAt(t, x)
    <3>1. \A x \in CallPlaces(t) : ~Before(x, x)
      BY <1>1, BeforeOrder
    <3> QED
      BY <3>1 DEF Distinct
  <2> QED
    BY <2>1, <2>2, <2>3 DEF Unanswered
<1>3. \A x, y \in open : x[1] = y[1]
  <2>1. ASSUME NEW x \in open, NEW y \in open, x[1] < y[1] PROVE FALSE
    <3> DEFINE d == y[1] - x[1]
    <3>1. /\ x[1] \in 1 .. Len(t) /\ y[1] \in 1 .. Len(t) /\ x[2] \in Nat
          /\ x[1] + x[2] \notin 1 .. Len(t)
      BY <1>0, <1>1, <1>2 DEF Slot
    <3>2. d \in 1 .. x[2] /\ x[1] + d = y[1]
      BY <1>0, <2>1, <3>1
    <3>3. x[2] \in 1 .. Len(t[x[1]].calls) /\ Len(t[x[1]].calls) \in Nat
      BY <1>1, <1>2
    <3>4. d \in 1 .. Len(t[x[1]].calls)
      <4> HIDE DEF d
      <4> QED
        BY <3>2, <3>3
    <3>5. <<x[1], d>> \in CallPlaces(t) /\ Slot(<<x[1], d>>) = y[1]
      BY <1>1, <1>2, <3>2, <3>4 DEF Slot
    <3>6. t[y[1]] = Result(CallAt(t, <<x[1], d>>))
      BY <1>0, <3>1, <3>5 DEF Placed
    <3>7. t[y[1]].role = "result" /\ t[y[1]].role = "assistant"
      BY <1>1, <1>2, <3>6, Roles DEF Result
    <3> QED
      BY <3>7
  <2> QED
    BY <1>0, <1>1, <1>2, <2>1
<1>4. PICK s \in Seq(Message) :
        /\ Repaired(t) = t \o s
        /\ Len(s) = Cardinality(open)
        /\ \A k \in 1 .. Len(s) :
             /\ Quiet(s[k])
             /\ Nth(open, k) \in CallPlaces(t)
             /\ s[k] = Result(CallAt(t, Nth(open, k)))
  BY RepairType
<1>5. /\ open \in SUBSET (Nat \X Nat) /\ IsFiniteSet(open) /\ Len(s) \in Nat
      /\ \A k \in 1 .. Len(s) :
           /\ Nth(open, k) \in open
           /\ Cardinality({y \in open : Before(y, Nth(open, k))}) = k - 1
      /\ \A x \in open : \E k \in 1 .. Len(s) : Nth(open, k) = x
  BY <1>4, UnansweredFinite, RankCovers
<1> HIDE DEF open
<1>6. \A k \in 1 .. Len(s) : Slot(Nth(open, k)) = Len(t) + k
  <2> SUFFICES ASSUME NEW k \in 1 .. Len(s) PROVE Slot(Nth(open, k)) = Len(t) + k
    OBVIOUS
  <2> DEFINE x == Nth(open, k)
             a == x[1]
             m == Len(t[a].calls)
             c == Len(t) - a
             j == x[2] - 1
             row == {y \in Nat \X Nat : y[1] = a /\ c < y[2] /\ y[2] <= j}
  <2>1. x \in open /\ x \in CallPlaces(t) /\ Slot(x) \notin DOMAIN t
    BY <1>2, <1>5
  <2>2. /\ a \in Nat /\ c \in Nat /\ x[2] \in Nat /\ x = <<a, x[2]>> /\ m \in Nat /\ x[2] <= m
        /\ a \in 1 .. Len(t) /\ c < x[2] /\ j \in Nat /\ c <= j
    <3>1. /\ a \in 1 .. Len(t) /\ x = <<a, x[2]>> /\ x[2] \in 1 .. m /\ m \in Nat
          /\ a + x[2] \notin 1 .. Len(t)
      BY <1>0, <1>1, <2>1 DEF Slot
    <3> HIDE DEF x, a, m
    <3> QED
      BY <1>0, <3>1
  <2>3. \A y \in open : Before(y, x) => y \in row
    <3> SUFFICES ASSUME NEW y \in open, Before(y, x) PROVE y \in row
      OBVIOUS
    <3>1. /\ y \in Nat \X Nat /\ y[1] = a /\ a + y[2] \notin 1 .. Len(t) /\ y[2] \in Nat
          /\ y[2] \in 1 .. m
      BY <1>0, <1>1, <1>2, <1>3, <2>1 DEF Slot
    <3>2. y[2] < x[2]
      BY <2>2, <3>1 DEF Before
    <3> HIDE DEF x, a, m
    <3> QED
      BY <1>0, <2>2, <3>1, <3>2, SMTT(30)
  <2>4. \A y \in row : y \in open /\ Before(y, x)
    <3> SUFFICES ASSUME NEW y \in row PROVE y \in open /\ Before(y, x)
      OBVIOUS
    <3>1. y = <<a, y[2]>> /\ y[2] \in Nat /\ c < y[2] /\ y[2] <= j
      OBVIOUS
    <3>2. y[2] \in 1 .. m /\ y[2] < x[2] /\ a + y[2] \notin 1 .. Len(t)
      <4> HIDE DEF x, a, m
      <4> QED
        BY <1>0, <2>2, <3>1
    <3>3. y \in CallPlaces(t)
      BY <1>1, <2>1, <3>1, <3>2
    <3>4. Slot(y) \notin DOMAIN t
      BY <1>0, <3>1, <3>2 DEF Slot
    <3> QED
      BY <1>2, <3>1, <3>2, <3>3, <3>4 DEF Before
  <2>5. {y \in open : Before(y, x)} = row
    BY <2>3, <2>4
  <2>6. Cardinality(row) = j - c
    <3> HIDE DEF x, a, j, c
    <3> QED
      BY <2>2, RowSize, ZenonT(30)
  <2>7. k - 1 = j - c
    BY <1>5, <2>5, <2>6
  <2>8. a + x[2] = Len(t) + k
    <3> DEFINE b == x[2]
               l == Len(t)
    <3>1. a \in Nat /\ b \in Nat /\ l \in Nat /\ k \in Nat /\ k - 1 = (b - 1) - (l - a)
      BY <1>0, <2>2, <2>7
    <3> HIDE DEF x, a, b, l
    <3>2. a + b = l + k
      BY ONLY <3>1
    <3> QED
      BY <3>2 DEF b, l
  <2> QED
    BY <2>8 DEF Slot
<1> DEFINE u == t \o s
<1>7. /\ u \in Seq(Message) /\ Len(u) = Len(t) + Len(s) /\ DOMAIN u = 1 .. Len(u)
      /\ \A i \in DOMAIN t : i \in DOMAIN u /\ u[i] = t[i]
      /\ \A i \in 1 .. Len(s) : Len(t) + i \in DOMAIN u /\ u[Len(t) + i] = s[i]
  <2>1. /\ u \in Seq(Message) /\ Len(u) = Len(t) + Len(s)
        /\ \A i \in 1 .. Len(t) : u[i] = t[i]
        /\ \A i \in 1 .. Len(s) : u[Len(t) + i] = s[i]
    BY ConcatProperties
  <2> HIDE DEF u
  <2>2. DOMAIN u = 1 .. Len(u)
    BY <2>1
  <2>3. \A i \in DOMAIN t : i \in DOMAIN u /\ u[i] = t[i]
    BY <1>0, <1>5, <2>1, <2>2
  <2>4. \A i \in 1 .. Len(s) : Len(t) + i \in DOMAIN u
    BY <1>0, <1>5, <2>1, <2>2
  <2> QED
    BY <2>1, <2>2, <2>3, <2>4
<1>8. /\ CallPlaces(u) = CallPlaces(t)
      /\ \A x \in CallPlaces(t) : CallAt(u, x) = CallAt(t, x)
      /\ \A q \in PlacesOf(u, "result") :
           \/ q \in PlacesOf(t, "result")
           \/ \E i \in 1 .. Len(s) : q = Len(t) + i
  BY <1>4, ExtendQuiet
<1> HIDE DEF u
<1>9. ASSUME NEW x \in CallPlaces(t)
      PROVE  Slot(x) \in DOMAIN u /\ u[Slot(x)] = Result(CallAt(t, x))
  <2>1. CASE Slot(x) \in DOMAIN t
    BY <1>7, <2>1 DEF Placed
  <2>2. CASE Slot(x) \notin DOMAIN t
    <3>1. PICK k \in 1 .. Len(s) : Nth(open, k) = x
      BY <1>2, <1>5, <2>2
    <3>2. Slot(x) = Len(t) + k /\ s[k] = Result(CallAt(t, x))
      BY <1>4, <1>6, <3>1
    <3> QED
      BY <1>7, <3>2
  <2> QED
    BY <2>1, <2>2
<1>10. ASSUME NEW q \in PlacesOf(u, "result") PROVE \E x \in CallPlaces(t) : q = Slot(x)
  <2>1. CASE q \in PlacesOf(t, "result")
    BY <2>1 DEF Placed
  <2>2. ASSUME NEW i \in 1 .. Len(s), q = Len(t) + i PROVE \E x \in CallPlaces(t) : q = Slot(x)
    BY <1>2, <1>5, <1>6, <2>2
  <2> QED
    BY <1>8, <2>1, <2>2
<1> QED
  BY <1>4, <1>8, <1>9, <1>10 DEF Replayable, Slot, u

\* Leaving out failed turns without calls parts no call from its results.
LEMMA ContextShape ==
  ASSUME NEW t \in Seq(Message), Replayable(t)
  PROVE  Replayable(Context(t))
<1> DEFINE K == Sent(t)
           F == Context(t)
           N == Len(F)
<1>1. F = FlattenSeq(Selecting(t, K)) /\ K \in SUBSET DOMAIN t
  BY DEF Context, Selecting, Sent
<1>2. F \in Seq(Message) /\ \E at : Picks(at, t, K)
  BY <1>1, SelectedAre
<1>3. PICK at : Picks(at, t, K)
  BY <1>2
<1> HIDE DEF F, K
<1>4. /\ N \in Nat /\ DOMAIN F = 1 .. N /\ N = Len(FlattenSeq(Selecting(t, K)))
      /\ at \in [1 .. N -> K]
      /\ \A k \in K : \E i \in 1 .. N : at[i] = k
      /\ \A i \in 1 .. N : F[i] = t[at[i]]
  <2>1. N \in Nat /\ DOMAIN F = 1 .. N
    BY <1>2
  <2>2. N = Len(FlattenSeq(Selecting(t, K)))
    BY <1>1
  <2> HIDE DEF N
  <2> QED
    BY <1>1, <1>3, <2>1, <2>2 DEF Picks, N
<1>5. /\ \A q \in PlacesOf(t, "result") : q \in K
      /\ \A x \in CallPlaces(t) : x[1] \in K
  <2>1. \A q \in PlacesOf(t, "result") : q \in K
    BY DEF PlacesOf, Sent, K
  <2>2. ASSUME NEW x \in CallPlaces(t) PROVE x[1] \in K
    <3>1. PICK p \in PlacesOf(t, "assistant") : x \in {p} \X DOMAIN t[p].calls
      BY DEF CallPlaces
    <3>2. t[p].calls # <<>> /\ p \in DOMAIN t
      BY <3>1 DEF PlacesOf
    <3> QED
      BY <3>1, <3>2 DEF Sent, K
  <2> QED
    BY <2>1, <2>2
<1>6. ASSUME NEW i \in 1 .. N, NEW y \in CallPlaces(t), y[1] = at[i]
      PROVE  i + y[2] \in 1 .. N /\ at[i + y[2]] = Slot(y)
  <2>1. /\ y[1] \in PlacesOf(t, "assistant") /\ y = <<y[1], y[2]>>
        /\ y[2] \in DOMAIN t[y[1]].calls
    <3>1. PICK p \in PlacesOf(t, "assistant") : y \in {p} \X DOMAIN t[p].calls
      BY DEF CallPlaces
    <3> QED
      BY <3>1
  <2>2. t[y[1]] \in AssistantMessage
    BY <2>1, Roles DEF PlacesOf
  <2>3. /\ DOMAIN t[y[1]].calls = 1 .. Len(t[y[1]].calls) /\ Len(t[y[1]].calls) \in Nat
    BY <2>2, ReplyTypes, CallListTypes
  <2>4. y[2] \in Nat /\ \A j \in 1 .. y[2] : <<y[1], j>> \in CallPlaces(t)
    BY <2>1, <2>3, SMTT(30) DEF CallPlaces
  <2>5. ASSUME NEW j \in 1 .. y[2] PROVE at[i] + j \in K
    <3>1. /\ <<y[1], j>>[1] + <<y[1], j>>[2] \in DOMAIN t
          /\ t[<<y[1], j>>[1] + <<y[1], j>>[2]] = Result(CallAt(t, <<y[1], j>>))
      BY <2>4 DEF Replayable
    <3>2. at[i] + j \in DOMAIN t /\ t[at[i] + j].role = "result"
      BY <1>6, <3>1 DEF Result
    <3> QED
      BY <1>5, <3>2 DEF PlacesOf
  <2> DEFINE n == y[2]
  <2>6. n \in Nat /\ n \in 0 .. n /\ RowBefore(at, i, n, K)
    BY <2>4, <2>5 DEF RowBefore
  <2> HIDE DEF N, n
  <2>7. RowAfter(at, i, n, N)
    BY <1>1, <1>3, <1>4, <2>6, PicksRow
  <2> QED
    BY <1>6, <2>6, <2>7 DEF Slot, n, RowAfter
<1>7. ASSUME NEW x \in CallPlaces(F)
      PROVE  /\ x[1] + x[2] \in DOMAIN F
             /\ F[x[1] + x[2]] = Result(CallAt(F, x))
  <2>1. PICK p \in PlacesOf(F, "assistant") : x \in {p} \X DOMAIN F[p].calls
    BY DEF CallPlaces
  <2>2. p \in 1 .. N /\ F[p] = t[at[p]] /\ at[p] \in DOMAIN t /\ x[1] = p
    BY <1>1, <1>4, <2>1 DEF PlacesOf
  <2> DEFINE y == <<at[p], x[2]>>
  <2>3. y \in CallPlaces(t) /\ CallAt(t, y) = CallAt(F, x)
    <3>1. at[p] \in PlacesOf(t, "assistant")
      BY <2>1, <2>2 DEF PlacesOf
    <3>2. y \in {at[p]} \X DOMAIN t[at[p]].calls
      BY <2>1, <2>2
    <3> QED
      BY <2>2, <3>1, <3>2 DEF CallPlaces, CallAt
  <2>4. y[1] = at[p] /\ y[2] = x[2]
    OBVIOUS
  <2> HIDE DEF y
  <2>5. p + x[2] \in 1 .. N /\ at[p + x[2]] = Slot(y)
    BY <1>6, <2>2, <2>3, <2>4
  <2>6. F[p + x[2]] = Result(CallAt(t, y))
    BY <1>4, <2>3, <2>5 DEF Replayable, Slot
  <2> QED
    BY <1>4, <2>2, <2>3, <2>5, <2>6
<1>8. ASSUME NEW q \in PlacesOf(F, "result") PROVE \E x \in CallPlaces(F) : q = x[1] + x[2]
  <2>1. q \in 1 .. N /\ F[q] = t[at[q]] /\ at[q] \in DOMAIN t /\ t[at[q]].role = "result"
    BY <1>1, <1>4 DEF PlacesOf
  <2>2. PICK y \in CallPlaces(t) : at[q] = Slot(y)
    BY <2>1 DEF PlacesOf, Replayable, Slot
  <2>3. PICK i \in 1 .. N : at[i] = y[1]
    BY <1>4, <1>5
  <2>4. i + y[2] \in 1 .. N /\ at[i + y[2]] = at[q]
    BY <1>6, <2>2, <2>3
  <2> DEFINE h == i + y[2]
  <2>5. h = q
    <3> HIDE DEF h, N
    <3>1. h \in 1 .. N /\ q \in 1 .. N /\ at[h] = at[q]
      BY <2>1, <2>4 DEF h
    <3> QED
      BY <1>1, <1>3, <1>4, <3>1, PicksOnce, SMTT(60)
  <2>6. PICK p \in PlacesOf(t, "assistant") : y \in {p} \X DOMAIN t[p].calls
    BY DEF CallPlaces
  <2>7. i \in PlacesOf(F, "assistant") /\ y[2] \in DOMAIN F[i].calls
    BY <1>4, <2>3, <2>6 DEF PlacesOf
  <2>8. <<i, y[2]>> \in CallPlaces(F)
    BY <2>7 DEF CallPlaces
  <2> QED
    BY <2>5, <2>8
<1> QED
  BY <1>7, <1>8 DEF Replayable, F

\* A transcript that is repaired from any state is complete.
LEMMA RepairedShape ==
  ASSUME TypeInv, History, Shape
  PROVE  Repaired(transcript) \in Seq(Message) /\ Replayable(Repaired(transcript))
BY SeenTypes, ShapeRepair DEF Shape, Sound

LEMMA CompleteIsPlaced ==
  ASSUME NEW t, Replayable(t)
  PROVE  Placed(t)
BY DEF Replayable, Placed, Slot

LEMMA LeaveShape ==
  ASSUME TypeInv, History, Shape, Leave
  PROVE  Shape'
<1>1. transcript' \in {transcript, Repaired(transcript)} /\ pc' = "idle"
  BY DEF Leave
<1>2. Placed(transcript')
  BY <1>1, RepairedShape, CompleteIsPlaced DEF Shape
<1> QED
  BY <1>1, <1>2 DEF Shape, Closed

LEMMA ProceedShape ==
  ASSUME TypeInv, Shape, pc \in Closed, NEW q \in Seq(UserMessage), Proceed(q)
  PROVE  Shape'
<1>1. transcript \in Seq(Message) /\ Replayable(transcript)
  BY LineTypes DEF Shape
<1>2. q # <<>> => Head(q) \in Message /\ Quiet(Head(q)) /\ Head(q).role # "result"
  BY QueueTypes, QuietUsers
<1>3. Replayable(transcript') /\ pc' \notin {"tools", "shown"}
  <2>1. CASE q # <<>>
    BY <1>1, <1>2, <2>1, ShapeQuiet DEF Proceed
  <2>2. CASE q = <<>>
    BY <1>1, <2>2, ShapeQuiet, QuietUsers DEF Proceed
  <2> QED
    BY <2>1, <2>2
<1> QED
  BY <1>3, CompleteIsPlaced DEF Shape

LEMMA LoopShape ==
  ASSUME TypeInv, History, Shape, Loop
  PROVE  Shape'
<1> USE LineTypes
<1>1. CASE RefuseRun
  <2>1. /\ transcript' = Append(transcript, Refusal) /\ pc' = "ending"
        /\ Replayable(transcript)
    BY <1>1 DEF RefuseRun, Shape, Closed
  <2>2. Replayable(transcript')
    BY <2>1, ShapeQuiet, QuietUsers
  <2> QED
    BY <2>1, <2>2, CompleteIsPlaced DEF Shape, Closed
<1>2. CASE Open
  BY <1>2, QueueTypes, ProceedShape DEF Open, Closed
<1>3. CASE Inject
  BY <1>3, ProceedShape DEF Inject, Closed
<1>4. CASE ProviderReplies
  <2>1. pc = "provider" /\ pc' = "answered" /\ transcript' = transcript
    BY <1>4 DEF ProviderReplies
  <2> QED
    BY <2>1 DEF Shape, Closed
<1>5. CASE TakeFailure \/ TakeText \/ TakeCalls
  <2>1. /\ transcript' = Append(transcript, reply) /\ reply' = reply
        /\ reply \in AssistantMessage /\ Replayable(transcript)
    BY <1>5 DEF TakeFailure, TakeText, TakeCalls, TakeReply, Shape, Closed, TypeInv, TypeOK
  <2>2. /\ Placed(transcript') /\ Handing(transcript', reply, 0)
        /\ reply.calls = <<>> => Replayable(transcript')
    BY <2>1, ShapeReply
  <2>3. \/ pc' = "ending"
        \/ pc' = "turnEnd" /\ reply.calls = <<>>
        \/ pc' = "tools" /\ answered' = <<>>
    BY <1>5 DEF TakeFailure, TakeText, TakeCalls, Batch!Open
  <2> QED
    BY <2>1, <2>2, <2>3 DEF Shape, Closed
<1>6. CASE ShowResult
  BY <1>6 DEF ShowResult, Shape, Closed
<1>7. CASE StoreResult
  <2> DEFINE n == Len(answered)
  <2>1. /\ n \in Nat /\ n < Len(reply.calls) /\ reply \in AssistantMessage
        /\ Handing(transcript, reply, n) /\ Placed(transcript)
    BY <1>7 DEF StoreResult, TypeInv, TypeOK, Cursor, Shape
  <2>2. /\ transcript' = Append(transcript, Result(reply.calls[n + 1])) /\ reply' = reply
        /\ answered' = Append(answered, n + 1)
        /\ batch' = IF Len(answered') = Len(reply.calls) THEN "complete" ELSE "open"
        /\ pc' = IF batch' = "complete" THEN "turnEnd" ELSE "tools"
    BY <1>7 DEF StoreResult, Batch!Answer
  <2>3. Len(answered') = n + 1
    BY <2>1, <2>2 DEF TypeInv, TypeOK
  <2>4. /\ Placed(transcript') /\ Handing(transcript', reply, n + 1)
        /\ n + 1 = Len(reply.calls) => Replayable(transcript')
    BY <2>1, <2>2, ShapeResult
  <2> HIDE DEF n
  <2> QED
    BY <2>2, <2>3, <2>4 DEF Shape, Closed
<1>8. CASE EndTurn
  <2>1. pc = "turnEnd" /\ pc' \in {"turnStart", "ending"} /\ transcript' = transcript
    BY <1>8 DEF EndTurn
  <2> QED
    BY <2>1 DEF Shape, Closed
<1>9. CASE Finish
  BY <1>9, LeaveShape DEF Finish
<1> QED
  BY <1>1, <1>2, <1>3, <1>4, <1>5, <1>6, <1>7, <1>8, <1>9 DEF Loop

LEMMA CallerShape ==
  ASSUME ~ExternalAppends, TypeInv, History, Shape, Caller
  PROVE  Shape'
<1>1. CASE Prompt
  <2>1. /\ transcript' = Append(Repaired(transcript), User("prompt")) /\ pc' = "opening"
        /\ User("prompt") \in UserMessage
    BY <1>1, NewMessage DEF Prompt, Start
  <2>2. Replayable(transcript')
    BY <2>1, RepairedShape, ShapeQuiet, QuietUsers
  <2> QED
    BY <2>1, <2>2, CompleteIsPlaced DEF Shape
<1>2. CASE Continue
  <2>1. transcript' = Repaired(transcript) /\ pc' = "opening"
    BY <1>2 DEF Continue, Start
  <2> QED
    BY <2>1, RepairedShape, CompleteIsPlaced DEF Shape
<1>3. CASE AppendMessage
  BY <1>3 DEF AppendMessage
<1>4. CASE Steer \/ FollowUp \/ Withdraw \/ Cancel
  <2>1. UNCHANGED <<transcript, pc, reply, answered>>
    BY <1>4 DEF Steer, FollowUp, Accept, Withdraw, Cancel, run
  <2> QED
    BY <2>1 DEF Shape
<1> QED
  BY <1>1, <1>2, <1>3, <1>4 DEF Caller

LEMMA NextShape ==
  ASSUME ~ExternalAppends, TypeInv, History, Shape, [Next]_vars
  PROVE  Shape'
<1>1. CASE ProviderRaises \/ BatchFails \/ Abandon
  BY <1>1, LeaveShape DEF ProviderRaises, BatchFails, Abandon
<1>2. CASE UNCHANGED vars
  BY <1>2 DEF vars, run, Shape
<1> QED
  BY <1>1, <1>2, LoopShape, CallerShape DEF Next

LEMMA InitShape == Init => Shape
BY DEF Init, Shape, Placed, CallPlaces, PlacesOf, Closed

\* The history a provider is sent is one it accepts, results directly after their calls; no
\* queued message overtakes another one of its queue, whatever is drained, dropped with a run,
\* withdrawn or repaired around it; and follow-ups come only where the loop looks for them.
\* The provider must not reuse the ids of its calls, and nobody may append messages to the
\* transcript of a running harness behind the loop's back.
THEOREM TranscriptStaysInOrder ==
  ASSUME UniqueCallIds, ~ExternalAppends PROVE Spec => []TranscriptInOrder
<1> DEFINE Inv == TypeInv /\ History /\ PendingPlace /\ Lines /\ Waits /\ Shape
<1>1. Init => Inv
  BY InitTypes, InitHistory, InitLines, InitWaits, InitShape DEF Init, PendingPlace
<1>2. Inv /\ [Next]_vars => Inv'
  BY NextTypes, NextHistory, NextPending, NextLines, NextWaits, NextShape
<1>3. Inv => TranscriptInOrder
  <2> SUFFICES ASSUME Inv PROVE TranscriptInOrder
    OBVIOUS
  <2>1. InAcceptedOrder /\ FollowUpsWait(transcript)
    BY LinesAreOrder DEF Waits
  <2>2. pc = "provider" => Replayable(Context(transcript))
    BY LineTypes, ContextShape DEF Shape, Closed
  <2> QED
    BY <2>1, <2>2 DEF TranscriptInOrder
<1> QED
  BY <1>1, <1>2, <1>3, PTL DEF Spec

------------------------------------------------------------------------------
(* Extensions: the places for widgets *)

SlotsType ==
  /\ widgets \in Nat
  /\ wanted \in [Places -> Nat] /\ mounted \in [Places -> Nat]
  /\ document \in [Places -> SUBSET Nat]
  /\ swaps \in [Places -> Nat] /\ removing \in [Places -> Nat]
  /\ crashed \in BOOLEAN

Lined ==
  ~crashed => \A p \in Places :
    /\ document[p] \subseteq {mounted[p]} \ {0}
    /\ removing[p] # 0 => removing[p] = mounted[p]

SlotsInv == SlotsType /\ Lined

------------------------------------------------------------------------------
LEMMA ScheduleType ==
  ASSUME SlotsType, NEW places, Schedule(places)
  PROVE  swaps' \in [Places -> Nat]
<1>1. SUFFICES ASSUME NEW p \in Places PROVE swaps[p] + (IF p \in places THEN 1 ELSE 0) \in Nat
  BY DEF Schedule
<1>2. swaps[p] \in Nat
  BY DEF SlotsType
<1> QED
  BY <1>2

\* What a swap or a removal does to its place, the others are left alone.
LEMMA ReconcileType ==
  ASSUME SlotsType, NEW p \in Places, NEW held \in {0, mounted[p]}, NEW gone,
         Reconcile(p, held), Documented(p, gone)
  PROVE  /\ wanted' \in [Places -> Nat] /\ mounted' \in [Places -> Nat]
         /\ document' \in [Places -> SUBSET Nat]
         /\ \A q \in Places \ {p} : document'[q] = document[q] /\ mounted'[q] = mounted[q]
         /\ mounted'[p] \in {held, wanted[p]}
         /\ wanted[p] = held => mounted'[p] = held
         /\ document'[p] = (document[p] \ gone) \cup
              (IF mounted'[p] # mounted[p] THEN {mounted'[p]} \ {0} ELSE {})
<1>1. /\ wanted' \in [Places -> Nat] /\ mounted' \in [Places -> Nat]
      /\ \A q \in Places \ {p} : mounted'[q] = mounted[q]
      /\ mounted'[p] \in {held, wanted[p]}
      /\ wanted[p] = held => mounted'[p] = held
  BY DEF Reconcile, SlotsType
<1>2. /\ \A q \in Places \ {p} : document'[q] = document[q]
      /\ document'[p] = (document[p] \ gone) \cup
           (IF mounted'[p] # mounted[p] THEN {mounted'[p]} \ {0} ELSE {})
      /\ document' \in [Places -> SUBSET Nat]
  BY <1>1 DEF Documented, SlotsType
<1> QED
  BY <1>1, <1>2

LEMMA SlotsInitInv == SlotsInit => SlotsInv
<1> SUFFICES ASSUME SlotsInit PROVE SlotsInv
  OBVIOUS
<1>1. SlotsType
  BY DEF SlotsInit, SlotsType
<1>2. Lined
  BY DEF SlotsInit, Lined
<1> QED
  BY <1>1, <1>2 DEF SlotsInv

\* What is wanted may change at any time, whatever is mounted.
LEMMA WantedStep ==
  ASSUME SlotsInv,
         (\E key \in Keys : SetSlotWidget(key)) \/ OpenMainView \/ CloseMainView \/ ClearComponents
  PROVE  SlotsInv'
<1> USE DEF SlotsInv
<1>1. UNCHANGED <<mounted, document, removing, crashed>>
  BY DEF SetSlotWidget, OpenMainView, CloseMainView, ClearComponents
<1>2. swaps' \in [Places -> Nat]
  BY ScheduleType DEF SetSlotWidget, OpenMainView, CloseMainView, ClearComponents
<1>3. wanted' \in [Places -> Nat] /\ widgets' \in Nat
  <2>1. ASSUME NEW key \in Keys, SetSlotWidget(key) PROVE wanted' \in [Places -> Nat] /\ widgets' \in Nat
    BY <2>1 DEF SetSlotWidget, SlotsType
  <2>2. CASE OpenMainView
    <3>1. widgets + 1 \in Nat
      BY DEF SlotsType
    <3> QED
      BY <2>2, <3>1, Zenon DEF OpenMainView, SlotsType
  <2>3. CASE CloseMainView
    BY <2>3 DEF CloseMainView, SlotsType
  <2>4. CASE ClearComponents
    BY <2>4 DEF ClearComponents, SlotsType
  <2> QED
    BY <2>1, <2>2, <2>3, <2>4
<1> QED
  BY <1>1, <1>2, <1>3 DEF SlotsType, Lined

\* A swap mounts into an empty place, or only begins a removal.
LEMMA SwapStep ==
  ASSUME SlotsInv, NEW p \in Places, Swap(p)
  PROVE  SlotsInv'
<1> USE DEF SlotsInv
<1>1. swaps' \in [Places -> Nat]
  BY DEF Swap, SlotsType
<1>2. CASE mounted[p] # 0 /\ mounted[p] # wanted[p]
  BY <1>1, <1>2 DEF Swap, SlotsType, Lined
<1>3. CASE ~(mounted[p] # 0 /\ mounted[p] # wanted[p])
  <2>1. Reconcile(p, mounted[p]) /\ Documented(p, {}) /\ UNCHANGED <<removing, widgets, views, crashed>>
    BY <1>3 DEF Swap
  <2>2. SlotsType'
    BY <1>1, <2>1, ReconcileType DEF SlotsType
  <2>3. ~crashed => document'[p] \subseteq {mounted'[p]} \ {0}
    BY <1>3, <2>1, ReconcileType DEF Lined
  <2>4. removing'[p] = 0
    BY <2>1 DEF Swap
  <2> QED
    BY <2>1, <2>2, <2>3, <2>4, ReconcileType DEF Lined
<1> QED
  BY <1>2, <1>3

\* What was awaited is gone when the next widget is mounted.
LEMMA RemovedStep ==
  ASSUME SlotsInv, NEW p \in Places, Removed(p)
  PROVE  SlotsInv'
<1> USE DEF SlotsInv
<1> DEFINE held == IF mounted[p] = removing[p] THEN 0 ELSE mounted[p]
<1>1. /\ Reconcile(p, held) /\ Documented(p, {removing[p]}) /\ held \in {0, mounted[p]}
      /\ removing' = [removing EXCEPT ![p] = 0] /\ UNCHANGED <<swaps, widgets, views, crashed>>
  BY DEF Removed
<1> HIDE DEF held
<1>2. SlotsType'
  BY <1>1, ReconcileType DEF SlotsType
<1>3. ~crashed => document'[p] \subseteq {mounted'[p]} \ {0}
  <2>1. ~crashed => removing[p] = mounted[p] /\ document[p] \ {removing[p]} = {}
    BY DEF Lined, Removed
  <2> QED
    BY <1>1, <2>1, ReconcileType
<1> QED
  BY <1>1, <1>2, <1>3, ReconcileType DEF Lined, SlotsType

LEMMA QuarantineStep ==
  ASSUME SlotsInv, NEW p \in Places, Quarantine(p)
  PROVE  SlotsInv'
<1> USE DEF SlotsInv
<1>1. wanted' \in [Places -> Nat] /\ mounted' \in [Places -> Nat]
  BY DEF Quarantine, SlotsType
<1> QED
  BY <1>1 DEF Quarantine, SlotsType, Lined

LEMMA SlotsStepInv == SlotsInv /\ [SlotsNext]_slotVars => SlotsInv'
<1> SUFFICES ASSUME SlotsInv, [SlotsNext]_slotVars PROVE SlotsInv'
  OBVIOUS
<1>1. ASSUME NEW key \in Keys, SetSlotWidget(key) PROVE SlotsInv'
  BY <1>1, WantedStep
<1>2. CASE OpenMainView \/ CloseMainView \/ ClearComponents
  BY <1>2, WantedStep
<1>3. ASSUME NEW p \in Places, Swap(p) PROVE SlotsInv'
  BY <1>3, SwapStep
<1>4. ASSUME NEW p \in Places, Removed(p) PROVE SlotsInv'
  BY <1>4, RemovedStep
<1>5. ASSUME NEW p \in Places, Quarantine(p) PROVE SlotsInv'
  BY <1>5, QuarantineStep
<1>6. CASE UNCHANGED slotVars
  BY <1>6 DEF slotVars, SlotsInv, SlotsType, Lined
<1> QED
  BY <1>1, <1>2, <1>3, <1>4, <1>5, <1>6 DEF SlotsNext

\* The runtime and the walks over hooks leave the places alone.
LEMMA PlacesHold == ExtensionsSpec => []SlotsInv
<1>1. ExtensionsInit => SlotsInv
  BY SlotsInitInv DEF ExtensionsInit
<1>2. SlotsInv /\ [ExtensionsNext]_extensionsVars => SlotsInv'
  BY SlotsStepInv DEF ExtensionsNext, extensionsVars
<1> QED
  BY <1>1, <1>2, PTL DEF ExtensionsSpec

\* However fast extensions set, replace and close their widgets, and whatever a reload clears in
\* between, a place of the document never holds two: the lock of _reconcile_slot and
\* _reconcile_main_view is enough, for any number of places and swaps, until a widget crashes.
THEOREM OneWidgetPerPlace == ExtensionsSpec => []NoDuplicateIds
<1>1. SlotsInv => NoDuplicateIds
  <2> SUFFICES ASSUME SlotsInv, ~crashed, NEW p \in Places PROVE Cardinality(document[p]) <= 1
    BY DEF NoDuplicateIds
  <2>1. document[p] = {} \/ document[p] = {mounted[p]}
    BY DEF SlotsInv, Lined
  <2>2. Cardinality({}) = 0 /\ Cardinality({mounted[p]}) = 1
    BY FS_EmptySet, FS_Singleton
  <2> QED
    BY <2>1, <2>2
<1> QED
  BY <1>1, PlacesHold, PTL

------------------------------------------------------------------------------
(* Walks over the hooks *)

Pair == Names \X Nat
Walk ==
  [kind : Kinds, at : {"next", "awaiting", "stopped", "running", "over"}, place : Nat,
   extension : Extension, handler : Nat, value : Seq(Pair),
   asked : Seq([handler : Pair, answer : {"nothing", "raise", "change", "stop"}]),
   due : Seq(Pair), same : BOOLEAN]

\* The handlers of each extension of a list.
Rows(list, kind) ==
  [i \in DOMAIN list |-> [h \in 1 .. list[i].handlers[kind] |-> <<list[i].name, h>>]]
\* How many handlers come before the row of an extension, and up to its end.
Start0(list, kind) == CHOOSE at : Offsets(at, Rows(list, kind))

\* The handlers of w that were asked or are being asked.
Reached(w, list) ==
  IF w.kind = "event" THEN w.handler
  ELSE IF w.place = 0 THEN 0 ELSE Start0(list, w.kind)[w.place - 1] + w.handler

\* Where a walk is in its list: at no place yet, or at a handler of the extension of its place.
Stands(w, list) ==
  w.kind # "event" =>
    IF w.place = 0
      THEN w.handler = 0 /\ w.extension = NoExtension
      ELSE /\ w.place \in DOMAIN list /\ w.extension = list[w.place]
           /\ w.handler \in 1 .. w.extension.handlers[w.kind]

\* Those asked are the first of those that were due.
Behind(w) == /\ Len(w.asked) <= Len(w.due)
             /\ \A i \in 1 .. Len(w.asked) : w.asked[i].handler = w.due[i]
WalkInOrder(w, list) ==
  w.same =>
    /\ w.at # "over" => w.due = Handlers(list, w.kind)
    /\ Behind(w)
    /\ w.at \in {"next", "awaiting", "stopped"} =>
         /\ Stands(w, list)
         /\ Reached(w, list) = IF w.at = "awaiting" THEN Len(w.asked) + 1 ELSE Len(w.asked)

Whole(w) == Len(w.asked) = Len(w.due)
EndedBy(w) ==
  /\ w.kind \in {"tool_call", "input"} /\ w.asked # <<>>
  /\ Last(w.asked).answer \in (IF w.kind = "input" THEN {"stop"} ELSE {"stop", "raise"})

Unblocked(w) == \A i \in DOMAIN w.asked : w.asked[i].answer \notin {"stop", "raise"}
Chosen(w) ==
  FlattenSeq([i \in DOMAIN w.asked |->
                IF w.asked[i].answer = "change" THEN <<w.asked[i].handler>> ELSE <<>>])

Ended(w) ==
  /\ w.at = "running" => w.kind = "tool_call"
  /\ w.at = "stopped" => EndedBy(w)
  /\ w.at = "awaiting" /\ w.kind = "event" => w.handler \in 1 .. Len(w.due)
  /\ w.same /\ w.at = "running" => Whole(w)
  /\ w.same /\ w.at = "over" => Whole(w) \/ EndedBy(w)

Passed(w) ==
  /\ w.at \in {"next", "awaiting", "running"} /\ w.kind = "tool_call" => Unblocked(w)
  /\ w.value = Chosen(w)

WalkInv(w, list) == w \in Walk /\ WalkInOrder(w, list) /\ Ended(w) /\ Passed(w)
HooksInv == listed \in Seq(Extension) /\ WalkInv(walk, listed)

\* A handler of w is asked, or is about to be.
Asking(w, list) ==
  /\ w \in Walk /\ w.at \in {"next", "awaiting"}
  /\ Handler(w) \in Pair /\ Passed(w)
  /\ w.kind = "event" => w.handler \in 1 .. Len(w.due)
  /\ w.same =>
       /\ w.due = Handlers(list, w.kind)
       /\ Behind(w) /\ Stands(w, list)
       /\ Reached(w, list) = Len(w.asked) + 1 /\ Len(w.asked) < Len(w.due)
       /\ Handler(w) = w.due[Len(w.asked) + 1]

LEMMA RowsAreHandlers ==
  ASSUME NEW list \in Seq(Extension), NEW kind \in Kinds
  PROVE  /\ Rows(list, kind) \in Seq(Seq(Pair)) /\ Len(Rows(list, kind)) = Len(list)
         /\ Handlers(list, kind) = FlattenSeq(Rows(list, kind))
         /\ Handlers(list, kind) \in Seq(Pair)
         /\ Offsets(Start0(list, kind), Rows(list, kind))
<1>1. ASSUME NEW i \in DOMAIN list
      PROVE  /\ list[i].handlers[kind] \in Nat /\ list[i].name \in Names
             /\ [h \in 1 .. list[i].handlers[kind] |-> <<list[i].name, h>>] \in Seq(Pair)
  <2>1. list[i] \in Extension
    BY <1>1
  <2>2. list[i].handlers[kind] \in Nat /\ list[i].name \in Names
    BY <2>1 DEF Extension
  <2> DEFINE n == list[i].handlers[kind]
             f == [h \in 1 .. n |-> <<list[i].name, h>>]
  <2>3. f \in [1 .. n -> Pair]
    BY <2>2 DEF Pair
  <2> QED
    BY <2>2, <2>3, SeqDef, SMTT(60)
<1>2. Rows(list, kind) \in [1 .. Len(list) -> Seq(Pair)] /\ Len(list) \in Nat
  BY <1>1, SMTT(30) DEF Rows
<1>3. Rows(list, kind) \in Seq(Seq(Pair)) /\ Len(Rows(list, kind)) = Len(list)
  BY <1>2, SeqDef
<1>4. Handlers(list, kind) = FlattenSeq(Rows(list, kind))
  BY DEF Handlers, Rows
<1>5. FlattenSeq(Rows(list, kind)) \in Seq(Pair) /\ \E at : Offsets(at, Rows(list, kind))
  BY <1>3, FlattenPlaces
<1>6. Offsets(Start0(list, kind), Rows(list, kind))
  BY <1>5 DEF Start0
<1> QED
  BY <1>3, <1>4, <1>5, <1>6

\* The place of a handler of a list among all of the list's.
LEMMA HandlerPlace ==
  ASSUME NEW list \in Seq(Extension), NEW kind \in Kinds, NEW p \in DOMAIN list,
         NEW before, before = Start0(list, kind)[p - 1]
  PROVE  /\ before \in Nat /\ list[p].handlers[kind] \in Nat
         /\ Start0(list, kind)[p] = before + list[p].handlers[kind]
         /\ \A h \in 1 .. list[p].handlers[kind] :
              /\ before + h \in 1 .. Len(Handlers(list, kind))
              /\ Handlers(list, kind)[before + h] = <<list[p].name, h>>
<1> DEFINE at == Start0(list, kind)
           ss == Rows(list, kind)
           n == Len(list)
           F == FlattenSeq(ss)
           m == list[p].handlers[kind]
<1>1. /\ ss \in Seq(Seq(Pair)) /\ Len(ss) = n /\ n \in Nat /\ p \in 1 .. n
      /\ Handlers(list, kind) = F /\ Offsets(at, ss)
  BY RowsAreHandlers
<1>2. m \in Nat /\ ss[p] = [h \in 1 .. m |-> <<list[p].name, h>>]
  <2>1. list[p] \in Extension
    OBVIOUS
  <2> QED
    BY <2>1 DEF Rows, Extension
<1>3. Len(ss[p]) = m /\ \A h \in 1 .. m : ss[p][h] = <<list[p].name, h>>
  BY <1>2
<1> HIDE DEF at, ss, n, F, m
<1>4. /\ at \in [0 .. n -> Nat] /\ Len(F) = at[n]
      /\ at[p] = at[p - 1] + m
      /\ \A h \in 1 .. m : F[at[p - 1] + h] = ss[p][h]
      /\ at[p] <= at[n]
  <2>1. p \in 0 .. Len(ss) /\ Len(ss) \in 0 .. Len(ss) /\ p <= Len(ss)
    BY <1>1
  <2>2. \A i, k \in 0 .. Len(ss) : i <= k => at[i] <= at[k]
    BY <1>1 DEF Offsets
  <2>3. at[p] <= at[n]
    BY <1>1, <2>1, <2>2
  <2> QED
    BY <1>1, <1>3, <2>3 DEF Offsets, F
<1>5. before = at[p - 1] /\ before \in Nat /\ at[n] \in Nat
  <2>1. p - 1 \in 0 .. n /\ n \in 0 .. n
    BY <1>1
  <2> QED
    BY <1>4, <2>1 DEF at
<1>6. ASSUME NEW h \in 1 .. m PROVE before + h \in 1 .. Len(F) /\ F[before + h] = <<list[p].name, h>>
  BY <1>2, <1>3, <1>4, <1>5, SMTT(30)
<1> QED
  BY <1>1, <1>2, <1>4, <1>5, <1>6 DEF at, m, F

\* When the handlers of an extension are through and those after it up to j have none, the handlers
\* asked are all up to j.
LEMMA Exhausted ==
  ASSUME HooksInv, walk.at = "next", walk.same, walk.kind # "event",
         ~ (walk.handler < walk.extension.handlers[walk.kind]),
         NEW j \in walk.place .. Len(listed), \A k \in FollowingPlaces : j < k
  PROVE  /\ Start0(listed, walk.kind)[j] = Len(walk.asked)
         /\ walk.place \in 0 .. Len(listed)
<1> DEFINE kind == walk.kind
           at == Start0(listed, kind)
           p == walk.place
           ss == Rows(listed, kind)
<1>1. /\ walk \in Walk /\ kind \in Kinds /\ p \in Nat /\ listed \in Seq(Extension)
      /\ Stands(walk, listed) /\ Reached(walk, listed) = Len(walk.asked)
  BY DEF HooksInv, WalkInv, WalkInOrder, Walk
<1>2. ss \in Seq(Seq(Pair)) /\ Len(ss) = Len(listed) /\ Offsets(at, ss) /\ Len(listed) \in Nat
  BY <1>1, RowsAreHandlers
<1>3. p \in 0 .. Len(listed) /\ at[p] = Len(walk.asked)
  <2>1. CASE p = 0
    <3>1. at[0] = 0
      BY <1>2 DEF Offsets
    <3> QED
      BY <1>1, <1>2, <2>1, <3>1 DEF Reached
  <2>2. CASE p # 0
    <3>1. /\ p \in DOMAIN listed /\ walk.handler \in 1 .. listed[p].handlers[kind]
          /\ walk.extension = listed[p]
      BY <1>1, <2>2 DEF Stands
    <3> DEFINE before == at[p - 1]
               m == listed[p].handlers[kind]
    <3>2. before \in Nat /\ m \in Nat /\ at[p] = before + m
      BY <1>1, <3>1, HandlerPlace, SMTT(30)
    <3>3. walk.handler = m
      BY <3>1, <3>2
    <3>4. Len(walk.asked) = before + walk.handler
      BY <1>1, <2>2 DEF Reached
    <3> QED
      BY <3>1, <3>2, <3>3, <3>4
  <2> QED
    BY <2>1, <2>2
<1>4. ASSUME NEW k \in 1 .. Len(ss), p < k, k <= j PROVE Len(ss[k]) = 0
  <2>1. k \in DOMAIN listed /\ k \notin FollowingPlaces
    BY <1>1, <1>2, <1>4
  <2>2. listed[k] \in Extension /\ ~ (listed[k].handlers[kind] > 0)
    BY <1>1, <1>4, <2>1 DEF FollowingPlaces
  <2>3. listed[k].handlers[kind] = 0
    BY <1>1, <2>2 DEF Extension
  <2>4. ss[k] = [h \in 1 .. 0 |-> <<listed[k].name, h>>]
    BY <2>1, <2>3 DEF Rows
  <2> QED
    BY <2>4
<1> HIDE DEF at, ss, p
<1>5. p \in 0 .. Len(ss) /\ j \in 0 .. Len(ss) /\ p <= j
  BY <1>1, <1>2, <1>3 DEF p
<1>6. \A k \in 1 .. Len(ss) : p < k /\ k <= j => Len(ss[k]) = 0
  BY <1>4
<1>7. at[j] = at[p]
  BY <1>2, <1>5, <1>6, EmptyRows
<1> QED
  BY <1>3, <1>7 DEF at, p

\* The handler that is next is the next of those that were due.
LEMMA FollowingInOrder ==
  ASSUME HooksInv, walk.at = "next", NEW w \in Following
  PROVE  Asking(w, listed)
<1> DEFINE kind == walk.kind
           due == walk.due
           n == Len(walk.asked)
<1>1. /\ walk \in Walk /\ kind \in Kinds /\ walk.place \in Nat /\ walk.handler \in Nat
      /\ walk.extension \in Extension /\ listed \in Seq(Extension) /\ due \in Seq(Pair)
      /\ n \in Nat /\ Len(due) \in Nat /\ Passed(walk)
  BY DEF HooksInv, WalkInv, Walk
<1>2. walk.same =>
        /\ due = Handlers(listed, kind) /\ Behind(walk) /\ Stands(walk, listed)
        /\ Reached(walk, listed) = n /\ n <= Len(due)
  BY DEF HooksInv, WalkInv, WalkInOrder, Behind
<1>3. CASE kind = "event"
  <2>1. w = [walk EXCEPT !.handler = @ + 1] /\ walk.handler < Len(due)
    BY <1>3 DEF Following
  <2>2. /\ w \in Walk /\ w.at = "next" /\ w.kind = "event" /\ w.handler = walk.handler + 1
        /\ w.asked = walk.asked /\ w.due = due /\ w.same = walk.same /\ w.value = walk.value
    <3>1. /\ w \in Walk /\ w.at = "next" /\ w.kind = kind /\ w.handler = walk.handler + 1
          /\ w.asked = walk.asked /\ w.due = due /\ w.same = walk.same /\ w.value = walk.value
      <4>1. walk.handler + 1 \in Nat
        BY <1>1
      <4> DEFINE next == walk.handler + 1
      <4>2. w = [walk EXCEPT !.handler = next]
        BY <2>1
      <4> HIDE DEF next
      <4>3. w \in Walk
        <5>1. walk \in Walk /\ next \in Nat
          BY <1>1, <4>1 DEF next
        <5> QED
          BY ONLY <4>2, <5>1 DEF Walk
      <4> QED
        BY <1>1, <4>2, <4>3 DEF Walk, next
    <3> QED
      BY <1>3, <3>1
  <2>3. w.handler \in 1 .. Len(due) /\ Handler(w) = due[w.handler] /\ Handler(w) \in Pair
    BY <1>1, <2>1, <2>2 DEF Handler
  <2>4. Passed(w)
    BY <1>1, <2>2 DEF Passed, Unblocked, Chosen
  <2>5. w.same => walk.handler = n /\ Reached(w, listed) = n + 1
    BY <1>2, <1>3, <2>2 DEF Reached
  <2>6. w.same => Behind(w) /\ Stands(w, listed)
    BY <1>2, <2>2 DEF Behind, Stands
  <2> QED
    BY <1>2, <1>3, <2>1, <2>2, <2>3, <2>4, <2>5, <2>6 DEF Asking
<1>4. CASE kind # "event" /\ walk.handler < walk.extension.handlers[kind]
  <2>1. w = [walk EXCEPT !.handler = @ + 1]
    BY <1>4 DEF Following
  <2>2. /\ w \in Walk /\ w.at = "next" /\ w.kind = kind /\ w.handler = walk.handler + 1
        /\ w.place = walk.place /\ w.extension = walk.extension
        /\ w.asked = walk.asked /\ w.due = due /\ w.same = walk.same /\ w.value = walk.value
    BY <1>1, <2>1, SMTT(30) DEF Walk
  <2>3. Handler(w) = <<walk.extension.name, walk.handler + 1>> /\ Handler(w) \in Pair
    BY <1>1, <1>4, <2>2 DEF Handler, Pair, Extension
  <2>4. Passed(w)
    BY <1>1, <2>2 DEF Passed, Unblocked, Chosen
  <2>5. ASSUME w.same
        PROVE  /\ Behind(w) /\ Stands(w, listed) /\ Reached(w, listed) = n + 1
               /\ n < Len(due) /\ Handler(w) = due[n + 1]
    <3> DEFINE p == walk.place
               before == Start0(listed, kind)[p - 1]
               m == listed[p].handlers[kind]
    <3>1. p # 0
      BY <1>1, <1>2, <1>4, <2>2, <2>5 DEF Stands, NoExtension
    <3>2. /\ p \in DOMAIN listed /\ walk.extension = listed[p]
          /\ walk.handler \in 1 .. m
      BY <1>2, <1>4, <2>2, <2>5, <3>1 DEF Stands
    <3>3. /\ before \in Nat /\ m \in Nat
          /\ \A h \in 1 .. m :
               /\ before + h \in 1 .. Len(Handlers(listed, kind))
               /\ Handlers(listed, kind)[before + h] = <<listed[p].name, h>>
      BY <1>1, <3>2, HandlerPlace, ZenonT(60)
    <3>4. walk.handler + 1 \in 1 .. m
      BY <1>1, <1>4, <3>2, <3>3, SMTT(30)
    <3>5. n = before + walk.handler
      BY <1>2, <1>4, <2>2, <2>5, <3>1 DEF Reached
    <3>6. before + (walk.handler + 1) = n + 1
      BY <1>1, <3>3, <3>5, SMTT(30)
    <3>7. n + 1 \in 1 .. Len(due) /\ due[n + 1] = <<walk.extension.name, walk.handler + 1>>
      BY <1>2, <2>2, <2>5, <3>2, <3>3, <3>4, <3>6
    <3>8. Stands(w, listed) /\ Reached(w, listed) = before + (walk.handler + 1)
      BY <1>4, <2>2, <3>1, <3>2, <3>4 DEF Stands, Reached
    <3>9. Behind(w)
      BY <1>2, <2>2, <2>5 DEF Behind
    <3> QED
      BY <1>1, <2>3, <3>6, <3>7, <3>8, <3>9
  <2> QED
    BY <1>2, <1>4, <2>2, <2>3, <2>4, <2>5 DEF Asking
<1>5. CASE kind # "event" /\ ~ (walk.handler < walk.extension.handlers[kind])
  <2>1. PICK i \in FollowingPlaces :
          /\ \A j \in FollowingPlaces : i <= j
          /\ w = [walk EXCEPT !.place = i, !.extension = listed[i], !.handler = 1]
    BY <1>5 DEF Following
  <2>2. i \in DOMAIN listed /\ i > walk.place /\ listed[i].handlers[kind] > 0 /\ i \in Nat
    BY <1>1, <2>1 DEF FollowingPlaces
  <2>3. /\ listed[i] \in Extension /\ listed[i].name \in Names
        /\ listed[i].handlers[kind] \in Nat
    <3>1. listed[i] \in Extension
      BY <1>1, <2>2
    <3> QED
      BY <1>1, <3>1 DEF Extension
  <2>4. /\ w \in Walk /\ w.at = "next" /\ w.kind = kind /\ w.handler = 1
        /\ w.place = i /\ w.extension = listed[i]
        /\ w.asked = walk.asked /\ w.due = due /\ w.same = walk.same /\ w.value = walk.value
    BY <1>1, <2>1, <2>2, <2>3 DEF Walk
  <2>5. Handler(w) = <<listed[i].name, 1>> /\ Handler(w) \in Pair
    BY <1>5, <2>3, <2>4 DEF Handler, Pair
  <2>6. Passed(w)
    BY <1>1, <2>4 DEF Passed, Unblocked, Chosen
  <2>7. ASSUME w.same
        PROVE  /\ Behind(w) /\ Stands(w, listed) /\ Reached(w, listed) = n + 1
               /\ n < Len(due) /\ Handler(w) = due[n + 1]
    <3>1. i - 1 \in walk.place .. Len(listed) /\ \A k \in FollowingPlaces : i - 1 < k
      <4>1. \A k \in FollowingPlaces : k \in Nat /\ i <= k
        BY <1>1, <2>1 DEF FollowingPlaces
      <4> QED
        BY <1>1, <2>2, <4>1
    <3>2. Start0(listed, kind)[i - 1] = n
      BY <1>5, <2>4, <2>7, <3>1, Exhausted
    <3>3. /\ n \in Nat
          /\ \A h \in 1 .. listed[i].handlers[kind] :
               /\ n + h \in 1 .. Len(Handlers(listed, kind))
               /\ Handlers(listed, kind)[n + h] = <<listed[i].name, h>>
      BY <1>1, <2>2, <3>2, HandlerPlace, ZenonT(60)
    <3>4. 1 \in 1 .. listed[i].handlers[kind]
      BY <2>2, <2>3
    <3>5. n + 1 \in 1 .. Len(due) /\ due[n + 1] = <<listed[i].name, 1>>
      BY <1>2, <2>4, <2>7, <3>3, <3>4
    <3>6. Stands(w, listed) /\ Reached(w, listed) = n + 1
      BY <1>1, <1>5, <2>2, <2>4, <3>2, <3>4 DEF Stands, Reached
    <3>7. Behind(w)
      BY <1>2, <2>4, <2>7 DEF Behind
    <3> QED
      BY <1>1, <2>5, <3>5, <3>6, <3>7
  <2> QED
    BY <1>2, <1>5, <2>4, <2>5, <2>6, <2>7 DEF Asking
<1> QED
  BY <1>3, <1>4, <1>5

\* When none is next all that were due were asked.
LEMMA NoneFollows ==
  ASSUME HooksInv, walk.at = "next", walk.same, Following = {}
  PROVE  Whole(walk)
<1> DEFINE kind == walk.kind
           due == walk.due
           n == Len(walk.asked)
<1>1. /\ walk \in Walk /\ kind \in Kinds /\ walk.place \in Nat /\ walk.handler \in Nat
      /\ listed \in Seq(Extension) /\ n \in Nat /\ Len(due) \in Nat
      /\ due = Handlers(listed, kind) /\ Stands(walk, listed)
      /\ Reached(walk, listed) = n /\ n <= Len(due)
  BY DEF HooksInv, WalkInv, Walk, WalkInOrder, Behind
<1>2. CASE kind = "event"
  <2>1. walk.handler = n /\ ~ (walk.handler < Len(due))
    BY <1>1, <1>2 DEF Following, Reached
  <2> QED
    BY <1>1, <2>1 DEF Whole
<1>3. CASE kind # "event"
  <2>1. ~ (walk.handler < walk.extension.handlers[kind])
    BY <1>3 DEF Following
  <2>2. FollowingPlaces = {}
    <3> SUFFICES ASSUME FollowingPlaces # {} PROVE FALSE
      OBVIOUS
    <3>1. FollowingPlaces \in SUBSET Nat
      BY <1>1 DEF FollowingPlaces
    <3>2. PICK i \in FollowingPlaces : \A j \in FollowingPlaces : i <= j
      BY <3>1, LeastNumber
    <3>3. [walk EXCEPT !.place = i, !.extension = listed[i], !.handler = 1] \in Following
      BY <1>3, <2>1, <3>2 DEF Following
    <3> QED
      BY <3>3
  <2>3. walk.place \in 0 .. Len(listed)
    BY <1>1, <1>3 DEF Stands
  <2>4. Len(listed) \in walk.place .. Len(listed)
    BY <1>1, <2>3
  <2>5. Start0(listed, kind)[Len(listed)] = n
    BY <1>3, <2>1, <2>2, <2>4, Exhausted
  <2>6. Len(due) = Start0(listed, kind)[Len(listed)]
    <3>1. /\ due = FlattenSeq(Rows(listed, kind)) /\ Len(Rows(listed, kind)) = Len(listed)
          /\ Offsets(Start0(listed, kind), Rows(listed, kind))
      BY <1>1, RowsAreHandlers
    <3> QED
      BY <3>1 DEF Offsets
  <2> QED
    BY <2>5, <2>6 DEF Whole
<1> QED
  BY <1>2, <1>3

\* A handler answers, or is found gone.
LEMMA AnsweredInv ==
  ASSUME NEW list \in Seq(Extension), NEW w, Asking(w, list),
         NEW answer \in {"nothing", "raise", "change", "stop"},
         answer = "stop" => w.kind \in {"tool_call", "input"}
  PROVE  WalkInv(Answered(w, answer), list)
<1> DEFINE a == [handler |-> Handler(w), answer |-> answer]
           asked == Append(w.asked, a)
           value == IF answer = "change" THEN Append(w.value, Handler(w)) ELSE w.value
           at == IF Stops(w.kind, answer) THEN "stopped" ELSE "next"
           u == Answered(w, answer)
           n == Len(w.asked)
<1>1. /\ w \in Walk /\ Handler(w) \in Pair /\ Passed(w)
      /\ w.value \in Seq(Pair) /\ w.kind \in Kinds /\ n \in Nat
      /\ w.asked \in Seq([handler : Pair, answer : {"nothing", "raise", "change", "stop"}])
  BY DEF Asking, Walk
<1>2. /\ asked \in Seq([handler : Pair, answer : {"nothing", "raise", "change", "stop"}])
      /\ Len(asked) = n + 1 /\ asked[n + 1] = a /\ \A i \in 1 .. n : asked[i] = w.asked[i]
      /\ value \in Seq(Pair) /\ at \in {"next", "stopped"}
  BY <1>1
<1>3. u = [w EXCEPT !.asked = asked, !.value = value, !.at = at]
  BY DEF Answered
<1> HIDE DEF asked, value, at, u
<1>4. /\ u \in Walk /\ u.asked = asked /\ u.value = value /\ u.at = at
      /\ u.kind = w.kind /\ u.due = w.due /\ u.same = w.same /\ u.place = w.place
      /\ u.handler = w.handler /\ u.extension = w.extension
  BY <1>1, <1>2, <1>3 DEF Walk
<1>5. WalkInOrder(u, list)
  <2> SUFFICES ASSUME u.same PROVE WalkInOrder(u, list)
    BY DEF WalkInOrder
  <2>1. /\ w.due = Handlers(list, w.kind) /\ Behind(w) /\ Stands(w, list)
        /\ Reached(w, list) = n + 1 /\ n < Len(w.due) /\ Handler(w) = w.due[n + 1]
    BY <1>4 DEF Asking
  <2>2. Behind(u)
    <3>1. Len(u.asked) = n + 1 /\ Len(u.asked) <= Len(u.due)
      <4>1. Len(w.due) \in Nat
        BY <1>1 DEF Walk
      <4> QED
        BY <1>1, <1>2, <1>4, <2>1, <4>1
    <3>2. ASSUME NEW i \in 1 .. n + 1 PROVE asked[i].handler = w.due[i]
      BY <1>1, <1>2, <2>1, <3>2, SMTT(60) DEF Behind
    <3> QED
      BY <1>4, <3>1, <3>2 DEF Behind
  <2>3. Stands(u, list) /\ Reached(u, list) = n + 1
    BY <1>4, <2>1 DEF Stands, Reached
  <2> QED
    BY <1>2, <1>4, <2>1, <2>2, <2>3 DEF WalkInOrder
<1>6. Ended(u)
  <2>1. ASSUME at = "stopped" PROVE EndedBy(u)
    <3>1. Stops(w.kind, answer)
      BY <2>1 DEF at
    <3>2. Last(asked) = a /\ asked # <<>>
      BY <1>1, <1>2 DEF Last
    <3> QED
      BY <1>4, <3>1, <3>2 DEF Stops, EndedBy
  <2> QED
    BY <1>2, <1>4, <2>1 DEF Ended
<1>7. Passed(u)
  <2>1. ASSUME at = "next", w.kind = "tool_call" PROVE Unblocked(u)
    <3>1. answer \notin {"stop", "raise"}
      BY <2>1 DEF at, Stops
    <3>2. Unblocked(w)
      BY <1>1, <2>1 DEF Passed, Asking
    <3>3. ASSUME NEW i \in 1 .. n + 1 PROVE asked[i].answer \notin {"stop", "raise"}
      BY <1>1, <1>2, <3>1, <3>2, SMTT(60) DEF Unblocked
    <3>4. DOMAIN asked = 1 .. n + 1
      BY <1>2, SMTT(30)
    <3> QED
      BY <1>4, <3>3, <3>4 DEF Unblocked
  <2>2. value = Chosen(u)
    <3> DEFINE one == IF answer = "change" THEN <<Handler(w)>> ELSE <<>>
               ss == [i \in DOMAIN w.asked |->
                        IF w.asked[i].answer = "change" THEN <<w.asked[i].handler>> ELSE <<>>]
               tt == [i \in DOMAIN asked |->
                        IF asked[i].answer = "change" THEN <<asked[i].handler>> ELSE <<>>]
    <3>1. w.value = FlattenSeq(ss)
      BY <1>1 DEF Passed, Chosen
    <3>2. ss \in [1 .. n -> Seq(Pair)] /\ ss \in Seq(Seq(Pair)) /\ Len(ss) = n
      <4>1. ASSUME NEW i \in 1 .. n
            PROVE  (IF w.asked[i].answer = "change" THEN <<w.asked[i].handler>> ELSE <<>>) \in Seq(Pair)
        <5>1. w.asked[i] \in [handler : Pair, answer : {"nothing", "raise", "change", "stop"}]
          BY <1>1, ElementOfSeq
        <5>2. w.asked[i].handler \in Pair
          BY <5>1
        <5> QED
          BY <5>2
      <4>2. DOMAIN w.asked = 1 .. n
        BY <1>1
      <4>3. ss \in [1 .. n -> Seq(Pair)]
        BY <4>1, <4>2
      <4> HIDE DEF ss
      <4> QED
        BY <1>1, <4>3, SeqDef, SMTT(60)
    <3>3. one \in Seq(Pair)
      BY <1>1
    <3>4. tt = Append(ss, one)
      <4>1. DOMAIN asked = 1 .. n + 1 /\ DOMAIN w.asked = 1 .. n
        BY <1>1, <1>2
      <4>2. ASSUME NEW i \in 1 .. n PROVE tt[i] = ss[i]
        BY <1>2, <4>1
      <4>3. tt[n + 1] = one
        BY <1>1, <1>2, <4>1
      <4>4. tt = [i \in 1 .. n + 1 |-> tt[i]]
        BY <4>1
      <4> HIDE DEF tt, ss, one, n
      <4>5. n \in Nat /\ \A i \in 1 .. n : tt[i] = ss[i]
        BY <1>1, <4>2
      <4>6. \A i \in 1 .. n + 1 : tt[i] \in Seq(Pair)
        <5>1. \A i \in 1 .. n + 1 : i \in 1 .. n \/ i = n + 1
          BY <4>5
        <5> QED
          BY <3>2, <3>3, <4>3, <4>5, <5>1
      <4>7. tt \in [1 .. n + 1 -> Seq(Pair)]
        BY <4>4, <4>6
      <4>8. \A i \in 1 .. n : tt[i] = ss[i]
        BY <4>5
      <4>9. n \in Nat /\ ss \in Seq(Seq(Pair)) /\ one \in Seq(Pair) /\ Len(ss) = n
        BY <3>2, <3>3, <4>5
      <4> QED
        BY ONLY <4>3, <4>7, <4>8, <4>9, AppendIs
    <3>5. FlattenSeq(tt) = FlattenSeq(ss) \o one
      <4> HIDE DEF tt, ss, one
      <4> QED
        BY <3>2, <3>3, <3>4, FlattenAppend
    <3>6. value = w.value \o one
      <4>1. Append(w.value, Handler(w)) = w.value \o <<Handler(w)>> /\ w.value \o <<>> = w.value
        BY <1>1
      <4> QED
        BY <4>1 DEF value
    <3> QED
      BY <1>4, <3>1, <3>5, <3>6 DEF Chosen
  <2> QED
    BY <1>2, <1>4, <2>1, <2>2 DEF Passed
<1> QED
  BY <1>4, <1>5, <1>6, <1>7 DEF WalkInv, u

LEMMA FreshInv ==
  ASSUME listed \in Seq(Extension), NEW kind \in Kinds
  PROVE  WalkInv(Fresh(kind), listed)
<1> DEFINE w == Fresh(kind)
           due == Handlers(listed, kind)
<1>1. due \in Seq(Pair) /\ Len(due) \in Nat
  BY RowsAreHandlers
<1>2. NoExtension \in Extension
  <2> DEFINE none == [k \in Kinds |-> 0]
  <2>1. none \in [Kinds -> Nat] /\ "none" \in Names
    BY DEF Names
  <2>2. NoExtension = [name |-> "none", handlers |-> none]
    BY DEF NoExtension
  <2> HIDE DEF none
  <2> QED
    BY <2>1, <2>2 DEF Extension
<1>3. w = [kind |-> kind, at |-> "next", place |-> 0, extension |-> NoExtension, handler |-> 0,
           value |-> <<>>, asked |-> <<>>, due |-> due, same |-> TRUE]
  BY DEF Fresh
<1> HIDE DEF w, due
<1>4. w \in Walk
  BY <1>1, <1>2, <1>3 DEF Walk
<1>5. Behind(w) /\ Stands(w, listed) /\ Reached(w, listed) = 0 /\ Len(w.asked) = 0
  BY <1>1, <1>3 DEF Behind, Stands, Reached
<1>6. WalkInOrder(w, listed) /\ Ended(w)
  BY <1>3, <1>5 DEF WalkInOrder, Ended, due
<1>7. Passed(w)
  <2>1. Chosen(w) = <<>>
    <3>1. Chosen(w) = FlattenSeq(<<>>)
      BY <1>3 DEF Chosen
    <3>2. FlattenSeq(<<>>) = <<>>
      <4>1. <<>> \in Seq(Seq(Pair)) /\ Len(<<>>) = 0
        OBVIOUS
      <4>2. PICK f : Builds(f, Pair, <<>>)
        BY <4>1, FlattenBuilds
      <4> QED
        BY <4>1, <4>2 DEF Builds
    <3> QED
      BY <3>1, <3>2
  <2> QED
    BY <1>3, <2>1 DEF Passed, Unblocked
<1> QED
  BY <1>4, <1>6, <1>7 DEF WalkInv, w

LEMMA HooksInitInv == HooksInit => HooksInv
<1> SUFFICES ASSUME HooksInit PROVE HooksInv
  OBVIOUS
<1>1. listed \in Seq(Extension)
  BY HooksAssumption DEF HooksInit
<1>2. "event" \in Kinds
  BY DEF Kinds
<1> DEFINE w == Fresh("event")
<1>3. WalkInv(w, listed) /\ walk = [w EXCEPT !.at = "over", !.due = <<>>] /\ w.asked = <<>>
  BY <1>1, <1>2, FreshInv DEF HooksInit, Fresh
<1> HIDE DEF w
<1>4. /\ walk \in Walk /\ walk.at = "over" /\ walk.due = <<>> /\ walk.asked = <<>>
      /\ walk.kind = w.kind /\ walk.value = w.value
  <2>1. w \in Walk /\ <<>> \in Seq(Pair)
    BY <1>3 DEF WalkInv
  <2>2. walk \in Walk
    BY <1>3, <2>1 DEF Walk
  <2> QED
    BY <1>3, <2>1, <2>2 DEF Walk
<1>5. Behind(walk) /\ Whole(walk) /\ Passed(walk)
  BY <1>3, <1>4 DEF WalkInv, Passed, Chosen, Behind, Whole
<1> QED
  BY <1>1, <1>4, <1>5 DEF HooksInv, WalkInv, WalkInOrder, Ended

LEMMA CallInv == ASSUME HooksInv, Call PROVE HooksInv'
<1>1. listed' = listed /\ listed \in Seq(Extension) /\ walk.at = "next"
  BY DEF HooksInv, Call
<1>2. PICK w \in Following :
        walk' = IF \E i \in DOMAIN listed : listed[i].name = Handler(w)[1]
                THEN [w EXCEPT !.at = "awaiting"] ELSE Answered(w, "raise")
  BY DEF Call
<1>3. Asking(w, listed)
  BY <1>1, FollowingInOrder
<1>4. CASE walk' = Answered(w, "raise")
  BY <1>1, <1>3, <1>4, AnsweredInv DEF HooksInv
<1>5. CASE walk' = [w EXCEPT !.at = "awaiting"]
  <2> DEFINE u == walk'
  <2>1. /\ u \in Walk /\ u.at = "awaiting" /\ u.kind = w.kind /\ u.asked = w.asked /\ u.due = w.due
        /\ u.same = w.same /\ u.place = w.place /\ u.handler = w.handler /\ u.value = w.value
        /\ u.extension = w.extension
    BY <1>3, <1>5 DEF Asking, Walk
  <2> HIDE DEF u
  <2>2. WalkInOrder(u, listed)
    BY <1>3, <2>1 DEF WalkInOrder, Asking, Behind, Stands, Reached
  <2>3. Ended(u)
    BY <1>3, <2>1 DEF Ended, Asking
  <2>4. Passed(u)
    BY <1>3, <2>1 DEF Passed, Asking, Chosen, Unblocked
  <2> QED
    BY <1>1, <2>1, <2>2, <2>3, <2>4 DEF HooksInv, WalkInv, u
<1> QED
  BY <1>2, <1>4, <1>5

LEMMA AnswerInv == ASSUME HooksInv, Answer PROVE HooksInv'
<1>1. listed' = listed /\ listed \in Seq(Extension) /\ walk.at = "awaiting" /\ WalkInv(walk, listed)
  BY DEF HooksInv, Answer
<1>2. PICK answer \in {"nothing", "raise", "change", "stop"} :
        /\ answer = "stop" => walk.kind \in {"tool_call", "input"}
        /\ walk' = Answered(walk, answer)
  BY DEF Answer
<1>3. Asking(walk, listed)
  <2> DEFINE kind == walk.kind
             n == Len(walk.asked)
  <2>1. /\ walk \in Walk /\ kind \in Kinds /\ n \in Nat /\ walk.due \in Seq(Pair)
        /\ walk.extension \in Extension /\ walk.handler \in Nat /\ Passed(walk)
        /\ kind = "event" => walk.handler \in 1 .. Len(walk.due)
    BY <1>1 DEF WalkInv, Walk, Ended
  <2>2. Handler(walk) \in Pair
    <3>1. CASE kind = "event"
      BY <2>1, <3>1 DEF Handler
    <3>2. CASE kind # "event"
      BY <2>1, <3>2 DEF Handler, Pair, Extension
    <3> QED
      BY <3>1, <3>2
  <2>3. ASSUME walk.same
        PROVE  /\ walk.due = Handlers(listed, kind)
               /\ Behind(walk) /\ Stands(walk, listed)
               /\ Reached(walk, listed) = n + 1 /\ n < Len(walk.due)
               /\ Handler(walk) = walk.due[n + 1]
    <3>1. /\ walk.due = Handlers(listed, kind) /\ Behind(walk) /\ Stands(walk, listed)
          /\ Reached(walk, listed) = n + 1
      BY <1>1, <2>3 DEF WalkInv, WalkInOrder
    <3>2. n < Len(walk.due) /\ Handler(walk) = walk.due[n + 1]
      <4>1. CASE kind = "event"
        BY <2>1, <3>1, <4>1 DEF Reached, Handler
      <4>2. CASE kind # "event"
        <5> DEFINE p == walk.place
                   before == Start0(listed, kind)[p - 1]
        <5>1. p # 0
          BY <2>1, <3>1, <4>2 DEF Reached
        <5>2. /\ p \in DOMAIN listed /\ walk.extension = listed[p]
              /\ walk.handler \in 1 .. listed[p].handlers[kind]
          BY <3>1, <4>2, <5>1 DEF Stands
        <5>3. n + 1 = before + walk.handler
          BY <3>1, <4>2, <5>1 DEF Reached
        <5>4. /\ before + walk.handler \in 1 .. Len(Handlers(listed, kind))
              /\ Handlers(listed, kind)[before + walk.handler] = <<listed[p].name, walk.handler>>
          BY <1>1, <2>1, <5>2, HandlerPlace, ZenonT(30)
        <5> QED
          BY <2>1, <3>1, <4>2, <5>2, <5>3, <5>4 DEF Handler
      <4> QED
        BY <4>1, <4>2
    <3> QED
      BY <3>1, <3>2
  <2> QED
    BY <1>1, <2>1, <2>2, <2>3 DEF Asking
<1> QED
  BY <1>1, <1>2, <1>3, AnsweredInv DEF HooksInv

LEMMA EndInv == ASSUME HooksInv, End PROVE HooksInv'
<1> DEFINE u == walk'
           at == IF walk.kind = "tool_call" THEN "running" ELSE "over"
<1>1. /\ listed' = listed /\ listed \in Seq(Extension) /\ walk.at = "next" /\ walk \in Walk
      /\ WalkInOrder(walk, listed) /\ Ended(walk) /\ Passed(walk)
      /\ u = [walk EXCEPT !.at = at] /\ at \in {"running", "over"}
      /\ walk.same => Whole(walk)
  BY NoneFollows DEF HooksInv, WalkInv, End
<1> HIDE DEF at
<1>2. /\ u \in Walk /\ u.at = at /\ u.kind = walk.kind /\ u.asked = walk.asked /\ u.due = walk.due
      /\ u.same = walk.same /\ u.value = walk.value
  BY <1>1 DEF Walk
<1> HIDE DEF u
<1>3. WalkInOrder(u, listed)
  BY <1>1, <1>2 DEF WalkInOrder, Behind
<1>4. Ended(u)
  BY <1>1, <1>2 DEF Ended, Whole, EndedBy, at
<1>5. Passed(u)
  BY <1>1, <1>2 DEF Passed, Chosen, Unblocked
<1> QED
  BY <1>1, <1>2, <1>3, <1>4, <1>5 DEF HooksInv, WalkInv, u

LEMMA StopInv == ASSUME HooksInv, Stop PROVE HooksInv'
<1> DEFINE u == walk'
<1>1. /\ listed' = listed /\ listed \in Seq(Extension) /\ walk.at = "stopped" /\ walk \in Walk
      /\ WalkInOrder(walk, listed) /\ Ended(walk) /\ Passed(walk)
      /\ u = [walk EXCEPT !.at = "over"]
  BY DEF HooksInv, WalkInv, Stop
<1>2. /\ u \in Walk /\ u.at = "over" /\ u.kind = walk.kind /\ u.asked = walk.asked /\ u.due = walk.due
      /\ u.same = walk.same /\ u.value = walk.value
  BY <1>1 DEF Walk
<1> HIDE DEF u
<1>3. WalkInOrder(u, listed)
  BY <1>1, <1>2 DEF WalkInOrder, Behind
<1>4. Ended(u)
  BY <1>1, <1>2 DEF Ended, EndedBy
<1>5. Passed(u)
  BY <1>1, <1>2 DEF Passed, Chosen
<1> QED
  BY <1>1, <1>2, <1>3, <1>4, <1>5 DEF HooksInv, WalkInv, u

\* Where a walk is in a list that a reload replaced is of no account.
LEMMA ReloadInv == ASSUME HooksInv, Reload PROVE HooksInv'
<1> DEFINE u == walk'
           same == walk.same /\ listed' = listed
<1>1. /\ listed' \in Seq(Extension) /\ walk \in Walk
      /\ WalkInOrder(walk, listed) /\ Ended(walk) /\ Passed(walk)
      /\ u = [walk EXCEPT !.same = same] /\ same \in BOOLEAN
      /\ same => walk.same /\ listed' = listed
  BY HooksAssumption DEF HooksInv, WalkInv, Reload
<1> HIDE DEF same
<1>2. /\ u \in Walk /\ u.same = same /\ u.at = walk.at /\ u.kind = walk.kind /\ u.asked = walk.asked
      /\ u.due = walk.due /\ u.place = walk.place /\ u.handler = walk.handler
      /\ u.value = walk.value /\ u.extension = walk.extension
  BY <1>1 DEF Walk
<1> HIDE DEF u
<1>3. WalkInOrder(u, listed')
  <2> SUFFICES ASSUME same PROVE WalkInOrder(u, listed)
    BY <1>1, <1>2 DEF WalkInOrder
  <2>1. walk.same /\ u.same
    BY <1>1, <1>2
  <2> QED
    BY <1>1, <1>2, <2>1 DEF WalkInOrder, Behind, Stands, Reached
<1>4. Ended(u)
  BY <1>1, <1>2 DEF Ended, EndedBy, Whole
<1>5. Passed(u)
  BY <1>1, <1>2 DEF Passed, Chosen, Unblocked
<1> QED
  BY <1>1, <1>2, <1>3, <1>4, <1>5 DEF HooksInv, WalkInv, u

LEMMA HooksStepInv == HooksInv /\ [HooksNext]_hookVars => HooksInv'
<1> SUFFICES ASSUME HooksInv, [HooksNext]_hookVars PROVE HooksInv'
  OBVIOUS
<1>1. listed \in Seq(Extension)
  BY DEF HooksInv
<1>2. ASSUME NEW kind \in Kinds, StartWalk(kind) PROVE HooksInv'
  BY <1>1, <1>2, FreshInv DEF StartWalk, HooksInv
<1>3. CASE ToolReturns
  <2>1. "tool_result" \in Kinds
    BY DEF Kinds
  <2> QED
    BY <1>1, <1>3, <2>1, FreshInv DEF ToolReturns, HooksInv
<1>4. CASE UNCHANGED hookVars
  BY <1>4 DEF hookVars, HooksInv
<1> QED
  BY <1>2, <1>3, <1>4, CallInv, AnswerInv, EndInv, StopInv, ReloadInv DEF HooksNext

\* The hooks decide what becomes of a tool call, of a prompt and of an event: no tool runs that a
\* hook stopped or could not judge, every tool runs with what the hooks made of its arguments, and no
\* handler is asked twice or passed over unless a reload changed the extensions under the walk; for
\* any lists of extensions, any numbers of handlers and however often they are reloaded.
THEOREM HooksAreDecisive == ExtensionsSpec => []HooksDecide
<1>1. ExtensionsInit => HooksInv
  BY HooksInitInv DEF ExtensionsInit
<1>2. HooksInv /\ [ExtensionsNext]_extensionsVars => HooksInv'
  <2>1. ASSUME HooksInv, UNCHANGED hookVars PROVE HooksInv'
    BY <2>1, HooksStepInv
  <2> QED
    BY <2>1, HooksStepInv DEF ExtensionsNext, extensionsVars
<1>3. HooksInv => HooksDecide
  <2> SUFFICES ASSUME HooksInv PROVE HooksDecide
    OBVIOUS
  <2>1. /\ walk \in Walk /\ WalkInOrder(walk, listed) /\ Ended(walk) /\ Passed(walk)
    BY DEF HooksInv, WalkInv
  <2>2. ASSUME walk.at = "running"
        PROVE  /\ \A i \in DOMAIN walk.asked : walk.asked[i].answer \notin {"stop", "raise"}
               /\ walk.value = Changed
    BY <2>1, <2>2 DEF Passed, Ended, Unblocked, Chosen, Changed
  <2>3. ASSUME walk.same
        PROVE  IsPrefix(Asked, walk.due) /\ (Whole(walk) => Asked = walk.due)
    <3> DEFINE n == Len(walk.asked)
    <3>1. /\ n \in Nat /\ walk.due \in Seq(Pair) /\ n <= Len(walk.due) /\ DOMAIN walk.asked = 1 .. n
          /\ walk.due \in [1 .. Len(walk.due) -> Pair] /\ Len(walk.due) \in Nat
      BY <2>1, <2>3 DEF WalkInOrder, Behind, Walk
    <3>2. \A i \in 1 .. n : walk.asked[i].handler = walk.due[i] /\ walk.due[i] \in Pair
      BY <2>1, <2>3, <3>1 DEF WalkInOrder, Behind
    <3> HIDE DEF n
    <3>3. Asked \in [1 .. n -> Pair] /\ \A i \in 1 .. n : Asked[i] = walk.due[i]
      BY <3>1, <3>2 DEF Asked
    <3>4. Asked \in Seq(Pair) /\ Len(Asked) = n
      BY <3>1, <3>3, SeqDef
    <3>5. IsPrefix(Asked, walk.due)
      BY <3>1, <3>3, <3>4 DEF IsPrefix
    <3>6. Whole(walk) => Asked = walk.due
      BY <3>1, <3>3, <3>4, SeqEqual DEF Whole, n
    <3> QED
      BY <3>5, <3>6
  <2>4. walk.same /\ walk.at \in {"running", "over"} =>
          \/ Asked = walk.due
          \/ /\ walk.at = "over" /\ walk.kind \in {"tool_call", "input"}
             /\ Last(walk.asked).answer \in (IF walk.kind = "input" THEN {"stop"} ELSE {"stop", "raise"})
    BY <2>1, <2>3 DEF Ended, EndedBy
  <2> QED
    BY <2>2, <2>3, <2>4 DEF HooksDecide
<1> QED
  BY <1>1, <1>2, <1>3, PTL DEF ExtensionsSpec

------------------------------------------------------------------------------
(* The runtime: what a load yields *)

Instances(g) == [name : ModuleNames, gen : {g}]
Loads(g) ==
  [ext : Seq([inst : Instances(g), on : SUBSET Lifecycle]),
   reg : [Tools -> Instances(g) \cup {Nobody}], kept : SUBSET Instances(g)]
Found == [name : ModuleNames, where : {"project", "user", "explicit"}]
NamesDiffer(s) == \A i, j \in DOMAIN s : s[i].name = s[j].name => i = j

\* Each extension that was set up is there once and was given its API object.
EachOnce(ext) == \A i, j \in DOMAIN ext : ext[i].inst = ext[j].inst => i = j
AllGiven(ext, kept) == \A i \in DOMAIN ext : ext[i].inst \in kept

LEMMA DirIsFound ==
  ASSUME NEW dir \in Seq(Item), NEW where \in {"project", "user", "explicit"}
  PROVE  DiscoverInDir(dir, where) \in Seq(Found)
<1> DEFINE n == Len(dir)
           rows == [i \in 1 .. n |-> EntriesOf(dir[i])]
           names == FlattenSeq(rows)
           m == Len(names)
           found == [i \in 1 .. m |-> [name |-> names[i], where |-> where]]
<1>1. n \in Nat /\ dir \in [1 .. n -> Item]
  OBVIOUS
<1>2. ASSUME NEW i \in 1 .. n PROVE EntriesOf(dir[i]) \in Seq(ModuleNames)
  <2>1. dir[i] \in Item
    BY <1>1
  <2>2. dir[i].name \in ModuleNames /\ dir[i].manifest \in Seq(ModuleNames)
    BY <2>1 DEF Item
  <2> QED
    BY <2>2 DEF EntriesOf, ManifestEntries
<1>3. rows \in [1 .. n -> Seq(ModuleNames)]
  BY <1>2
<1> HIDE DEF rows
<1>4. rows \in Seq(Seq(ModuleNames))
  BY <1>1, <1>3, SeqDef
<1>5. names \in Seq(ModuleNames)
  BY <1>4, FlattenPlaces
<1> HIDE DEF names
<1>6. m \in Nat /\ \A i \in 1 .. m : names[i] \in ModuleNames
  BY <1>5
<1>7. found \in [1 .. m -> Found]
  BY <1>6 DEF Found
<1>8. found \in Seq(Found)
  <2> HIDE DEF found, m
  <2> QED
    BY <1>6, <1>7, SeqDef
<1> QED
  BY <1>8 DEF DiscoverInDir, names, rows

\* Of what is selected, no two that were different become the same.
LEMMA SelectedDiffer ==
  ASSUME NEW s \in Seq(Found), NEW K \in SUBSET DOMAIN s,
         \A i, j \in K : s[i].name = s[j].name => i = j
  PROVE  /\ FlattenSeq(Selecting(s, K)) \in Seq(Found)
         /\ NamesDiffer(FlattenSeq(Selecting(s, K)))
<1> DEFINE F == FlattenSeq(Selecting(s, K))
<1>1. F \in Seq(Found)
  BY SelectedAre
<1>2. PICK at : Picks(at, s, K)
  BY SelectedAre
<1>3. DOMAIN F = 1 .. Len(F)
  BY <1>1
<1> SUFFICES ASSUME NEW i \in 1 .. Len(F), NEW j \in 1 .. Len(F), F[i].name = F[j].name PROVE i = j
  BY <1>1, <1>3 DEF NamesDiffer
<1>4. at[i] \in K /\ at[j] \in K /\ F[i] = s[at[i]] /\ F[j] = s[at[j]]
  BY <1>2 DEF Picks
<1>5. at[i] = at[j]
  <2> HIDE DEF F
  <2> QED
    BY <1>4
<1> QED
  BY <1>2, <1>5, PicksOnce

LEMMA LoadExtensionsDiffer ==
  ASSUME NEW layout \in Layouts
  PROVE  /\ LoadExtensions(layout) \in Seq(Found)
         /\ NamesDiffer(LoadExtensions(layout))
<1>1. /\ layout.project \in Seq(Item) /\ layout.user \in Seq(Item) /\ layout.explicit \in Seq(Item)
  <2>1. layout \in Layout
    BY RuntimeAssumption
  <2> QED
    BY <2>1 DEF Layout
<1> DEFINE dirs == IF layout.enabled THEN ExtensionDirs(layout) ELSE <<>>
           given == DiscoverInDir(layout.explicit, "explicit")
           all == dirs \o given
           K == Added(all)
           found == FlattenSeq(Selecting(all, K))
           L == {i \in DOMAIN found : found[i].name \notin layout.broken}
<1>2. /\ DiscoverInDir(layout.project, "project") \in Seq(Found)
      /\ DiscoverInDir(layout.user, "user") \in Seq(Found)
      /\ given \in Seq(Found)
  BY <1>1, DirIsFound
<1>3. dirs \in Seq(Found)
  <2>1. <<>> \in Seq(Found)
    OBVIOUS
  <2>2. ExtensionDirs(layout) \in Seq(Found)
    BY <1>2, <2>1, ConcatProperties DEF ExtensionDirs
  <2> QED
    BY <2>1, <2>2
<1> HIDE DEF dirs, given
<1>4. all \in Seq(Found)
  BY <1>2, <1>3, ConcatProperties
<1> HIDE DEF all
<1>5. K \in SUBSET DOMAIN all
  BY DEF Added
<1>6. ASSUME NEW i \in K, NEW j \in K, all[i].name = all[j].name PROVE i = j
  <2>1. i \in Nat /\ j \in Nat /\ i \in DOMAIN all /\ j \in DOMAIN all /\ i >= 1 /\ j >= 1
    BY <1>4, <1>5
  <2>2. ~ (i < j)
    BY <1>6, <2>1 DEF Added
  <2>3. ~ (j < i)
    BY <1>6, <2>1 DEF Added
  <2> QED
    BY <2>1, <2>2, <2>3
<1> HIDE DEF K
<1>7. found \in Seq(Found) /\ NamesDiffer(found)
  BY <1>4, <1>5, <1>6, SelectedDiffer
<1>8. Discover(layout) = found
  BY DEF Discover, Selecting, found, all, K, dirs, given
<1> HIDE DEF found
<1>9. /\ FlattenSeq(Selecting(found, L)) \in Seq(Found)
      /\ NamesDiffer(FlattenSeq(Selecting(found, L)))
  <2>1. \A i, j \in L : found[i].name = found[j].name => i = j
    BY <1>7 DEF NamesDiffer
  <2>2. L \in SUBSET DOMAIN found
    OBVIOUS
  <2> HIDE DEF L
  <2> QED
    BY <1>7, <2>1, <2>2, SelectedDiffer
<1>10. LoadExtensions(layout) = FlattenSeq(Selecting(found, L))
  BY <1>8 DEF LoadExtensions, Selecting
<1> QED
  BY <1>9, <1>10

\* A setup adds at most its own extension, and registers for it alone.
LEMMA SetupStep ==
  ASSUME NEW g \in Nat \ {0}, NEW st \in Loads(g), NEW e \in Found, NEW layout \in Layouts
  PROVE  LET after == SetupExtension(st, e, layout, g) IN
         /\ after \in Loads(g)
         /\ st.kept \subseteq after.kept
         /\ \/ after.ext = st.ext
            \/ /\ \E on \in SUBSET Lifecycle : after.ext = Append(st.ext, [inst |-> Instance(e, g), on |-> on])
               /\ Instance(e, g) \in after.kept
<1> DEFINE inst == Instance(e, g)
           reg == [t \in Tools |-> IF t \in layout.tools[e.name] THEN Register(st.reg, inst, t)[t]
                                   ELSE st.reg[t]]
           taken == RemoveRegistrations(reg, inst)
           on == layout.on[e.name]
           kept == st.kept \cup {inst}
           ext == Append(st.ext, [inst |-> inst, on |-> on])
           after == SetupExtension(st, e, layout, g)
<1>1. inst \in Instances(g) /\ e.name \in ModuleNames
  BY DEF Instance, Instances, Found
<1>2. on \in SUBSET Lifecycle
  BY <1>1, RuntimeAssumption DEF Layout
<1>3. /\ st.ext \in Seq([inst : Instances(g), on : SUBSET Lifecycle])
      /\ st.reg \in [Tools -> Instances(g) \cup {Nobody}] /\ st.kept \in SUBSET Instances(g)
  BY DEF Loads
<1> HIDE DEF inst
<1>4. reg \in [Tools -> Instances(g) \cup {Nobody}]
  <2>1. ASSUME NEW t \in Tools PROVE Register(st.reg, inst, t)[t] \in Instances(g) \cup {Nobody}
    BY <1>1, <1>3 DEF Register
  <2> QED
    BY <1>3, <2>1
<1> HIDE DEF reg
<1>5. taken \in [Tools -> Instances(g) \cup {Nobody}]
  BY <1>4 DEF RemoveRegistrations
<1>6. kept \in SUBSET Instances(g) /\ st.kept \subseteq kept /\ inst \in kept
  BY <1>1, <1>3
<1> HIDE DEF on
<1>7. ext \in Seq([inst : Instances(g), on : SUBSET Lifecycle])
  BY <1>1, <1>2, <1>3
<1> HIDE DEF taken, kept, ext
<1>8. CASE e.name \in layout.raising
  <2>1. after = [st EXCEPT !.reg = taken, !.kept = kept]
    BY <1>8 DEF SetupExtension, inst, reg, taken, kept
  <2>2. after \in Loads(g) /\ after.kept = kept /\ after.ext = st.ext
    BY <1>5, <1>6, <2>1 DEF Loads
  <2> QED
    BY <1>6, <2>2
<1>9. CASE e.name \notin layout.raising
  <2>1. after = [ext |-> ext, reg |-> reg, kept |-> kept]
    BY <1>9 DEF SetupExtension, inst, reg, ext, on, kept
  <2>2. after \in Loads(g) /\ after.kept = kept /\ after.ext = ext
    BY <1>4, <1>6, <1>7, <2>1 DEF Loads
  <2> QED
    BY <1>2, <1>6, <2>2 DEF ext, inst
<1> QED
  BY <1>8, <1>9

\* After i setups, those that are set up are among the first i that were found.
AmongFirst(ext, found, i, g) ==
  \A k \in DOMAIN ext : \E j \in 1 .. i : ext[k].inst = Instance(found[j], g)
LoadSound(st, found, i, g) ==
  EachOnce(st.ext) /\ AllGiven(st.ext, st.kept) /\ AmongFirst(st.ext, found, i, g)

LEMMA LoadSoundNext ==
  ASSUME NEW g \in Nat \ {0}, NEW st \in Loads(g), NEW layout \in Layouts,
         NEW found \in Seq(Found), NamesDiffer(found),
         NEW i \in 1 .. Len(found), LoadSound(st, found, i - 1, g)
  PROVE  LoadSound(SetupExtension(st, found[i], layout, g), found, i, g)
<1> DEFINE e == found[i]
           after == SetupExtension(st, e, layout, g)
           n == Len(st.ext)
<1>1. e \in Found /\ i \in Nat /\ st.ext \in Seq([inst : Instances(g), on : SUBSET Lifecycle])
  BY DEF Loads
<1>2. /\ after \in Loads(g) /\ st.kept \subseteq after.kept
      /\ \/ after.ext = st.ext
         \/ /\ \E on \in SUBSET Lifecycle : after.ext = Append(st.ext, [inst |-> Instance(e, g), on |-> on])
            /\ Instance(e, g) \in after.kept
  BY <1>1, SetupStep
<1> HIDE DEF after
<1>3. \A k \in DOMAIN st.ext : \E j \in 1 .. i - 1 : st.ext[k].inst = Instance(found[j], g)
  BY DEF LoadSound, AmongFirst
<1>4. CASE after.ext = st.ext
  BY <1>1, <1>2, <1>3, <1>4, SMTT(30) DEF LoadSound, EachOnce, AllGiven, AmongFirst, after
<1>5. ASSUME NEW on \in SUBSET Lifecycle, after.ext = Append(st.ext, [inst |-> Instance(e, g), on |-> on]),
             Instance(e, g) \in after.kept
      PROVE  LoadSound(after, found, i, g)
  <2>1. /\ n \in Nat /\ DOMAIN st.ext = 1 .. n /\ DOMAIN after.ext = 1 .. n + 1
        /\ \A k \in 1 .. n : after.ext[k] = st.ext[k]
        /\ after.ext[n + 1].inst = Instance(e, g)
    BY <1>1, <1>5
  <2>2. ASSUME NEW k \in 1 .. n PROVE st.ext[k].inst # Instance(e, g)
    <3>1. PICK j \in 1 .. i - 1 : st.ext[k].inst = Instance(found[j], g)
      BY <1>3, <2>1
    <3>2. j \in DOMAIN found /\ i \in DOMAIN found /\ i # j
      BY <1>1
    <3>3. found[j].name # e.name
      BY <3>2 DEF NamesDiffer
    <3> QED
      BY <3>1, <3>3 DEF Instance
  <2> HIDE DEF n, e
  <2>3. \A k \in 1 .. n + 1 : k \in 1 .. n \/ k = n + 1
    BY <2>1
  <2>4. EachOnce(after.ext)
    <3> SUFFICES ASSUME NEW k \in 1 .. n + 1, NEW l \in 1 .. n + 1, after.ext[k].inst = after.ext[l].inst
                 PROVE  k = l
      BY <2>1 DEF EachOnce
    <3>1. CASE k \in 1 .. n /\ l \in 1 .. n
      BY <2>1, <3>1 DEF LoadSound, EachOnce
    <3>2. CASE k = n + 1 \/ l = n + 1
      BY <2>1, <2>2, <2>3, <3>2
    <3> QED
      BY <2>3, <3>1, <3>2
  <2>5. AllGiven(after.ext, after.kept)
    BY <1>2, <1>5, <2>1, <2>3 DEF LoadSound, AllGiven
  <2>6. AmongFirst(after.ext, found, i, g)
    <3> SUFFICES ASSUME NEW k \in 1 .. n + 1
                 PROVE  \E j \in 1 .. i : after.ext[k].inst = Instance(found[j], g)
      BY <2>1 DEF AmongFirst
    <3>1. CASE k \in 1 .. n
      <4>1. PICK j \in 1 .. i - 1 : st.ext[k].inst = Instance(found[j], g)
        BY <1>3, <2>1, <3>1
      <4>2. j \in 1 .. i
        BY <1>1
      <4> QED
        BY <2>1, <3>1, <4>1, <4>2
    <3>2. CASE k = n + 1
      <4>1. i \in 1 .. i
        BY <1>1
      <4> QED
        BY <2>1, <3>2, <4>1 DEF e
    <3> QED
      BY <2>3, <3>1, <3>2
  <2> QED
    BY <2>4, <2>5, <2>6 DEF LoadSound
<1> QED
  BY <1>2, <1>4, <1>5 DEF after, e

\* What a load yields: each extension once, all of the new generation, and no registration for another.
LEMMA LoadedSound ==
  ASSUME NEW g \in Nat \ {0}, NEW layout \in Layouts
  PROVE  /\ Loaded(layout, g) \in Loads(g)
         /\ EachOnce(Loaded(layout, g).ext)
         /\ AllGiven(Loaded(layout, g).ext, Loaded(layout, g).kept)
<1> DEFINE found == LoadExtensions(layout)
           n == Len(found)
           none == [ext |-> <<>>, reg |-> [t \in Tools |-> Nobody], kept |-> {}]
           Is(f) == f = [i \in 0 .. n |-> IF i = 0 THEN none
                                          ELSE SetupExtension(f[i - 1], found[i], layout, g)]
           after == CHOOSE f : Is(f)
           next == [x \in (1 .. n) \X Loads(g) |-> SetupExtension(x[2], found[x[1]], layout, g)]
<1>1. found \in Seq(Found) /\ NamesDiffer(found) /\ n \in Nat
  BY LoadExtensionsDiffer
<1>2. Loaded(layout, g) = after[n]
  BY DEF Loaded
<1> HIDE DEF found
<1>3. \A i \in 1 .. n : found[i] \in Found
  BY <1>1
<1>4. none \in Loads(g)
  BY DEF Loads
<1> HIDE DEF n, none
<1>5. next \in [(1 .. n) \X Loads(g) -> Loads(g)]
  <2> SUFFICES ASSUME NEW x \in (1 .. n) \X Loads(g)
               PROVE  SetupExtension(x[2], found[x[1]], layout, g) \in Loads(g)
    OBVIOUS
  <2>1. x[1] \in 1 .. n /\ x[2] \in Loads(g)
    OBVIOUS
  <2> QED
    BY <1>3, <2>1, SetupStep
<1>6. ASSUME NEW i \in 1 .. n, NEW st \in Loads(g)
      PROVE  next[<<i, st>>] = SetupExtension(st, found[i], layout, g)
  OBVIOUS
<1> HIDE DEF next
<1>7. PICK f : IteratesTo(f, n, Loads(g), none, next)
  <2>1. n \in Nat
    BY <1>1 DEF n
  <2> QED
    BY <1>4, <1>5, <2>1, FiniteRecursion
<1>8. Is(f)
  <2> DEFINE a == [i \in 0 .. n |-> IF i = 0 THEN none ELSE next[<<i, f[i - 1]>>]]
             b == [i \in 0 .. n |-> IF i = 0 THEN none ELSE SetupExtension(f[i - 1], found[i], layout, g)]
  <2>1. ASSUME NEW i \in 0 .. n PROVE a[i] = b[i]
    <3>1. CASE i = 0
      BY <3>1
    <3>2. CASE i # 0
      <4>1. i \in 1 .. n /\ i - 1 \in 0 .. n
        BY <1>1, <3>2
      <4>2. f[i - 1] \in Loads(g)
        BY <1>7, <4>1 DEF IteratesTo
      <4>3. next[<<i, f[i - 1]>>] = SetupExtension(f[i - 1], found[i], layout, g)
        BY <1>6, <4>1, <4>2
      <4>4. a[i] = next[<<i, f[i - 1]>>] /\ b[i] = SetupExtension(f[i - 1], found[i], layout, g)
        BY <3>2
      <4> QED
        BY <4>3, <4>4
    <3> QED
      BY <3>1, <3>2
  <2>2. a = [i \in 0 .. n |-> a[i]] /\ b = [i \in 0 .. n |-> b[i]]
    OBVIOUS
  <2>3. f = a
    BY <1>7 DEF IteratesTo
  <2> HIDE DEF a, b
  <2>4. f = b
    BY <2>1, <2>2, <2>3
  <2> QED
    BY <2>4 DEF b
<1>9. Is(after)
  BY <1>8
<1> HIDE DEF after
<1> DEFINE T == {i \in Nat : i <= n => after[i] \in Loads(g) /\ LoadSound(after[i], found, i, g)}
<1>10. 0 \in T
  <2>1. 0 \in 0 .. n
    BY <1>1
  <2>2. after[0] = none
    BY <1>9, <2>1
  <2>3. LoadSound(none, found, 0, g)
    BY DEF LoadSound, EachOnce, AllGiven, AmongFirst, none
  <2> QED
    BY <1>4, <2>2, <2>3
<1>11. ASSUME NEW i \in Nat, i \in T PROVE i + 1 \in T
  <2> SUFFICES ASSUME i + 1 <= n
               PROVE  after[i + 1] \in Loads(g) /\ LoadSound(after[i + 1], found, i + 1, g)
    OBVIOUS
  <2> DEFINE j == i + 1
  <2>1. i \in 0 .. n /\ j \in 0 .. n /\ j # 0 /\ j \in 1 .. n /\ j - 1 = i
    BY <1>1
  <2>2. after[i] \in Loads(g) /\ LoadSound(after[i], found, i, g)
    BY <1>1, <1>11, <2>1
  <2> HIDE DEF j
  <2>3. after[j] = SetupExtension(after[i], found[j], layout, g)
    BY <1>9, <2>1
  <2>4. after[j] \in Loads(g)
    BY <1>3, <2>1, <2>2, <2>3, SetupStep
  <2>5. LoadSound(after[j], found, j, g)
    BY <1>1, <2>1, <2>2, <2>3, LoadSoundNext DEF n
  <2> QED
    BY <2>4, <2>5 DEF j
<1>12. \A i \in Nat : i \in T
  <2> HIDE DEF T
  <2> QED
    BY <1>10, <1>11, Induction
<1>13. after[n] \in Loads(g) /\ LoadSound(after[n], found, n, g)
  BY <1>1, <1>12
<1> QED
  BY <1>2, <1>13 DEF LoadSound, after

------------------------------------------------------------------------------
(* The runtime and the flows that drive it *)

Owners == [name : ModuleNames, gen : Nat] \cup {Nobody, Host}
Harnesses == [id : Nat, tools : [Tools -> Owners]]
Active ==
  [kind : {"startup", "quit", "reload", "new", "resume"},
   at : {"load", "shutdown", "swap", "start", "closed"}, next : Nat \ {0}, harness : Harnesses]

RuntimeType ==
  /\ generation \in Nat \ {0} /\ stale = 1 .. generation - 1
  /\ captured \in SUBSET [name : ModuleNames, gen : 1 .. generation]
  /\ extensions \in Seq([inst : Instances(generation), on : SUBSET Lifecycle])
  /\ EachOnce(extensions) /\ AllGiven(extensions, captured)
  /\ registry \in [Tools -> Instances(generation) \cup {Nobody}]
  /\ harness \in Harnesses /\ made \in Nat /\ listening = {harness.id}
  /\ flow \in [Flows -> {Idle} \cup Active]
  /\ told \in [captured -> {"nothing"} \cup Lifecycle]
  /\ pendingStart \in BOOLEAN /\ doubled \in BOOLEAN /\ overlapped \in BOOLEAN

\* Before the host is ready no flow is under way; one that ends the application starts nothing.
Stages ==
  \A f \in Flows : flow[f] # Idle =>
    /\ ~pendingStart
    /\ flow[f].at = "load" => flow[f].next = 1
    /\ flow[f].kind = "quit" => flow[f].at \in {"shutdown", "closed"}

Current(h) == \A t \in Tools : h.tools[t].gen \in {0, generation}
Replaces(r) == r.at \in {"shutdown", "swap"} /\ r.kind \in {"new", "resume"}

\* What the i-th extension was told last, when a flow is at r.
Told(r, i, was) ==
  /\ r.at = "idle" => was = IF pendingStart THEN "nothing" ELSE "session_start"
  /\ r.at = "load" => was = "session_start"
  /\ r.at = "shutdown" => was = IF i < r.next THEN "session_shutdown" ELSE "session_start"
  /\ r.at \in {"swap", "closed"} => was = "session_shutdown"
  /\ r.at = "start" => was \in (IF i < r.next THEN {"session_start"} ELSE {"nothing", "session_shutdown"})

\* f is the only flow that may be under way, and where it is says what was told.
Alone(f) ==
  /\ \A g \in Flows \ {f} : flow[g] = Idle
  /\ Replaces(flow[f]) => Current(flow[f].harness)
  /\ \A i \in DOMAIN extensions :
       Lifecycle \subseteq extensions[i].on => Told(flow[f], i, told[extensions[i].inst])
InTurn == ~overlapped => ~doubled /\ Current(harness) /\ \E f \in Flows : Alone(f)

RuntimeInv == RuntimeType /\ Stages /\ InTurn

LEMMA IdleOrActive ==
  ASSUME NEW r \in {Idle} \cup Active
  PROVE  /\ r = Idle <=> r.at = "idle"
         /\ r # Idle => r \in Active
<1>1. Idle.at = "idle"
  BY DEF Idle
<1>2. \A x \in Active : x.at # "idle"
  BY DEF Active
<1> QED
  BY <1>1, <1>2

\* When a flow is under way, and none overlapped, it is the one.
LEMMA TheOne ==
  ASSUME RuntimeInv, ~overlapped, NEW f \in Flows, flow[f] # Idle
  PROVE  Alone(f)
BY DEF RuntimeInv, InTurn, Alone

\* When none is, any of them may be the next.
LEMMA AnyOne ==
  ASSUME RuntimeInv, ~overlapped, NEW f \in Flows, \A g \in Flows : flow[g] = Idle
  PROVE  Alone(f)
<1>1. PICK g \in Flows : Alone(g)
  BY DEF RuntimeInv, InTurn
<1>2. flow[f] = Idle /\ flow[g] = Idle /\ flow[f] = flow[g]
  OBVIOUS
<1> QED
  BY <1>1, <1>2 DEF Alone

LEMMA ComposedTools ==
  ASSUME NEW g \in Nat \ {0}, NEW reg \in [Tools -> Instances(g) \cup {Nobody}]
  PROVE  /\ ComposeTools(reg) \in [Tools -> Owners]
         /\ \A t \in Tools : ComposeTools(reg)[t].gen \in {0, g}
<1>1. \A x \in Instances(g) \cup {Nobody, Host} : x \in Owners /\ x.gen \in {0, g}
  BY DEF Instances, Owners, Nobody, Host
<1>2. ASSUME NEW t \in Tools PROVE ComposeTools(reg)[t] \in Instances(g) \cup {Nobody, Host}
  BY DEF ComposeTools
<1>3. ComposeTools(reg) = [t \in Tools |-> ComposeTools(reg)[t]]
  BY DEF ComposeTools
<1> QED
  BY <1>1, <1>2, <1>3

LEMMA RuntimeInitInv == ExtInit => RuntimeInv
<1> SUFFICES ASSUME ExtInit PROVE RuntimeInv
  OBVIOUS
<1> DEFINE l(layout) == Loaded(layout, 1)
<1>1. PICK layout \in Layouts, repaired \in BOOLEAN :
        /\ generation = 1
        /\ extensions = l(layout).ext /\ registry = l(layout).reg /\ captured = l(layout).kept
        /\ harness = [id |-> IF repaired THEN 2 ELSE 1, tools |-> ComposeTools(l(layout).reg)]
        /\ made = IF repaired THEN 2 ELSE 1
        /\ listening = {IF repaired THEN 2 ELSE 1}
        /\ pendingStart = TRUE
        /\ flow = [f \in Flows |-> Idle]
        /\ told = [i \in l(layout).kept |-> "nothing"]
        /\ stale = {} /\ doubled = FALSE /\ overlapped = FALSE
  BY DEF ExtInit, Attached
<1> HIDE DEF l
<1>2. l(layout) \in Loads(1) /\ EachOnce(l(layout).ext) /\ AllGiven(l(layout).ext, l(layout).kept)
  BY LoadedSound DEF l
<1>3. /\ extensions \in Seq([inst : Instances(1), on : SUBSET Lifecycle])
      /\ registry \in [Tools -> Instances(1) \cup {Nobody}] /\ captured \in SUBSET Instances(1)
      /\ EachOnce(extensions) /\ AllGiven(extensions, captured)
  BY <1>1, <1>2 DEF Loads
<1>4. harness \in Harnesses /\ Current(harness)
  BY <1>1, <1>3, ComposedTools DEF Harnesses, Current
<1>5. captured \in SUBSET [name : ModuleNames, gen : 1 .. 1]
  BY <1>3 DEF Instances
<1>6. RuntimeType
  <2>1. told \in [captured -> {"nothing"} \cup Lifecycle]
    BY <1>1
  <2>2. stale = 1 .. generation - 1 /\ listening = {harness.id} /\ made \in Nat
    BY <1>1
  <2>3. flow \in [Flows -> {Idle} \cup Active]
    BY <1>1
  <2>4. pendingStart \in BOOLEAN /\ doubled \in BOOLEAN /\ overlapped \in BOOLEAN
    BY <1>1
  <2>5. /\ generation \in Nat \ {0}
        /\ captured \in SUBSET [name : ModuleNames, gen : 1 .. generation]
        /\ extensions \in Seq([inst : Instances(generation), on : SUBSET Lifecycle])
        /\ registry \in [Tools -> Instances(generation) \cup {Nobody}]
    BY <1>1, <1>3, <1>5
  <2> QED
    BY <1>3, <1>4, <2>1, <2>2, <2>3, <2>4, <2>5 DEF RuntimeType
<1>7. Stages
  BY <1>1 DEF Stages
<1>8. InTurn
  <2>1. ASSUME NEW i \in DOMAIN extensions PROVE told[extensions[i].inst] = "nothing"
    BY <1>1, <1>3 DEF AllGiven
  <2>2. "pump" \in Flows /\ Alone("pump")
    BY <1>1, <2>1 DEF Alone, Told, Flows, Idle, Replaces
  <2> QED
    BY <1>1, <1>4, <2>2 DEF InTurn
<1> QED
  BY <1>6, <1>7, <1>8 DEF RuntimeInv

\* A flow begins: none other was under way, or two overlap from now on.
LEMMA BeginInv ==
  ASSUME RuntimeInv, NEW f \in Flows, NEW kind \in {"startup", "quit", "reload", "new", "resume"},
         NEW at \in {"load", "shutdown", "start"}, Begin(f, kind, at),
         IF kind = "startup" THEN pendingStart /\ at = "start" /\ pendingStart' = FALSE
         ELSE ~pendingStart /\ pendingStart' = pendingStart /\ at # "start",
         kind = "quit" => at = "shutdown", at = "load" => kind \in {"new", "resume"},
         UNCHANGED <<generation, stale, extensions, registry, captured, harness, made, listening,
                     told, doubled>>
  PROVE  RuntimeInv'
<1> DEFINE r == [kind |-> kind, at |-> at, next |-> 1, harness |-> harness]
<1>1. /\ flow[f] = Idle /\ flow' = [flow EXCEPT ![f] = r]
      /\ overlapped' = (overlapped \/ \E g \in Flows \ {f} : flow[g] # Idle)
  BY DEF Begin
<1>2. RuntimeType /\ Stages
  BY DEF RuntimeInv
<1>3. r \in Active
  BY <1>2 DEF Active, RuntimeType
<1>4. /\ flow' \in [Flows -> {Idle} \cup Active] /\ flow'[f] = r
      /\ \A g \in Flows \ {f} : flow'[g] = flow[g]
  BY <1>1, <1>2, <1>3 DEF RuntimeType
<1>5. RuntimeType'
  <2>1. pendingStart' \in BOOLEAN /\ overlapped' \in BOOLEAN
    BY <1>1, <1>2 DEF RuntimeType
  <2> QED
    BY <1>2, <1>4, <2>1 DEF RuntimeType, EachOnce, AllGiven
<1>6. Stages'
  <2> SUFFICES ASSUME NEW g \in Flows, flow'[g] # Idle
               PROVE  /\ ~pendingStart' /\ (flow'[g].at = "load" => flow'[g].next = 1)
                      /\ flow'[g].kind = "quit" => flow'[g].at \in {"shutdown", "closed"}
    BY DEF Stages
  <2>1. ~pendingStart'
    OBVIOUS
  <2>2. CASE g = f
    BY <1>4, <2>1, <2>2
  <2>3. CASE g # f
    BY <1>2, <1>4, <2>1, <2>3 DEF Stages
  <2> QED
    BY <2>2, <2>3
<1>7. InTurn'
  <2> SUFFICES ASSUME ~overlapped' PROVE ~doubled' /\ Current(harness)' /\ Alone(f)'
    BY DEF InTurn
  <2>1. ~overlapped /\ \A g \in Flows : flow[g] = Idle
    BY <1>1, <1>2 DEF RuntimeType
  <2>2. ~doubled /\ Current(harness) /\ Alone(f)
    BY <2>1, AnyOne DEF RuntimeInv, InTurn
  <2>3. ~doubled' /\ Current(harness)'
    BY <2>2 DEF Current
  <2>4. \A g \in Flows \ {f} : flow'[g] = Idle
    BY <1>4, <2>1
  <2>5. Current(flow[f].harness)'
    BY <1>4, <2>2 DEF Current
  <2>6. ASSUME NEW i \in DOMAIN extensions, Lifecycle \subseteq extensions[i].on
        PROVE  Told(flow[f], i, told[extensions[i].inst])' 
    <3>1. i \in Nat /\ i >= 1
      BY <1>2 DEF RuntimeType
    <3>2. told[extensions[i].inst] = IF pendingStart THEN "nothing" ELSE "session_start"
      BY <1>1, <2>2, <2>6 DEF Alone, Told, Idle
    <3> QED
      BY <1>4, <3>1, <3>2 DEF Told
  <2> QED
    BY <2>3, <2>4, <2>5, <2>6 DEF Alone
<1> QED
  BY <1>5, <1>6, <1>7 DEF RuntimeInv

\* A flow goes on to at, or ends; nothing else happens but that a harness may have been made.
LEMMA GoesOnInv ==
  ASSUME RuntimeInv, NEW f \in Flows, flow[f] # Idle, NEW r \in {Idle} \cup Active,
         flow' = [flow EXCEPT ![f] = r],
         r # Idle => r.at # "load" /\ (r.kind = "quit" => r.at \in {"shutdown", "closed"}),
         Replaces(r) => Current(r.harness) \/ (Replaces(flow[f]) /\ r.harness = flow[f].harness),
         \A i \in DOMAIN extensions, was \in {"nothing"} \cup Lifecycle :
            Told(flow[f], i, was) => Told(r, i, was),
         made' \in Nat,
         UNCHANGED <<generation, stale, extensions, registry, captured, harness, listening,
                     pendingStart, told, doubled, overlapped>>
  PROVE  RuntimeInv'
<1>2. RuntimeType /\ Stages
  BY DEF RuntimeInv
<1>4. /\ flow' \in [Flows -> {Idle} \cup Active] /\ flow'[f] = r
      /\ \A g \in Flows \ {f} : flow'[g] = flow[g]
  BY <1>2 DEF RuntimeType
<1>5. RuntimeType'
  BY <1>2, <1>4 DEF RuntimeType, EachOnce, AllGiven
<1>6. Stages'
  <2> SUFFICES ASSUME NEW g \in Flows, flow'[g] # Idle
               PROVE  /\ ~pendingStart' /\ (flow'[g].at = "load" => flow'[g].next = 1)
                      /\ flow'[g].kind = "quit" => flow'[g].at \in {"shutdown", "closed"}
    BY DEF Stages
  <2>1. ~pendingStart'
    BY <1>2 DEF Stages
  <2>2. CASE g = f
    BY <1>4, <2>1, <2>2
  <2>3. CASE g # f
    BY <1>2, <1>4, <2>1, <2>3 DEF Stages
  <2> QED
    BY <2>2, <2>3
<1>7. InTurn'
  <2> SUFFICES ASSUME ~overlapped PROVE ~doubled' /\ Current(harness)' /\ Alone(f)'
    BY DEF InTurn
  <2>2. ~doubled /\ Current(harness) /\ Alone(f)
    BY TheOne DEF RuntimeInv, InTurn
  <2>3. ~doubled' /\ Current(harness)'
    BY <2>2 DEF Current
  <2>4. \A g \in Flows \ {f} : flow'[g] = Idle
    BY <1>4, <2>2 DEF Alone
  <2>5. Replaces(flow'[f]) => Current(flow[f].harness)'
    BY <1>4, <2>2 DEF Current, Alone
  <2>6. ASSUME NEW i \in DOMAIN extensions, Lifecycle \subseteq extensions[i].on
        PROVE  Told(flow[f], i, told[extensions[i].inst])' 
    <3>1. told[extensions[i].inst] \in {"nothing"} \cup Lifecycle
      BY <1>2 DEF RuntimeType, AllGiven
    <3>2. Told(flow[f], i, told[extensions[i].inst])
      BY <2>2, <2>6 DEF Alone
    <3>3. Told(r, i, told[extensions[i].inst])
      BY <2>6, <3>1, <3>2
    <3> QED
      BY <1>4, <3>3 DEF Told
  <2> QED
    BY <2>3, <2>4, <2>5, <2>6 DEF Alone
<1> QED
  BY <1>5, <1>6, <1>7 DEF RuntimeInv

LEMMA LoadReplacementInv ==
  ASSUME RuntimeInv, NEW f \in Flows, LoadReplacement(f)
  PROVE  RuntimeInv'
<1> DEFINE h == [id |-> made + 1, tools |-> ComposeTools(registry)]
           r == [flow[f] EXCEPT !.at = "shutdown", !.harness = h]
<1>1. RuntimeType /\ Stages /\ flow[f].at = "load"
  BY DEF RuntimeInv, LoadReplacement
<1>2. flow[f] # Idle /\ flow[f] \in Active /\ ~pendingStart /\ flow[f].next = 1 /\ flow[f].kind # "quit"
  <2>1. flow[f] # Idle /\ flow[f] \in Active
    BY <1>1, IdleOrActive DEF RuntimeType
  <2> QED
    BY <1>1, <2>1 DEF Stages
<1>3. UNCHANGED <<generation, stale, extensions, registry, captured, harness, listening,
                  pendingStart, told, doubled, overlapped>>
  BY DEF LoadReplacement
<1>4. CASE made' = made + 1 /\ flow' = [flow EXCEPT ![f].at = "shutdown", ![f].harness = h]
  <2>1. h \in Harnesses /\ Current(h)
    BY <1>1, ComposedTools DEF RuntimeType, Harnesses, Current
  <2> HIDE DEF h
  <2>2. /\ r \in Active /\ r.at = "shutdown" /\ r.harness = h /\ r.next = 1
        /\ r.kind = flow[f].kind
    BY <1>2, <2>1 DEF Active
  <2>3. flow' = [flow EXCEPT ![f] = r]
    BY <1>1, <1>4 DEF RuntimeType
  <2> HIDE DEF r
  <2>4. ASSUME NEW i \in DOMAIN extensions, NEW was \in {"nothing"} \cup Lifecycle, Told(flow[f], i, was)
        PROVE  Told(r, i, was)
    <3>1. ~ (i < 1)
      BY <1>1 DEF RuntimeType
    <3> QED
      BY <1>1, <2>2, <2>4, <3>1 DEF Told
  <2>5. made' \in Nat
    BY <1>1, <1>4 DEF RuntimeType
  <2> QED
    BY <1>2, <1>3, <2>1, <2>2, <2>3, <2>4, <2>5, GoesOnInv
<1>5. CASE made' = made /\ flow' = [flow EXCEPT ![f] = Idle]
  <2>1. ~ Replaces(Idle)
    BY DEF Replaces, Idle
  <2>2. ASSUME NEW i \in DOMAIN extensions, NEW was \in {"nothing"} \cup Lifecycle, Told(flow[f], i, was)
        PROVE  Told(Idle, i, was)
    BY <1>1, <1>2, <2>2 DEF Told, Idle
  <2>3. made' \in Nat
    BY <1>1, <1>5 DEF RuntimeType
  <2> QED
    BY <1>2, <1>3, <1>5, <2>1, <2>2, <2>3, GoesOnInv
<1> QED
  BY <1>4, <1>5 DEF LoadReplacement

WentTo(r, a, at) == r = [a EXCEPT !.at = at, !.next = 1]

LEMMA GotoIs ==
  ASSUME NEW a \in Active, NEW at \in {"closed", "swap", "start"},
         NEW r, WentTo(r, a, at)
  PROVE  /\ r \in Active /\ r.at = at /\ r.next = 1 /\ r.kind = a.kind /\ r.harness = a.harness
<1>1. at \in {"load", "shutdown", "swap", "start", "closed"} /\ 1 \in Nat \ {0}
  OBVIOUS
<1> QED
  BY <1>1 DEF Active, WentTo

LEMMA EmittedInv ==
  ASSUME RuntimeInv, NEW f \in Flows, Emitted(f)
  PROVE  RuntimeInv'
<1>1. RuntimeType /\ Stages /\ flow[f].at \in {"shutdown", "start"} /\ flow[f].next > Len(extensions)
  BY DEF RuntimeInv, Emitted
<1>2. flow[f] # Idle /\ flow[f] \in Active /\ ~pendingStart
  <2>1. flow[f] # Idle /\ flow[f] \in Active
    BY <1>1, IdleOrActive DEF RuntimeType
  <2> QED
    BY <1>1, <2>1 DEF Stages
<1>3. /\ UNCHANGED <<generation, stale, extensions, registry, captured, harness, listening,
                     pendingStart, told, doubled, overlapped>>
      /\ made' \in Nat
  BY <1>1 DEF Emitted, RuntimeType
<1>4. ASSUME NEW i \in DOMAIN extensions PROVE i < flow[f].next
  <2>1. i \in Nat /\ i <= Len(extensions) /\ Len(extensions) \in Nat /\ flow[f].next \in Nat
    BY <1>1, <1>2 DEF RuntimeType, Active
  <2> QED
    BY <1>1, <2>1
<1>5. ASSUME NEW at \in {"closed", "swap"}, Goto(f, at), flow[f].at = "shutdown",
             flow[f].kind = "quit" => at = "closed"
      PROVE  RuntimeInv'
  <2> DEFINE r == [flow[f] EXCEPT !.at = at, !.next = 1]
  <2>1. /\ r \in Active /\ r.at = at /\ r.harness = flow[f].harness /\ r.next = 1
        /\ r.kind = flow[f].kind
    <3>1. WentTo(r, flow[f], at) /\ at \in {"closed", "swap", "start"}
      BY DEF WentTo
    <3> HIDE DEF r
    <3> QED
      BY <1>2, <3>1, GotoIs
  <2>2. flow' = [flow EXCEPT ![f] = r]
    BY <1>1, <1>5 DEF RuntimeType, Goto
  <2> HIDE DEF r
  <2>3. ASSUME NEW i \in DOMAIN extensions, NEW was \in {"nothing"} \cup Lifecycle, Told(flow[f], i, was)
        PROVE  Told(r, i, was)
    BY <1>4, <1>5, <2>1, <2>3 DEF Told
  <2>4. Replaces(r) => Replaces(flow[f]) /\ r.harness = flow[f].harness
    BY <1>5, <2>1 DEF Replaces
  <2>5. r # Idle => r.at # "load" /\ (r.kind = "quit" => r.at \in {"shutdown", "closed"})
    BY <1>5, <2>1
  <2> QED
    BY <1>2, <1>3, <2>1, <2>2, <2>3, <2>4, <2>5, GoesOnInv
<1>6. ASSUME flow' = [flow EXCEPT ![f] = Idle], flow[f].at = "start" PROVE RuntimeInv'
  <2>1. ~ Replaces(Idle)
    BY DEF Replaces, Idle
  <2>2. ASSUME NEW i \in DOMAIN extensions, NEW was \in {"nothing"} \cup Lifecycle, Told(flow[f], i, was)
        PROVE  Told(Idle, i, was)
    BY <1>2, <1>4, <1>6, <2>2 DEF Told, Idle
  <2> QED
    BY <1>2, <1>3, <1>6, <2>1, <2>2, GoesOnInv
<1>7. CASE flow[f].kind = "quit"
  <2>1. flow[f].at = "shutdown"
    BY <1>1, <1>2, <1>7 DEF Stages
  <2>2. Goto(f, "closed")
    BY <1>7, <2>1 DEF Emitted
  <2> QED
    BY <1>5, <2>1, <2>2
<1>8. CASE flow[f].kind # "quit" /\ flow[f].at = "shutdown"
  <2>1. Goto(f, "swap")
    BY <1>8 DEF Emitted
  <2> QED
    BY <1>5, <1>8, <2>1
<1>9. CASE flow[f].kind # "quit" /\ flow[f].at = "start"
  <2>1. flow' = [flow EXCEPT ![f] = Idle]
    BY <1>9 DEF Emitted
  <2> QED
    BY <1>6, <1>9, <2>1
<1> QED
  BY <1>1, <1>7, <1>8, <1>9

LEMMA EmitInv ==
  ASSUME RuntimeInv, NEW f \in Flows, Emit(f)
  PROVE  RuntimeInv'
<1> DEFINE n == flow[f].next
           x == extensions[n]
           event == EventOf(flow[f].at)
           r == [flow[f] EXCEPT !.next = n + 1]
<1>1. RuntimeType /\ Stages /\ flow[f].at \in {"shutdown", "start"} /\ n <= Len(extensions)
  BY DEF RuntimeInv, Emit
<1>2. flow[f] # Idle /\ flow[f] \in Active /\ ~pendingStart
  <2>1. flow[f] # Idle /\ flow[f] \in Active
    BY <1>1, IdleOrActive DEF RuntimeType
  <2> QED
    BY <1>1, <2>1 DEF Stages
<1>3. UNCHANGED <<generation, stale, extensions, registry, captured, harness, made, listening,
                  pendingStart, overlapped>>
  BY DEF Emit
<1>4. IF event \in x.on
        THEN /\ told' = [told EXCEPT ![x.inst] = event]
             /\ doubled' = (doubled \/ (Lifecycle \subseteq x.on /\ OutOfTurn(x.inst, event)))
        ELSE UNCHANGED <<told, doubled>>
  BY DEF Emit
<1>5. n \in Nat /\ event \in Lifecycle
  BY <1>2 DEF Active, EventOf, Lifecycle
<1>6. /\ r \in Active /\ r.at = flow[f].at /\ r.next = n + 1 /\ r.kind = flow[f].kind
      /\ r.harness = flow[f].harness
  BY <1>2, <1>5 DEF Active
<1>7. flow' = [flow EXCEPT ![f] = r]
  BY <1>1 DEF Emit, RuntimeType
<1> HIDE DEF r
<1>8. /\ flow' \in [Flows -> {Idle} \cup Active] /\ flow'[f] = r
      /\ \A g \in Flows \ {f} : flow'[g] = flow[g]
  BY <1>1, <1>6, <1>7 DEF RuntimeType
<1>9. told' \in [captured -> {"nothing"} \cup Lifecycle] /\ doubled' \in BOOLEAN
  <2>1. told \in [captured -> {"nothing"} \cup Lifecycle] /\ doubled \in BOOLEAN
    BY <1>1 DEF RuntimeType
  <2> HIDE DEF x, event
  <2>2. CASE event \in x.on
    BY <1>4, <1>5, <2>1, <2>2
  <2>3. CASE event \notin x.on
    BY <1>4, <2>1, <2>3
  <2> QED
    BY <2>2, <2>3
<1>10. RuntimeType'
  BY <1>1, <1>3, <1>8, <1>9 DEF RuntimeType, EachOnce, AllGiven
<1>11. Stages'
  <2> SUFFICES ASSUME NEW g \in Flows, flow'[g] # Idle
               PROVE  /\ ~pendingStart' /\ (flow'[g].at = "load" => flow'[g].next = 1)
                      /\ flow'[g].kind = "quit" => flow'[g].at \in {"shutdown", "closed"}
    BY DEF Stages
  <2>2. CASE g = f
    BY <1>1, <1>2, <1>3, <1>6, <1>8, <2>2 DEF Stages
  <2>3. CASE g # f
    BY <1>1, <1>2, <1>3, <1>8, <2>3 DEF Stages
  <2> QED
    BY <2>2, <2>3
<1>12. InTurn'
  <2> SUFFICES ASSUME ~overlapped PROVE ~doubled' /\ Current(harness)' /\ Alone(f)'
    BY <1>3 DEF InTurn
  <2>1. ~doubled /\ Current(harness) /\ Alone(f)
    BY <1>2, TheOne DEF RuntimeInv, InTurn
  <2>2. Current(harness)' /\ \A g \in Flows \ {f} : flow'[g] = Idle
    BY <1>3, <1>8, <2>1 DEF Current, Alone
  <2>3. Replaces(flow'[f]) => Current(flow[f].harness)'
    BY <1>3, <1>6, <1>8, <2>1 DEF Alone, Current, Replaces
  <2>4. /\ n \in DOMAIN extensions
        /\ \A i \in DOMAIN extensions :
             /\ i \in Nat /\ extensions[i].inst \in captured
             /\ extensions[i].inst = x.inst => i = n
    <3>1. DOMAIN extensions = 1 .. Len(extensions) /\ Len(extensions) \in Nat
      BY <1>1 DEF RuntimeType
    <3>2. n \in DOMAIN extensions
      BY <1>1, <1>2, <3>1 DEF Active
    <3> QED
      BY <1>1, <3>1, <3>2 DEF RuntimeType, AllGiven, EachOnce
  <2>5. ASSUME Lifecycle \subseteq x.on
        PROVE  ~ OutOfTurn(x.inst, event) /\ event \in x.on
    <3>1. Told(flow[f], n, told[x.inst])
      BY <2>1, <2>4, <2>5 DEF Alone
    <3>2. ~ (n < n)
      BY <1>5
    <3> QED
      BY <1>1, <1>5, <2>5, <3>1, <3>2 DEF Told, OutOfTurn, EventOf
  <2>6. ~doubled'
    BY <1>4, <2>1, <2>5
  <2>7. ASSUME NEW i \in DOMAIN extensions, Lifecycle \subseteq extensions[i].on
        PROVE  Told(flow[f], i, told[extensions[i].inst])'
    <3> DEFINE inst == extensions[i].inst
    <3>1. Told(flow[f], i, told[inst])
      BY <2>1, <2>7 DEF Alone
    <3>2. i \in Nat /\ inst \in captured /\ x.inst \in captured
      BY <2>4
    <3>3. CASE i = n
      <4>1. event \in x.on
        BY <2>5, <2>7, <3>3
      <4>2. told'[inst] = event
        BY <1>1, <1>4, <3>2, <3>3, <4>1 DEF RuntimeType
      <4>3. i < n + 1
        BY <1>5, <3>3
      <4>4. Told(r, i, event)
        BY <1>1, <1>6, <4>3 DEF Told, EventOf
      <4> QED
        BY <1>3, <1>8, <4>2, <4>4 DEF Told
    <3>4. CASE i # n
      <4>1. told'[inst] = told[inst]
        <5>1. inst # x.inst
          BY <2>4, <3>4
        <5> HIDE DEF x, event, inst
        <5> QED
          BY <1>1, <1>4, <3>2, <5>1 DEF RuntimeType
      <4>2. i < n + 1 <=> i < n
        BY <1>5, <3>2, <3>4
      <4>3. Told(r, i, told[inst])
        BY <1>1, <1>6, <3>1, <4>2 DEF Told
      <4> QED
        BY <1>3, <1>8, <4>1, <4>3 DEF Told
    <3> QED
      BY <3>3, <3>4
  <2> QED
    BY <1>3, <2>2, <2>3, <2>6, <2>7 DEF Alone
<1> QED
  BY <1>10, <1>11, <1>12 DEF RuntimeInv

\* A swap: the flow that carries it out goes on to tell the start.
LEMMA SwapInv ==
  ASSUME RuntimeInv, NEW f \in Flows, flow[f].at = "swap", Goto(f, "start"),
         generation' \in Nat \ {0}, generation' >= generation,
         ~overlapped => Current(harness)',
         \A i \in DOMAIN extensions' :
           told'[extensions'[i].inst] = "nothing"
           \/ /\ i \in DOMAIN extensions /\ extensions'[i] = extensions[i]
              /\ told'[extensions[i].inst] = told[extensions[i].inst],
         UNCHANGED <<pendingStart, doubled, overlapped>>,
         flow' \in [Flows -> {Idle} \cup Active] => RuntimeType'
  PROVE  RuntimeInv'
<1> DEFINE r == [flow[f] EXCEPT !.at = "start", !.next = 1]
<1>1. RuntimeType /\ Stages
  BY DEF RuntimeInv
<1>2. flow[f] # Idle /\ flow[f] \in Active /\ ~pendingStart /\ flow[f].kind # "quit"
  <2>1. flow[f] # Idle /\ flow[f] \in Active
    BY <1>1, IdleOrActive DEF RuntimeType
  <2> QED
    BY <1>1, <2>1 DEF Stages
<1>3. flow' = [flow EXCEPT ![f] = r]
  BY <1>1 DEF RuntimeType, Goto
<1>4. /\ r \in Active /\ r.at = "start" /\ r.harness = flow[f].harness /\ r.next = 1
      /\ r.kind = flow[f].kind
  <2>1. WentTo(r, flow[f], "start")
    BY DEF WentTo
  <2> HIDE DEF r
  <2>2. "start" \in {"closed", "swap", "start"}
    OBVIOUS
  <2> QED
    BY <1>2, <2>1, <2>2, GotoIs
<1> HIDE DEF r
<1>5. /\ flow' \in [Flows -> {Idle} \cup Active] /\ flow'[f] = r
      /\ \A g \in Flows \ {f} : flow'[g] = flow[g]
  BY <1>1, <1>3, <1>4 DEF RuntimeType
<1>6. RuntimeType'
  BY <1>5
<1>7. Stages'
  <2> SUFFICES ASSUME NEW g \in Flows, flow'[g] # Idle
               PROVE  /\ ~pendingStart' /\ (flow'[g].at = "load" => flow'[g].next = 1)
                      /\ flow'[g].kind = "quit" => flow'[g].at \in {"shutdown", "closed"}
    BY DEF Stages
  <2>2. CASE g = f
    BY <1>2, <1>4, <1>5, <2>2
  <2>3. CASE g # f
    BY <1>1, <1>2, <1>5, <2>3 DEF Stages
  <2> QED
    BY <2>2, <2>3
<1>8. InTurn'
  <2> SUFFICES ASSUME ~overlapped PROVE ~doubled' /\ Current(harness)' /\ Alone(f)'
    BY DEF InTurn
  <2>1. ~doubled /\ Alone(f)
    BY <1>2, TheOne DEF RuntimeInv, InTurn
  <2>2. ~doubled' /\ Current(harness)' /\ \A g \in Flows \ {f} : flow'[g] = Idle
    BY <1>5, <2>1 DEF Alone
  <2>3. ~ Replaces(flow'[f])
    BY <1>4, <1>5 DEF Replaces
  <2>4. ASSUME NEW i \in DOMAIN extensions', Lifecycle \subseteq extensions'[i].on
        PROVE  Told(flow[f], i, told[extensions[i].inst])'
    <3>1. i \in Nat /\ ~ (i < 1)
      BY <1>6 DEF RuntimeType
    <3>2. told'[extensions'[i].inst] \in {"nothing", "session_shutdown"}
      BY <2>1, <2>4 DEF Alone, Told
    <3>3. Told(r, i, told'[extensions'[i].inst])
      BY <1>4, <3>1, <3>2 DEF Told
    <3> QED
      BY <1>5, <3>3 DEF Told
  <2> QED
    BY <2>2, <2>3, <2>4 DEF Alone
<1> QED
  BY <1>6, <1>7, <1>8 DEF RuntimeInv

LEMMA AdoptReplacementInv ==
  ASSUME RuntimeInv, NEW f \in Flows, AdoptReplacement(f)
  PROVE  RuntimeInv'
<1>1. /\ RuntimeType /\ flow[f].at = "swap" /\ flow[f].kind \in {"new", "resume"}
      /\ harness' = flow[f].harness /\ listening' = {flow[f].harness.id} /\ Goto(f, "start")
      /\ UNCHANGED <<generation, stale, extensions, registry, captured, made, pendingStart, told,
                     doubled, overlapped>>
  BY DEF RuntimeInv, AdoptReplacement, Attach
<1>2. flow[f] # Idle /\ flow[f] \in Active
  BY <1>1, IdleOrActive DEF RuntimeType
<1>3. ~overlapped => Current(harness)'
  <2> SUFFICES ASSUME ~overlapped PROVE Current(harness)'
    OBVIOUS
  <2>1. Alone(f)
    BY <1>2, TheOne
  <2>2. Current(flow[f].harness)
    BY <1>1, <2>1 DEF Alone, Replaces
  <2> QED
    BY <1>1, <2>2 DEF Current
<1>4. harness' \in Harnesses
  BY <1>1, <1>2 DEF Active
<1>5. flow' \in [Flows -> {Idle} \cup Active] => RuntimeType'
  BY <1>1, <1>4 DEF RuntimeType, EachOnce, AllGiven
<1>6. generation' \in Nat \ {0} /\ generation' >= generation
  BY <1>1 DEF RuntimeType
<1>7. \A i \in DOMAIN extensions' :
        /\ i \in DOMAIN extensions /\ extensions'[i] = extensions[i]
        /\ told'[extensions[i].inst] = told[extensions[i].inst]
  BY <1>1
<1> QED
  BY <1>1, <1>3, <1>5, <1>6, <1>7, SwapInv

LEMMA ReloadExtensionsInv ==
  ASSUME RuntimeInv, NEW f \in Flows, ReloadExtensions(f)
  PROVE  RuntimeInv'
<1> DEFINE g == generation + 1
           l(layout) == Loaded(layout, g)
<1>1. RuntimeType /\ flow[f].at = "swap" /\ Goto(f, "start")
  BY DEF RuntimeInv, ReloadExtensions
<1>2. PICK layout \in Layouts :
        /\ generation' = g /\ stale' = stale \cup {generation}
        /\ extensions' = l(layout).ext /\ registry' = l(layout).reg
        /\ captured' = captured \cup l(layout).kept
        /\ told' = [i \in captured \cup l(layout).kept |->
                      IF i \in captured THEN told[i] ELSE "nothing"]
        /\ harness' = [harness EXCEPT !.tools = ComposeTools(l(layout).reg)]
  BY DEF ReloadExtensions, ResetForReload
<1>3. /\ listening' = {harness.id}
      /\ UNCHANGED <<made, pendingStart, doubled, overlapped>>
  BY DEF ReloadExtensions, Attach
<1>4. g \in Nat \ {0} /\ generation \in Nat \ {0} /\ g > generation
  BY <1>1 DEF RuntimeType
<1>5. l(layout) \in Loads(g) /\ EachOnce(l(layout).ext) /\ AllGiven(l(layout).ext, l(layout).kept)
  BY <1>4, LoadedSound
<1> HIDE DEF l, g
<1> DEFINE kept == l(layout).kept
<1>6. /\ extensions' \in Seq([inst : Instances(g), on : SUBSET Lifecycle])
      /\ registry' \in [Tools -> Instances(g) \cup {Nobody}] /\ kept \in SUBSET Instances(g)
      /\ EachOnce(extensions') /\ AllGiven(extensions', kept)
  BY <1>2, <1>5 DEF Loads
<1>7. harness' \in Harnesses /\ harness'.id = harness.id /\ Current(harness)'
  <2> DEFINE tools == ComposeTools(registry')
  <2>1. tools \in [Tools -> Owners] /\ \A t \in Tools : tools[t].gen \in {0, g}
    BY <1>4, <1>6, ComposedTools
  <2>2. harness' = [harness EXCEPT !.tools = tools] /\ harness \in Harnesses
    BY <1>1, <1>2 DEF RuntimeType
  <2> HIDE DEF tools
  <2>3. harness' \in Harnesses /\ harness'.id = harness.id /\ harness'.tools = tools
    BY <2>1, <2>2 DEF Harnesses
  <2> QED
    BY <1>2, <2>1, <2>3 DEF Current
<1>8. captured' \in SUBSET [name : ModuleNames, gen : 1 .. g] /\ stale' = 1 .. g - 1
  <2>1. \A x \in captured : x \in [name : ModuleNames, gen : 1 .. g]
    BY <1>1, <1>4 DEF RuntimeType
  <2>2. \A x \in kept : x \in [name : ModuleNames, gen : 1 .. g]
    BY <1>4, <1>6 DEF Instances
  <2>3. stale' = 1 .. g - 1
    BY <1>1, <1>2 DEF RuntimeType, g
  <2> QED
    BY <1>2, <2>1, <2>2, <2>3
<1>9. told' \in [captured' -> {"nothing"} \cup Lifecycle]
  BY <1>1, <1>2 DEF RuntimeType
<1>10. \A i \in DOMAIN extensions' : told'[extensions'[i].inst] = "nothing"
  <2> SUFFICES ASSUME NEW i \in DOMAIN extensions' PROVE told'[extensions'[i].inst] = "nothing"
    OBVIOUS
  <2>1. extensions'[i].inst \in kept
    BY <1>6 DEF AllGiven
  <2>2. extensions'[i].inst.gen = g
    BY <1>6, <2>1 DEF Instances
  <2>3. extensions'[i].inst \notin captured
    BY <1>1, <1>4, <2>2 DEF RuntimeType
  <2> QED
    BY <1>2, <2>1, <2>3
<1>11. flow' \in [Flows -> {Idle} \cup Active] => RuntimeType'
  <2>1. AllGiven(extensions', captured')
    BY <1>2, <1>6 DEF AllGiven
  <2> QED
    BY <1>1, <1>2, <1>3, <1>4, <1>6, <1>7, <1>8, <1>9, <2>1 DEF RuntimeType
<1>12. generation' \in Nat \ {0} /\ generation' >= generation
  BY <1>2, <1>4
<1> QED
  BY <1>1, <1>3, <1>7, <1>10, <1>11, <1>12, SwapInv

LEMMA UseApiInv ==
  ASSUME RuntimeInv, NEW inst \in captured, NEW tool \in Tools, UseApi(inst, tool)
  PROVE  RuntimeInv'
<1>1. RuntimeType /\ Stages /\ InTurn /\ inst.gen \notin stale /\ registry' = Register(registry, inst, tool)
  BY DEF RuntimeInv, UseApi, AssertActive
<1>2. inst \in Instances(generation)
  BY <1>1 DEF RuntimeType, Instances
<1>3. registry' \in [Tools -> Instances(generation) \cup {Nobody}]
  BY <1>1, <1>2 DEF Register, RuntimeType
<1>4. UNCHANGED <<generation, stale, extensions, captured, harness, made, listening, pendingStart,
                  flow, told, doubled, overlapped>>
  BY DEF UseApi
<1>5. RuntimeType'
  BY <1>1, <1>3, <1>4 DEF RuntimeType, EachOnce, AllGiven
<1>6. Stages' /\ InTurn'
  BY <1>1, <1>4 DEF Stages, InTurn, Alone, Current, Told, Replaces
<1> QED
  BY <1>5, <1>6 DEF RuntimeInv

LEMMA RuntimeStepInv == RuntimeInv /\ [ExtNext]_extVars => RuntimeInv'
<1> SUFFICES ASSUME RuntimeInv, [ExtNext]_extVars PROVE RuntimeInv'
  OBVIOUS
<1>1. CASE EmitPendingSessionStart
  <2>1. "pump" \in Flows
    BY DEF Flows
  <2> QED
    BY <1>1, <2>1, BeginInv DEF EmitPendingSessionStart
<1>2. CASE BeginReload
  <2>1. "pump" \in Flows
    BY DEF Flows
  <2> QED
    BY <1>2, <2>1, BeginInv DEF BeginReload
<1>3. CASE BeginQuit
  <2>1. "pump" \in Flows
    BY DEF Flows
  <2> QED
    BY <1>3, <2>1, BeginInv DEF BeginQuit
<1>4. ASSUME NEW f \in Flows, NEW kind \in {"new", "resume"}, BeginReplace(f, kind)
      PROVE  RuntimeInv'
  <2>1. kind \in {"startup", "quit", "reload", "new", "resume"} /\ kind # "startup" /\ kind # "quit"
    OBVIOUS
  <2> QED
    BY <1>4, <2>1, BeginInv DEF BeginReplace
<1>5. ASSUME NEW f \in Flows,
             LoadReplacement(f) \/ Emit(f) \/ Emitted(f) \/ AdoptReplacement(f) \/ ReloadExtensions(f)
      PROVE  RuntimeInv'
  BY <1>5, LoadReplacementInv, EmitInv, EmittedInv, AdoptReplacementInv, ReloadExtensionsInv
<1>6. ASSUME NEW inst \in captured, NEW tool \in Tools, UseApi(inst, tool) PROVE RuntimeInv'
  BY <1>6, UseApiInv
<1>7. CASE UNCHANGED extVars
  BY <1>7 DEF extVars, RuntimeInv, RuntimeType, Stages, InTurn, Alone, Current, Told, Replaces,
              EachOnce, AllGiven
<1> QED
  BY <1>1, <1>2, <1>3, <1>4, <1>5, <1>6, <1>7 DEF ExtNext

\* Only what is current acts and listens: whatever an old task still holds, every registration is of
\* the current generation and every event is heard once, from the session's own harness; and as long
\* as no two flows overlap, no tool of an earlier generation is offered, and every extension is told
\* starts and ends in turn.  For any extensions on disk at each load, and any numbers of loads,
\* harnesses and flows.
THEOREM OnlyCurrentActs == ExtensionsSpec => []OnlyCurrent
<1>1. ExtensionsInit => RuntimeInv
  BY RuntimeInitInv DEF ExtensionsInit
<1>2. RuntimeInv /\ [ExtensionsNext]_extensionsVars => RuntimeInv'
  <2>1. ASSUME RuntimeInv, UNCHANGED extVars PROVE RuntimeInv'
    BY <2>1, RuntimeStepInv
  <2> QED
    BY <2>1, RuntimeStepInv DEF ExtensionsNext, extensionsVars
<1>3. RuntimeInv => OnlyCurrent
  <2> SUFFICES ASSUME RuntimeInv PROVE OnlyCurrent
    OBVIOUS
  <2>1. RuntimeType /\ InTurn
    BY DEF RuntimeInv
  <2>2. \A t \in Tools : registry[t].gen \in {0, generation}
    BY <2>1 DEF RuntimeType, Instances, Nobody
  <2>3. ~overlapped => ~doubled /\ \A t \in Tools : harness.tools[t].gen \in {0, generation}
    BY <2>1 DEF InTurn, Current
  <2>4. HeardOnce
    BY <2>1 DEF RuntimeType, HeardOnce
  <2> QED
    BY <2>1, <2>2, <2>3, <2>4 DEF OnlyCurrent, RegistrationsCurrent, Bracketed
<1> QED
  BY <1>1, <1>2, <1>3, PTL DEF ExtensionsSpec
=============================================================================
