---------------------------- MODULE CommandProofs ----------------------------
(***************************************************************************)
(* What commands the panel besides its users: the dispatcher, for any      *)
(* number of commands, any readings of the clock and any window; and the   *)
(* mode schedules, for any number of them and any length of the day.       *)
(*                                                                         *)
(* Of the dispatcher, first what splice leaves of a sequence, then the two *)
(* invariants.  Of the schedules, one invariant: who ran in this minute    *)
(* has it in lastRunAt, and who has to run and did not is still to run in  *)
(* this turn of the timer, or the turn is still to come.                   *)
(***************************************************************************)
EXTENDS Dispatcher, ModeSchedules, FiniteSetTheorems, SequenceTheorems, FunctionTheorems,
        WellFoundedInduction, TLAPS

Increasing(s) == \A i, j \in DOMAIN s : i < j => s[i] < s[j]

-----------------------------------------------------------------------------
(* The k-th of a finite set of numbers: rank counts 1, 2, ... up to the     *)
(* size of the set, so that each rank is someone's.                         *)

LEMMA RankIsMonotone ==
    ASSUME NEW K \in SUBSET Nat, IsFiniteSet(K), NEW i \in K, NEW j \in K
    PROVE  /\ Rank(K, i) \in 1 .. Cardinality(K)
           /\ i < j => Rank(K, i) < Rank(K, j)
<1> DEFINE Upto(n) == {k \in K : k <= n}
<1>1. \A n \in K : /\ IsFiniteSet(Upto(n))
                   /\ Cardinality(Upto(n)) \in Nat
                   /\ Cardinality(Upto(n)) <= Cardinality(K)
  BY FS_Subset, FS_CardinalityType
<1>2. Cardinality(Upto(i)) # 0
  <2>1. i \in Upto(i)
    OBVIOUS
  <2> QED BY <1>1, <2>1, FS_EmptySet
<1>3. i < j => Cardinality(Upto(i)) < Cardinality(Upto(j))
  <2> SUFFICES ASSUME i < j
               PROVE  Cardinality(Upto(i)) < Cardinality(Upto(j))
    OBVIOUS
  <2>0. i < j
    OBVIOUS
  <2>1. Upto(i) \in SUBSET Upto(j) /\ j \in Upto(j) /\ j \notin Upto(i)
    <3>1. i \in Nat /\ j \in Nat /\ K \subseteq Nat
      OBVIOUS
    <3>2. \A k \in K : k <= i => k <= j
      BY <2>0, <3>1
    <3>3. ~(j <= i)
      BY <2>0, <3>1
    <3>4. j <= j /\ \A k \in Upto(i) : k \in Upto(j)
      BY <3>1, <3>2
    <3> QED BY <3>3, <3>4
  <2>2. Cardinality(Upto(i)) <= Cardinality(Upto(j)) /\ Cardinality(Upto(i)) # Cardinality(Upto(j))
    <3> HIDE DEF Upto
    <3> QED BY <1>1, <2>1, FS_Subset
  <2> QED BY <1>1, <2>2
<1>4. Cardinality(K) \in Nat
  BY FS_CardinalityType
<1> QED BY <1>1, <1>2, <1>3, <1>4 DEF Rank

LEMMA EveryRankIsTaken ==
    ASSUME NEW K \in SUBSET Nat, IsFiniteSet(K), NEW k \in 1 .. Cardinality(K)
    PROVE  \E i \in K : Rank(K, i) = k
<1> DEFINE r == [i \in K |-> Rank(K, i)]
           T == 1 .. Cardinality(K)
<1>1. Cardinality(K) \in Nat
  BY FS_CardinalityType
<1>2. r \in [K -> T]
  BY RankIsMonotone
<1>3. \A i, j \in K : r[i] = r[j] => i = j
  <2> TAKE i, j \in K
  <2>1. Rank(K, i) \in Nat /\ Rank(K, j) \in Nat
    BY RankIsMonotone, <1>1
  <2>2. i < j \/ j < i \/ i = j
    OBVIOUS
  <2> QED BY <2>1, <2>2, RankIsMonotone
<1>4. IsFiniteSet(T) /\ Cardinality(T) = Cardinality(K)
  BY <1>1, FS_Interval
<1>5. r \in Injection(K, T)
  <2> HIDE DEF r, T
  <2> QED BY <1>2, <1>3, Fun_IsInj
<1>6. r \in Surjection(K, T)
  <2> HIDE DEF r, T
  <2> QED BY <1>4, <1>5, FS_Injection
<1>7. \E i \in K : r[i] = k
  <2>1. k \in T
    OBVIOUS
  <2> HIDE DEF r, T
  <2> QED BY <1>6, <2>1 DEF Surjection
<1> QED BY <1>7

LEMMA WithoutIsKept ==
    ASSUME NEW S, NEW s \in Seq(S), NEW out
    PROVE  LET w == Without(s, out)
           IN  /\ w \in Seq(S)
               /\ Range(w) = Range(s) \ out
               /\ \A k, l \in DOMAIN w : k < l =>
                     \E i, j \in DOMAIN s : i < j /\ w[k] = s[i] /\ w[l] = s[j]
<1> DEFINE w == Without(s, out)
           K == Kept(s, out)
           n == Cardinality(K)
           at(k) == CHOOSE i \in K : Rank(K, i) = k
<1>1. K \in SUBSET Nat /\ K \subseteq DOMAIN s /\ IsFiniteSet(K) /\ n \in Nat
  <2>1. DOMAIN s = 1 .. Len(s) /\ Len(s) \in Nat
    BY LenProperties
  <2>2. IsFiniteSet(DOMAIN s)
    BY <2>1, FS_Interval
  <2>3. K \in SUBSET (DOMAIN s)
    BY DEF Kept
  <2> QED BY <2>1, <2>2, <2>3, FS_Subset, FS_CardinalityType
<1>2. w = [k \in 1 .. n |-> s[at(k)]]
  BY DEF Without
<1>3. \A k \in 1 .. n : at(k) \in K /\ Rank(K, at(k)) = k
  <2> HIDE DEF K
  <2> QED BY <1>1, EveryRankIsTaken
<1>4. \A i \in K : Rank(K, i) \in 1 .. n /\ at(Rank(K, i)) = i
  <2> TAKE i \in K
  <2>1. Rank(K, i) \in 1 .. n
    BY <1>1, RankIsMonotone
  <2>2. at(Rank(K, i)) \in K /\ Rank(K, at(Rank(K, i))) = Rank(K, i)
    BY <1>3, <2>1
  <2>3. \A j \in K : Rank(K, j) = Rank(K, i) => j = i
    BY <1>1, <2>1, RankIsMonotone
  <2> QED BY <2>1, <2>2, <2>3
<1>5. \A i \in K : s[i] \in S /\ s[i] \notin out
  BY <1>1, LenProperties, ElementOfSeq DEF Kept
<1>6. w \in Seq(S)
  <2> HIDE DEF K, n, at, w
  <2>1. w \in [1 .. n -> S]
    BY <1>2, <1>3, <1>5
  <2> QED BY <1>1, <2>1
<1>7. Range(w) = Range(s) \ out
  <2>1. \A x \in Range(w) : x \in Range(s) \ out
    BY <1>1, <1>2, <1>3, <1>5 DEF Range
  <2>2. \A x \in Range(s) \ out : x \in Range(w)
    <3> TAKE x \in Range(s) \ out
    <3>1. PICK i \in DOMAIN s : x = s[i]
      BY DEF Range
    <3>2. i \in K
      BY <3>1 DEF Kept
    <3>3. Rank(K, i) \in 1 .. n /\ w[Rank(K, i)] = s[i]
      <4>1. \A k \in 1 .. n : w[k] = s[at(k)]
        BY <1>2
      <4> HIDE DEF w, at, n, K
      <4> QED BY <1>4, <3>2, <4>1
    <3>4. Rank(K, i) \in DOMAIN w
      BY <1>2, <3>3
    <3> HIDE DEF w
    <3> QED BY <3>1, <3>3, <3>4 DEF Range
  <2> QED BY <2>1, <2>2
<1>8. ASSUME NEW k \in DOMAIN w, NEW l \in DOMAIN w, k < l
      PROVE  \E i, j \in DOMAIN s : i < j /\ w[k] = s[i] /\ w[l] = s[j]
  <2>1. k \in 1 .. n /\ l \in 1 .. n
    BY <1>2
  <2>2. at(k) \in K /\ at(l) \in K /\ Rank(K, at(k)) < Rank(K, at(l))
    BY <1>3, <1>8, <2>1
  <2>3. at(k) < at(l)
    <3> HIDE DEF K, at
    <3>1. at(k) \in Nat /\ at(l) \in Nat
      BY <1>1, <2>2
    <3>2. at(l) # at(k)
      BY <1>8, <2>1, <1>3, <1>1
    <3>3. at(l) < at(k) => Rank(K, at(l)) < Rank(K, at(k))
      BY <1>1, <2>2, RankIsMonotone
    <3>4. Rank(K, at(k)) = k /\ Rank(K, at(l)) = l /\ k \in Nat /\ l \in Nat
      BY <1>1, <1>3, <2>1
    <3>5. ~(at(l) < at(k))
      BY <1>8, <3>3, <3>4
    <3> QED BY <3>1, <3>2, <3>5
  <2>4. w[k] = s[at(k)] /\ w[l] = s[at(l)]
    BY <1>2, <2>1
  <2> QED BY <1>1, <2>2, <2>3, <2>4
<1> QED BY <1>6, <1>7, <1>8

LEMMA AppendIs ==
    ASSUME NEW S, NEW s \in Seq(S), NEW e
    PROVE  /\ Len(Append(s, e)) = Len(s) + 1
           /\ DOMAIN Append(s, e) = 1 .. Len(s) + 1
           /\ DOMAIN s = 1 .. Len(s)
           /\ Append(s, e)[Len(s) + 1] = e
           /\ \A i \in 1 .. Len(s) : Append(s, e)[i] = s[i]
           /\ Range(Append(s, e)) = Range(s) \cup {e}
<1>1. /\ Len(Append(s, e)) = Len(s) + 1
      /\ DOMAIN Append(s, e) = 1 .. Len(s) + 1
      /\ DOMAIN s = 1 .. Len(s)
      /\ Append(s, e)[Len(s) + 1] = e
      /\ \A i \in 1 .. Len(s) : Append(s, e)[i] = s[i]
  OBVIOUS
<1>2. Range(Append(s, e)) = Range(s) \cup {e}
  BY <1>1 DEF Range
<1> QED BY <1>1, <1>2

LEMMA RangeBounds ==
    ASSUME NEW S, NEW s \in Seq(S), NEW T, Range(s) \subseteq T
    PROVE  s \in Seq(T)
<1>1. s \in [1 .. Len(s) -> S] /\ Len(s) \in Nat
  BY LenProperties
<1>2. s \in [1 .. Len(s) -> T]
  BY <1>1 DEF Range
<1> QED BY <1>1, <1>2

-----------------------------------------------------------------------------
(* The loop runs exactly while the queue holds something. *)
LoopInv ==
    /\ processing <=> queue # <<>>
    /\ queue = <<>> => awaiting = Nobody

IInv == TypeOK /\ LoopInv /\ QueueIsUnanswered /\ NativePrecedes

LEMMA InitHolds == Init => IInv
<1> SUFFICES ASSUME Init PROVE IInv
  OBVIOUS
<1>1. TypeOK
  <2>1. Len(<<>>) = 0 /\ \A S : <<>> \in Seq(S)
    BY EmptySeq
  <2>2. 0 <= MaxCommands /\ 0 \in 0 .. 0 /\ FALSE \in BOOLEAN
    BY DispatcherAssumption
  <2> QED BY <2>1, <2>2 DEF Init, TypeOK, Nobody
<1>2. Range(queue) = {} /\ DOMAIN sent = {} /\ DOMAIN queue = {}
  BY DEF Init, Range
<1>3. LoopInv
  BY DEF Init, LoopInv
<1>4. QueueIsUnanswered /\ NativePrecedes
  BY <1>2 DEF Init, QueueIsUnanswered, NativePrecedes
<1> QED BY <1>1, <1>3, <1>4 DEF IInv

(* What the invariant says of the queue, for a proof to cite. *)
LEMMA QueueIs ==
    ASSUME IInv
    PROVE  /\ queue \in Seq(Nat) /\ sent \in Seq([source : Sources, requestedAt : Times])
           /\ Range(queue) = {c \in 1 .. Len(sent) : answer[c] = "none"}
           /\ Increasing(queue)
           /\ awaiting = IF queue = <<>> THEN Nobody ELSE queue[1]
<1>1. 1 .. Len(sent) \subseteq Nat
  BY DEF IInv, TypeOK
<1>2. queue \in Seq(Nat)
  BY <1>1, SeqMonotonic DEF IInv, TypeOK
<1>3. DOMAIN sent = 1 .. Len(sent)
  BY LenProperties DEF IInv, TypeOK
<1> QED BY <1>2, <1>3 DEF IInv, TypeOK, LoopInv, QueueIsUnanswered, Increasing

-----------------------------------------------------------------------------
(* HandlerEnds: the head, the least of the queue, is the one answered. *)

LEMMA TailIs ==
    ASSUME NEW s \in Seq(Nat), s # <<>>, Increasing(s)
    PROVE  /\ Tail(s) \in Seq(Nat)
           /\ Increasing(Tail(s))
           /\ Range(Tail(s)) = Range(s) \ {s[1]}
           /\ \A c \in Range(Tail(s)) : s[1] < c
<1>1. /\ Tail(s) \in Seq(Nat) /\ Len(Tail(s)) = Len(s) - 1
      /\ \A i \in 1 .. Len(Tail(s)) : Tail(s)[i] = s[i + 1]
      /\ DOMAIN Tail(s) = 1 .. Len(Tail(s))
      /\ DOMAIN s = 1 .. Len(s) /\ Len(s) \in Nat \ {0}
  BY HeadTailProperties, LenProperties, EmptySeq
<1>2. Increasing(Tail(s))
  BY <1>1 DEF Increasing
<1>3. \A i \in DOMAIN s : s[i] \in Nat /\ (i # 1 => s[1] < s[i] /\ i - 1 \in DOMAIN Tail(s) /\ Tail(s)[i - 1] = s[i])
  BY <1>1, ElementOfSeq DEF Increasing
<1>4. \A i \in DOMAIN Tail(s) : i + 1 \in DOMAIN s /\ i + 1 # 1 /\ Tail(s)[i] = s[i + 1]
  BY <1>1
<1>5. \A c \in Range(Tail(s)) : c \in Range(s) /\ s[1] < c /\ c # s[1]
  <2> TAKE c \in Range(Tail(s))
  <2>1. PICK i \in DOMAIN Tail(s) : c = Tail(s)[i]
    BY DEF Range
  <2>2. c = s[i + 1] /\ i + 1 \in DOMAIN s /\ s[1] < s[i + 1] /\ s[1] \in Nat /\ s[i + 1] \in Nat
    BY <1>1, <1>3, <1>4, <2>1
  <2> QED BY <2>2 DEF Range
<1>6. \A c \in Range(s) \ {s[1]} : c \in Range(Tail(s))
  <2> TAKE c \in Range(s) \ {s[1]}
  <2>1. PICK i \in DOMAIN s : c = s[i]
    BY DEF Range
  <2>2. i # 1
    BY <2>1
  <2>3. i - 1 \in DOMAIN Tail(s) /\ c = Tail(s)[i - 1]
    BY <1>3, <2>1, <2>2
  <2> QED BY <2>3 DEF Range
<1> QED BY <1>1, <1>2, <1>5, <1>6

LEMMA HandlerEndsStep ==
    ASSUME IInv, NEW outcome \in {"done", "failed"}, HandlerEnds(outcome)
    PROVE  IInv'
<1>1. queue # <<>> /\ awaiting = queue[1] /\ awaiting \in Range(queue)
  <2>1. queue # <<>> /\ awaiting = queue[1]
    BY QueueIs DEF HandlerEnds, Nobody
  <2>2. 1 \in DOMAIN queue
    BY <2>1, QueueIs, LenProperties, EmptySeq
  <2> QED BY <2>1, <2>2 DEF Range
<1>2. awaiting \in 1 .. Len(sent) /\ answer[awaiting] = "none"
  BY <1>1, QueueIs
<1>3. answer' = [answer EXCEPT ![awaiting] = outcome]
  BY <1>2 DEF HandlerEnds, Settle
<1>4. /\ queue' \in Seq(Nat)
      /\ Increasing(queue')
      /\ Range(queue') = Range(queue) \ {awaiting}
  BY <1>1, QueueIs, TailIs DEF HandlerEnds
<1>5. /\ processing' = (queue' # <<>>)
      /\ awaiting' = IF queue' = <<>> THEN Nobody ELSE queue'[1]
      /\ sent' = sent
  <2>1. /\ processing' = (queue' # <<>>)
        /\ awaiting' = IF queue' = <<>> THEN Nobody ELSE Head(queue')
        /\ sent' = sent
    BY Zenon DEF HandlerEnds, Process
  <2>2. queue' # <<>> => Head(queue') = queue'[1]
    BY <1>4
  <2> QED BY <2>1, <2>2, Zenon
<1>6. DOMAIN answer = 1 .. Len(sent) /\ DOMAIN sent = 1 .. Len(sent) /\ Len(sent) \in Nat
  BY DEF IInv, TypeOK
<1>7. Range(queue') = {c \in 1 .. Len(sent) : answer'[c] = "none"}
  BY <1>2, <1>3, <1>4, <1>6, QueueIs
<1>8. TypeOK'
  <2>1. answer' \in Seq({"none", "done", "failed", "rejected"}) /\ Len(answer') = Len(sent')
    BY <1>2, <1>3, <1>5, ExceptSeq DEF IInv, TypeOK
  <2>2. queue' \in Seq(1 .. Len(sent'))
    BY <1>4, <1>5, <1>7, RangeBounds
  <2>3. awaiting' \in 0 .. Len(sent') /\ processing' \in BOOLEAN
    <3>1. queue' # <<>> => queue'[1] \in 1 .. Len(sent)
      BY <1>5, <2>2
    <3> QED BY <1>5, <1>6, <3>1 DEF Nobody
  <2> QED BY <1>5, <2>1, <2>2, <2>3 DEF IInv, TypeOK
<1>9. QueueIsUnanswered'
  BY <1>4, <1>5, <1>6, <1>7 DEF QueueIsUnanswered, Increasing
<1>10. NativePrecedes'
  <2>1. \A c \in Range(queue') : c \in Range(queue) \ {awaiting}
    BY <1>4
  <2> QED BY <1>5, <2>1 DEF IInv, NativePrecedes, IsWithinWindow
<1>11. LoopInv'
  BY <1>5 DEF LoopInv
<1> QED BY <1>8, <1>9, <1>10, <1>11 DEF IInv

-----------------------------------------------------------------------------
(* dispatch, refused at once: the command is answered and nothing else moves. *)

LEMMA SentIs ==
    ASSUME IInv, NEW request \in [source : Sources, requestedAt : Times],
           sent' = Append(sent, request)
    PROVE  /\ Len(sent) \in Nat /\ Len(sent') = Len(sent) + 1
           /\ DOMAIN sent = 1 .. Len(sent) /\ DOMAIN sent' = 1 .. Len(sent) + 1
           /\ sent' \in Seq([source : Sources, requestedAt : Times])
           /\ sent'[Len(sent) + 1] = request
           /\ \A d \in 1 .. Len(sent) : sent'[d] = sent[d]
<1>1. sent \in Seq([source : Sources, requestedAt : Times]) /\ Len(sent) \in Nat
  BY DEF IInv, TypeOK
<1>2. sent' \in Seq([source : Sources, requestedAt : Times])
  BY <1>1
<1> QED BY <1>1, <1>2, AppendIs

LEMMA RefusedStep ==
    ASSUME IInv, NEW request \in [source : Sources, requestedAt : Times],
           Len(sent) + 1 <= MaxCommands,
           sent' = Append(sent, request), answer' = Append(answer, "rejected"),
           UNCHANGED <<queue, awaiting, processing>>
    PROVE  IInv'
<1>1. /\ answer' \in Seq({"none", "done", "failed", "rejected"})
      /\ Len(answer') = Len(sent')
      /\ answer'[Len(sent) + 1] = "rejected"
      /\ \A d \in 1 .. Len(sent) : answer'[d] = answer[d]
  <2>1. answer \in Seq({"none", "done", "failed", "rejected"}) /\ Len(answer) = Len(sent)
    BY DEF IInv, TypeOK
  <2>2. Len(answer') = Len(answer) + 1
    BY <2>1, AppendIs
  <2>3. answer' \in Seq({"none", "done", "failed", "rejected"})
    BY <2>1
  <2> QED BY <2>1, <2>2, <2>3, AppendIs, SentIs
<1>2. Range(queue') = Range(queue) /\ \A c \in Range(queue) : c \in 1 .. Len(sent) /\ sent'[c] = sent[c]
  BY QueueIs, SentIs
<1>3. {c \in DOMAIN sent' : answer'[c] = "none"} = {c \in 1 .. Len(sent) : answer[c] = "none"}
  BY <1>1, SentIs
<1>4. TypeOK'
  <2>1. queue' \in Seq(1 .. Len(sent'))
    BY <1>2, SentIs, QueueIs, RangeBounds
  <2> QED BY <1>1, <2>1, SentIs DEF IInv, TypeOK
<1>5. QueueIsUnanswered'
  BY <1>2, <1>3, QueueIs DEF IInv, QueueIsUnanswered
<1>6. NativePrecedes'
  BY <1>2 DEF IInv, NativePrecedes, IsWithinWindow
<1>7. LoopInv'
  BY DEF IInv, LoopInv
<1> QED BY <1>4, <1>5, <1>6, <1>7 DEF IInv

-----------------------------------------------------------------------------
(* dispatch, accepted: what it supersedes leaves the queue with an answer,  *)
(* and the command enters at the end.                                       *)

LEMMA LosersWait ==
    ASSUME IInv, NEW request, NEW losers,
           losers = IF request.source = "native" THEN Superseded(request) ELSE {}
    PROVE  /\ losers \subseteq Range(queue) \ {awaiting}
           /\ losers \subseteq 1 .. Len(sent)
BY QueueIs DEF Superseded

LEMMA AppendGreatest ==
    ASSUME NEW w \in Seq(Nat), Increasing(w), NEW c \in Nat, \A d \in Range(w) : d < c
    PROVE  LET q == Append(w, c)
           IN  /\ q \in Seq(Nat) /\ q # <<>> /\ Increasing(q)
               /\ Range(q) = Range(w) \cup {c}
               /\ q[1] = IF w = <<>> THEN c ELSE w[1]
<1> DEFINE q == Append(w, c)
<1>1. /\ q \in Seq(Nat) /\ q # <<>> /\ Len(w) \in Nat
      /\ DOMAIN q = 1 .. Len(w) + 1 /\ DOMAIN w = 1 .. Len(w)
      /\ q[Len(w) + 1] = c /\ \A i \in DOMAIN w : q[i] = w[i]
      /\ Range(q) = Range(w) \cup {c}
  BY AppendIs, AppendProperties, LenProperties
<1>2. \A i \in DOMAIN w : w[i] < c
  BY DEF Range
<1>3. Increasing(q)
  <2> HIDE DEF q
  <2> QED BY <1>1, <1>2 DEF Increasing
<1>4. q[1] = IF w = <<>> THEN c ELSE w[1]
  OBVIOUS
<1> QED BY <1>1, <1>3, <1>4

(* What is kept of an increasing sequence begins with its head, if that is kept. *)
LEMMA KeepsHead ==
    ASSUME NEW s \in Seq(Nat), Increasing(s), NEW w \in Seq(Nat), Increasing(w),
           Range(w) \subseteq Range(s), s # <<>>, s[1] \in Range(w)
    PROVE  w # <<>> /\ w[1] = s[1]
<1>1. DOMAIN s = 1 .. Len(s) /\ DOMAIN w = 1 .. Len(w) /\ Len(s) \in Nat /\ Len(w) \in Nat
  BY LenProperties
<1>2. PICK l \in DOMAIN w : w[l] = s[1]
  BY DEF Range
<1>3. 1 \in DOMAIN w /\ 1 \in DOMAIN s /\ (l = 1 \/ 1 < l) /\ w # <<>>
  BY <1>1, <1>2, EmptySeq
<1>4. PICK i \in DOMAIN s : w[1] = s[i]
  BY <1>3 DEF Range
<1>5. s[1] \in Nat /\ s[i] \in Nat /\ (i = 1 \/ s[1] < s[i])
  BY <1>1, <1>3, ElementOfSeq DEF Increasing
<1>6. 1 < l => w[1] < s[1]
  BY <1>2, <1>3 DEF Increasing
<1> QED BY <1>2, <1>3, <1>4, <1>5, <1>6

LEMMA Respliced ==
    ASSUME NEW s \in Seq(Nat), Increasing(s), NEW out,
           NEW c \in Nat, \A d \in Range(s) : d < c,
           s # <<>> => s[1] \notin out
    PROVE  LET q == Append(Without(s, out), c)
           IN  /\ q \in Seq(Nat) /\ q # <<>> /\ Increasing(q)
               /\ Range(q) = (Range(s) \ out) \cup {c}
               /\ q[1] = IF s = <<>> THEN c ELSE s[1]
<1> DEFINE w == Without(s, out)
<1>1. /\ w \in Seq(Nat)
      /\ Range(w) = Range(s) \ out
      /\ \A k, l \in DOMAIN w : k < l =>
            \E i, j \in DOMAIN s : i < j /\ w[k] = s[i] /\ w[l] = s[j]
  BY WithoutIsKept
<1> HIDE DEF w
<1>2. Increasing(w)
  BY <1>1 DEF Increasing
<1>3. \A d \in Range(w) : d < c
  BY <1>1
<1>4. s # <<>> => w # <<>> /\ w[1] = s[1]
  <2>1. s # <<>> => s[1] \in Range(w)
    <3>1. s # <<>> => 1 \in DOMAIN s
      BY LenProperties, EmptySeq
    <3> QED BY <1>1, <3>1 DEF Range
  <2> QED BY <1>1, <1>2, <2>1, KeepsHead
<1>5. s = <<>> => w = <<>>
  <2>1. s = <<>> => Range(w) = {}
    BY <1>1 DEF Range
  <2>2. w # <<>> => 1 \in DOMAIN w
    BY <1>1, LenProperties, EmptySeq
  <2> QED BY <2>1, <2>2 DEF Range
<1>6. LET q == Append(w, c)
      IN  /\ q \in Seq(Nat) /\ q # <<>> /\ Increasing(q)
          /\ Range(q) = Range(w) \cup {c}
          /\ q[1] = IF w = <<>> THEN c ELSE w[1]
  BY <1>1, <1>2, <1>3, AppendGreatest
<1>7. Append(w, c)[1] = IF s = <<>> THEN c ELSE s[1]
  BY <1>4, <1>5, <1>6
<1> QED BY <1>1, <1>6, <1>7 DEF w

LEMMA AcceptedQueue ==
    ASSUME IInv, NEW losers \in SUBSET (Range(queue) \ {awaiting}),
           queue' = Append(Without(queue, losers), Len(sent) + 1)
    PROVE  /\ queue' \in Seq(Nat) /\ queue' # <<>>
           /\ Increasing(queue')
           /\ Range(queue') = (Range(queue) \ losers) \cup {Len(sent) + 1}
           /\ queue # <<>> => queue'[1] = awaiting
           /\ queue = <<>> => queue'[1] = Len(sent) + 1
<1>1. Len(sent) + 1 \in Nat /\ \A d \in Range(queue) : d < Len(sent) + 1
  BY QueueIs DEF IInv, TypeOK
<1>2. queue # <<>> => queue[1] = awaiting /\ queue[1] \notin losers
  BY QueueIs
<1>3. LET q == Append(Without(queue, losers), Len(sent) + 1)
      IN  /\ q \in Seq(Nat) /\ q # <<>> /\ Increasing(q)
          /\ Range(q) = (Range(queue) \ losers) \cup {Len(sent) + 1}
          /\ q[1] = IF queue = <<>> THEN Len(sent) + 1 ELSE queue[1]
  BY <1>1, <1>2, QueueIs, Respliced
<1>4. /\ queue' \in Seq(Nat) /\ queue' # <<>> /\ Increasing(queue')
      /\ Range(queue') = (Range(queue) \ losers) \cup {Len(sent) + 1}
      /\ queue'[1] = IF queue = <<>> THEN Len(sent) + 1 ELSE queue[1]
  BY <1>3, Zenon
<1> QED BY <1>2, <1>4

LEMMA AcceptedAnswer ==
    ASSUME IInv, NEW losers \in SUBSET (1 .. Len(sent)),
           answer' = Append([d \in DOMAIN answer |->
                                IF d \in losers THEN "rejected" ELSE answer[d]], "none")
    PROVE  /\ answer' \in Seq({"none", "done", "failed", "rejected"})
           /\ Len(answer') = Len(sent) + 1
           /\ {c \in 1 .. Len(sent) + 1 : answer'[c] = "none"} =
                  ({c \in 1 .. Len(sent) : answer[c] = "none"} \ losers) \cup {Len(sent) + 1}
<1> DEFINE A == {"none", "done", "failed", "rejected"}
           a == [d \in DOMAIN answer |-> IF d \in losers THEN "rejected" ELSE answer[d]]
<1>1. answer \in Seq(A) /\ Len(answer) = Len(sent) /\ DOMAIN answer = 1 .. Len(sent) /\ Len(sent) \in Nat
  BY DEF IInv, TypeOK
<1>2. \A d \in 1 .. Len(sent) : answer[d] \in A
  BY <1>1
<1>3. a \in [1 .. Len(sent) -> A]
  BY <1>1, <1>2
<1>4. a \in Seq(A) /\ Len(a) = Len(sent)
  BY <1>1, <1>3
<1>5. \A d \in 1 .. Len(sent) : a[d] = IF d \in losers THEN "rejected" ELSE answer[d]
  BY <1>1
<1>6. answer' = Append(a, "none") /\ "none" \in A
  OBVIOUS
<1> HIDE DEF a, A
<1>7. answer' \in Seq(A)
  BY <1>4, <1>6
<1>8. /\ Len(answer') = Len(sent) + 1
      /\ answer'[Len(sent) + 1] = "none"
      /\ \A d \in 1 .. Len(sent) : answer'[d] = a[d]
  BY <1>4, <1>6, AppendIs
<1> QED BY <1>1, <1>5, <1>7, <1>8 DEF A

LEMMA AcceptedStep ==
    ASSUME IInv, NEW request \in [source : Sources, requestedAt : Times],
           Dispatch(request),
           ~(request.source = "home_assistant" /\ HasConflictingNative(request))
    PROVE  IInv'
<1> DEFINE c == Len(sent) + 1
           losers == IF request.source = "native" THEN Superseded(request) ELSE {}
<1>1. /\ c <= MaxCommands
      /\ sent' = Append(sent, request)
      /\ answer' = Append([d \in DOMAIN answer |->
                               IF d \in losers THEN "rejected" ELSE answer[d]], "none")
      /\ queue' = Append(Without(queue, losers), c)
      /\ processing => UNCHANGED <<awaiting, processing>>
      /\ ~processing => Process(queue')
  BY Zenon DEF Dispatch
<1>2. losers \in SUBSET (Range(queue) \ {awaiting}) /\ losers \in SUBSET (1 .. Len(sent))
  BY LosersWait
<1>3. /\ queue' \in Seq(Nat) /\ queue' # <<>>
      /\ Increasing(queue')
      /\ Range(queue') = (Range(queue) \ losers) \cup {c}
      /\ queue # <<>> => queue'[1] = awaiting
      /\ queue = <<>> => queue'[1] = c
  <2> HIDE DEF losers
  <2> QED BY <1>1, <1>2, AcceptedQueue
<1>4. /\ answer' \in Seq({"none", "done", "failed", "rejected"})
      /\ Len(answer') = c
      /\ {d \in 1 .. c : answer'[d] = "none"} =
             ({d \in 1 .. Len(sent) : answer[d] = "none"} \ losers) \cup {c}
  <2> HIDE DEF losers
  <2> QED BY <1>1, <1>2, AcceptedAnswer
<1>5. processing' = TRUE /\ awaiting' = queue'[1]
  <2>1. CASE processing
    BY <1>1, <1>3, <2>1 DEF IInv, LoopInv
  <2>2. CASE ~processing
    <3>1. processing' = TRUE /\ awaiting' = Head(queue')
      BY <1>1, <1>3, <2>2, Zenon DEF Process
    <3>2. Head(queue') = queue'[1]
      BY <1>3
    <3> QED BY <3>1, <3>2
  <2> QED BY <2>1, <2>2
<1>6. Range(queue') = {d \in DOMAIN sent' : answer'[d] = "none"}
  <2> HIDE DEF losers
  <2>1. DOMAIN sent' = 1 .. c
    BY <1>1, SentIs
  <2> QED BY <1>3, <1>4, <2>1, QueueIs
<1>7. TypeOK'
  <2> HIDE DEF losers
  <2>1. queue' \in Seq(1 .. Len(sent'))
    <3>1. DOMAIN sent' = 1 .. Len(sent')
      BY <1>1, SentIs
    <3>2. Range(queue') \subseteq 1 .. Len(sent')
      BY <1>6, <3>1
    <3> QED BY <1>3, <3>2, RangeBounds
  <2>2. 1 \in 1 .. Len(queue')
    BY <1>3
  <2>3. awaiting' \in 0 .. Len(sent')
    BY <1>1, <1>5, <2>1, <2>2, SentIs, ElementOfSeq
  <2> QED BY <1>1, <1>4, <1>5, <2>1, <2>3, SentIs DEF TypeOK
<1>8. QueueIsUnanswered'
  <2>1. Head(queue') = queue'[1]
    BY <1>3
  <2> QED BY <1>3, <1>5, <1>6, <2>1, Zenon DEF QueueIsUnanswered, Increasing
<1>9. LoopInv'
  BY <1>3, <1>5 DEF LoopInv
<1>10. NativePrecedes'
  <2> SUFFICES ASSUME NEW d \in Range(queue') \ {awaiting'}, NEW e \in Range(queue'),
                      sent'[d].source = "home_assistant", sent'[e].source = "native"
               PROVE  ~IsWithinWindow(sent'[d], sent'[e])
    BY DEF NativePrecedes, IsWithinWindow
  <2>0. /\ sent'[c] = request
        /\ c \notin Range(queue)
        /\ \A b \in Range(queue) : sent'[b] = sent[b]
    BY <1>1, SentIs, QueueIs
  <2>1. queue # <<>>
    <3>1. queue = <<>> => d = c /\ e = c
      <4>1. queue = <<>> => Range(queue) = {}
        BY DEF Range
      <4> QED BY <1>3, <4>1
    <3> QED BY <2>0, <3>1
  <2>2. awaiting' = awaiting
    BY <1>3, <1>5, <2>1
  <2>3. CASE d # c /\ e # c
    <3>1. d \in Range(queue) \ {awaiting} /\ e \in Range(queue)
      BY <1>3, <2>2, <2>3
    <3> QED BY <2>0, <3>1 DEF IInv, NativePrecedes
  <2>4. CASE d = c
    <3>1. e # c /\ e \in Range(queue) /\ request.source = "home_assistant"
      BY <1>3, <2>0, <2>4
    <3>2. ~IsWithinWindow(sent[e], request)
      BY <2>0, <3>1 DEF HasConflictingNative
    <3> QED BY <2>0, <2>4, <3>1, <3>2 DEF IsWithinWindow
  <2>5. CASE e = c /\ d # c
    <3>1. d \in Range(queue) \ {awaiting} /\ d \notin losers /\ request.source = "native"
      BY <1>3, <2>0, <2>2, <2>5
    <3>2. ~IsWithinWindow(sent[d], request)
      BY <2>0, <3>1 DEF Superseded
    <3> QED BY <2>0, <2>5, <3>1, <3>2
  <2> QED BY <2>3, <2>4, <2>5
<1> QED BY <1>7, <1>8, <1>9, <1>10 DEF IInv

LEMMA DispatchStep ==
    ASSUME IInv, NEW request \in [source : Sources, requestedAt : Times],
           Dispatch(request)
    PROVE  IInv'
<1>1. CASE request.source = "home_assistant" /\ HasConflictingNative(request)
  <2>1. /\ Len(sent) + 1 <= MaxCommands
        /\ sent' = Append(sent, request)
        /\ answer' = Append(answer, "rejected")
        /\ UNCHANGED <<queue, awaiting, processing>>
    BY <1>1, Zenon DEF Dispatch
  <2> QED BY <2>1, RefusedStep
<1>2. CASE ~(request.source = "home_assistant" /\ HasConflictingNative(request))
  BY <1>2, AcceptedStep
<1> QED BY <1>1, <1>2

-----------------------------------------------------------------------------
LEMMA StepHolds == IInv /\ [Next]_vars => IInv'
<1> SUFFICES ASSUME IInv, [Next]_vars PROVE IInv'
  OBVIOUS
<1>1. CASE \E request \in [source : Sources, requestedAt : Times] : Dispatch(request)
  BY <1>1, DispatchStep
<1>2. CASE \E outcome \in {"done", "failed"} : HandlerEnds(outcome)
  BY <1>2, HandlerEndsStep
<1>3. CASE UNCHANGED vars
  BY <1>3 DEF vars, IInv, TypeOK, LoopInv, QueueIsUnanswered, NativePrecedes, IsWithinWindow
<1> QED BY <1>1, <1>2, <1>3 DEF Next

(* Types hold of the dispatcher whatever arrives. *)
THEOREM TypeCorrect == Spec => []TypeOK
<1>1. IInv => TypeOK
  BY DEF IInv
<1> QED BY InitHolds, StepHolds, <1>1, PTL DEF Spec

(* The queue of dispatcher.ts holds exactly the commands whose promise is   *)
(* open, once each, in the order they were dispatched, and the handler has  *)
(* its head: what shift() takes out is what was answered.                   *)
THEOREM QueueHoldsUnanswered == Spec => []QueueIsUnanswered
<1>1. IInv => QueueIsUnanswered
  BY DEF IInv
<1> QED BY InitHolds, StepHolds, <1>1, PTL DEF Spec

(* FR-014, for every window and every order of arrival: no command of Home  *)
(* Assistant waits while a native one within its window is pending.         *)
THEOREM NativeHasPrecedence == Spec => []NativePrecedes
<1>1. IInv => NativePrecedes
  BY DEF IInv
<1> QED BY InitHolds, StepHolds, <1>1, PTL DEF Spec

-----------------------------------------------------------------------------
(* The schedules.  The panel is in the mode it is armed to.                 *)
PanelInv ==
    /\ mode = "disarmed" => armedMode = "none"
    /\ mode = "arming" => armedMode \in ArmedModes
    /\ mode \in ArmedModes => armedMode = mode

(* What is left of the turn is still due, and the panel waits for whoever   *)
(* disarmed it.                                                             *)
TurnInv ==
    /\ disarmedFor # NoOne =>
          /\ mode = "disarmed" /\ last = disarmedFor
          /\ schedules[disarmedFor].mode \in ArmedModes
    /\ \A s \in due : IsDue(s)

(* lastRunAt tells who ran in this minute, and who has to and did not is    *)
(* still to run in this turn, or the turn is to come.                       *)
RunsInv ==
    /\ runs \in [Ids -> 0 .. 1]
    /\ \A s \in Ids : runs[s] = 1 =>
          s \in DOMAIN schedules /\ schedules[s].lastRun \div 2 = Minute
    /\ \A s \in DOMAIN schedules : schedules[s].lastRun <= half
    /\ \A s \in watched :
          /\ IsDueAt(s, Minute)
          /\ \/ runs[s] = 1
             \/ IsDue(s) /\ (s \in due \/ (~ticked /\ half % 2 = 0))

SchedulesInv == SchedulesTypeOK /\ PanelInv /\ TurnInv /\ RunsInv

-----------------------------------------------------------------------------
LEMMA LeastIs ==
    ASSUME NEW S \in SUBSET Nat, S # {}
    PROVE  Min(S) \in S
<1>1. PICK x \in S : \A y \in S : <<y, x>> \notin OpToRel(<, Nat)
  BY NatLessThanWellFounded, WFMin
<1>2. \A y \in S : ~(y < x)
  BY <1>1 DEF OpToRel
<1>3. \A y \in S : x <= y
  <2>1. x \in Nat /\ \A y \in S : y \in Nat
    OBVIOUS
  <2> QED BY <1>2, <2>1
<1> QED BY <1>3 DEF Min

(* Half-minutes and minutes. *)
LEMMA HalvesAre ==
    ASSUME NEW h \in Nat
    PROVE  /\ h \div 2 \in Nat
           /\ h = 2 * (h \div 2) \/ h = 2 * (h \div 2) + 1
           /\ h % 2 = 0 <=> h = 2 * (h \div 2)
OBVIOUS

LEMMA TimesAre ==
    ASSUME SchedulesTypeOK
    PROVE  /\ half \in Nat /\ Minute \in Nat \ {0}
           /\ \A s \in DOMAIN schedules : schedules[s].lastRun \in Nat /\ s \in Nat \ {0}
           /\ NoOne \notin DOMAIN schedules
<1>1. half \in Nat /\ half >= 2
  BY ModeSchedulesAssumption DEF SchedulesTypeOK
<1>2. Minute \in Nat \ {0}
  BY <1>1, HalvesAre DEF Minute
<1>3. \A s \in DOMAIN schedules : schedules[s].lastRun \in Nat
  BY ModeSchedulesAssumption DEF SchedulesTypeOK, Rows
<1>4. \A s \in Ids : s \in Nat \ {0}
  BY ModeSchedulesAssumption DEF Ids
<1> QED BY <1>1, <1>2, <1>3, <1>4 DEF SchedulesTypeOK, NoOne

LEMMA SchedulesStart ==
    SchedulesInit => SchedulesInv
<1> SUFFICES ASSUME SchedulesInit PROVE SchedulesInv
  OBVIOUS
<1>1. SchedulesTypeOK
  BY ModeSchedulesAssumption DEF SchedulesInit, SchedulesTypeOK, ScheduledModes
<1>2. PanelInv /\ TurnInv /\ RunsInv
  BY ModeSchedulesAssumption DEF SchedulesInit, PanelInv, TurnInv, RunsInv, ArmedModes
<1> QED BY <1>1, <1>2 DEF SchedulesInv

-----------------------------------------------------------------------------
(* What no schedule does to the panel. *)
LEMMA PanelMovesKeeps ==
    ASSUME SchedulesInv, PanelMoves, TurnIsOver
    PROVE  SchedulesInv' /\ runs' = runs /\ half' = half
<1>1. SchedulesTypeOK /\ PanelInv /\ TurnInv /\ RunsInv
  BY DEF SchedulesInv
<1>2. UNCHANGED <<schedules, half, ticked, turnVars, edits, runs, watched, last>>
  BY DEF PanelMoves
<1>3. /\ mode' \in ScheduledModes \cup Alarms \cup {"arming"} /\ armedMode' \in ArmedModes \cup {"none"}
      /\ PanelInv'
  BY <1>1 DEF PanelMoves, ArmTo, DisarmAll, PanelInv, SchedulesTypeOK, ScheduledModes, ArmedModes, Alarms
<1>4. SchedulesTypeOK' /\ TurnInv' /\ RunsInv'
  BY <1>1, <1>2, <1>3 DEF SchedulesTypeOK, TurnInv, RunsInv, turnVars, TurnIsOver, IsDue, IsDueAt, Minute
<1> QED BY <1>2, <1>3, <1>4 DEF SchedulesInv

LEMMA EditKeeps ==
    ASSUME SchedulesInv, TurnIsOver, NEW s \in Ids, NEW m \in ScheduledModes,
           NEW time \in 0 .. DayLength - 1, NEW zone \in {"own", "named"}, NEW enabled \in BOOLEAN,
           EditSchedule(s, m, time, zone, enabled)
    PROVE  SchedulesInv' /\ runs' = runs /\ half' = half
<1>1. SchedulesTypeOK /\ PanelInv /\ TurnInv /\ RunsInv
  BY DEF SchedulesInv
<1> DEFINE row == [mode |-> m, time |-> time, zone |-> zone, enabled |-> enabled,
                   lastRun |-> LastRun(s)]
<1>2. /\ schedules' = Stored(s, row) /\ watched' = watched \ {s}
      /\ UNCHANGED <<mode, armedMode, half, ticked, due, disarmedFor, last, runs>>
  BY DEF EditSchedule, Edit, panelVars, turnVars
<1>3. row \in Rows /\ row.lastRun = LastRun(s) /\ LastRun(s) <= half
  <2>1. LastRun(s) \in 0 .. 2 * MaxMinutes + 1 /\ LastRun(s) <= half
    <3>1. CASE s \in DOMAIN schedules
      BY <1>1, <3>1 DEF LastRun, SchedulesTypeOK, Rows, RunsInv
    <3>2. CASE s \notin DOMAIN schedules
      BY <1>1, <3>2, TimesAre, ModeSchedulesAssumption DEF LastRun, LongAgo
    <3> QED BY <3>1, <3>2
  <2> QED BY <2>1 DEF Rows
<1> HIDE DEF row
<1>4. /\ DOMAIN schedules' = DOMAIN schedules \cup {s} /\ schedules'[s] = row
      /\ \A t \in DOMAIN schedules : t # s => schedules'[t] = schedules[t]
  BY <1>2 DEF Stored
<1>5. due = {} /\ disarmedFor = NoOne
  BY DEF TurnIsOver
<1>6. SchedulesTypeOK'
  BY <1>1, <1>2, <1>3, <1>4, <1>5 DEF SchedulesTypeOK
<1>7. TurnInv' /\ PanelInv'
  BY <1>1, <1>2, <1>5 DEF TurnInv, PanelInv
<1>8. RunsInv'
  <2>1. Minute' = Minute
    BY <1>2 DEF Minute
  <2>2. \A t \in Ids : runs[t] = 1 => t \in DOMAIN schedules' /\ schedules'[t].lastRun \div 2 = Minute
    <3> SUFFICES ASSUME NEW t \in Ids, runs[t] = 1
                 PROVE  t \in DOMAIN schedules' /\ schedules'[t].lastRun \div 2 = Minute
      OBVIOUS
    <3>1. t \in DOMAIN schedules /\ schedules[t].lastRun \div 2 = Minute
      BY <1>1 DEF RunsInv
    <3>2. schedules'[t].lastRun = schedules[t].lastRun
      BY <1>3, <1>4, <3>1 DEF LastRun
    <3> QED BY <1>4, <3>1, <3>2
  <2>3. \A t \in DOMAIN schedules' : schedules'[t].lastRun <= half
    BY <1>1, <1>3, <1>4 DEF RunsInv
  <2>4. \A t \in watched' : t \in watched /\ schedules'[t] = schedules[t]
    BY <1>1, <1>2, <1>4 DEF SchedulesTypeOK
  <2>5. \A t \in watched' : (IsDueAt(t, Minute) <=> IsDueAt(t, Minute)') /\ (IsDue(t) <=> IsDue(t)')
    BY <2>1, <2>4 DEF IsDue, IsDueAt
  <2> QED BY <1>1, <1>2, <2>1, <2>2, <2>3, <2>4, <2>5 DEF RunsInv
<1> QED BY <1>2, <1>6, <1>7, <1>8 DEF SchedulesInv

LEMMA DeleteKeeps ==
    ASSUME SchedulesInv, TurnIsOver, NEW s \in Ids, DeleteSchedule(s)
    PROVE  /\ SchedulesInv' /\ half' = half
           /\ \A t \in Ids : runs'[t] <= 1
<1>1. SchedulesTypeOK /\ PanelInv /\ TurnInv /\ RunsInv
  BY DEF SchedulesInv
<1>2. /\ schedules' = Deleted(s) /\ watched' = watched \ {s} /\ runs' = [runs EXCEPT ![s] = 0]
      /\ UNCHANGED <<mode, armedMode, half, ticked, due, disarmedFor, last>>
  BY DEF DeleteSchedule, Edit, panelVars, turnVars
<1>3. /\ DOMAIN schedules' = DOMAIN schedules \ {s}
      /\ \A t \in DOMAIN schedules' : schedules'[t] = schedules[t]
  BY <1>2 DEF Deleted
<1>4. due = {} /\ disarmedFor = NoOne
  BY DEF TurnIsOver
<1>5. SchedulesTypeOK'
  BY <1>1, <1>2, <1>3, <1>4 DEF SchedulesTypeOK
<1>6. TurnInv' /\ PanelInv'
  BY <1>1, <1>2, <1>4 DEF TurnInv, PanelInv
<1>7. runs' \in [Ids -> 0 .. 1] /\ runs'[s] = 0 /\ \A t \in Ids : t # s => runs'[t] = runs[t]
  BY <1>1, <1>2 DEF RunsInv
<1>8. RunsInv'
  <2>1. Minute' = Minute
    BY <1>2 DEF Minute
  <2>2. \A t \in watched' : t \in watched /\ t # s /\ t \in Ids /\ schedules'[t] = schedules[t]
    BY <1>1, <1>2, <1>3 DEF SchedulesTypeOK
  <2>3. \A t \in watched' : (IsDueAt(t, Minute) <=> IsDueAt(t, Minute)') /\ (IsDue(t) <=> IsDue(t)')
    BY <2>1, <2>2 DEF IsDue, IsDueAt
  <2>4. \A t \in Ids : runs'[t] = 1 => t \in DOMAIN schedules' /\ schedules'[t].lastRun \div 2 = Minute
    BY <1>1, <1>3, <1>7 DEF RunsInv
  <2>5. \A t \in DOMAIN schedules' : schedules'[t].lastRun <= half
    BY <1>1, <1>3 DEF RunsInv
  <2> QED BY <1>1, <1>2, <1>7, <2>1, <2>2, <2>3, <2>4, <2>5 DEF RunsInv
<1>9. \A t \in Ids : runs'[t] <= 1
  BY <1>7
<1> QED BY <1>2, <1>5, <1>6, <1>8, <1>9 DEF SchedulesInv

-----------------------------------------------------------------------------
LEMMA TickKeeps ==
    ASSUME SchedulesInv, TurnIsOver, RunnerTicks
    PROVE  SchedulesInv' /\ runs' = runs /\ half' = half
<1>1. SchedulesTypeOK /\ PanelInv /\ TurnInv /\ RunsInv
  BY DEF SchedulesInv
<1>2. /\ due' = {s \in DOMAIN schedules : IsDue(s)} /\ last' = NoOne /\ disarmedFor = NoOne
      /\ UNCHANGED <<mode, armedMode, schedules, half, disarmedFor, edits, runs, watched>>
  BY DEF RunnerTicks, panelVars, TurnIsOver
<1>3. SchedulesTypeOK' /\ PanelInv'
  BY <1>1, <1>2 DEF SchedulesTypeOK, PanelInv
<1>4. \A s : (IsDueAt(s, Minute) <=> IsDueAt(s, Minute)') /\ (IsDue(s) <=> IsDue(s)')
  BY <1>2 DEF IsDue, IsDueAt, Minute
<1>5. TurnInv'
  BY <1>2, <1>4 DEF TurnInv
<1>6. RunsInv'
  <2>1. Minute' = Minute /\ watched \subseteq DOMAIN schedules
    BY <1>1, <1>2 DEF Minute, SchedulesTypeOK
  <2>2. \A s \in watched : IsDue(s) => s \in due'
    BY <1>2, <2>1
  <2> QED BY <1>1, <1>2, <1>4, <2>1, <2>2 DEF RunsInv
<1> QED BY <1>2, <1>3, <1>5, <1>6 DEF SchedulesInv

LEMMA MarkedIs ==
    ASSUME SchedulesTypeOK, NEW s \in DOMAIN schedules,
           schedules' = [schedules EXCEPT ![s].lastRun = half]
    PROVE  /\ DOMAIN schedules' = DOMAIN schedules
           /\ schedules'[s] \in Rows /\ schedules'[s].lastRun = half
           /\ schedules'[s].mode = schedules[s].mode /\ schedules'[s].time = schedules[s].time
           /\ schedules'[s].enabled = schedules[s].enabled
           /\ \A t \in DOMAIN schedules : t # s => schedules'[t] = schedules[t]
<1>1. schedules[s] \in Rows /\ half \in 0 .. 2 * MaxMinutes + 1
  BY DEF SchedulesTypeOK
<1>2. /\ DOMAIN schedules' = DOMAIN schedules
      /\ schedules'[s] = [schedules[s] EXCEPT !.lastRun = half]
      /\ \A t \in DOMAIN schedules : t # s => schedules'[t] = schedules[t]
  OBVIOUS
<1>3. /\ schedules'[s] \in Rows /\ schedules'[s].lastRun = half
      /\ schedules'[s].mode = schedules[s].mode /\ schedules'[s].time = schedules[s].time
      /\ schedules'[s].enabled = schedules[s].enabled
  BY <1>1, <1>2 DEF Rows
<1> QED BY <1>2, <1>3

LEMMA RunKeeps ==
    ASSUME SchedulesInv, RunSchedule
    PROVE  /\ SchedulesInv' /\ half' = half
           /\ \A t \in Ids : runs'[t] <= 1
           /\ TurnIsOver' =>
                 \/ mode \in Alarms /\ UNCHANGED panelVars
                 \/ /\ mode' \in {schedules[last'].mode, "arming"}
                    /\ armedMode' = IF mode' = "disarmed" THEN "none" ELSE schedules[last'].mode
<1>1. SchedulesTypeOK /\ PanelInv /\ TurnInv /\ RunsInv
  BY DEF SchedulesInv
<1> DEFINE s == Min(due)
           m == schedules[s].mode
<1>2. s \in due /\ s \in DOMAIN schedules /\ IsDue(s) /\ s \in Ids
  <2>1. due \in SUBSET Nat /\ due # {}
    BY <1>1, TimesAre DEF RunSchedule, SchedulesTypeOK
  <2>2. s \in due
    BY <2>1, LeastIs
  <2> QED BY <1>1, <2>2 DEF SchedulesTypeOK, TurnInv
<1>3. /\ disarmedFor = NoOne /\ due' = due \ {s}
      /\ schedules' = [schedules EXCEPT ![s].lastRun = half]
      /\ runs' = [runs EXCEPT ![s] = @ + 1] /\ last' = s
      /\ UNCHANGED <<half, ticked, edits, watched>>
  BY DEF RunSchedule, MarkRun
<1>4. \/ (mode \in Alarms \/ AlreadyIn(m)) /\ UNCHANGED disarmedFor /\ UNCHANGED panelVars
      \/ /\ ~(mode \in Alarms \/ AlreadyIn(m))
         /\ \/ mode = "disarmed" /\ ArmTo(m) /\ UNCHANGED disarmedFor
            \/ mode # "disarmed" /\ m = "disarmed" /\ DisarmAll /\ UNCHANGED disarmedFor
            \/ mode # "disarmed" /\ m # "disarmed" /\ DisarmAll /\ disarmedFor' = s
  BY DEF RunSchedule
<1>5. m \in ScheduledModes
  BY <1>1, <1>2 DEF SchedulesTypeOK, Rows
<1> HIDE DEF s
<1>6. /\ DOMAIN schedules' = DOMAIN schedules
      /\ schedules'[s] \in Rows /\ schedules'[s].lastRun = half
      /\ schedules'[s].mode = m /\ schedules'[s].time = schedules[s].time
      /\ schedules'[s].enabled = schedules[s].enabled
      /\ \A t \in DOMAIN schedules : t # s => schedules'[t] = schedules[t]
  BY <1>1, <1>2, <1>3, MarkedIs
<1> HIDE DEF m
<1>7. s # NoOne
  BY <1>1, <1>2, TimesAre
<1>8. /\ mode' \in ScheduledModes \cup Alarms \cup {"arming"} /\ armedMode' \in ArmedModes \cup {"none"}
      /\ PanelInv'
      /\ disarmedFor' \in {NoOne, s}
      /\ disarmedFor' = s => mode' = "disarmed" /\ m \in ArmedModes
      /\ disarmedFor' = NoOne =>
            \/ mode \in Alarms /\ UNCHANGED panelVars
            \/ mode' \in {m, "arming"} /\ armedMode' = IF mode' = "disarmed" THEN "none" ELSE m
  <2>1. mode \in ScheduledModes \cup Alarms \cup {"arming"} /\ armedMode \in ArmedModes \cup {"none"}
    BY <1>1 DEF SchedulesTypeOK
  <2>2. CASE (mode \in Alarms \/ AlreadyIn(m)) /\ UNCHANGED disarmedFor /\ UNCHANGED panelVars
    BY <1>1, <1>3, <1>7, <2>1, <2>2 DEF PanelInv, AlreadyIn, panelVars
  <2>3. CASE ~AlreadyIn(m) /\ mode = "disarmed" /\ ArmTo(m) /\ UNCHANGED disarmedFor
    BY <1>3, <1>5, <1>7, <2>3 DEF PanelInv, AlreadyIn, ArmTo, ScheduledModes, ArmedModes
  <2>4. CASE m = "disarmed" /\ DisarmAll /\ UNCHANGED disarmedFor
    BY <1>3, <1>7, <2>4 DEF PanelInv, DisarmAll, ScheduledModes, ArmedModes
  <2>5. CASE m # "disarmed" /\ DisarmAll /\ disarmedFor' = s
    BY <1>5, <1>7, <2>5 DEF PanelInv, DisarmAll, ScheduledModes, ArmedModes
  <2> QED BY <1>4, <2>2, <2>3, <2>4, <2>5
<1>9. SchedulesTypeOK'
  <2>1. \A t \in DOMAIN schedules' : schedules'[t] \in Rows
    BY <1>1, <1>6 DEF SchedulesTypeOK
  <2> QED BY <1>1, <1>2, <1>3, <1>6, <1>8, <2>1 DEF SchedulesTypeOK
<1>10. \A t \in DOMAIN schedules : /\ IsDueAt(t, Minute) <=> IsDueAt(t, Minute)'
                                   /\ t # s => (IsDue(t) <=> IsDue(t)')
  BY <1>3, <1>6 DEF IsDueAt, IsDue, Minute
<1>11. TurnInv'
  <2>1. \A t \in due' : t \in DOMAIN schedules /\ t # s /\ IsDue(t)
    BY <1>1, <1>3 DEF TurnInv, SchedulesTypeOK
  <2> QED BY <1>3, <1>6, <1>8, <1>10, <2>1 DEF TurnInv
<1>12. runs' \in [Ids -> 0 .. 1] /\ runs'[s] = 1 /\ \A t \in Ids : t # s => runs'[t] = runs[t]
  <2>1. runs[s] = 0
    BY <1>1, <1>2 DEF RunsInv, IsDue
  <2> QED BY <1>1, <1>2, <1>3, <2>1 DEF RunsInv
<1>13. RunsInv'
  <2>1. Minute' = Minute /\ half \in Nat /\ half' = half
    BY <1>1, <1>3, TimesAre DEF Minute
  <2>2. \A t \in Ids : runs'[t] = 1 => t \in DOMAIN schedules' /\ schedules'[t].lastRun \div 2 = Minute
    BY <1>1, <1>2, <1>6, <1>12 DEF RunsInv, Minute
  <2>3. \A t \in DOMAIN schedules' : schedules'[t].lastRun <= half
    BY <1>1, <1>6, <2>1 DEF RunsInv
  <2>4. \A t \in watched : t \in DOMAIN schedules /\ t \in Ids /\ (t \in due => t = s \/ t \in due')
    BY <1>1, <1>3 DEF SchedulesTypeOK
  <2> QED BY <1>1, <1>3, <1>10, <1>12, <2>1, <2>2, <2>3, <2>4 DEF RunsInv
<1>14. \A t \in Ids : runs'[t] <= 1
  BY <1>12
<1>15. TurnIsOver' =>
          \/ mode \in Alarms /\ UNCHANGED panelVars
          \/ /\ mode' \in {schedules[last'].mode, "arming"}
             /\ armedMode' = IF mode' = "disarmed" THEN "none" ELSE schedules[last'].mode
  BY <1>3, <1>8 DEF TurnIsOver, m
<1> QED BY <1>3, <1>8, <1>9, <1>11, <1>13, <1>14, <1>15 DEF SchedulesInv

LEMMA ScheduleArmsKeeps ==
    ASSUME SchedulesInv, ScheduleArms
    PROVE  /\ SchedulesInv' /\ runs' = runs /\ half' = half
           /\ mode' \in {schedules[last'].mode, "arming"}
           /\ armedMode' = IF mode' = "disarmed" THEN "none" ELSE schedules[last'].mode
<1>1. SchedulesTypeOK /\ PanelInv /\ TurnInv /\ RunsInv
  BY DEF SchedulesInv
<1>2. /\ disarmedFor # NoOne /\ mode' = "arming" /\ armedMode' = schedules[disarmedFor].mode
      /\ disarmedFor' = NoOne
      /\ UNCHANGED <<schedules, half, ticked, due, edits, runs, watched, last>>
  BY DEF ScheduleArms, ArmTo
<1>3. last = disarmedFor /\ schedules[disarmedFor].mode \in ArmedModes
  BY <1>1, <1>2 DEF TurnInv
<1>4. SchedulesTypeOK' /\ PanelInv' /\ TurnInv' /\ RunsInv'
  BY <1>1, <1>2, <1>3 DEF SchedulesTypeOK, PanelInv, TurnInv, RunsInv, ArmedModes, IsDue, IsDueAt, Minute
<1> QED BY <1>2, <1>3, <1>4 DEF SchedulesInv

LEMMA ElapseKeeps ==
    ASSUME SchedulesInv, TurnIsOver, Elapse
    PROVE  /\ SchedulesInv' /\ \A t \in Ids : runs'[t] <= 1
           /\ half' \div 2 # Minute => \A t \in watched : runs[t] = 1
<1>1. SchedulesTypeOK /\ PanelInv /\ TurnInv /\ RunsInv /\ due = {} /\ disarmedFor = NoOne
  BY DEF SchedulesInv, TurnIsOver
<1> DEFINE next == (half + 1) \div 2
<1>2. /\ ticked /\ next <= MaxMinutes /\ half' = half + 1 /\ ticked' = FALSE
      /\ IF next = Minute THEN UNCHANGED <<runs, watched>>
         ELSE /\ runs' = [s \in Ids |-> 0]
              /\ watched' = {s \in DOMAIN schedules : IsDueAt(s, next)}
      /\ UNCHANGED <<mode, armedMode, schedules, due, disarmedFor, edits, last>>
  BY DEF Elapse, panelVars, turnVars
<1>3. half \in Nat /\ Minute \in Nat /\ Minute' = next
  BY <1>1, <1>2, TimesAre DEF Minute
<1>4. \A t \in watched : runs[t] = 1
  BY <1>1, <1>2 DEF RunsInv
<1>5. half' \in 2 .. 2 * MaxMinutes + 1
  <2>1. half + 1 = 2 * next \/ half + 1 = 2 * next + 1
    BY <1>3, HalvesAre
  <2>2. next \in Nat /\ MaxMinutes \in Nat
    BY <1>3, HalvesAre, ModeSchedulesAssumption
  <2> HIDE DEF next
  <2>3. half >= 2
    BY <1>1, <1>3, ModeSchedulesAssumption DEF SchedulesTypeOK
  <2> QED BY <1>2, <1>3, <2>1, <2>2, <2>3, ModeSchedulesAssumption
<1>6. SchedulesTypeOK' /\ PanelInv' /\ TurnInv'
  <2>1. watched' \subseteq DOMAIN schedules
    BY <1>1, <1>2 DEF SchedulesTypeOK
  <2> QED BY <1>1, <1>2, <1>5, <2>1 DEF SchedulesTypeOK, PanelInv, TurnInv
<1>7. CASE next = Minute
  <2>1. RunsInv'
    <3>1. \A t \in watched : IsDueAt(t, Minute)'
      BY <1>1, <1>2, <1>3, <1>7 DEF RunsInv, IsDueAt
    <3>2. \A t \in DOMAIN schedules : schedules[t].lastRun <= half + 1
      BY <1>1, <1>3, TimesAre DEF RunsInv
    <3> QED BY <1>1, <1>2, <1>3, <1>4, <1>7, <3>1, <3>2 DEF RunsInv
  <2> QED BY <1>1, <1>2, <1>4, <1>6, <1>7, <2>1 DEF SchedulesInv, RunsInv
<1>8. CASE next # Minute
  <2>1. \A t \in DOMAIN schedules : schedules[t].lastRun <= half + 1 /\ schedules[t].lastRun \div 2 # next
    <3> TAKE t \in DOMAIN schedules
    <3> DEFINE r == schedules[t].lastRun
    <3>1. r \in Nat /\ r <= half
      BY <1>1, TimesAre DEF RunsInv
    <3>2. r \div 2 \in Nat /\ (r = 2 * (r \div 2) \/ r = 2 * (r \div 2) + 1)
      BY <3>1, HalvesAre
    <3>3. /\ half \div 2 \in Nat /\ (half = 2 * (half \div 2) \/ half = 2 * (half \div 2) + 1)
          /\ next \in Nat /\ (half + 1 = 2 * next \/ half + 1 = 2 * next + 1)
          /\ next # half \div 2
      BY <1>3, <1>8, HalvesAre DEF Minute
    <3> HIDE DEF r, next
    <3>4. r \div 2 # next
      BY <1>3, <3>1, <3>2, <3>3
    <3> QED BY <1>3, <3>1, <3>4 DEF r
  <2>2. (half + 1) % 2 = 0
    <3>1. /\ half \div 2 \in Nat /\ (half = 2 * (half \div 2) \/ half = 2 * (half \div 2) + 1)
          /\ next \in Nat /\ (half + 1 = 2 * next \/ half + 1 = 2 * next + 1)
          /\ next # half \div 2 /\ ((half + 1) % 2 = 0 <=> half + 1 = 2 * next)
      BY <1>3, <1>8, HalvesAre DEF Minute
    <3> HIDE DEF next
    <3> QED BY <1>3, <3>1
  <2>3. \A t \in watched' : IsDueAt(t, Minute)' /\ IsDue(t)'
    BY <1>2, <1>3, <1>8, <2>1 DEF IsDue, IsDueAt
  <2>4. RunsInv'
    BY <1>2, <1>8, <2>1, <2>2, <2>3 DEF RunsInv
  <2>5. \A t \in Ids : runs'[t] <= 1
    BY <1>2, <1>8
  <2> QED BY <1>4, <1>6, <2>4, <2>5 DEF SchedulesInv
<1> QED BY <1>7, <1>8

LEMMA RestartKeeps ==
    ASSUME SchedulesInv, Restart
    PROVE  SchedulesInv' /\ runs' = runs /\ half' = half /\ last' = NoOne
<1>1. SchedulesTypeOK /\ PanelInv /\ TurnInv /\ RunsInv
  BY DEF SchedulesInv
<1>2. /\ due' = {} /\ disarmedFor' = NoOne /\ watched' = {} /\ last' = NoOne
      /\ UNCHANGED <<mode, armedMode, schedules, half, edits, runs>>
  BY DEF Restart, panelVars
<1>3. SchedulesTypeOK' /\ PanelInv' /\ TurnInv' /\ RunsInv'
  BY <1>1, <1>2 DEF SchedulesTypeOK, PanelInv, TurnInv, RunsInv, Minute
<1> QED BY <1>2, <1>3 DEF SchedulesInv

-----------------------------------------------------------------------------
(* What every step preserves and does. *)
RunStep ==
    /\ \A s \in Ids : runs'[s] <= 1
    /\ half' \div 2 # Minute => \A s \in watched : runs[s] = 1

EffectStep ==
    ~TurnIsOver /\ TurnIsOver' /\ last' # NoOne
      => \/ mode \in Alarms /\ UNCHANGED panelVars
         \/ /\ mode' \in {schedules[last'].mode, "arming"}
            /\ armedMode' = IF mode' = "disarmed" THEN "none" ELSE schedules[last'].mode

LEMMA SchedulesStep ==
    ASSUME SchedulesInv, [SchedulesNext]_schedulesVars
    PROVE  SchedulesInv' /\ RunStep /\ EffectStep
<1>1. \A t \in Ids : runs[t] <= 1
  BY DEF SchedulesInv, RunsInv
<1>2. half \div 2 = Minute
  BY DEF Minute
<1>3. CASE Between
  <2>0. TurnIsOver
    BY <1>3 DEF Between
  <2>1. CASE PanelMoves
    BY <1>1, <1>2, <2>0, <2>1, PanelMovesKeeps DEF RunStep, EffectStep
  <2>2. CASE EditSchedules
    <3>1. ASSUME NEW s \in Ids, NEW m \in ScheduledModes, NEW time \in 0 .. DayLength - 1,
                 NEW zone \in {"own", "named"}, NEW enabled \in BOOLEAN,
                 EditSchedule(s, m, time, zone, enabled)
          PROVE  SchedulesInv' /\ RunStep /\ EffectStep
      BY <1>1, <1>2, <2>0, <3>1, EditKeeps DEF RunStep, EffectStep
    <3>2. ASSUME NEW s \in Ids, DeleteSchedule(s)
          PROVE  SchedulesInv' /\ RunStep /\ EffectStep
      BY <1>2, <2>0, <3>2, DeleteKeeps DEF RunStep, EffectStep
    <3> QED BY <2>2, <3>1, <3>2 DEF EditSchedules
  <2>3. CASE RunnerTicks
    BY <1>1, <1>2, <2>0, <2>3, TickKeeps DEF RunStep, EffectStep
  <2>4. CASE Elapse
    BY <2>0, <2>4, ElapseKeeps DEF RunStep, EffectStep
  <2> QED BY <1>3, <2>1, <2>2, <2>3, <2>4 DEF Between
<1>4. CASE RunSchedule
  BY <1>2, <1>4, RunKeeps DEF RunStep, EffectStep
<1>5. CASE ScheduleArms
  BY <1>1, <1>2, <1>5, ScheduleArmsKeeps DEF RunStep, EffectStep
<1>6. CASE Restart
  BY <1>1, <1>2, <1>6, RestartKeeps DEF RunStep, EffectStep
<1>7. CASE UNCHANGED schedulesVars
  <2>1. /\ UNCHANGED <<mode, armedMode, schedules, half, ticked, due, disarmedFor, runs, watched, last>>
    BY <1>7 DEF schedulesVars, panelVars, turnVars
  <2>2. SchedulesInv'
    BY <2>1 DEF SchedulesInv, SchedulesTypeOK, PanelInv, TurnInv, RunsInv, IsDue, IsDueAt, Minute
  <2> QED BY <1>1, <1>2, <2>1, <2>2 DEF RunStep, EffectStep, TurnIsOver
<1> QED BY <1>3, <1>4, <1>5, <1>6, <1>7 DEF SchedulesNext

LEMMA SchedulesHold ==
    SchedulesSpec => []SchedulesInv
<1>1. SchedulesInv /\ [SchedulesNext]_schedulesVars => SchedulesInv'
  BY SchedulesStep
<1> QED BY <1>1, SchedulesStart, PTL DEF SchedulesSpec

(* Tables and turn keep their types: what is still to run is still there.   *)
THEOREM SchedulesTypeCorrect ==
    SchedulesSpec => []SchedulesTypeOK
<1>1. SchedulesInv => SchedulesTypeOK
  BY DEF SchedulesInv
<1> QED BY <1>1, SchedulesHold, PTL

(* A schedule that was there when its minute began, and that neither an     *)
(* edit nor a restart touched, runs in it; and no schedule runs twice.      *)
THEOREM SchedulesRunOnce ==
    SchedulesSpec => DueRunsOnce
<1>1. SchedulesInv /\ [SchedulesNext]_schedulesVars =>
         [/\ \A s \in Ids : runs'[s] <= 1
          /\ half' \div 2 # Minute => \A s \in watched : runs[s] = 1]_schedulesVars
  BY SchedulesStep DEF RunStep
<1> QED BY <1>1, SchedulesHold, PTL DEF SchedulesSpec, DueRunsOnce

(* A turn of the runner's timer leaves the panel in the mode of the last    *)
(* schedule it ran, or on its way there, or in the alarm it found.          *)
THEOREM SchedulesTakeEffect ==
    SchedulesSpec => ScheduleTakesEffect
<1>1. SchedulesInv /\ [SchedulesNext]_schedulesVars =>
         [~TurnIsOver /\ TurnIsOver' /\ last' # NoOne
            => \/ mode \in Alarms /\ UNCHANGED panelVars
               \/ /\ mode' \in {schedules[last'].mode, "arming"}
                  /\ armedMode' = IF mode' = "disarmed" THEN "none"
                                  ELSE schedules[last'].mode]_schedulesVars
  BY SchedulesStep DEF EffectStep
<1> QED BY <1>1, SchedulesHold, PTL DEF SchedulesSpec, ScheduleTakesEffect
=============================================================================
