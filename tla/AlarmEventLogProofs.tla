------------------------- MODULE AlarmEventLogProofs -------------------------
(***************************************************************************)
(* Facts about the operators of AlarmEventLog, for every log.  They are    *)
(* stated once here and cited by the proofs about AlarmEvents and Panel.   *)
(***************************************************************************)
EXTENDS AlarmEventLog, SequenceTheorems, FiniteSetTheorems, TLAPS

(* A log whose rows were rewritten in place is a log of the same length. *)
LEMMA RewriteIsLog ==
    ASSUME NEW l \in Seq(Rows), NEW f,
           f = [i \in DOMAIN l |-> f[i]],
           \A i \in DOMAIN l : f[i] \in Rows
    PROVE  f \in Seq(Rows) /\ Len(f) = Len(l) /\ DOMAIN f = DOMAIN l
<1>1. Len(l) \in Nat /\ DOMAIN l = 1 .. Len(l)
  BY LenProperties
<1>2. f \in [1 .. Len(l) -> Rows]
  BY <1>1
<1>3. f \in Seq(Rows)
  BY <1>1, <1>2, SeqDef
<1>4. Len(f) = Len(l)
  BY <1>1, <1>2, <1>3, LenProperties
<1> QED
  BY <1>1, <1>2, <1>3, <1>4

(* Every operation yields a log of rows, and only Opened makes it longer. *)
LEMMA NewRowType ==
    ASSUME NEW kind \in Kinds, NEW device \in Devices \cup {NoDevice}
    PROVE  NewRow(kind, device) \in Rows
BY EventLogAssumption DEF NewRow, Rows, InitialDispatch, Cancellable, SoundsSiren, Kinds

LEMMA OpenedType ==
    ASSUME NEW l \in Seq(Rows), NEW kind \in Kinds, NEW device \in Devices \cup {NoDevice}
    PROVE  /\ Opened(l, kind, device) \in Seq(Rows)
           /\ Len(Opened(l, kind, device)) = Len(l) + 1
           /\ DOMAIN Opened(l, kind, device) = DOMAIN l \cup {Len(l) + 1}
           /\ Len(l) + 1 \notin DOMAIN l
           /\ \A i \in DOMAIN l : Opened(l, kind, device)[i] = l[i]
           /\ Opened(l, kind, device)[Len(l) + 1] = NewRow(kind, device)
<1>1. NewRow(kind, device) \in Rows
  BY NewRowType
<1>2. Len(l) \in Nat /\ DOMAIN l = 1 .. Len(l)
  BY LenProperties
<1> DEFINE m == Append(l, NewRow(kind, device))
<1>3. /\ m \in Seq(Rows)
      /\ Len(m) = Len(l) + 1
      /\ \A i \in 1 .. Len(l) : m[i] = l[i]
      /\ m[Len(l) + 1] = NewRow(kind, device)
  BY <1>1, AppendProperties
<1>4. DOMAIN m = 1 .. Len(m)
  BY <1>3, LenProperties
<1>5. DOMAIN m = DOMAIN l \cup {Len(l) + 1}
  BY <1>2, <1>3, <1>4
<1> HIDE DEF m
<1>6. Opened(l, kind, device) = m
  BY DEF Opened, m
<1> QED
  BY <1>2, <1>3, <1>5, <1>6

LEMMA EndedRowType ==
    ASSUME NEW row \in Rows
    PROVE  /\ EndedRow(row) \in Rows
           /\ EndedRow(row).ended
           /\ EndedRow(row).dispatch # "held"
           /\ EndedRow(row).siren \notin {"sounding", "silenced"}
           /\ row.dispatch # "held" => EndedRow(row).dispatch = row.dispatch
BY DEF EndedRow, Rows, SirenOnEnd, Cancellable

LEMMA ClosedType ==
    ASSUME NEW l \in Seq(Rows), NEW S
    PROVE  /\ Closed(l, S) \in Seq(Rows)
           /\ Len(Closed(l, S)) = Len(l)
           /\ DOMAIN Closed(l, S) = DOMAIN l
           /\ \A i \in DOMAIN l :
                Closed(l, S)[i] = IF i \in S THEN EndedRow(l[i]) ELSE l[i]
<1> DEFINE f == Closed(l, S)
<1>1. \A i \in DOMAIN l : l[i] \in Rows
  BY ElementOfSeq, LenProperties
<1>2. f = [i \in DOMAIN l |-> IF i \in S THEN EndedRow(l[i]) ELSE l[i]]
  BY DEF Closed
<1>3. \A i \in DOMAIN l : f[i] \in Rows
  BY <1>1, <1>2, EndedRowType
<1>4. f = [i \in DOMAIN l |-> f[i]]
  BY <1>2
<1> HIDE DEF f
<1>5. f \in Seq(Rows) /\ Len(f) = Len(l) /\ DOMAIN f = DOMAIN l
  BY <1>3, <1>4, RewriteIsLog
<1>6. \A i \in DOMAIN l : f[i] = IF i \in S THEN EndedRow(l[i]) ELSE l[i]
  BY <1>2
<1> QED
  BY <1>5, <1>6 DEF f

LEMMA MoveSoundingType ==
    ASSUME NEW l \in Seq(Rows), NEW next \in {"silenced", "timed_out"}
    PROVE  /\ MoveSounding(l, next) \in Seq(Rows)
           /\ Len(MoveSounding(l, next)) = Len(l)
           /\ DOMAIN MoveSounding(l, next) = DOMAIN l
           /\ \A i \in DOMAIN l :
                MoveSounding(l, next)[i] = IF i \in Sounding(l)
                                           THEN [l[i] EXCEPT !.siren = next] ELSE l[i]
<1> DEFINE f == MoveSounding(l, next)
<1>1. \A i \in DOMAIN l : l[i] \in Rows
  BY ElementOfSeq, LenProperties
<1>2. f = [i \in DOMAIN l |-> IF i \in Sounding(l) THEN [l[i] EXCEPT !.siren = next] ELSE l[i]]
  BY DEF MoveSounding
<1>3. \A row \in Rows : [row EXCEPT !.siren = next] \in Rows
  BY DEF Rows
<1>4. \A i \in DOMAIN l : f[i] \in Rows
  BY <1>1, <1>2, <1>3
<1>5. f = [i \in DOMAIN l |-> f[i]]
  BY <1>2
<1> HIDE DEF f
<1>6. f \in Seq(Rows) /\ Len(f) = Len(l) /\ DOMAIN f = DOMAIN l
  BY <1>4, <1>5, RewriteIsLog
<1>7. \A i \in DOMAIN l : f[i] = IF i \in Sounding(l)
                                 THEN [l[i] EXCEPT !.siren = next] ELSE l[i]
  BY <1>2
<1> QED
  BY <1>6, <1>7 DEF f

LEMMA ReleasedType ==
    ASSUME NEW l \in Seq(Rows), NEW k \in DOMAIN l
    PROVE  /\ Released(l, k) \in Seq(Rows)
           /\ Len(Released(l, k)) = Len(l)
           /\ DOMAIN Released(l, k) = DOMAIN l
           /\ \A i \in DOMAIN l :
                Released(l, k)[i] = IF i = k /\ l[i].dispatch = "held"
                                    THEN [l[i] EXCEPT !.dispatch = "queued"] ELSE l[i]
<1> DEFINE f == Released(l, k)
<1>1. \A i \in DOMAIN l : l[i] \in Rows
  BY ElementOfSeq, LenProperties
<1>2. DOMAIN l = 1 .. Len(l) /\ Len(l) \in Nat
  BY LenProperties
<1>3. \A i \in DOMAIN l : f[i] = IF i = k /\ l[i].dispatch = "held"
                                 THEN [l[i] EXCEPT !.dispatch = "queued"] ELSE l[i]
  BY DEF Released
<1>4. \A row \in Rows : [row EXCEPT !.dispatch = "queued"] \in Rows
  BY DEF Rows
<1>5. \A i \in DOMAIN l : f[i] \in Rows
  BY <1>1, <1>3, <1>4
<1>6. l = [i \in DOMAIN l |-> l[i]]
  BY <1>2, LenProperties
<1>7. f = [i \in DOMAIN l |-> f[i]]
  BY <1>6 DEF Released
<1> HIDE DEF f
<1>8. f \in Seq(Rows) /\ Len(f) = Len(l) /\ DOMAIN f = DOMAIN l
  BY <1>5, <1>7, RewriteIsLog
<1> QED
  BY <1>3, <1>8 DEF f

LEMMA ResumedLogType ==
    ASSUME NEW l \in Seq(Rows)
    PROVE  /\ ResumedLog(l) \in Seq(Rows)
           /\ Len(ResumedLog(l)) = Len(l)
           /\ DOMAIN ResumedLog(l) = DOMAIN l
           /\ \A i \in DOMAIN l :
                ResumedLog(l)[i] = IF i \in Sounding(l) /\ l[i].age >= SirenDuration
                                   THEN [l[i] EXCEPT !.siren = "timed_out"] ELSE l[i]
<1> DEFINE f == ResumedLog(l)
<1>1. \A i \in DOMAIN l : l[i] \in Rows
  BY ElementOfSeq, LenProperties
<1>2. f = [i \in DOMAIN l |-> IF i \in Sounding(l) /\ l[i].age >= SirenDuration
                              THEN [l[i] EXCEPT !.siren = "timed_out"] ELSE l[i]]
  BY DEF ResumedLog
<1>3. \A row \in Rows : [row EXCEPT !.siren = "timed_out"] \in Rows
  BY DEF Rows
<1>4. \A i \in DOMAIN l : f[i] \in Rows
  BY <1>1, <1>2, <1>3
<1>5. f = [i \in DOMAIN l |-> f[i]]
  BY <1>2
<1> HIDE DEF f
<1>6. f \in Seq(Rows) /\ Len(f) = Len(l) /\ DOMAIN f = DOMAIN l
  BY <1>4, <1>5, RewriteIsLog
<1>7. \A i \in DOMAIN l : f[i] = IF i \in Sounding(l) /\ l[i].age >= SirenDuration
                                 THEN [l[i] EXCEPT !.siren = "timed_out"] ELSE l[i]
  BY <1>2
<1> QED
  BY <1>6, <1>7 DEF f

LEMMA AgedType ==
    ASSUME NEW l \in Seq(Rows)
    PROVE  /\ Aged(l) \in Seq(Rows)
           /\ Len(Aged(l)) = Len(l)
           /\ DOMAIN Aged(l) = DOMAIN l
           /\ \A i \in DOMAIN l : /\ Aged(l)[i].dispatch = l[i].dispatch
                                  /\ Aged(l)[i].siren = l[i].siren
                                  /\ Aged(l)[i].ended = l[i].ended
                                  /\ Aged(l)[i].kind = l[i].kind
                                  /\ l[i].dispatch # "held" /\ l[i].siren # "sounding"
                                        => Aged(l)[i] = l[i]
<1> DEFINE older(row) == IF row.siren = "sounding" THEN Older(row.age, SirenDuration) ELSE row.age
           less(row)  == IF row.dispatch = "held" THEN Less(row.releaseIn) ELSE row.releaseIn
           aged(row)  == [row EXCEPT !.age = older(row), !.releaseIn = less(row)]
           f == Aged(l)
<1>1. \A i \in DOMAIN l : l[i] \in Rows
  BY ElementOfSeq, LenProperties
<1>2. f = [i \in DOMAIN l |-> aged(l[i])]
  BY DEF Aged
<1>3. ASSUME NEW row \in Rows
      PROVE  /\ aged(row) \in Rows
             /\ aged(row).dispatch = row.dispatch
             /\ aged(row).siren = row.siren
             /\ aged(row).ended = row.ended
             /\ aged(row).kind = row.kind
             /\ row.dispatch # "held" /\ row.siren # "sounding" => aged(row) = row
  <2>1. row.age \in 0 .. SirenDuration /\ row.releaseIn \in 0 .. CancelWindow
    BY DEF Rows
  <2>2. older(row) \in 0 .. SirenDuration /\ less(row) \in 0 .. CancelWindow
    BY <2>1, EventLogAssumption DEF Older, Less
  <2>3. row.dispatch # "held" /\ row.siren # "sounding"
            => older(row) = row.age /\ less(row) = row.releaseIn
    OBVIOUS
  <2> HIDE DEF older, less
  <2> QED
    BY <2>2, <2>3 DEF Rows
<1> HIDE DEF aged
<1>4. \A i \in DOMAIN l : f[i] \in Rows
  BY <1>1, <1>2, <1>3
<1>5. f = [i \in DOMAIN l |-> f[i]]
  BY <1>2
<1>6. \A i \in DOMAIN l : /\ f[i].dispatch = l[i].dispatch
                          /\ f[i].siren = l[i].siren
                          /\ f[i].ended = l[i].ended
                          /\ f[i].kind = l[i].kind
                          /\ l[i].dispatch # "held" /\ l[i].siren # "sounding" => f[i] = l[i]
  BY <1>1, <1>2, <1>3
<1> HIDE DEF f
<1>7. f \in Seq(Rows) /\ Len(f) = Len(l) /\ DOMAIN f = DOMAIN l
  BY <1>4, <1>5, RewriteIsLog
<1> QED
  BY <1>6, <1>7 DEF f

(* As long as there are no more events than list() returns, it returns all *)
(* that are open.                                                          *)
LEMMA EveryOpenIsListed ==
    ASSUME NEW l \in Seq(Rows), Len(l) <= ListLimit
    PROVE  Listed(l) = Active(l)
<1>1. Len(l) \in Nat /\ DOMAIN l = 1 .. Len(l)
    BY LenProperties
<1>2. ASSUME NEW i \in Active(l)
      PROVE  Cardinality({j \in Active(l) : j > i}) < ListLimit
  <2> DEFINE newer == {j \in Active(l) : j > i}
  <2>1. i \in 1 .. Len(l) /\ newer \subseteq i + 1 .. Len(l)
      BY <1>1 DEF Active
  <2>2. /\ IsFiniteSet(i + 1 .. Len(l))
        /\ Cardinality(i + 1 .. Len(l)) = IF i + 1 > Len(l) THEN 0 ELSE Len(l) - (i + 1) + 1
    <3>1. i + 1 \in Int /\ Len(l) \in Int
        BY <1>1, <2>1
    <3> QED BY <3>1, FS_Interval
  <2>3. Cardinality(newer) \in Nat /\ Cardinality(newer) <= Cardinality(i + 1 .. Len(l))
      BY <2>1, <2>2, FS_Subset, FS_CardinalityType
  <2> QED BY <1>1, <2>1, <2>2, <2>3, EventLogAssumption
<1> QED BY <1>2 DEF Listed
=============================================================================
