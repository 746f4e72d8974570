----------------------------- MODULE LockProofs -----------------------------
(***************************************************************************)
(* The locks, for any number of locks, slots, users, clients and commands, *)
(* whatever is lost, refused or cut off.                                   *)
(*                                                                         *)
(* The codes on them.  Two invariants carry the four properties: no row    *)
(* claims, no bit field hides and no request has its hand on a slot whose  *)
(* local code is in sight; and on a lock that only one request works on,   *)
(* what the request remembers agrees with the table and with the lock.     *)
(*                                                                         *)
(* The automation.  A bolt that a mode still asks for is there already, or *)
(* a command under way moves it there or is followed by one that does, and *)
(* no command moves it anywhere else; and what the automation remembers to *)
(* skip fits the mode the panel is heading for.                            *)
(***************************************************************************)
EXTENDS LockCodes, LockAutomation, WellFoundedInduction, SequenceTheorems, TLAPS

LEMMA LeastIs ==
    ASSUME NEW S \in SUBSET Nat, S # {}
    PROVE  Min(S) \in S /\ \A x \in S : Min(S) <= x
<1>1. PICK x \in S : \A y \in S : <<y, x>> \notin OpToRel(<, Nat)
  BY NatLessThanWellFounded, WFMin
<1>2. \A y \in S : ~(y < x)
  BY <1>1 DEF OpToRel
<1>3. \A y \in S : x <= y
  <2>1. x \in Nat /\ \A y \in S : y \in Nat
    OBVIOUS
  <2> QED BY <1>2, <2>1
<1> QED BY <1>3 DEF Min

LEMMA GreatestIs ==
    ASSUME NEW n \in Nat, NEW S \in SUBSET (0 .. n), S # {}
    PROVE  Max(S) \in S
<1> DEFINE R == {n - x : x \in S}
<1>1. R \in SUBSET Nat /\ R # {}
  <2>1. \A x \in S : x \in 0 .. n
    OBVIOUS
  <2>2. \A x \in 0 .. n : n - x \in Nat
    OBVIOUS
  <2>3. \A x \in S : n - x \in Nat /\ n - x \in R
    BY <2>1, <2>2
  <2>4. R \subseteq Nat
    BY <2>3
  <2> QED BY <2>3, <2>4
<1>2. Min(R) \in R /\ \A r \in R : Min(R) <= r
  BY <1>1, LeastIs
<1>3. PICK x \in S : Min(R) = n - x
  BY <1>2
<1>4. ASSUME NEW y \in S
      PROVE  x >= y
  <2>1. n - x <= n - y
    BY <1>2, <1>3
  <2> QED BY <2>1
<1> QED BY <1>4 DEF Max

-----------------------------------------------------------------------------
Clears == {"clear", "delete", "sweep"}

(* What the steps of a request leave in its record. *)
Shape(j) ==
    /\ j \in Job
    /\ j.at \in {"list", "set"} => j.op = "push"
    /\ j.at = "clear" => j.op \in Clears
    /\ j.at \in {"bits", "wipe"} => j.op = "unenroll"
    /\ j.at \in {"next", "report"} => j.op \in Clears \cup {"push"}
    /\ j.at \in {"list", "set", "clear", "report", "bits", "wipe"} => j.lock \in Locks
    /\ j.at \in {"set", "clear", "report"} => j.slot \in Slots
    /\ j.op \in Clears \cup {"push"} => j.user \in Users
    /\ j.op \in Clears =>
          /\ \A t \in j.todo : t[2] \in Slots
          /\ j.at \in {"clear", "report"} => \A t \in j.todo : t[1] # j.lock
          /\ \A t, v \in j.todo : t[1] = v[1] => t = v

(* Of the cells in cs, local codes in sight: a request has none in hand, or *)
(* in store, unless it is still to be asked for.                            *)
LocalsLeft(j, cs) ==
    /\ j.at = "list" => \A s \in j.free : <<j.lock, s>> \in cs => s \in j.unread
    /\ j.at \in {"set", "clear", "report"} => <<j.lock, j.slot>> \notin cs
    /\ j.op \in Clears => \A t \in j.todo : <<t[1], t[2]>> \notin cs

RowsNotLocal(rw, cs) == \A p \in DOMAIN rw : <<p[1], rw[p].slot>> \notin cs

BitsShowLocal(b, cs) ==
    \A l \in DOMAIN b : \A s \in Slots : <<l, s>> \in cs => s \in b[l]

(* On a lock no two requests worked on: the slot being set is no one        *)
(* else's, the slot being cleared is the one of the row, and after the      *)
(* answer the lock holds what was sent.                                     *)
Own(j, rw, h, rc) ==
    /\ j.lock \notin rc =>
          /\ j.at = "list" =>
                \A p \in DOMAIN rw : p[1] = j.lock => rw[p].slot \notin j.free
          /\ j.op = "push" /\ j.at \in {"set", "report"} =>
                \A p \in DOMAIN rw : p[1] = j.lock /\ rw[p].slot = j.slot => p[2] = j.user
          /\ j.op = "push" /\ j.at = "report" => h[j.lock, j.slot] = j.user
          /\ j.op \in Clears /\ j.at = "report" => h[j.lock, j.slot] \in {Nobody, Local}
          /\ j.op \in Clears /\ j.at \in {"clear", "report"} =>
                \A p \in DOMAIN rw : p[1] = j.lock /\ p[2] = j.user => rw[p].slot = j.slot
    /\ j.op \in Clears =>
          \A t \in j.todo : \A p \in DOMAIN rw :
             t[1] \notin rc /\ p[1] = t[1] /\ p[2] = j.user => rw[p].slot = t[2]

Attributes(rw, h, rc) ==
    \A p \in DOMAIN rw : rw[p].status = "synced" /\ p[1] \notin rc
        => h[p[1], rw[p].slot] \in {p[2], Nobody, Local}

TablesOK ==
    /\ users \subseteq Users
    /\ gone \subseteq Users \ users
    /\ DOMAIN rows \subseteq Locks \X users
    /\ \A p \in DOMAIN rows : rows[p] \in [slot : Slots, status : {"synced", "failed"}]
    /\ \A p, q \in DOMAIN rows : p[1] = q[1] /\ rows[p].slot = rows[q].slot => p = q

NodesOK ==
    /\ enrolled \subseteq Locks
    /\ paired \subseteq Locks
    /\ known \subseteq paired
    /\ DOMAIN bits \subseteq known
    /\ \A l \in DOMAIN bits : bits[l] \subseteq Slots

HeldOK == held \in [Locks \X Slots -> Users \cup {Nobody, Local}]

SeenOK == seen \subseteq {c \in Locks \X Slots : held[c] = Local}

IInv ==
    /\ TablesOK /\ NodesOK /\ HeldOK
    /\ jobs \in [Callers -> Job]
    /\ raced \subseteq Locks
    /\ SeenOK
    /\ RowsNotLocal(rows, seen)
    /\ BitsShowLocal(bits, seen)
    /\ Contended(jobs) \subseteq raced
    /\ Attributes(rows, held, raced)
    /\ \A r \in Callers : /\ Shape(jobs[r])
                          /\ LocalsLeft(jobs[r], seen)
                          /\ Own(jobs[r], rows, held, raced)

-----------------------------------------------------------------------------
LEMMA NamesDiffer ==
    /\ Nobody # Local
    /\ Nobody \notin Users /\ Local \notin Users
    /\ Sweeper \in Callers
BY LockCodesAssumption DEF Nobody, Local, Callers

LEMMA MinIs ==
    ASSUME NEW S \in SUBSET Slots, S # {}
    PROVE  Min(S) \in S
<1>1. S \in SUBSET Nat
  BY LockCodesAssumption DEF Slots
<1> QED BY <1>1, LeastIs

LEMMA IdleIs ==
    /\ Shape(Idle)
    /\ \A cs : LocalsLeft(Idle, cs)
    /\ \A rw, h, rc : Own(Idle, rw, h, rc)
    /\ Idle.at = "idle" /\ Idle.op = "none"
BY DEF Idle, Shape, Job, LocalsLeft, Own, Clears

(* On to the next lock. *)
LEMMA NextLockIs ==
    ASSUME NEW j, Shape(j), j.op \in Clears \cup {"push"}
    PROVE  /\ Shape(NextLock(j))
           /\ NextLock(j).at = "next" /\ NextLock(j).op = j.op
           /\ NextLock(j).user = j.user /\ NextLock(j).todo = j.todo
           /\ NextLock(j).lock = Nobody
<1>1. /\ NextLock(j).at = "next" /\ NextLock(j).op = j.op
      /\ NextLock(j).user = j.user /\ NextLock(j).todo = j.todo
      /\ NextLock(j).lock = Nobody
  BY DEF NextLock, Idle
<1>2. /\ j.op \in {"none", "push", "clear", "delete", "sweep", "unenroll"}
      /\ j.user \in Users \cup {Nobody} /\ j.todo \in SUBSET (Locks \X (Slots \cup {0}))
  BY DEF Shape, Job
<1>3. NextLock(j) \in Job
  <2>1. Idle \in Job
    BY IdleIs DEF Shape
  <2> QED BY <1>2, <2>1 DEF NextLock, Job
<1> QED BY <1>1, <1>3 DEF Shape

-----------------------------------------------------------------------------
(* What the others do to a lock a request does not work on: rows may go.    *)
Quiet(l, rw, h, rw2, h2) ==
    /\ \A s \in Slots : h2[l, s] = h[l, s]
    /\ \A p \in DOMAIN rw2 : p[1] = l => p \in DOMAIN rw /\ rw2[p] = rw[p]

LEMMA OwnStays ==
    ASSUME NEW j, Shape(j), NEW rw, NEW h, NEW rc, NEW rw2, NEW h2, NEW rc2,
           Own(j, rw, h, rc), rc \subseteq rc2,
           \A l \in WorksOn(j) : l \notin rc2 => Quiet(l, rw, h, rw2, h2)
    PROVE  Own(j, rw2, h2, rc2)
<1>1. ASSUME j.lock \notin rc2, j.lock \in Locks
      PROVE  Quiet(j.lock, rw, h, rw2, h2) /\ j.lock \notin rc
  BY <1>1 DEF WorksOn
<1>2. ASSUME NEW t \in j.todo, t[1] \notin rc2, j.op \in Clears
      PROVE  Quiet(t[1], rw, h, rw2, h2) /\ t[1] \notin rc
  <2>1. t[1] \in Locks
    BY DEF Shape, Job
  <2> QED BY <1>2, <2>1 DEF WorksOn
<1>3. ASSUME j.lock \notin rc2, j.at \in {"list", "set", "clear", "report"}
      PROVE  /\ j.at = "list" =>
                   \A p \in DOMAIN rw2 : p[1] = j.lock => rw2[p].slot \notin j.free
             /\ j.op = "push" /\ j.at \in {"set", "report"} =>
                   \A p \in DOMAIN rw2 : p[1] = j.lock /\ rw2[p].slot = j.slot => p[2] = j.user
             /\ j.op = "push" /\ j.at = "report" => h2[j.lock, j.slot] = j.user
             /\ j.op \in Clears /\ j.at = "report" => h2[j.lock, j.slot] \in {Nobody, Local}
             /\ j.op \in Clears /\ j.at \in {"clear", "report"} =>
                   \A p \in DOMAIN rw2 : p[1] = j.lock /\ p[2] = j.user => rw2[p].slot = j.slot
  <2>1. j.lock \in Locks /\ (j.at # "list" => j.slot \in Slots)
    BY <1>3 DEF Shape
  <2>2. /\ j.lock \notin rc
        /\ \A p \in DOMAIN rw2 : p[1] = j.lock => p \in DOMAIN rw /\ rw2[p] = rw[p]
        /\ j.at # "list" => h2[j.lock, j.slot] = h[j.lock, j.slot]
    BY <1>1, <1>3, <2>1 DEF Quiet
  <2> QED BY <1>3, <2>2 DEF Own
<1>4. ASSUME j.op \in Clears, NEW t \in j.todo, NEW p \in DOMAIN rw2,
             t[1] \notin rc2, p[1] = t[1], p[2] = j.user
      PROVE  rw2[p].slot = t[2]
  <2>1. p \in DOMAIN rw /\ rw2[p] = rw[p] /\ t[1] \notin rc
    BY <1>2, <1>4 DEF Quiet
  <2> QED BY <1>4, <2>1 DEF Own
<1> QED BY <1>3, <1>4 DEF Own

(* A write of one slot: of a code over no one else's, or of none. *)
LEMMA WriteAttributes ==
    ASSUME NEW rw, NEW h \in [Locks \X Slots -> Users \cup {Nobody, Local}], NEW rc,
           Attributes(rw, h, rc),
           DOMAIN rw \subseteq Locks \X Users, \A p \in DOMAIN rw : rw[p].slot \in Slots,
           NEW l \in Locks, NEW s \in Slots, NEW c,
           \/ c = Nobody
           \/ l \notin rc => \A p \in DOMAIN rw : p[1] = l /\ rw[p].slot = s => p[2] = c
    PROVE  Attributes(rw, [h EXCEPT ![<<l, s>>] = c], rc)
<1> SUFFICES ASSUME NEW p \in DOMAIN rw, rw[p].status = "synced", p[1] \notin rc
             PROVE  [h EXCEPT ![<<l, s>>] = c][p[1], rw[p].slot] \in {p[2], Nobody, Local}
  BY DEF Attributes
<1>1. p[1] \in Locks /\ rw[p].slot \in Slots /\ h[p[1], rw[p].slot] \in {p[2], Nobody, Local}
  BY DEF Attributes
<1>2. CASE p[1] = l /\ rw[p].slot = s
  BY <1>1, <1>2
<1>3. CASE ~(p[1] = l /\ rw[p].slot = s)
  BY <1>1, <1>3
<1> QED BY <1>2, <1>3

-----------------------------------------------------------------------------
(* One turn of a request.  Its own record and its own locks are what a step *)
(* must account for; everyone else's stay as they are.                      *)
Fewer(rw, rw2) == \A p \in DOMAIN rw2 : p \in DOMAIN rw /\ rw2[p] = rw[p]

LEMMA FewerHolds ==
    ASSUME NEW rw, NEW rw2, NEW h, NEW rc, Fewer(rw, rw2)
    PROVE  /\ \A cs : RowsNotLocal(rw, cs) => RowsNotLocal(rw2, cs)
           /\ Attributes(rw, h, rc) => Attributes(rw2, h, rc)
           /\ \A l : Quiet(l, rw, h, rw2, h)
BY DEF Fewer, RowsNotLocal, Attributes, Quiet

LEMMA JobIs ==
    ASSUME IInv, NEW r \in Callers
    PROVE  /\ jobs[r] \in Job /\ Shape(jobs[r])
           /\ LocalsLeft(jobs[r], seen) /\ Own(jobs[r], rows, held, raced)
BY DEF IInv

(* What a step shows of the codes in sight before it is true of those in    *)
(* sight after it: a code that comes in sight is shown by the bit field,    *)
(* claimed by no row, and at a lock nobody works on.                        *)
LEMMA SeenHolds ==
    ASSUME seen' = SeenAfter, RowsNotLocal(rows', seen), BitsShowLocal(bits', seen),
           \A q \in Callers : Shape(jobs'[q]) /\ LocalsLeft(jobs'[q], seen)
    PROVE  /\ SeenOK' /\ RowsNotLocal(rows', seen') /\ BitsShowLocal(bits', seen')
           /\ \A q \in Callers : LocalsLeft(jobs'[q], seen')
<1>1. \A c \in seen' : c \in seen \/
         /\ c[1] \in DOMAIN bits' => c[2] \in bits'[c[1]]
         /\ \A p \in DOMAIN rows' : <<p[1], rows'[p].slot>> # c
         /\ \A r \in Callers : c[1] \notin WorksOn(jobs'[r])
  BY DEF SeenAfter, InSight
<1>2. SeenOK'
  BY DEF SeenOK, SeenAfter
<1>3. RowsNotLocal(rows', seen') /\ BitsShowLocal(bits', seen')
  BY <1>1 DEF RowsNotLocal, BitsShowLocal
<1>4. ASSUME NEW q \in Callers
      PROVE  LocalsLeft(jobs'[q], seen')
  <2> DEFINE j == jobs'[q]
  <2>1. Shape(j) /\ LocalsLeft(j, seen)
    OBVIOUS
  <2>2. \A c \in seen' : c[1] \in WorksOn(j) => c \in seen
    BY <1>1
  <2> HIDE DEF j
  <2>3. j.at \in {"list", "set", "clear", "report"} => j.lock \in WorksOn(j)
    BY <2>1 DEF Shape, WorksOn
  <2>4. \A t \in j.todo : t[1] \in WorksOn(j)
    BY <2>1 DEF Shape, Job, WorksOn
  <2>5. \A l, x : l \in WorksOn(j) /\ <<l, x>> \in seen' => <<l, x>> \in seen
    BY <2>2
  <2>6. LocalsLeft(j, seen')
    BY <2>1, <2>3, <2>4, <2>5 DEF LocalsLeft
  <2> QED BY <2>6 DEF j
<1> QED BY <1>2, <1>3, <1>4

LEMMA TurnHolds ==
    ASSUME IInv, NEW r \in Callers, NEW k, jobs' = [jobs EXCEPT ![r] = k],
           raced' = raced \cup Contended(jobs'), seen' = SeenAfter,
           TablesOK', NodesOK', HeldOK',
           Shape(k), LocalsLeft(k, seen), Own(k, rows', held', raced),
           RowsNotLocal(rows', seen), BitsShowLocal(bits', seen),
           Attributes(rows', held', raced),
           \A l \in Locks \ WorksOn(jobs[r]) : Quiet(l, rows, held, rows', held')
    PROVE  IInv'
<1>1. jobs \in [Callers -> Job] /\ k \in Job
  BY DEF IInv, Shape
<1>2. /\ jobs' \in [Callers -> Job] /\ jobs'[r] = k
      /\ \A q \in Callers \ {r} : jobs'[q] = jobs[q]
  BY <1>1
<1>3. raced' \subseteq Locks /\ raced \subseteq raced' /\ Contended(jobs') \subseteq raced'
  BY DEF IInv, Contended
<1>4. Attributes(rows', held', raced')
  BY <1>3 DEF Attributes
<1>5. ASSUME NEW q \in Callers \ {r}
      PROVE  /\ Shape(jobs[q]) /\ LocalsLeft(jobs[q], seen)
             /\ Own(jobs[q], rows', held', raced')
  <2>1. Shape(jobs[q]) /\ LocalsLeft(jobs[q], seen) /\ Own(jobs[q], rows, held, raced)
    BY JobIs
  <2>2. \A l \in WorksOn(jobs[q]) : l \notin raced' => Quiet(l, rows, held, rows', held')
    <3> TAKE l \in WorksOn(jobs[q])
    <3> HAVE l \notin raced'
    <3>1. l \in Locks /\ l \notin Contended(jobs)
      BY <1>3 DEF WorksOn, IInv
    <3>2. l \notin WorksOn(jobs[r])
      BY <3>1 DEF Contended
    <3> QED BY <3>1, <3>2
  <2> QED BY <1>3, <2>1, <2>2, OwnStays
<1>6. Own(k, rows', held', raced')
  <2>1. \A l : Quiet(l, rows', held', rows', held')
    BY DEF Quiet
  <2> QED BY <1>3, <2>1, OwnStays
<1>7. \A q \in Callers : /\ Shape(jobs'[q])
                         /\ LocalsLeft(jobs'[q], seen)
                         /\ Own(jobs'[q], rows', held', raced')
  BY <1>2, <1>5, <1>6
<1>8. /\ SeenOK' /\ RowsNotLocal(rows', seen') /\ BitsShowLocal(bits', seen')
      /\ \A q \in Callers : LocalsLeft(jobs'[q], seen')
  BY <1>7, SeenHolds
<1> QED BY <1>2, <1>3, <1>4, <1>7, <1>8 DEF IInv

(* Nothing of a request: the network, the nodes and the table of the locks. *)
LEMMA NodesTurn ==
    ASSUME IInv, UNCHANGED <<jobs, held>>,
           raced' = raced \cup Contended(jobs'), seen' = SeenAfter,
           TablesOK', NodesOK', BitsShowLocal(bits', seen), Fewer(rows, rows')
    PROVE  IInv'
<1>1. raced' \subseteq Locks /\ raced \subseteq raced' /\ Contended(jobs') \subseteq raced'
  BY DEF IInv, Contended
<1>2. /\ RowsNotLocal(rows', seen) /\ Attributes(rows', held, raced)
      /\ \A l : Quiet(l, rows, held, rows', held)
  BY FewerHolds DEF IInv
<1>3. Attributes(rows', held', raced')
  BY <1>1, <1>2 DEF Attributes
<1>4. \A q \in Callers : Own(jobs[q], rows', held', raced')
  BY <1>1, <1>2, JobIs, OwnStays
<1>5. \A q \in Callers : Shape(jobs'[q]) /\ LocalsLeft(jobs'[q], seen)
  BY JobIs
<1>6. /\ SeenOK' /\ RowsNotLocal(rows', seen') /\ BitsShowLocal(bits', seen')
      /\ \A q \in Callers : LocalsLeft(jobs'[q], seen')
  BY <1>2, <1>5, SeenHolds
<1> QED BY <1>1, <1>3, <1>4, <1>5, <1>6 DEF IInv, HeldOK

-----------------------------------------------------------------------------
(* The tables. *)
LEMMA RowsGone ==
    ASSUME TablesOK, NEW lost, rows' = Without(lost), UNCHANGED <<users, gone>>
    PROVE  TablesOK' /\ Fewer(rows, rows')
<1>1. DOMAIN rows' = DOMAIN rows \ lost /\ Fewer(rows, rows')
  BY DEF Without, Fewer
<1> QED BY <1>1 DEF TablesOK, Fewer

LEMMA UserGone ==
    ASSUME TablesOK, NEW u, RemoveUser(u)
    PROVE  TablesOK' /\ Fewer(rows, rows')
<1>1. /\ DOMAIN rows' = DOMAIN rows \ RowsOf(u) /\ Fewer(rows, rows')
      /\ users' = users \ {u} /\ gone' = gone \cup ({u} \cap users)
  BY DEF RemoveUser, Without, Fewer
<1>2. DOMAIN rows' \subseteq Locks \X users'
  BY <1>1 DEF RowsOf, TablesOK
<1> QED BY <1>1, <1>2 DEF TablesOK, Fewer

LEMMA Kept ==
    ASSUME TablesOK, KeepTables
    PROVE  TablesOK' /\ Fewer(rows, rows')
BY DEF TablesOK, KeepTables, Fewer

LEMMA RejectTables ==
    ASSUME TablesOK, NEW r, Reject(r)
    PROVE  TablesOK' /\ Fewer(rows, rows') /\ jobs' = [jobs EXCEPT ![r] = Idle]
BY UserGone, Kept DEF Reject, Become

LEMMA UpsertTables ==
    ASSUME TablesOK, NEW j, j.lock \in Locks, j.slot \in Slots, ~Conflicts(j),
           NEW status \in {"synced", "failed"}, rows' = Upserted(j, status),
           UNCHANGED <<users, gone>>
    PROVE  /\ TablesOK'
           /\ \A p \in DOMAIN rows' :
                 \/ /\ p[1] = j.lock /\ p[2] = j.user
                    /\ rows'[p].slot = j.slot /\ rows'[p].status = status
                 \/ p \in DOMAIN rows /\ rows'[p] = rows[p] /\ p # <<j.lock, j.user>>
<1> DEFINE new == <<j.lock, j.user>>
<1>1. /\ DOMAIN rows' = DOMAIN rows \cup {new}
      /\ rows'[new] = [slot |-> j.slot, status |-> status]
      /\ \A p \in DOMAIN rows \ {new} : rows'[p] = rows[p]
  BY DEF Upserted
<1>2. j.user \in users /\ \A p \in DOMAIN rows : p[1] = j.lock /\ p[2] # j.user => rows[p].slot # j.slot
  BY DEF Conflicts
<1>3. new[1] = j.lock /\ new[2] = j.user /\ new \in Locks \X users
  BY <1>2
<1>4. \A p \in DOMAIN rows : p # new /\ p[1] = j.lock => p[2] # j.user
  BY DEF TablesOK
<1>5. \A p, q \in DOMAIN rows' : p[1] = q[1] /\ rows'[p].slot = rows'[q].slot => p = q
  <2> HIDE DEF new
  <2> QED BY <1>1, <1>2, <1>3, <1>4 DEF TablesOK
<1>6. /\ DOMAIN rows' \subseteq Locks \X users'
      /\ \A p \in DOMAIN rows' : rows'[p] \in [slot : Slots, status : {"synced", "failed"}]
  BY <1>1, <1>3 DEF TablesOK
<1>7. TablesOK'
  BY <1>5, <1>6 DEF TablesOK
<1>8. rows'[new].slot = j.slot /\ rows'[new].status = status
  BY <1>1
<1> QED BY <1>1, <1>3, <1>7, <1>8

-----------------------------------------------------------------------------
(* What a step may do to the rows and the slots: the action properties, and *)
(* under them what each action has to show.                                 *)
RecordStep ==
    \A p \in DOMAIN rows \ DOMAIN rows' :
        p[1] \in (known \cap enrolled)' /\ p[2] \in users' /\ p[1] \notin raced'
        => held'[p[1], rows[p].slot] \in {Nobody, Local}

LocalStep ==
    \A c \in seen :
        held'[c] # Local
        => \E r \in Callers : jobs[r].at = "wipe" /\ jobs[r].lock = c[1]

SyncedStep ==
    \A p \in DOMAIN rows' :
        /\ rows'[p].status = "synced"
        /\ p \in DOMAIN rows => rows[p] # rows'[p]
        /\ p[1] \notin raced'
        => held'[p[1], rows'[p].slot] = p[2]

Good == IInv' /\ RecordStep /\ LocalStep /\ SyncedStep

(* A turn that writes no slot and at most loses rows. *)
LEMMA PlainTurn ==
    ASSUME IInv, NEW r \in Callers, NEW k, jobs' = [jobs EXCEPT ![r] = k],
           raced' = raced \cup Contended(jobs'), seen' = SeenAfter,
           TablesOK', Fewer(rows, rows'), NodesOK', held' = held,
           BitsShowLocal(bits', seen),
           Shape(k), LocalsLeft(k, seen), Own(k, rows', held, raced), RecordStep
    PROVE  Good
<1>1. /\ RowsNotLocal(rows', seen) /\ Attributes(rows', held, raced)
      /\ \A l : Quiet(l, rows, held, rows', held)
  BY FewerHolds DEF IInv
<1>2. HeldOK'
  BY DEF IInv, HeldOK
<1>3. IInv'
  BY <1>1, <1>2, TurnHolds
<1>4. LocalStep /\ SyncedStep
  BY DEF IInv, SeenOK, LocalStep, SyncedStep, Fewer
<1> QED BY <1>3, <1>4 DEF Good

LEMMA RowsKept ==
    ASSUME KeepTables
    PROVE  RecordStep
BY DEF KeepTables, RecordStep

LEMMA LocksKept ==
    ASSUME IInv, KeepLocks
    PROVE  NodesOK' /\ held' = held /\ BitsShowLocal(bits', seen)
BY DEF IInv, KeepLocks, NodesOK

(* A turn that only moves the request on. *)
LEMMA MoveTurn ==
    ASSUME IInv, NEW r \in Callers, NEW k, jobs' = [jobs EXCEPT ![r] = k],
           raced' = raced \cup Contended(jobs'), seen' = SeenAfter,
           KeepTables, KeepLocks,
           Shape(k), LocalsLeft(k, seen), Own(k, rows, held, raced)
    PROVE  Good
<1>1. TablesOK' /\ Fewer(rows, rows') /\ RecordStep /\ rows' = rows
  BY Kept, RowsKept DEF IInv, KeepTables
<1> QED BY <1>1, LocksKept, PlainTurn

LEMMA ReadBitsShow ==
    ASSUME IInv, NEW l \in Locks, ReadBits(l), UNCHANGED <<enrolled, paired, known, held>>
    PROVE  NodesOK' /\ BitsShowLocal(bits', seen)
<1>1. \A s \in Slots : <<l, s>> \in seen => s \in Occupied(l)
  BY NamesDiffer DEF Occupied, IInv, SeenOK
<1>2. Occupied(l) \subseteq Slots
  BY DEF Occupied
<1>3. CASE /\ l \in known \cap paired
           /\ bits' = [k \in DOMAIN bits \cup {l} |-> IF k = l THEN Occupied(l) ELSE bits[k]]
  BY <1>1, <1>2, <1>3 DEF IInv, NodesOK, BitsShowLocal
<1>4. CASE bits' = bits
  BY <1>4 DEF IInv, NodesOK
<1> QED BY <1>3, <1>4 DEF ReadBits

-----------------------------------------------------------------------------
(* Requests begin. *)
LEMMA PushHolds ==
    ASSUME IInv, NEW r \in Callers, NEW u \in Users, Push(r, u),
           raced' = raced \cup Contended(jobs'), seen' = SeenAfter
    PROVE  Good
<1> DEFINE k == [Idle EXCEPT !.op = "push", !.at = "next", !.user = u,
                             !.todo = {<<l, 0>> : l \in known \cap enrolled}]
<1>1. jobs' = [jobs EXCEPT ![r] = k]
  BY DEF Push, Start, Become
<1>2. Shape(k) /\ k.op = "push" /\ k.at = "next"
  <2>1. {<<l, 0>> : l \in known \cap enrolled} \in SUBSET (Locks \X (Slots \cup {0}))
    BY DEF IInv, NodesOK
  <2>2. k \in Job /\ k.op = "push" /\ k.at = "next" /\ k.user = u
    <3>1. Idle \in Job
      BY IdleIs DEF Shape
    <3> QED BY <2>1, <3>1 DEF Job, Idle
  <2> HIDE DEF k
  <2> QED BY <2>2 DEF Shape, Clears
<1>3. LocalsLeft(k, seen) /\ Own(k, rows, held, raced)
  <2> HIDE DEF k
  <2> QED BY <1>2 DEF LocalsLeft, Own, Clears
<1>4. TablesOK' /\ Fewer(rows, rows') /\ RecordStep /\ rows' = rows
  <2>1. u \notin gone /\ users' = users \cup {u} /\ UNCHANGED <<gone, rows>>
    BY DEF Push
  <2> QED BY <2>1 DEF IInv, TablesOK, Fewer, RecordStep
<1>5. NodesOK' /\ held' = held /\ BitsShowLocal(bits', seen)
  BY LocksKept DEF Push
<1> QED
  <2> HIDE DEF k
  <2> QED BY <1>1, <1>2, <1>3, <1>4, <1>5, PlainTurn

LEMMA ClearHolds ==
    ASSUME IInv, NEW r \in Callers, NEW u \in Users, NEW op \in Clears, Clear(r, op, u),
           raced' = raced \cup Contended(jobs'), seen' = SeenAfter
    PROVE  Good
<1> DEFINE todo == {<<p[1], rows[p].slot>> : p \in RowsOf(u)}
           k == [Idle EXCEPT !.op = op, !.at = "next", !.user = u, !.todo = todo]
<1>1. jobs' = [jobs EXCEPT ![r] = k] /\ KeepTables /\ KeepLocks
  BY DEF Clear, Start, Become
<1>2. \A t \in todo : \E p \in DOMAIN rows : p = <<t[1], u>> /\ t[2] = rows[p].slot
                                          /\ t = <<p[1], rows[p].slot>>
  BY DEF RowsOf, IInv, TablesOK
<1>3. todo \in SUBSET (Locks \X (Slots \cup {0})) /\ \A t \in todo : t[2] \in Slots
  BY DEF IInv, TablesOK, RowsOf
<1>4. \A t, v \in todo : t[1] = v[1] => t = v
  <2> HIDE DEF todo
  <2> QED BY <1>2
<1>5. /\ \A t \in todo : <<t[1], t[2]>> \notin seen
      /\ \A t \in todo : \A p \in DOMAIN rows : p[1] = t[1] /\ p[2] = u => rows[p].slot = t[2]
  <2>1. \A p \in DOMAIN rows : <<p[1], rows[p].slot>> \notin seen
    BY DEF IInv, RowsNotLocal
  <2>2. \A p \in DOMAIN rows : p = <<p[1], p[2]>>
    BY DEF IInv, TablesOK
  <2> HIDE DEF todo, k
  <2>3. ASSUME NEW t \in todo
        PROVE  <<t[1], t[2]>> \notin seen
    <3>1. PICK p \in DOMAIN rows : p = <<t[1], u>> /\ t[2] = rows[p].slot
      BY <1>2
    <3>2. p[1] = t[1]
      BY <3>1
    <3> QED BY <2>1, <3>1, <3>2
  <2>4. ASSUME NEW t \in todo, NEW p \in DOMAIN rows, p[1] = t[1], p[2] = u
        PROVE  rows[p].slot = t[2]
    <3>1. PICK q \in DOMAIN rows : q = <<t[1], u>> /\ t[2] = rows[q].slot
      BY <1>2
    <3>2. p = q
      BY <2>2, <2>4, <3>1
    <3> QED BY <3>1, <3>2
  <2> QED BY <2>3, <2>4
<1>6. k \in Job /\ k.op = op /\ k.at = "next" /\ k.user = u /\ k.todo = todo /\ k.lock = Nobody
  <2> HIDE DEF todo
  <2>1. Idle \in Job
    BY IdleIs DEF Shape
  <2> QED BY <1>3, <2>1 DEF Job, Idle, Clears
<1>7. Shape(k) /\ LocalsLeft(k, seen) /\ Own(k, rows, held, raced)
  <2> HIDE DEF k, todo
  <2>1. Shape(k)
    BY <1>3, <1>4, <1>6 DEF Shape, Clears
  <2>2. LocalsLeft(k, seen)
    BY <1>5, <1>6 DEF LocalsLeft
  <2>3. Own(k, rows, held, raced)
    BY <1>5, <1>6 DEF Own
  <2> QED BY <2>1, <2>2, <2>3
<1> QED
  <2> HIDE DEF k
  <2> QED BY <1>1, <1>7, MoveTurn

LEMMA UnenrollHolds ==
    ASSUME IInv, NEW r \in Callers, NEW l \in Locks, Unenroll(r, l),
           raced' = raced \cup Contended(jobs'), seen' = SeenAfter
    PROVE  Good
<1> DEFINE k == [Idle EXCEPT !.op = "unenroll", !.at = "bits", !.lock = l]
<1>1. jobs' = [jobs EXCEPT ![r] = k] /\ KeepTables /\ KeepLocks
  BY DEF Unenroll, Become
<1>2. k \in Job /\ k.op = "unenroll" /\ k.at = "bits" /\ k.lock = l
  <2>1. Idle \in Job
    BY IdleIs DEF Shape
  <2> QED BY <2>1 DEF Job, Idle
<1>3. Shape(k) /\ LocalsLeft(k, seen) /\ Own(k, rows, held, raced)
  <2> HIDE DEF k
  <2> QED BY <1>2 DEF Shape, LocalsLeft, Own, Clears
<1> QED
  <2> HIDE DEF k
  <2> QED BY <1>1, <1>3, MoveTurn

-----------------------------------------------------------------------------
(* What most steps of a request are made of: a slot is written, a row is    *)
(* recorded, a row is forgotten, the request goes on to its next lock.      *)
LEMMA CellIs ==
    ASSUME NEW x \in Locks \X Slots
    PROVE  \E l \in Locks, s \in Slots : x = <<l, s>>
<1>1. x[1] \in Locks
  OBVIOUS
<1>2. x[2] \in Slots
  OBVIOUS
<1>3. x = <<x[1], x[2]>>
  OBVIOUS
<1> QED BY <1>1, <1>2, <1>3

LEMMA WrittenIs ==
    ASSUME IInv, NEW j, j.lock \in Locks, j.slot \in Slots, NEW c \in Users \cup {Nobody},
           held' \in {held, Written(j, c)}, bits' = bits,
           <<j.lock, j.slot>> \notin seen \/ \E r \in Callers : jobs[r].at = "wipe" /\ jobs[r].lock = j.lock
    PROVE  /\ HeldOK' /\ BitsShowLocal(bits', seen) /\ LocalStep
           /\ \A l \in Locks, s \in Slots : l # j.lock => held'[l, s] = held[l, s]
<1>1. held \in [Locks \X Slots -> Users \cup {Nobody, Local}] /\ c # Local
  BY NamesDiffer DEF IInv, HeldOK
<1>2. \A l \in Locks, s \in Slots :
         \/ held'[l, s] = held[l, s]
         \/ l = j.lock /\ s = j.slot /\ held'[l, s] = c
  BY <1>1 DEF Written
<1>3. HeldOK'
  BY <1>1 DEF Written, HeldOK
<1>4. BitsShowLocal(bits', seen)
  BY DEF IInv
<1>5. LocalStep
  <2>1. ASSUME NEW x \in seen, held'[x] # Local
        PROVE  \E r \in Callers : jobs[r].at = "wipe" /\ jobs[r].lock = x[1]
    <3>1. x \in Locks \X Slots /\ held[x] = Local
      BY DEF IInv, SeenOK
    <3>2. PICK l \in Locks, s \in Slots : x = <<l, s>>
      BY <3>1, CellIs, Zenon
    <3>3. held'[l, s] # held[l, s] /\ <<l, s>> \in seen /\ x[1] = l
      BY <2>1, <3>1, <3>2
    <3>4. l = j.lock /\ s = j.slot
      BY <1>2, <3>3
    <3> QED BY <3>3, <3>4
  <2> QED BY <2>1 DEF LocalStep
<1> QED BY <1>2, <1>3, <1>4, <1>5

LEMMA NextLockKeeps ==
    ASSUME NEW i, NEW j, Shape(j), j.op \in Clears \cup {"push"},
           i.op = j.op, i.user = j.user, j.todo \subseteq i.todo,
           NEW rw, NEW h, NEW rc, NEW cs, LocalsLeft(i, cs), Own(i, rw, h, rc)
    PROVE  LocalsLeft(NextLock(j), cs) /\ Own(NextLock(j), rw, h, rc)
<1> DEFINE k == NextLock(j)
<1>1. k.at = "next" /\ k.op = i.op /\ k.user = i.user /\ k.todo \subseteq i.todo
  BY NextLockIs
<1> HIDE DEF k
<1>2. LocalsLeft(k, cs)
  BY <1>1 DEF LocalsLeft
<1>3. Own(k, rw, h, rc)
  BY <1>1 DEF Own
<1> QED BY <1>2, <1>3 DEF k

LEMMA SkipHolds ==
    ASSUME IInv, NEW r \in Callers, NEW j, Shape(j), j.op \in Clears \cup {"push"},
           j.op = jobs[r].op, j.user = jobs[r].user, j.todo \subseteq jobs[r].todo,
           Skip(r, j), KeepLocks,
           raced' = raced \cup Contended(jobs'), seen' = SeenAfter
    PROVE  Good
<1>1. Shape(NextLock(j)) /\ LocalsLeft(NextLock(j), seen) /\ Own(NextLock(j), rows, held, raced)
  BY JobIs, NextLockIs, NextLockKeeps
<1> QED BY <1>1, MoveTurn DEF Skip, Become

LEMMA ForgetHolds ==
    ASSUME IInv, NEW r \in Callers, NEW j, Shape(j), j.op \in Clears,
           j.op = jobs[r].op, j.user = jobs[r].user, j.todo \subseteq jobs[r].todo,
           Forget(r, j), held' = held, NodesOK', BitsShowLocal(bits', seen),
           raced' = raced \cup Contended(jobs'), seen' = SeenAfter,
           \/ j.lock \notin (known \cap enrolled)'
           \/ j.lock \notin raced => \A p \in DOMAIN rows : p[1] = j.lock /\ p[2] = j.user
                                          => held[p[1], rows[p].slot] \in {Nobody, Local}
    PROVE  Good
<1> DEFINE k == NextLock(j)
<1>1. Shape(k) /\ LocalsLeft(k, seen) /\ Own(k, rows, held, raced)
  BY JobIs, NextLockIs, NextLockKeeps
<1>2. /\ rows' = Without({<<j.lock, j.user>>}) /\ UNCHANGED <<users, gone>>
      /\ jobs' = [jobs EXCEPT ![r] = k]
  BY DEF Forget, KeepUsers, Become
<1>3. TablesOK' /\ Fewer(rows, rows')
  BY <1>2, RowsGone DEF IInv
<1>4. Own(k, rows', held, raced)
  <2> HIDE DEF k
  <2> QED BY <1>1, <1>3, FewerHolds, OwnStays
<1>5. RecordStep
  <2>1. ASSUME NEW p \in DOMAIN rows \ DOMAIN rows'
        PROVE  p[1] = j.lock /\ p[2] = j.user
    <3>1. DOMAIN rows' = DOMAIN rows \ {<<j.lock, j.user>>}
      BY <1>2 DEF Without
    <3>2. p = <<j.lock, j.user>>
      BY <3>1
    <3> QED BY <3>2
  <2>2. raced \subseteq raced' /\ held' = held
    OBVIOUS
  <2> QED BY <2>1, <2>2 DEF RecordStep
<1> QED
  <2> HIDE DEF k
  <2> QED BY <1>1, <1>2, <1>3, <1>4, <1>5, PlainTurn

LEMMA RejectTurn ==
    ASSUME IInv, NEW r \in Callers, Reject(r),
           raced' = raced \cup Contended(jobs'), seen' = SeenAfter,
           NEW l0 \in WorksOn(jobs[r]),
           NodesOK', HeldOK', BitsShowLocal(bits', seen), LocalStep,
           \A l \in Locks, s \in Slots : l # l0 => held'[l, s] = held[l, s],
           Attributes(rows, held', raced)
    PROVE  Good
<1>1. TablesOK' /\ Fewer(rows, rows') /\ jobs' = [jobs EXCEPT ![r] = Idle]
  BY RejectTables DEF IInv
<1>2. RowsNotLocal(rows', seen) /\ Attributes(rows', held', raced)
  BY <1>1, FewerHolds DEF IInv
<1>3. \A l \in Locks \ WorksOn(jobs[r]) : Quiet(l, rows, held, rows', held')
  BY <1>1 DEF Quiet, Fewer
<1>4. Shape(Idle) /\ LocalsLeft(Idle, seen) /\ Own(Idle, rows', held', raced)
  BY IdleIs
<1>5. IInv'
  BY <1>1, <1>2, <1>3, <1>4, TurnHolds
<1>6. RecordStep
  <2>1. CASE RemoveUser(jobs[r].user)
    <3>1. \A p \in DOMAIN rows \ DOMAIN rows' : p[2] \notin users'
      BY <2>1 DEF RemoveUser, Without, RowsOf
    <3> QED BY <3>1 DEF RecordStep
  <2> QED BY <2>1, RowsKept DEF Reject
<1>7. SyncedStep
  BY <1>1 DEF SyncedStep, Fewer
<1> QED BY <1>5, <1>6, <1>7 DEF Good

LEMMA UpsertTurn ==
    ASSUME IInv, NEW r \in Callers, NEW j, Shape(j), j.op \in Clears \cup {"push"},
           j.op = jobs[r].op, j.user = jobs[r].user, j.todo \subseteq jobs[r].todo,
           j.lock \in Locks, j.slot \in Slots, j.lock \in WorksOn(jobs[r]),
           j.op \in Clears => \A t \in j.todo : t[1] # j.lock,
           <<j.lock, j.slot>> \notin seen,
           NEW status \in {"synced", "failed"}, ~Conflicts(j),
           rows' = Upserted(j, status), UNCHANGED <<users, gone>>,
           jobs' = [jobs EXCEPT ![r] = NextLock(j)],
           raced' = raced \cup Contended(jobs'), seen' = SeenAfter,
           NodesOK', HeldOK', BitsShowLocal(bits', seen), LocalStep,
           \A l \in Locks, s \in Slots : l # j.lock => held'[l, s] = held[l, s],
           Attributes(rows, held', raced),
           status = "synced" /\ j.lock \notin raced => held'[j.lock, j.slot] = j.user
    PROVE  Good
<1> DEFINE k == NextLock(j)
<1>1. /\ TablesOK'
      /\ \A p \in DOMAIN rows' :
            \/ /\ p[1] = j.lock /\ p[2] = j.user
               /\ rows'[p].slot = j.slot /\ rows'[p].status = status
            \/ p \in DOMAIN rows /\ rows'[p] = rows[p] /\ p # <<j.lock, j.user>>
  BY UpsertTables DEF IInv
<1>2. /\ Shape(k) /\ k.at = "next" /\ k.op = j.op /\ k.user = j.user /\ k.todo = j.todo
      /\ LocalsLeft(k, seen) /\ Own(k, rows, held, raced)
  BY JobIs, NextLockIs, NextLockKeeps
<1>4. Own(k, rows', held', raced)
  <2> HIDE DEF k
  <2>1. ASSUME k.op \in Clears, NEW t \in k.todo, NEW p \in DOMAIN rows',
               t[1] \notin raced, p[1] = t[1], p[2] = k.user
        PROVE  rows'[p].slot = t[2]
    <3>1. p \in DOMAIN rows /\ rows'[p] = rows[p]
      BY <1>1, <1>2, <2>1
    <3> QED BY <1>2, <2>1, <3>1 DEF Own
  <2> QED BY <1>2, <2>1 DEF Own
<1>6. RowsNotLocal(rows', seen)
  BY <1>1 DEF IInv, RowsNotLocal
<1>7. Attributes(rows', held', raced)
  BY <1>1 DEF Attributes
<1>8. \A l \in Locks \ WorksOn(jobs[r]) : Quiet(l, rows, held, rows', held')
  <2> TAKE l \in Locks \ WorksOn(jobs[r])
  <2>1. l # j.lock
    OBVIOUS
  <2>2. \A p \in DOMAIN rows' : p[1] = l => p \in DOMAIN rows /\ rows'[p] = rows[p]
    BY <1>1, <2>1
  <2> QED BY <2>1, <2>2 DEF Quiet
<1>9. IInv'
  <2> HIDE DEF k
  <2>1. jobs' = [jobs EXCEPT ![r] = k]
    BY DEF k
  <2> QED BY <1>1, <1>2, <1>4, <1>6, <1>7, <1>8, <2>1, TurnHolds
<1>10. RecordStep
  <2>1. DOMAIN rows \subseteq DOMAIN rows'
    BY DEF Upserted
  <2> QED BY <2>1 DEF RecordStep
<1>11. SyncedStep
  <2>1. ASSUME NEW p \in DOMAIN rows', rows'[p].status = "synced",
               p \in DOMAIN rows => rows[p] # rows'[p], p[1] \notin raced'
        PROVE  held'[p[1], rows'[p].slot] = p[2]
    <3>1. /\ p[1] = j.lock /\ p[2] = j.user
          /\ rows'[p].slot = j.slot /\ rows'[p].status = status
      BY <1>1, <2>1
    <3> QED BY <2>1, <3>1
  <2> QED BY <2>1 DEF SyncedStep
<1> QED BY <1>9, <1>10, <1>11 DEF Good

(* A record after a command, or none, on the lock in hand. *)
LEMMA RecordTurn ==
    ASSUME IInv, NEW r \in Callers, NEW j, Shape(j), j.op \in Clears \cup {"push"},
           j.op = jobs[r].op, j.user = jobs[r].user, j.todo \subseteq jobs[r].todo,
           j.lock \in Locks, j.slot \in Slots, j.lock \in WorksOn(jobs[r]),
           j.op \in Clears => \A t \in j.todo : t[1] # j.lock,
           <<j.lock, j.slot>> \notin seen,
           NEW status \in {"synced", "failed"}, Record(r, j, status),
           raced' = raced \cup Contended(jobs'), seen' = SeenAfter,
           NodesOK', HeldOK', BitsShowLocal(bits', seen), LocalStep,
           \A l \in Locks, s \in Slots : l # j.lock => held'[l, s] = held[l, s],
           Attributes(rows, held', raced),
           status = "synced" /\ j.lock \notin raced => held'[j.lock, j.slot] = j.user
    PROVE  Good
<1>1. CASE Conflicts(j)
  BY <1>1, RejectTurn DEF Record
<1>2. CASE ~Conflicts(j)
  BY <1>2, UpsertTurn DEF Record, Become, KeepUsers
<1> QED BY <1>1, <1>2

-----------------------------------------------------------------------------
(* LockCodeSync.push. *)
LEMMA PushToHolds ==
    ASSUME IInv, NEW r \in Callers, PushTo(r),
           raced' = raced \cup Contended(jobs'), seen' = SeenAfter
    PROVE  Good
<1> DEFINE i == jobs[r]
<1>1. PICK t \in i.todo :
         LET l == t[1]
             j == [i EXCEPT !.lock = l, !.todo = @ \ {t}]
         IN  IF <<l, j.user>> \in DOMAIN rows
             THEN SendSet(r, [j EXCEPT !.slot = rows[l, j.user].slot])
             ELSE IF IsEnrolled(l)
             THEN /\ Become(r, [j EXCEPT !.at = "list",
                                         !.free = Slots \ Taken(l),
                                         !.unread = IF l \in DOMAIN bits
                                                    THEN bits[l] ELSE Slots])
                  /\ KeepTables
             ELSE Skip(r, j)
  BY DEF PushTo
<1> DEFINE l == t[1]
           j == [i EXCEPT !.lock = l, !.todo = @ \ {t}]
<1>2. /\ i.op = "push" /\ i.at = "next" /\ KeepLocks
      /\ i \in Job /\ Shape(i) /\ LocalsLeft(i, seen) /\ Own(i, rows, held, raced)
  BY JobIs DEF PushTo
<1>3. i.user \in Users /\ l \in Locks /\ l \in WorksOn(i)
  BY <1>2 DEF Shape, Job, WorksOn
<1>4. /\ j \in Job /\ j.op = "push" /\ j.at = "next" /\ j.user = i.user /\ j.lock = l
      /\ j.todo \subseteq i.todo
  BY <1>2, <1>3 DEF Job
<1>5. CASE <<l, i.user>> \in DOMAIN rows
  <2> DEFINE s == rows[l, i.user].slot
             m == [j EXCEPT !.slot = s]
             k == [m EXCEPT !.at = "set"]
  <2>1. /\ s \in Slots /\ <<l, s>> \notin seen
        /\ \A p \in DOMAIN rows : p[1] = l /\ rows[p].slot = s => p[2] = i.user
    <3>1. rows[<<l, i.user>>] \in [slot : Slots, status : {"synced", "failed"}]
      BY <1>5 DEF IInv, TablesOK
    <3>2. <<l, s>> \notin seen
      BY <1>5 DEF IInv, RowsNotLocal
    <3>3. \A p \in DOMAIN rows : p[1] = l /\ rows[p].slot = s => p = <<l, i.user>>
      BY <1>5 DEF IInv, TablesOK
    <3>4. s \in Slots
      BY <3>1
    <3>5. \A p : p = <<l, i.user>> => p[2] = i.user
      OBVIOUS
    <3> HIDE DEF s, i, l, m, k
    <3> QED BY <3>2, <3>3, <3>4, <3>5
  <2>2. SendSet(r, m)
    BY <1>1, <1>4, <1>5
  <2> HIDE DEF s
  <2>3. /\ m \in Job /\ m.op = "push" /\ m.at = "next" /\ m.user = i.user /\ m.lock = l
        /\ m.todo = j.todo /\ m.slot = s
    BY <1>4, <2>1 DEF Job
  <2> HIDE DEF j
  <2>4. /\ k \in Job /\ k.op = "push" /\ k.at = "set" /\ k.user = i.user /\ k.lock = l
        /\ k.slot = s
    BY <2>3 DEF Job
  <2> HIDE DEF m
  <2>5. CASE IsEnrolled(m.lock)
    <3>1. jobs' = [jobs EXCEPT ![r] = k] /\ KeepTables
      BY <2>2, <2>5 DEF SendSet, Become
    <3> HIDE DEF k
    <3>2. Shape(k)
      BY <1>3, <2>1, <2>4 DEF Shape, Clears
    <3>3. LocalsLeft(k, seen) /\ Own(k, rows, held, raced)
      BY <2>1, <2>4 DEF LocalsLeft, Own, Clears
    <3> QED BY <1>2, <3>1, <3>2, <3>3, MoveTurn
  <2>6. CASE ~IsEnrolled(m.lock)
    <3>1. Record(r, m, "failed")
      BY <2>2, <2>6 DEF SendSet, Failed
    <3>2. Shape(m)
      BY <1>3, <2>1, <2>3 DEF Shape, Clears
    <3>3. NodesOK' /\ held' = held /\ BitsShowLocal(bits', seen)
      BY <1>2, LocksKept
    <3>4. HeldOK' /\ LocalStep /\ Attributes(rows, held', raced)
      BY <3>3 DEF IInv, HeldOK, SeenOK, LocalStep
    <3>5. m.op = jobs[r].op /\ m.user = jobs[r].user /\ m.todo \subseteq jobs[r].todo
          /\ m.op \notin Clears /\ m.op \in Clears \cup {"push"}
      BY <1>2, <1>4, <2>3 DEF Clears
    <3> HIDE DEF i, l
    <3>6. <<m.lock, m.slot>> \notin seen /\ m.lock \in Locks /\ m.slot \in Slots
      BY <1>3, <2>1, <2>3
    <3>7. m.lock \in WorksOn(jobs[r])
      BY <1>3, <2>3 DEF i
    <3> QED BY <3>1, <3>2, <3>3, <3>4, <3>5, <3>6, <3>7, RecordTurn
  <2> QED BY <2>5, <2>6
<1>6. CASE <<l, i.user>> \notin DOMAIN rows /\ IsEnrolled(l)
  <2> DEFINE todo == IF l \in DOMAIN bits THEN bits[l] ELSE Slots
             k == [j EXCEPT !.at = "list", !.free = Slots \ Taken(l), !.unread = todo]
  <2>1. jobs' = [jobs EXCEPT ![r] = k] /\ KeepTables
    BY <1>1, <1>4, <1>6 DEF Become
  <2>2. todo \subseteq Slots /\ \A s \in Slots : <<l, s>> \in seen => s \in todo
    BY DEF IInv, NodesOK, BitsShowLocal
  <2>3. \A p \in DOMAIN rows : p[1] = l => rows[p].slot \notin Slots \ Taken(l)
    BY DEF Taken
  <2> HIDE DEF todo
  <2>4. /\ k \in Job /\ k.op = "push" /\ k.at = "list" /\ k.user = i.user /\ k.lock = l
        /\ k.free = Slots \ Taken(l) /\ k.unread = todo
    BY <1>4, <2>2 DEF Job
  <2> HIDE DEF k
  <2>5. Shape(k)
    BY <1>3, <2>4 DEF Shape, Clears
  <2>6. LocalsLeft(k, seen) /\ Own(k, rows, held, raced)
    BY <2>2, <2>3, <2>4 DEF LocalsLeft, Own, Clears
  <2> QED BY <1>2, <2>1, <2>5, <2>6, MoveTurn
<1>7. CASE <<l, i.user>> \notin DOMAIN rows /\ ~IsEnrolled(l)
  <2>1. Skip(r, j)
    BY <1>1, <1>4, <1>7
  <2>2. Shape(j)
    <3> HIDE DEF j
    <3> QED BY <1>3, <1>4 DEF Shape, Clears
  <2> HIDE DEF j
  <2> QED BY <1>2, <1>4, <2>1, <2>2, SkipHolds
<1> QED BY <1>5, <1>6, <1>7

(* A step of a listing, or its end without a slot. *)
LEMMA ReadSlotHolds ==
    ASSUME IInv, NEW r \in Callers, ReadSlot(r),
           raced' = raced \cup Contended(jobs'), seen' = SeenAfter
    PROVE  Good
<1> DEFINE j == jobs[r]
           s == Min(j.unread)
           k == [j EXCEPT !.unread = @ \ {s}, !.free = StillFree(j, s)]
<1>1. /\ j.at = "list" /\ j.unread # {} /\ KeepLocks
      /\ j \in Job /\ Shape(j) /\ LocalsLeft(j, seen) /\ Own(j, rows, held, raced)
      /\ (Become(r, k) /\ KeepTables) \/ Skip(r, j)
  BY JobIs DEF ReadSlot
<1>2. j.op = "push" /\ j.lock \in Locks /\ j.unread \subseteq Slots /\ j.free \subseteq Slots
  BY <1>1 DEF Shape, Job
<1>3. s \in Slots
  BY <1>1, <1>2, MinIs
<1>4. CASE Become(r, k) /\ KeepTables
  <2>1. StillFree(j, s) \subseteq j.free /\ (<<j.lock, s>> \in seen => s \notin StillFree(j, s))
    BY NamesDiffer DEF StillFree, IInv, SeenOK
  <2> HIDE DEF s
  <2> DEFINE free == StillFree(j, s)
  <2>2. free \subseteq j.free /\ (<<j.lock, s>> \in seen => s \notin free)
    BY <2>1
  <2>3. \A x \in j.free : <<j.lock, x>> \in seen => x \in j.unread
    BY <1>1 DEF LocalsLeft
  <2>4. k = [j EXCEPT !.unread = @ \ {s}, !.free = free] /\ jobs' = [jobs EXCEPT ![r] = k]
    BY <1>4 DEF Become
  <2> HIDE DEF free, k
  <2>5. /\ k \in Job /\ k.op = j.op /\ k.at = "list" /\ k.user = j.user /\ k.lock = j.lock
        /\ k.free = free /\ k.unread = j.unread \ {s} /\ k.todo = j.todo
    BY <1>1, <1>2, <2>2, <2>4 DEF Job
  <2> HIDE DEF j
  <2>6. Shape(k)
    BY <1>1, <1>2, <2>5 DEF Shape, Clears
  <2>7. LocalsLeft(k, seen)
    BY <1>2, <2>2, <2>3, <2>5 DEF LocalsLeft, Clears
  <2>8. Own(k, rows, held, raced)
    BY <1>1, <1>2, <2>2, <2>5 DEF Own, Clears
  <2> QED BY <1>1, <1>4, <2>4, <2>6, <2>7, <2>8, MoveTurn
<1>5. CASE Skip(r, j)
  BY <1>1, <1>2, <1>5, SkipHolds
<1> QED BY <1>1, <1>4, <1>5

LEMMA ChooseSlotHolds ==
    ASSUME IInv, NEW r \in Callers, ChooseSlot(r),
           raced' = raced \cup Contended(jobs'), seen' = SeenAfter
    PROVE  Good
<1> DEFINE j == jobs[r]
           s == Min(j.free)
           m == [j EXCEPT !.slot = s, !.free = {}]
           k == [m EXCEPT !.at = "set"]
<1>1. /\ j.at = "list" /\ j.unread = {} /\ KeepLocks
      /\ j \in Job /\ Shape(j) /\ LocalsLeft(j, seen) /\ Own(j, rows, held, raced)
      /\ IF j.free = {} THEN Skip(r, j) ELSE SendSet(r, m)
  BY JobIs DEF ChooseSlot
<1>2. /\ j.op = "push" /\ j.lock \in Locks /\ j.free \subseteq Slots
      /\ j.user \in Users /\ j.lock \in WorksOn(j)
  BY <1>1 DEF Shape, Job, WorksOn
<1>3. CASE j.free = {}
  BY <1>1, <1>2, <1>3, SkipHolds
<1>4. CASE j.free # {}
  <2>1. s \in j.free
    BY <1>2, <1>4, MinIs
  <2>2. s \in Slots /\ <<j.lock, s>> \notin seen
    BY <1>1, <1>2, <2>1 DEF LocalsLeft
  <2>3. j.lock \notin raced =>
           \A p \in DOMAIN rows : p[1] = j.lock /\ rows[p].slot = s => p[2] = j.user
    BY <1>1, <2>1 DEF Own
  <2> HIDE DEF s
  <2>4. /\ m \in Job /\ m.op = "push" /\ m.at = "list" /\ m.user = j.user /\ m.lock = j.lock
        /\ m.todo = j.todo /\ m.slot = s /\ m.free = {} /\ m.unread = {}
    BY <1>1, <1>2, <2>2 DEF Job
  <2>5. SendSet(r, m)
    BY <1>1, <1>4
  <2> HIDE DEF m
  <2>6. /\ k \in Job /\ k.op = "push" /\ k.at = "set" /\ k.user = j.user /\ k.lock = j.lock
        /\ k.slot = s
    BY <2>4 DEF Job
  <2>7. CASE IsEnrolled(m.lock)
    <3>1. jobs' = [jobs EXCEPT ![r] = k] /\ KeepTables
      BY <2>5, <2>7 DEF SendSet, Become
    <3> HIDE DEF k, j
    <3>2. Shape(k)
      BY <1>2, <2>2, <2>6 DEF Shape, Clears
    <3>3. LocalsLeft(k, seen) /\ Own(k, rows, held, raced)
      BY <2>2, <2>3, <2>6 DEF LocalsLeft, Own, Clears
    <3> QED BY <1>1, <3>1, <3>2, <3>3, MoveTurn
  <2>8. CASE ~IsEnrolled(m.lock)
    <3>1. Record(r, m, "failed")
      BY <2>5, <2>8 DEF SendSet, Failed
    <3>2. Shape(m)
      BY <1>2, <2>2, <2>4 DEF Shape, Clears
    <3>3. NodesOK' /\ held' = held /\ BitsShowLocal(bits', seen)
      BY <1>1, LocksKept
    <3>4. HeldOK' /\ LocalStep /\ Attributes(rows, held', raced)
      BY <3>3 DEF IInv, HeldOK, SeenOK, LocalStep
    <3>5. m.op = jobs[r].op /\ m.user = jobs[r].user /\ m.todo \subseteq jobs[r].todo
          /\ m.op \notin Clears /\ m.op \in Clears \cup {"push"}
      BY <1>2, <2>4 DEF Clears
    <3>6. m.lock \in WorksOn(jobs[r])
      BY <1>2, <2>4
    <3> HIDE DEF j
    <3>7. <<m.lock, m.slot>> \notin seen /\ m.lock \in Locks /\ m.slot \in Slots
      BY <1>2, <2>2, <2>4
    <3> QED BY <3>1, <3>2, <3>3, <3>4, <3>5, <3>6, <3>7, RecordTurn
  <2> QED BY <2>7, <2>8
<1> QED BY <1>3, <1>4

(* A command is answered: the write, and either the report is awaited or    *)
(* the failure recorded.                                                    *)
LEMMA CommandFailed ==
    ASSUME IInv, NEW r \in Callers, NEW c \in Users \cup {Nobody},
           jobs[r].at \in {"set", "clear"},
           held' \in MaybeWritten(jobs[r], c), Failed(r, jobs[r]),
           Attributes(rows, Written(jobs[r], c), raced),
           raced' = raced \cup Contended(jobs'), seen' = SeenAfter,
           UNCHANGED <<enrolled, paired, known, bits>>
    PROVE  Good
<1> DEFINE j == jobs[r]
<1>1. j \in Job /\ Shape(j) /\ LocalsLeft(j, seen)
  BY JobIs
<1>2. /\ j.op \in Clears \cup {"push"} /\ j.lock \in Locks /\ j.slot \in Slots
      /\ j.op \in Clears => \A t \in j.todo : t[1] # j.lock
      /\ <<j.lock, j.slot>> \notin seen
  <2>1. j.at \in {"set", "clear"}
    OBVIOUS
  <2> HIDE DEF j
  <2> QED BY <1>1, <2>1 DEF Shape, LocalsLeft, Clears
<1>3. held' \in {held, Written(j, c)} /\ bits' = bits
  BY DEF MaybeWritten
<1>4. /\ HeldOK' /\ BitsShowLocal(bits', seen) /\ LocalStep
      /\ \A l \in Locks, s \in Slots : l # j.lock => held'[l, s] = held[l, s]
  <2> HIDE DEF j
  <2> QED BY <1>2, <1>3, WrittenIs
<1>5. NodesOK' /\ Attributes(rows, held', raced)
  BY <1>3 DEF IInv, NodesOK
<1>6. j.lock \in WorksOn(j)
  BY <1>2 DEF WorksOn
<1>7. Record(r, j, "failed")
  BY DEF Failed
<1>8. j.op = jobs[r].op /\ j.user = jobs[r].user /\ j.todo \subseteq jobs[r].todo
  OBVIOUS
<1>9. "failed" \in {"synced", "failed"} /\ "failed" # "synced"
  OBVIOUS
<1>10. j.lock \in WorksOn(jobs[r])
  BY <1>6
<1> HIDE DEF j
<1> QED BY <1>1, <1>2, <1>4, <1>5, <1>7, <1>8, <1>9, <1>10, RecordTurn, ZenonT(30)

LEMMA CommandDone ==
    ASSUME IInv, NEW r \in Callers, NEW c \in Users \cup {Nobody},
           \/ jobs[r].at = "set" /\ c = jobs[r].user
           \/ jobs[r].at = "clear" /\ c = Nobody,
           held' = Written(jobs[r], c), Become(r, [jobs[r] EXCEPT !.at = "report"]), KeepTables,
           Attributes(rows, Written(jobs[r], c), raced),
           raced' = raced \cup Contended(jobs'), seen' = SeenAfter,
           UNCHANGED <<enrolled, paired, known, bits>>
    PROVE  Good
<1> DEFINE j == jobs[r]
           k == [j EXCEPT !.at = "report"]
<1>1. j \in Job /\ Shape(j) /\ LocalsLeft(j, seen) /\ Own(j, rows, held, raced)
  BY JobIs
<1>2. /\ j.at \in {"set", "clear"}
      /\ (j.at = "set" /\ c = j.user) \/ (j.at = "clear" /\ c = Nobody)
      /\ jobs' = [jobs EXCEPT ![r] = k]
  BY DEF Become
<1>3. /\ k \in Job /\ k.op = j.op /\ k.at = "report" /\ k.user = j.user /\ k.lock = j.lock
      /\ k.slot = j.slot /\ k.todo = j.todo
  BY <1>1 DEF Job
<1>4. held' = Written(j, c) /\ bits' = bits
  OBVIOUS
<1> HIDE DEF k
<1>5. /\ j.op \in Clears \cup {"push"} /\ j.lock \in Locks /\ j.slot \in Slots
      /\ <<j.lock, j.slot>> \notin seen
      /\ j.op \in Clears => j.at = "clear"
      /\ j.op = "push" => j.at = "set"
      /\ j.op \in Clears => \A t \in j.todo : t[1] # j.lock
  <2> HIDE DEF j
  <2> QED BY <1>1, <1>2 DEF Shape, LocalsLeft, Clears
<1>6. /\ HeldOK' /\ BitsShowLocal(bits', seen) /\ LocalStep
      /\ \A l \in Locks, s \in Slots : l # j.lock => held'[l, s] = held[l, s]
  <2> HIDE DEF j
  <2> QED BY <1>4, <1>5, WrittenIs
<1>7. held'[j.lock, j.slot] = c /\ c # Local
  <2>1. held \in [Locks \X Slots -> Users \cup {Nobody, Local}]
    BY DEF IInv, HeldOK
  <2> HIDE DEF j
  <2> QED BY <1>4, <1>5, <2>1, NamesDiffer DEF Written
<1>8. /\ TablesOK' /\ RecordStep /\ rows' = rows /\ SyncedStep
  BY Kept, RowsKept DEF IInv, KeepTables, SyncedStep
<1>9. NodesOK' /\ Attributes(rows', held', raced) /\ RowsNotLocal(rows', seen)
  BY <1>4, <1>6, <1>8 DEF IInv, NodesOK
<1>10. \A l \in Locks \ WorksOn(j) : Quiet(l, rows, held, rows', held')
  BY <1>5, <1>6, <1>8 DEF Quiet, WorksOn
<1>11. Shape(k)
  <2> HIDE DEF j
  <2> QED BY <1>1, <1>3, <1>5 DEF Shape, Clears
<1>12. LocalsLeft(k, seen)
  <2> HIDE DEF j
  <2> QED BY <1>1, <1>3, <1>5 DEF LocalsLeft
<1>13. Own(k, rows', held', raced)
  <2> HIDE DEF j
  <2>1. j.lock \notin raced =>
           /\ j.op = "push" =>
                 \A p \in DOMAIN rows : p[1] = j.lock /\ rows[p].slot = j.slot => p[2] = j.user
           /\ j.op \in Clears =>
                 \A p \in DOMAIN rows : p[1] = j.lock /\ p[2] = j.user => rows[p].slot = j.slot
    BY <1>1, <1>5 DEF Own
  <2>2. j.op \in Clears =>
           \A t \in j.todo : \A p \in DOMAIN rows :
              t[1] \notin raced /\ p[1] = t[1] /\ p[2] = j.user => rows[p].slot = t[2]
    BY <1>1 DEF Own
  <2>3. (j.op = "push" => c = j.user) /\ (j.op \in Clears => c = Nobody)
    BY <1>2, <1>5
  <2>4. k.at # "list" /\ k.op = j.op /\ k.lock = j.lock /\ k.slot = j.slot /\ k.user = j.user
        /\ k.todo = j.todo
    BY <1>3
  <2>5. ASSUME k.lock \notin raced
        PROVE  /\ k.op = "push" =>
                     /\ held'[k.lock, k.slot] = k.user
                     /\ \A p \in DOMAIN rows : p[1] = k.lock /\ rows[p].slot = k.slot => p[2] = k.user
               /\ k.op \in Clears =>
                     /\ held'[k.lock, k.slot] \in {Nobody, Local}
                     /\ \A p \in DOMAIN rows : p[1] = k.lock /\ p[2] = k.user => rows[p].slot = k.slot
    BY <1>7, <2>1, <2>3, <2>4, <2>5
  <2>6. k.op \in Clears =>
           \A t \in k.todo : \A p \in DOMAIN rows :
              t[1] \notin raced /\ p[1] = t[1] /\ p[2] = k.user => rows[p].slot = t[2]
    BY <2>2, <2>4
  <2>7. Own(k, rows, held', raced)
    BY <2>4, <2>5, <2>6 DEF Own
  <2> QED BY <1>8, <2>7
<1>14. IInv'
  BY <1>2, <1>6, <1>8, <1>9, <1>10, <1>11, <1>12, <1>13, TurnHolds
<1> QED BY <1>6, <1>8, <1>14 DEF Good

LEMMA SetAnsweredHolds ==
    ASSUME IInv, NEW r \in Callers, SetAnswered(r),
           raced' = raced \cup Contended(jobs'), seen' = SeenAfter
    PROVE  Good
<1> DEFINE j == jobs[r]
<1>1. /\ j.at = "set" /\ UNCHANGED <<enrolled, paired, known, bits>>
      /\ \/ held' = Written(j, j.user) /\ Become(r, [j EXCEPT !.at = "report"]) /\ KeepTables
         \/ held' \in MaybeWritten(j, j.user) /\ Failed(r, j)
      /\ Shape(j) /\ Own(j, rows, held, raced)
  BY JobIs DEF SetAnswered
<1>2. j.op = "push" /\ j.user \in Users /\ j.lock \in Locks /\ j.slot \in Slots
  BY <1>1 DEF Shape
<1>3. j.lock \notin raced =>
         \A p \in DOMAIN rows : p[1] = j.lock /\ rows[p].slot = j.slot => p[2] = j.user
  BY <1>1, <1>2 DEF Own
<1>4. Attributes(rows, Written(j, j.user), raced)
  <2>1. /\ DOMAIN rows \subseteq Locks \X Users /\ \A p \in DOMAIN rows : rows[p].slot \in Slots
        /\ held \in [Locks \X Slots -> Users \cup {Nobody, Local}]
        /\ Attributes(rows, held, raced)
    BY DEF IInv, TablesOK, HeldOK
  <2> HIDE DEF j
  <2> QED BY <1>2, <1>3, <2>1, WriteAttributes DEF Written
<1> QED BY <1>1, <1>2, <1>4, CommandDone, CommandFailed

LEMMA SetReportedHolds ==
    ASSUME IInv, NEW r \in Callers, SetReported(r),
           raced' = raced \cup Contended(jobs'), seen' = SeenAfter
    PROVE  Good
<1> DEFINE j == jobs[r]
<1>1. /\ j.op = "push" /\ j.at = "report" /\ Record(r, j, "synced") /\ ReadBits(j.lock)
      /\ UNCHANGED <<enrolled, paired, known, held>>
      /\ j \in Job /\ Shape(j) /\ LocalsLeft(j, seen) /\ Own(j, rows, held, raced)
  BY JobIs DEF SetReported
<1>2. /\ j.op \in Clears \cup {"push"} /\ j.op \notin Clears
      /\ j.lock \in Locks /\ j.slot \in Slots /\ <<j.lock, j.slot>> \notin seen
      /\ j.lock \notin raced => held[j.lock, j.slot] = j.user
  <2> HIDE DEF j
  <2> QED BY <1>1 DEF Shape, LocalsLeft, Own, Clears
<1>3. j.lock \in WorksOn(j)
  BY <1>2 DEF WorksOn
<1>4. NodesOK' /\ BitsShowLocal(bits', seen) /\ held' = held
  BY <1>1, <1>2, ReadBitsShow
<1>5. HeldOK' /\ LocalStep /\ Attributes(rows, held', raced)
  BY <1>4 DEF IInv, HeldOK, SeenOK, LocalStep
<1> QED BY <1>1, <1>2, <1>3, <1>4, <1>5, RecordTurn

-----------------------------------------------------------------------------
(* LockCodeSync.clear. *)
LEMMA ClearFromHolds ==
    ASSUME IInv, NEW r \in Callers, ClearFrom(r),
           raced' = raced \cup Contended(jobs'), seen' = SeenAfter
    PROVE  Good
<1> DEFINE i == jobs[r]
<1>1. PICK t \in i.todo :
         LET j == [i EXCEPT !.lock = t[1], !.slot = t[2], !.todo = @ \ {t}]
         IN  IF IsEnrolled(j.lock)
             THEN /\ Become(r, [j EXCEPT !.at = "clear"])
                  /\ KeepTables
             ELSE Forget(r, j)
  BY DEF ClearFrom
<1> DEFINE j == [i EXCEPT !.lock = t[1], !.slot = t[2], !.todo = @ \ {t}]
           k == [j EXCEPT !.at = "clear"]
<1>2. /\ i.op \in Clears /\ i.at = "next" /\ KeepLocks
      /\ i \in Job /\ Shape(i) /\ LocalsLeft(i, seen) /\ Own(i, rows, held, raced)
  BY JobIs DEF ClearFrom, Clears
<1>3. t[1] \in Locks /\ t[2] \in Slots /\ <<t[1], t[2]>> \notin seen
  BY <1>2 DEF Shape, Job, LocalsLeft
<1>4. /\ i.user \in Users
      /\ \A v \in i.todo : v[2] \in Slots /\ <<v[1], v[2]>> \notin seen
      /\ \A v \in i.todo \ {t} : v[1] # t[1]
      /\ \A v, w \in i.todo : v[1] = w[1] => v = w
  BY <1>2 DEF Shape, LocalsLeft
<1>5. \A v \in i.todo : \A p \in DOMAIN rows :
         v[1] \notin raced /\ p[1] = v[1] /\ p[2] = i.user => rows[p].slot = v[2]
  BY <1>2 DEF Own
<1>6. /\ j \in Job /\ j.op = i.op /\ j.at = "next" /\ j.user = i.user /\ j.lock = t[1]
      /\ j.slot = t[2] /\ j.todo = i.todo \ {t}
  BY <1>2, <1>3 DEF Job
<1>7. IF IsEnrolled(j.lock) THEN Become(r, k) /\ KeepTables ELSE Forget(r, j)
  BY <1>1
<1> HIDE DEF j
<1>8. /\ k \in Job /\ k.op = i.op /\ k.at = "clear" /\ k.user = i.user /\ k.lock = t[1]
      /\ k.slot = t[2] /\ k.todo = i.todo \ {t}
  BY <1>6 DEF Job
<1> HIDE DEF k
<1>9. CASE IsEnrolled(j.lock)
  <2> HIDE DEF i
  <2>1. Shape(k)
    BY <1>2, <1>3, <1>4, <1>8 DEF Shape, Clears
  <2>2. LocalsLeft(k, seen)
    BY <1>3, <1>4, <1>8 DEF LocalsLeft
  <2>3. Own(k, rows, held, raced)
    BY <1>2, <1>5, <1>8 DEF Own, Clears
  <2>4. jobs' = [jobs EXCEPT ![r] = k] /\ KeepTables
    BY <1>7, <1>9 DEF Become
  <2> QED BY <1>2, <2>1, <2>2, <2>3, <2>4, MoveTurn
<1>10. CASE ~IsEnrolled(j.lock)
  <2>1. Shape(j)
    <3> HIDE DEF i
    <3> QED BY <1>2, <1>3, <1>4, <1>6 DEF Shape, Clears
  <2>2. NodesOK' /\ held' = held /\ BitsShowLocal(bits', seen)
    BY <1>2, LocksKept
  <2>3. j.lock \notin (known \cap enrolled)'
    BY <1>2, <1>10 DEF KeepLocks, IsEnrolled
  <2> QED BY <1>2, <1>6, <1>7, <1>10, <2>1, <2>2, <2>3, ForgetHolds
<1> QED BY <1>9, <1>10

LEMMA ClearAnsweredHolds ==
    ASSUME IInv, NEW r \in Callers, ClearAnswered(r),
           raced' = raced \cup Contended(jobs'), seen' = SeenAfter
    PROVE  Good
<1> DEFINE j == jobs[r]
<1>1. /\ j.at = "clear" /\ UNCHANGED <<enrolled, paired, known, bits>>
      /\ \/ held' = Written(j, Nobody) /\ Become(r, [j EXCEPT !.at = "report"]) /\ KeepTables
         \/ held' \in MaybeWritten(j, Nobody) /\ Failed(r, j)
      /\ Shape(j)
  BY JobIs DEF ClearAnswered
<1>2. j.lock \in Locks /\ j.slot \in Slots
  BY <1>1 DEF Shape
<1>3. Attributes(rows, Written(j, Nobody), raced)
  <2>1. /\ DOMAIN rows \subseteq Locks \X Users /\ \A p \in DOMAIN rows : rows[p].slot \in Slots
        /\ held \in [Locks \X Slots -> Users \cup {Nobody, Local}]
        /\ Attributes(rows, held, raced)
    BY DEF IInv, TablesOK, HeldOK
  <2> HIDE DEF j
  <2> QED BY <1>2, <2>1, WriteAttributes DEF Written
<1> QED BY <1>1, <1>3, CommandDone, CommandFailed

LEMMA ClearReportedHolds ==
    ASSUME IInv, NEW r \in Callers, ClearReported(r),
           raced' = raced \cup Contended(jobs'), seen' = SeenAfter
    PROVE  Good
<1> DEFINE j == jobs[r]
<1>1. /\ j.op \in Clears /\ j.at = "report" /\ Forget(r, j) /\ ReadBits(j.lock)
      /\ UNCHANGED <<enrolled, paired, known, held>>
      /\ Shape(j) /\ Own(j, rows, held, raced)
  BY JobIs DEF ClearReported, Clears
<1>2. j.lock \in Locks
  BY <1>1 DEF Shape
<1>3. j.lock \notin raced =>
         \A p \in DOMAIN rows : p[1] = j.lock /\ p[2] = j.user => held[p[1], rows[p].slot] \in {Nobody, Local}
  BY <1>1 DEF Own
<1>4. NodesOK' /\ BitsShowLocal(bits', seen) /\ held' = held
  BY <1>1, <1>2, ReadBitsShow
<1> QED BY <1>1, <1>3, <1>4, ForgetHolds

LEMMA AnswerHolds ==
    ASSUME IInv, NEW r \in Callers, Answer(r),
           raced' = raced \cup Contended(jobs'), seen' = SeenAfter
    PROVE  Good
<1>1. jobs' = [jobs EXCEPT ![r] = Idle] /\ KeepLocks
  BY DEF Answer, Become
<1>2. /\ TablesOK' /\ Fewer(rows, rows')
      /\ RecordStep
  <2>1. CASE RemoveUser(jobs[r].user)
    <3>1. \A p \in DOMAIN rows \ DOMAIN rows' : p[2] \notin users'
      BY <2>1 DEF RemoveUser, Without, RowsOf
    <3> QED BY <2>1, <3>1, UserGone DEF RecordStep, IInv
  <2>2. CASE KeepTables
    BY <2>2, Kept, RowsKept DEF IInv
  <2> QED BY <2>1, <2>2 DEF Answer
<1> QED BY <1>1, <1>2, IdleIs, LocksKept, PlainTurn

-----------------------------------------------------------------------------
(* LockService.unenroll. *)
LEMMA WipeStartHolds ==
    ASSUME IInv, NEW r \in Callers, WipeStart(r),
           raced' = raced \cup Contended(jobs'), seen' = SeenAfter
    PROVE  Good
<1> DEFINE j == jobs[r]
           all == IF j.lock \in DOMAIN bits' THEN bits'[j.lock] ELSE Slots
           k == [j EXCEPT !.at = "wipe", !.unread = all]
<1>1. /\ j.at = "bits" /\ ReadBits(j.lock) /\ KeepTables
      /\ UNCHANGED <<enrolled, paired, known, held>> /\ jobs' = [jobs EXCEPT ![r] = k]
      /\ j \in Job /\ Shape(j)
  BY JobIs DEF WipeStart, Become
<1>2. j.op = "unenroll" /\ j.lock \in Locks
  BY <1>1 DEF Shape
<1>3. NodesOK' /\ BitsShowLocal(bits', seen) /\ held' = held
  BY <1>1, <1>2, ReadBitsShow
<1>4. all \subseteq Slots
  BY <1>3 DEF NodesOK
<1> HIDE DEF all
<1>5. k \in Job /\ k.op = "unenroll" /\ k.at = "wipe" /\ k.lock = j.lock
  BY <1>1, <1>2, <1>4 DEF Job
<1> HIDE DEF k
<1>6. Shape(k) /\ LocalsLeft(k, seen) /\ Own(k, rows', held, raced)
  <2> HIDE DEF j
  <2> QED BY <1>2, <1>5 DEF Shape, LocalsLeft, Own, Clears
<1>7. TablesOK' /\ Fewer(rows, rows') /\ RecordStep
  BY <1>1, Kept, RowsKept DEF IInv
<1> QED BY <1>1, <1>3, <1>6, <1>7, PlainTurn

LEMMA WipeHolds ==
    ASSUME IInv, NEW r \in Callers, Wipe(r),
           raced' = raced \cup Contended(jobs'), seen' = SeenAfter
    PROVE  Good
<1> DEFINE i == jobs[r]
           s == Min(i.unread)
           j == [i EXCEPT !.slot = s]
           done == [i EXCEPT !.unread = @ \ {j.slot}, !.reached = TRUE]
           end == [i EXCEPT !.unread = {}]
<1>1. /\ i.at = "wipe" /\ i.unread # {} /\ KeepTables
      /\ UNCHANGED <<enrolled, paired, known, bits>>
      /\ held' = Written(j, Nobody) \/ held' \in MaybeWritten(j, Nobody)
      /\ \E k \in {done, end} : jobs' = [jobs EXCEPT ![r] = k]
      /\ i \in Job /\ Shape(i)
  BY JobIs DEF Wipe, Become
<1>2. i.op = "unenroll" /\ i.lock \in Locks /\ i.unread \subseteq Slots
  BY <1>1 DEF Shape, Job
<1>3. s \in Slots
  BY <1>1, <1>2, MinIs
<1> HIDE DEF s
<1>4. j.slot = s /\ j.lock = i.lock
  BY <1>1 DEF Job
<1>5. held' \in {held, Written(j, Nobody)} /\ bits' = bits
  BY <1>1 DEF MaybeWritten
<1>6. PICK k \in {done, end} : jobs' = [jobs EXCEPT ![r] = k]
  BY <1>1
<1>7. k \in Job /\ k.op = "unenroll" /\ k.at = "wipe" /\ k.lock = i.lock
  <2>1. i.unread \ {j.slot} \in SUBSET Slots /\ {} \in SUBSET Slots
    BY <1>2
  <2>2. done \in Job /\ done.op = "unenroll" /\ done.at = "wipe" /\ done.lock = i.lock
    <3> HIDE DEF j
    <3> QED BY <1>1, <1>2, <2>1 DEF Job
  <2>3. end \in Job /\ end.op = "unenroll" /\ end.at = "wipe" /\ end.lock = i.lock
    BY <1>1, <1>2, <2>1 DEF Job
  <2> HIDE DEF done, end
  <2> QED BY <2>2, <2>3
<1> HIDE DEF done, end
<1>8. /\ HeldOK' /\ BitsShowLocal(bits', seen) /\ LocalStep
      /\ \A l \in Locks, x \in Slots : l # i.lock => held'[l, x] = held[l, x]
  <2>1. j.lock \in Locks /\ j.slot \in Slots
        /\ \E q \in Callers : jobs[q].at = "wipe" /\ jobs[q].lock = j.lock
    BY <1>1, <1>2, <1>3, <1>4
  <2> HIDE DEF j, i
  <2> QED BY <1>4, <1>5, <2>1, WrittenIs
<1>9. Attributes(rows, held', raced)
  <2>1. /\ DOMAIN rows \subseteq Locks \X Users /\ \A p \in DOMAIN rows : rows[p].slot \in Slots
        /\ held \in [Locks \X Slots -> Users \cup {Nobody, Local}]
        /\ Attributes(rows, held, raced)
    BY DEF IInv, TablesOK, HeldOK
  <2>2. Written(j, Nobody) = [held EXCEPT ![<<i.lock, s>>] = Nobody]
    BY <1>4 DEF Written
  <2> HIDE DEF j, i
  <2>3. Attributes(rows, [held EXCEPT ![<<i.lock, s>>] = Nobody], raced)
    BY <1>2, <1>3, <2>1, WriteAttributes
  <2> QED BY <1>5, <2>1, <2>2, <2>3
<1>10. /\ TablesOK' /\ RecordStep /\ rows' = rows /\ SyncedStep
  BY <1>1, Kept, RowsKept DEF IInv, KeepTables, SyncedStep
<1>11. Shape(k) /\ LocalsLeft(k, seen) /\ Own(k, rows', held', raced)
  <2> HIDE DEF i
  <2> QED BY <1>2, <1>7 DEF Shape, LocalsLeft, Own, Clears
<1>12. \A l \in Locks \ WorksOn(i) : Quiet(l, rows, held, rows', held')
  BY <1>2, <1>8, <1>10 DEF Quiet, WorksOn
<1>13. NodesOK' /\ RowsNotLocal(rows', seen)
  BY <1>1, <1>8, <1>10 DEF IInv, NodesOK
<1>14. IInv'
  BY <1>6, <1>8, <1>9, <1>10, <1>11, <1>12, <1>13, TurnHolds
<1> QED BY <1>8, <1>10, <1>14 DEF Good

LEMMA UnenrolledHolds ==
    ASSUME IInv, NEW r \in Callers, Unenrolled(r),
           raced' = raced \cup Contended(jobs'), seen' = SeenAfter
    PROVE  Good
<1>1. /\ enrolled' = enrolled \ {jobs[r].lock} /\ rows' = Without(RowsAt(jobs[r].lock))
      /\ jobs' = [jobs EXCEPT ![r] = Idle] /\ UNCHANGED <<users, gone, paired, known, bits, held>>
  BY DEF Unenrolled, Become, KeepUsers
<1>2. TablesOK' /\ Fewer(rows, rows')
  BY <1>1, RowsGone DEF IInv
<1>3. NodesOK' /\ BitsShowLocal(bits', seen)
  BY <1>1 DEF IInv, NodesOK
<1>4. RecordStep
  <2>1. \A p \in DOMAIN rows \ DOMAIN rows' : p[1] = jobs[r].lock
    BY <1>1 DEF Without, RowsAt
  <2> QED BY <1>1, <2>1 DEF RecordStep
<1> QED BY <1>1, <1>2, <1>3, <1>4, IdleIs, PlainTurn

-----------------------------------------------------------------------------
(* The network. *)
LEMMA NodesGood ==
    ASSUME IInv, UNCHANGED <<jobs, held>>,
           raced' = raced \cup Contended(jobs'), seen' = SeenAfter,
           TablesOK', NodesOK', BitsShowLocal(bits', seen), Fewer(rows, rows'), RecordStep
    PROVE  Good
<1>1. IInv'
  BY NodesTurn
<1> QED BY <1>1 DEF Good, IInv, SeenOK, LocalStep, SyncedStep, Fewer

LEMMA NetworkHolds ==
    ASSUME IInv, NEW l \in Locks,
           raced' = raced \cup Contended(jobs'), seen' = SeenAfter,
           Enroll(l) \/ DropEnrollment(l) \/ Report(l) \/ Adopt(l)
    PROVE  Good
<1>1. KeepTables /\ UNCHANGED <<jobs, held>>
  BY DEF Enroll, DropEnrollment, Report, Adopt
<1>2. TablesOK' /\ Fewer(rows, rows') /\ RecordStep
  BY <1>1, Kept, RowsKept DEF IInv
<1>3. NodesOK' /\ BitsShowLocal(bits', seen)
  <2>1. CASE Enroll(l)
    BY <2>1 DEF Enroll, IInv, NodesOK
  <2>2. CASE DropEnrollment(l)
    BY <2>2 DEF DropEnrollment, IInv, NodesOK
  <2>3. CASE Adopt(l)
    BY <2>3 DEF Adopt, IInv, NodesOK
  <2>4. CASE Report(l)
    <3>1. ReadBits(l) /\ UNCHANGED <<enrolled, paired, known, held>>
      BY <2>4 DEF Report, ReadBits
    <3> QED BY <3>1, ReadBitsShow
  <2> QED BY <2>1, <2>2, <2>3, <2>4
<1> QED BY <1>1, <1>2, <1>3, NodesGood

LEMMA LeaveHolds ==
    ASSUME IInv, NEW l \in Locks, Leave(l),
           raced' = raced \cup Contended(jobs'), seen' = SeenAfter
    PROVE  Good
<1>1. /\ paired' = paired \ {l} /\ known' = known \ {l} /\ enrolled' = enrolled \ {l}
      /\ bits' = [k \in DOMAIN bits \ {l} |-> bits[k]]
      /\ rows' = Without(RowsAt(l)) \/ rows' = rows
      /\ UNCHANGED <<users, gone, held, jobs>>
  BY DEF Leave, KeepUsers
<1>2. TablesOK' /\ Fewer(rows, rows')
  BY <1>1, RowsGone, Kept DEF IInv, KeepTables
<1>3. NodesOK' /\ BitsShowLocal(bits', seen)
  BY <1>1 DEF IInv, NodesOK, BitsShowLocal
<1>4. RecordStep
  <2>1. \A p \in DOMAIN rows \ DOMAIN rows' : p[1] = l
    BY <1>1 DEF Without, RowsAt
  <2> QED BY <1>1, <2>1 DEF RecordStep
<1> QED BY <1>1, <1>2, <1>3, <1>4, NodesGood

(* A code programmed at the lock: its slot held none, so no row that names  *)
(* a user there and no command that was answered is touched.                *)
LEMMA ProgramHolds ==
    ASSUME IInv, NEW l \in Locks, NEW s \in Slots, ProgramAtLock(l, s),
           raced' = raced \cup Contended(jobs'), seen' = SeenAfter
    PROVE  Good
<1>1. /\ held[<<l, s>>] = Nobody /\ held' = [held EXCEPT ![<<l, s>>] = Local]
      /\ UNCHANGED <<users, gone, rows, enrolled, paired, known, bits, jobs>>
      /\ held \in [Locks \X Slots -> Users \cup {Nobody, Local}]
  BY DEF ProgramAtLock, KeepTables, IInv, HeldOK
<1>2. /\ \A c \in Locks \X Slots : held'[c] = held[c] \/ (held[c] = Nobody /\ held'[c] = Local)
      /\ \A c \in Locks \X Slots : held'[c] \in {held[c], Local}
      /\ HeldOK'
  BY <1>1 DEF HeldOK
<1>3. TablesOK' /\ NodesOK' /\ Fewer(rows, rows') /\ rows' = rows
  BY <1>1 DEF IInv, TablesOK, NodesOK, Fewer
<1>4. raced' \subseteq Locks /\ raced \subseteq raced' /\ Contended(jobs') \subseteq raced'
  BY DEF IInv, Contended
<1>5. \A p \in DOMAIN rows : <<p[1], rows[p].slot>> \in Locks \X Slots
  BY DEF IInv, TablesOK
<1>6. Attributes(rows', held', raced')
  BY <1>2, <1>3, <1>4, <1>5 DEF IInv, Attributes
<1>7. ASSUME NEW q \in Callers
      PROVE  Own(jobs[q], rows', held', raced')
  <2> DEFINE j == jobs[q]
  <2>1. Shape(j) /\ Own(j, rows, held, raced)
    BY JobIs
  <2> HIDE DEF j
  <2>2. j.at = "report" => <<j.lock, j.slot>> \in Locks \X Slots
    BY <2>1 DEF Shape
  <2>3. j.op = "push" => j.user # Nobody
    BY <2>1, NamesDiffer DEF Shape
  <2>4. j.at = "report" /\ j.op = "push" /\ j.lock \notin raced =>
           held'[j.lock, j.slot] = j.user
    BY <1>2, <2>1, <2>2, <2>3 DEF Own
  <2>5. j.at = "report" /\ j.op \in Clears /\ j.lock \notin raced =>
           held'[j.lock, j.slot] \in {Nobody, Local}
    BY <1>2, <2>1, <2>2 DEF Own
  <2>6. \A x : x \notin raced' => x \notin raced
    BY <1>4
  <2>7. Own(j, rows', held', raced')
    BY <1>3, <2>1, <2>4, <2>5, <2>6 DEF Own
  <2> QED BY <2>7 DEF j
<1>8. RowsNotLocal(rows', seen) /\ BitsShowLocal(bits', seen)
  BY <1>1 DEF IInv
<1>9. \A q \in Callers : Shape(jobs'[q]) /\ LocalsLeft(jobs'[q], seen)
  BY <1>1, JobIs
<1>10. /\ SeenOK' /\ RowsNotLocal(rows', seen') /\ BitsShowLocal(bits', seen')
       /\ \A q \in Callers : LocalsLeft(jobs'[q], seen')
  BY <1>8, <1>9, SeenHolds
<1>11. IInv'
  BY <1>1, <1>2, <1>3, <1>4, <1>6, <1>7, <1>9, <1>10 DEF IInv
<1>12. LocalStep
  BY <1>2 DEF IInv, SeenOK, LocalStep
<1> QED BY <1>3, <1>11, <1>12 DEF Good, RecordStep, SyncedStep

(* Restart: what is on its way to a lock is what a request would write.     *)
LEMMA SentIs ==
    ASSUME IInv, NEW d \in Sent
    PROVE  \E r \in Callers :
              /\ d[1] = jobs[r].lock /\ d[1] \in Locks
              /\ \/ /\ jobs[r].at = "set" /\ jobs[r].op = "push"
                    /\ d[2] = jobs[r].slot /\ d[3] = jobs[r].user /\ d[3] \in Users
                 \/ jobs[r].at = "clear" /\ d[2] = jobs[r].slot /\ d[3] = Nobody
                 \/ jobs[r].at = "wipe" /\ d[3] = Nobody
<1>1. PICK r \in Callers :
         d \in IF jobs[r].at = "set" THEN {<<jobs[r].lock, jobs[r].slot, jobs[r].user>>}
               ELSE IF jobs[r].at = "clear" THEN {<<jobs[r].lock, jobs[r].slot, Nobody>>}
               ELSE IF jobs[r].at = "wipe" /\ jobs[r].unread # {}
                    THEN {<<jobs[r].lock, Min(jobs[r].unread), Nobody>>}
               ELSE {}
  BY DEF Sent
<1>2. Shape(jobs[r])
  BY JobIs
<1>3. CASE jobs[r].at = "set"
  <2>1. jobs[r].op = "push" /\ jobs[r].user \in Users /\ jobs[r].lock \in Locks
    BY <1>2, <1>3 DEF Shape
  <2>2. d = <<jobs[r].lock, jobs[r].slot, jobs[r].user>>
    BY <1>1, <1>3
  <2>3. d[1] = jobs[r].lock /\ d[2] = jobs[r].slot /\ d[3] = jobs[r].user
    BY <2>2
  <2> QED BY <1>3, <2>1, <2>3
<1>4. CASE jobs[r].at = "clear"
  <2>1. jobs[r].lock \in Locks
    BY <1>2, <1>4 DEF Shape
  <2>2. d = <<jobs[r].lock, jobs[r].slot, Nobody>>
    BY <1>1, <1>4
  <2>3. d[1] = jobs[r].lock /\ d[2] = jobs[r].slot /\ d[3] = Nobody
    BY <2>2
  <2> QED BY <1>4, <2>1, <2>3
<1>5. CASE jobs[r].at = "wipe" /\ jobs[r].unread # {}
  <2>1. jobs[r].lock \in Locks
    BY <1>2, <1>5 DEF Shape
  <2>2. d = <<jobs[r].lock, Min(jobs[r].unread), Nobody>>
    BY <1>1, <1>5
  <2>3. d[1] = jobs[r].lock /\ d[3] = Nobody
    BY <2>2
  <2> QED BY <1>5, <2>1, <2>3
<1> QED BY <1>1, <1>3, <1>4, <1>5

(* A command that was on its way has reached the slot. *)
Landed(l, s) ==
    \E r \in Callers :
       /\ jobs[r].lock = l
       /\ \/ /\ jobs[r].at = "set" /\ jobs[r].op = "push" /\ jobs[r].slot = s
             /\ held'[l, s] = jobs[r].user /\ jobs[r].user \in Users
          \/ jobs[r].at = "clear" /\ jobs[r].slot = s /\ held'[l, s] = Nobody
          \/ jobs[r].at = "wipe" /\ held'[l, s] = Nobody

LEMMA RestartHolds ==
    ASSUME IInv, Restart,
           raced' = raced \cup Contended(jobs'), seen' = SeenAfter
    PROVE  Good
<1>1. PICK done \in SUBSET Sent :
         held' = [c \in Locks \X Slots |->
                    LET written == {d[3] : d \in {e \in done : <<e[1], e[2]>> = c}}
                    IN  IF written = {} THEN held[c] ELSE CHOOSE w \in written : TRUE]
  BY DEF Restart
<1>2. /\ jobs' = [r \in Callers |-> Idle] /\ known' = {} /\ bits' = [l \in {} |-> {}]
      /\ KeepTables /\ UNCHANGED <<enrolled, paired>>
  BY DEF Restart
<1>3. /\ held \in [Locks \X Slots -> Users \cup {Nobody, Local}]
      /\ DOMAIN held' = Locks \X Slots
  BY <1>1 DEF IInv, HeldOK
<1>4. \A l \in Locks, s \in Slots :
         \/ held'[<<l, s>>] = held[<<l, s>>]
         \/ \E d \in done : <<d[1], d[2]>> = <<l, s>> /\ held'[<<l, s>>] = d[3]
  <2> TAKE l \in Locks, s \in Slots
  <2> DEFINE c == <<l, s>>
             written == {d[3] : d \in {e \in done : <<e[1], e[2]>> = c}}
  <2>1. held'[c] = IF written = {} THEN held[c] ELSE CHOOSE w \in written : TRUE
    BY <1>1
  <2>2. written # {} => (CHOOSE w \in written : TRUE) \in written
    OBVIOUS
  <2>3. \A w \in written : \E d \in done : <<d[1], d[2]>> = c /\ w = d[3]
    OBVIOUS
  <2> HIDE DEF written
  <2> QED BY <2>1, <2>2, <2>3
<1>5. \A l \in Locks, s \in Slots : held'[l, s] = held[l, s] \/ Landed(l, s)
  <2> TAKE l \in Locks, s \in Slots
  <2>1. CASE held'[<<l, s>>] = held[<<l, s>>]
    BY <2>1
  <2>2. CASE \E d \in done : <<d[1], d[2]>> = <<l, s>> /\ held'[<<l, s>>] = d[3]
    <3>1. PICK d \in done : <<d[1], d[2]>> = <<l, s>> /\ held'[<<l, s>>] = d[3]
      BY <2>2
    <3>2. d[1] = l /\ d[2] = s /\ held'[l, s] = d[3] /\ d \in Sent
      BY <3>1
    <3>3. PICK r \in Callers :
              /\ d[1] = jobs[r].lock /\ d[1] \in Locks
              /\ \/ /\ jobs[r].at = "set" /\ jobs[r].op = "push"
                    /\ d[2] = jobs[r].slot /\ d[3] = jobs[r].user /\ d[3] \in Users
                 \/ jobs[r].at = "clear" /\ d[2] = jobs[r].slot /\ d[3] = Nobody
                 \/ jobs[r].at = "wipe" /\ d[3] = Nobody
      BY <3>2, SentIs
    <3> QED BY <3>2, <3>3 DEF Landed
  <2> QED BY <1>4, <2>1, <2>2
<1>6. HeldOK'
  <2>1. ASSUME NEW l \in Locks, NEW s \in Slots
        PROVE  held'[l, s] \in Users \cup {Nobody, Local}
    <3>1. CASE Landed(l, s)
      BY <3>1 DEF Landed
    <3>2. CASE held'[l, s] = held[l, s]
      BY <1>3, <3>2
    <3> QED BY <1>5, <3>1, <3>2
  <2>2. \A c \in Locks \X Slots : held'[c] \in Users \cup {Nobody, Local}
    <3> TAKE c \in Locks \X Slots
    <3>1. PICK l \in Locks, s \in Slots : c = <<l, s>>
      BY CellIs, Zenon
    <3> QED BY <2>1, <3>1
  <2> QED BY <1>1, <1>3, <2>2 DEF HeldOK
<1>8. LocalStep
  <2>1. ASSUME NEW x \in seen, held'[x] # Local
        PROVE  \E r \in Callers : jobs[r].at = "wipe" /\ jobs[r].lock = x[1]
    <3>0. x \in Locks \X Slots /\ held[x] = Local
      BY DEF IInv, SeenOK
    <3>1. PICK l \in Locks, s \in Slots : x = <<l, s>>
      BY <3>0, CellIs, Zenon
    <3>2. held'[l, s] # held[l, s] /\ <<l, s>> \in seen /\ x[1] = l
      BY <2>1, <3>0, <3>1
    <3>3. PICK r \in Callers :
             /\ jobs[r].lock = l
             /\ \/ jobs[r].at \in {"set", "clear"} /\ jobs[r].slot = s
                \/ jobs[r].at = "wipe"
      <4>1. Landed(l, s)
        BY <1>5, <3>2
      <4> QED BY <4>1 DEF Landed
    <3>4. LocalsLeft(jobs[r], seen)
      BY JobIs
    <3> QED BY <3>2, <3>3, <3>4 DEF LocalsLeft
  <2> QED BY <2>1 DEF LocalStep
<1>9. Attributes(rows, held', raced)
  <2> SUFFICES ASSUME NEW p \in DOMAIN rows, rows[p].status = "synced", p[1] \notin raced
               PROVE  held'[p[1], rows[p].slot] \in {p[2], Nobody, Local}
    BY DEF Attributes
  <2>1. /\ p[1] \in Locks /\ rows[p].slot \in Slots
        /\ held[p[1], rows[p].slot] \in {p[2], Nobody, Local}
    BY DEF IInv, TablesOK, Attributes
  <2>2. ASSUME NEW r \in Callers, jobs[r].lock = p[1], jobs[r].at = "set", jobs[r].op = "push",
               jobs[r].slot = rows[p].slot
        PROVE  p[2] = jobs[r].user
    <3>1. Own(jobs[r], rows, held, raced)
      BY JobIs
    <3> QED BY <2>2, <3>1 DEF Own
  <2>3. CASE Landed(p[1], rows[p].slot)
    BY <2>2, <2>3 DEF Landed
  <2>4. CASE held'[p[1], rows[p].slot] = held[p[1], rows[p].slot]
    BY <2>1, <2>4
  <2>5. Landed(p[1], rows[p].slot) \/ held'[p[1], rows[p].slot] = held[p[1], rows[p].slot]
    BY <1>5, <2>1
  <2> QED BY <2>3, <2>4, <2>5
<1>10. /\ TablesOK' /\ RecordStep /\ SyncedStep /\ rows' = rows
  BY <1>2, Kept, RowsKept DEF IInv, KeepTables, SyncedStep
<1>11. NodesOK' /\ BitsShowLocal(bits', seen) /\ RowsNotLocal(rows', seen)
  BY <1>2, <1>10 DEF IInv, NodesOK, BitsShowLocal
<1>12. /\ jobs' \in [Callers -> Job]
       /\ \A r \in Callers : /\ Shape(jobs'[r]) /\ LocalsLeft(jobs'[r], seen)
                             /\ Own(jobs'[r], rows', held', raced')
  BY <1>2, IdleIs DEF Shape
<1>13. raced' \subseteq Locks /\ raced \subseteq raced' /\ Contended(jobs') \subseteq raced'
  BY DEF IInv, Contended
<1>14. Attributes(rows', held', raced')
  BY <1>9, <1>10, <1>13 DEF Attributes
<1>15. /\ SeenOK' /\ RowsNotLocal(rows', seen') /\ BitsShowLocal(bits', seen')
       /\ \A q \in Callers : LocalsLeft(jobs'[q], seen')
  BY <1>11, <1>12, SeenHolds
<1>16. IInv'
  BY <1>6, <1>10, <1>11, <1>12, <1>13, <1>14, <1>15 DEF IInv
<1> QED BY <1>8, <1>10, <1>16 DEF Good

-----------------------------------------------------------------------------
LEMMA InitHolds ==
    ASSUME Init
    PROVE  IInv
<1>1. TablesOK /\ NodesOK /\ rows = [p \in {} |-> 0] /\ bits = [l \in {} |-> {}]
  BY DEF Init, TablesOK, NodesOK
<1>2. /\ jobs = [r \in Callers |-> Idle] /\ raced = {}
      /\ held \in [Locks \X Slots -> {Nobody, Local}]
  BY DEF Init
<1>3. HeldOK
  BY <1>2 DEF HeldOK
<1>4. RowsNotLocal(rows, seen) /\ BitsShowLocal(bits, seen) /\ Attributes(rows, held, raced)
  BY <1>1 DEF RowsNotLocal, BitsShowLocal, Attributes
<1>5. WorksOn(Idle) = {}
  BY LockCodesAssumption DEF WorksOn, Idle
<1>6. Contended(jobs) = {}
  BY <1>2, <1>5 DEF Contended
<1>7. SeenOK
  BY DEF Init, SeenOK
<1> QED BY <1>1, <1>2, <1>3, <1>4, <1>6, <1>7, IdleIs DEF IInv, Shape

LEMMA ContinueHolds ==
    ASSUME IInv, NEW r \in Callers, Continue(r),
           raced' = raced \cup Contended(jobs'), seen' = SeenAfter
    PROVE  Good
BY PushToHolds, ReadSlotHolds, ChooseSlotHolds, SetAnsweredHolds, SetReportedHolds,
   ClearFromHolds, ClearAnsweredHolds, ClearReportedHolds, AnswerHolds,
   WipeStartHolds, WipeHolds, UnenrolledHolds DEF Continue

LEMMA NextHolds ==
    ASSUME IInv, Next
    PROVE  Good
<1>1. raced' = raced \cup Contended(jobs') /\ seen' = SeenAfter /\ Step
  BY DEF Next
<1>2. ASSUME NEW r \in Requests, Request(r)
      PROVE  Good
  <2>1. r \in Callers /\ "clear" \in Clears /\ "delete" \in Clears
    BY DEF Callers, Clears
  <2> QED BY <1>1, <1>2, <2>1, PushHolds, ClearHolds, UnenrollHolds DEF Request
<1>3. ASSUME NEW u \in Installers, Clear(Sweeper, "sweep", u)
      PROVE  Good
  <2>1. Sweeper \in Callers /\ u \in Users /\ "sweep" \in Clears
    BY LockCodesAssumption DEF Callers, Clears
  <2> QED BY <1>1, <1>3, <2>1, ClearHolds
<1> QED BY <1>1, <1>2, <1>3, ContinueHolds, NetworkHolds, LeaveHolds,
       ProgramHolds, RestartHolds DEF Step

LEMMA StutterHolds ==
    ASSUME IInv, UNCHANGED vars
    PROVE  Good
<1>1. /\ users' = users /\ gone' = gone /\ rows' = rows /\ enrolled' = enrolled
      /\ paired' = paired /\ known' = known /\ bits' = bits /\ held' = held
      /\ jobs' = jobs /\ raced' = raced /\ seen' = seen
  BY DEF vars
<1>2. TablesOK' /\ NodesOK' /\ HeldOK'
  BY <1>1 DEF IInv, TablesOK, NodesOK, HeldOK
<1>3. IInv'
  BY <1>1, <1>2 DEF IInv, SeenOK
<1> QED BY <1>1, <1>3 DEF Good, IInv, SeenOK, RecordStep, LocalStep, SyncedStep

LEMMA StepHolds ==
    ASSUME IInv, [Next]_vars
    PROVE  Good
BY NextHolds, StutterHolds

LEMMA Invariant == Spec => []IInv
<1>1. IInv /\ [Next]_vars => IInv'
  BY StepHolds DEF Good
<1> QED BY <1>1, InitHolds, PTL DEF Spec

(* Every variable has its type, a row of lock_code_slots belongs to an      *)
(* account, and no two rows of a lock share a slot (schema.ts:342-350).     *)
THEOREM TypeCorrect == Spec => []TypeOK
<1>1. IInv => TypeOK
  BY DEF IInv, TypeOK, TablesOK, NodesOK, HeldOK, SeenOK
<1> QED BY <1>1, Invariant, PTL

(* The slot a lock accepted a user's code in holds that user's code or none *)
(* (findUserBySlot names the person at the door), or a code programmed over *)
(* it at the lock, for any number of locks, users and clients, whatever is  *)
(* lost, refused or cut off by a restart, on a lock no two requests worked  *)
(* on at once.                                                              *)
THEOREM SlotsAttributed == Spec => []Attributed
<1>1. IInv => Attributed
  BY DEF IInv, RowsNotLocal, Attributes, Attributed, Synced
<1> QED BY <1>1, Invariant, PTL

(* The record of a slot goes only when the slot holds no user's code, the   *)
(* account goes, or the lock is not one of the system's.                    *)
THEOREM RecordsKept == Spec => RecordKept
<1>1. IInv /\ [Next]_vars =>
         [\A p \in DOMAIN rows \ DOMAIN rows' :
             p[1] \in (known \cap enrolled)' /\ p[2] \in users' /\ p[1] \notin raced'
             => held'[p[1], rows[p].slot] \in {Nobody, Local}]_vars
  BY StepHolds DEF Good, RecordStep
<1> QED BY <1>1, Invariant, PTL DEF Spec, RecordKept

(* A code someone programmed on the lock itself, before or while the base   *)
(* station runs, is left alone from the moment that it is in sight: that    *)
(* the bit field, if one was read, shows it, that no row claims its slot    *)
(* and that no request is under way at the lock.  Only unenrolling takes it.*)
THEOREM LocalCodesKept == Spec => LocalKept
<1>1. IInv /\ [Next]_vars =>
         [\A c \in seen :
             held'[c] # Local
             => \E r \in Callers : jobs[r].at = "wipe" /\ jobs[r].lock = c[1]]_vars
  BY StepHolds DEF Good, LocalStep
<1> QED BY <1>1, Invariant, PTL DEF Spec, LocalKept

(* A row becomes "synced" only while the lock holds the user's code.        *)
THEOREM SyncedIsHeld == Spec => SyncedMeansHeld
<1>1. IInv /\ [Next]_vars =>
         [\A p \in DOMAIN rows' :
             /\ rows'[p].status = "synced"
             /\ p \in DOMAIN rows => rows[p] # rows'[p]
             /\ p[1] \notin raced'
             => held'[p[1], rows'[p].slot] = p[2]]_vars
  BY StepHolds DEF Good, SyncedStep
<1> QED BY <1>1, Invariant, PTL DEF Spec, SyncedMeansHeld

-----------------------------------------------------------------------------
(* The automation.                                                          *)

(* The elements of a sequence. *)
Elements(s) == {s[i] : i \in DOMAIN s}

(* What handlePanel goes through, and a command with what is left of it.    *)
Entry == [lock : EnrolledLocks, saw : Bolt \cup {"unknown"}]

Command == [lock : EnrolledLocks, to : Bolt, mode : KeyModes \cup {"app"}, todo : Seq(Entry)]

SettingsType == settings \in [EnrolledLocks -> [armOnLockWithCode : BOOLEAN, armOnOneTouch : BOOLEAN,
                                              disarmOnUnlock : BOOLEAN,
                                              actions : [KeyModes -> Bolt \cup {"none"}]]]

(* The loop still has the lock to move. *)
IsDue(e, m) == Wants(e.lock, m) \notin {"none", e.saw}

Chases(c, l) ==
    c.lock = l \/ \E k \in DOMAIN c.todo : c.todo[k].lock = l /\ IsDue(c.todo[k], c.mode)

(* Each bolt that is still asked for is where the mode wants it or about to *)
(* be moved there, and nothing under way moves it anywhere else.            *)
Agrees(c, l, to) ==
    /\ c.lock = l => c.to = to
    /\ \A k \in DOMAIN c.todo : c.todo[k].lock = l => Wants(l, c.mode) = to

Chased(l) ==
    asked[l] # "none" =>
        /\ \A c \in Elements(commands) : Agrees(c, l, asked[l])
        /\ bolt[l] = asked[l] \/ \E c \in Elements(commands) : Chases(c, l)

(* A command of the app is no part of a loop. *)
CommandsOK ==
    /\ commands \in Seq(Command)
    /\ Len(commands) <= MaxCommands
    /\ \A c \in Elements(commands) : c.mode = "app" => c.todo = << >>

(* What the automation remembers fits the mode the panel heads for.         *)
EntryInv ==
    /\ cause \in {"other", "lock", "astray"}
    /\ mode \in KeyModes /\ cause # "astray" => (obeyed <=> cause = "other")
    /\ mode = "arming" =>
          /\ armedMode \in ArmedModes
          /\ cause = "lock" => skipEntryOf = armedMode
          /\ cause = "other" => skipEntryOf # armedMode
    /\ skipEntryOf = "armed_away" => mode = "arming"
    /\ mode \in Alarms \cup {"disarmed"} => skipEntryOf = "none"

AutomationInv ==
    /\ AutomationTypeOK
    /\ CommandsOK
    /\ EntryInv
    /\ \A l \in EnrolledLocks : Chased(l)

-----------------------------------------------------------------------------
(* A sequence, by its elements. *)
LEMMA JoinedIs ==
    ASSUME NEW S, NEW s \in Seq(S), NEW t \in Seq(S)
    PROVE  /\ s \o t \in Seq(S) /\ Len(s \o t) = Len(s) + Len(t)
           /\ Elements(s \o t) = Elements(s) \cup Elements(t)
<1> DEFINE u == s \o t
<1>1. /\ u \in Seq(S) /\ Len(u) = Len(s) + Len(t)
      /\ \A i \in 1 .. Len(s) + Len(t) : u[i] = IF i <= Len(s) THEN s[i] ELSE t[i - Len(s)]
  BY ConcatProperties
<1>2. /\ DOMAIN s = 1 .. Len(s) /\ DOMAIN t = 1 .. Len(t) /\ DOMAIN u = 1 .. Len(u)
      /\ Len(s) \in Nat /\ Len(t) \in Nat
  BY <1>1, LenProperties
<1> HIDE DEF u
<1>3. ASSUME NEW i \in DOMAIN u
      PROVE  u[i] \in Elements(s) \cup Elements(t)
  <2>1. CASE i <= Len(s)
    BY <1>1, <1>2, <2>1 DEF Elements
  <2>2. CASE ~(i <= Len(s))
    <3>1. i - Len(s) \in 1 .. Len(t) /\ u[i] = t[i - Len(s)]
      BY <1>1, <1>2, <2>2
    <3> QED BY <1>2, <3>1 DEF Elements
  <2> QED BY <2>1, <2>2
<1>4. ASSUME NEW i \in DOMAIN s
      PROVE  s[i] \in Elements(u)
  <2>1. i \in DOMAIN u /\ u[i] = s[i]
    BY <1>1, <1>2
  <2> QED BY <2>1 DEF Elements
<1>5. ASSUME NEW i \in DOMAIN t
      PROVE  t[i] \in Elements(u)
  <2>1. Len(s) + i \in DOMAIN u /\ u[Len(s) + i] = t[i]
    BY <1>1, <1>2
  <2> QED BY <2>1 DEF Elements
<1>6. Elements(u) = Elements(s) \cup Elements(t)
  BY <1>3, <1>4, <1>5 DEF Elements
<1> QED BY <1>1, <1>6 DEF u

LEMMA SliceIs ==
    ASSUME NEW S, NEW s \in Seq(S), NEW m \in Nat \ {0}, NEW n \in 0 .. Len(s)
    PROVE  /\ SubSeq(s, m, n) \in Seq(S)
           /\ Len(SubSeq(s, m, n)) = IF m <= n THEN n - m + 1 ELSE 0
           /\ Elements(SubSeq(s, m, n)) = {s[k] : k \in m .. n}
<1> DEFINE u == SubSeq(s, m, n)
<1>1. DOMAIN s = 1 .. Len(s) /\ Len(s) \in Nat /\ \A i \in 1 .. Len(s) : s[i] \in S
  BY LenProperties, ElementOfSeq
<1>2. m \in Int /\ n \in Int /\ \A i \in m .. n : s[i] \in S
  BY <1>1
<1>3. /\ u \in Seq(S) /\ Len(u) = IF m <= n THEN n - m + 1 ELSE 0
      /\ \A i \in 1 .. n - m + 1 : u[i] = s[m + i - 1]
  BY <1>2, SubSeqProperties
<1>4. DOMAIN u = 1 .. Len(u)
  BY <1>3, LenProperties
<1> HIDE DEF u
<1>5. ASSUME NEW i \in DOMAIN u
      PROVE  u[i] \in {s[k] : k \in m .. n}
  <2>1. m + i - 1 \in m .. n /\ u[i] = s[m + i - 1]
    BY <1>2, <1>3, <1>4
  <2> QED BY <2>1
<1>6. ASSUME NEW k \in m .. n
      PROVE  s[k] \in Elements(u)
  <2>1. k - m + 1 \in DOMAIN u /\ u[k - m + 1] = s[m + (k - m + 1) - 1] /\ m + (k - m + 1) - 1 = k
    BY <1>2, <1>3, <1>4
  <2> QED BY <2>1 DEF Elements
<1>7. Elements(u) = {s[k] : k \in m .. n}
  BY <1>5, <1>6 DEF Elements
<1> QED BY <1>3, <1>7 DEF u

LEMMA RemovedIs ==
    ASSUME NEW S, NEW s \in Seq(S), NEW i \in DOMAIN s
    PROVE  /\ RemoveAt(s, i) \in Seq(S) /\ Len(RemoveAt(s, i)) = Len(s) - 1
           /\ Elements(RemoveAt(s, i)) \subseteq Elements(s)
           /\ \A k \in DOMAIN s \ {i} : s[k] \in Elements(RemoveAt(s, i))
<1>1. DOMAIN s = 1 .. Len(s) /\ Len(s) \in Nat /\ i \in 1 .. Len(s)
  BY LenProperties
<1> DEFINE a == SubSeq(s, 1, i - 1)
           b == SubSeq(s, i + 1, Len(s))
<1>2. /\ i - 1 \in 0 .. Len(s) /\ i + 1 \in Nat \ {0} /\ 1 \in Nat \ {0}
      /\ Len(s) \in 0 .. Len(s)
  BY <1>1
<1>3. /\ a \in Seq(S) /\ Len(a) = i - 1 /\ Elements(a) = {s[k] : k \in 1 .. i - 1}
  <2>1. /\ a \in Seq(S) /\ Len(a) = IF 1 <= i - 1 THEN (i - 1) - 1 + 1 ELSE 0
        /\ Elements(a) = {s[k] : k \in 1 .. i - 1}
    BY <1>2, SliceIs
  <2> HIDE DEF a
  <2> QED BY <1>1, <2>1
<1>4. /\ b \in Seq(S) /\ Len(b) = Len(s) - i /\ Elements(b) = {s[k] : k \in i + 1 .. Len(s)}
  <2>1. /\ b \in Seq(S) /\ Len(b) = IF i + 1 <= Len(s) THEN Len(s) - (i + 1) + 1 ELSE 0
        /\ Elements(b) = {s[k] : k \in i + 1 .. Len(s)}
    BY <1>2, SliceIs
  <2> HIDE DEF b
  <2> QED BY <1>1, <2>1
<1>5. RemoveAt(s, i) = a \o b
  BY DEF RemoveAt
<1> HIDE DEF a, b
<1>6. /\ RemoveAt(s, i) \in Seq(S) /\ Len(RemoveAt(s, i)) = Len(a) + Len(b)
      /\ Elements(RemoveAt(s, i)) = Elements(a) \cup Elements(b)
  <2>1. /\ a \o b \in Seq(S) /\ Len(a \o b) = Len(a) + Len(b)
        /\ Elements(a \o b) = Elements(a) \cup Elements(b)
    <3>1. a \in Seq(S) /\ b \in Seq(S)
      BY <1>3, <1>4
    <3> QED BY <3>1, JoinedIs
  <2> QED BY <1>5, <2>1, Zenon
<1>7. \A k \in DOMAIN s \ {i} : k \in 1 .. i - 1 \/ k \in i + 1 .. Len(s)
  BY <1>1
<1>8. \A k \in 1 .. i - 1 : k \in DOMAIN s
  BY <1>1
<1>9. \A k \in i + 1 .. Len(s) : k \in DOMAIN s
  BY <1>1
<1>10. Len(a) + Len(b) = Len(s) - 1
  BY <1>1, <1>3, <1>4
<1> QED BY <1>3, <1>4, <1>6, <1>7, <1>8, <1>9, <1>10 DEF Elements

-----------------------------------------------------------------------------
(* The first that is due, and what is after it. *)
LEMMA AdvanceIs ==
    ASSUME NEW m, NEW todo \in Seq(Entry)
    PROVE  \/ /\ Advance(m, todo) = << >>
              /\ \A k \in DOMAIN todo : ~IsDue(todo[k], m)
           \/ \E i \in DOMAIN todo :
                 /\ IsDue(todo[i], m)
                 /\ \A k \in DOMAIN todo : k < i => ~IsDue(todo[k], m)
                 /\ Advance(m, todo) =
                       <<[lock |-> todo[i].lock, to |-> Wants(todo[i].lock, m), mode |-> m,
                          todo |-> SubSeq(todo, i + 1, Len(todo))]>>
<1> DEFINE due == {k \in 1 .. Len(todo) : IsDue(todo[k], m)}
           i == IF due # {} THEN Min(due) ELSE 0
<1>1. SelectInSeq(todo, LAMBDA e : Wants(e.lock, m) \notin {"none", e.saw}) = i
  BY DEF SelectInSeq, IsDue
<1>2. Advance(m, todo) =
         IF i = 0 THEN << >>
         ELSE <<[lock |-> todo[i].lock, to |-> Wants(todo[i].lock, m), mode |-> m,
                 todo |-> SubSeq(todo, i + 1, Len(todo))]>>
  BY <1>1 DEF Advance
<1>3. DOMAIN todo = 1 .. Len(todo) /\ Len(todo) \in Nat /\ due \in SUBSET Nat
  BY LenProperties
<1>4. CASE due = {}
  <2>1. i = 0 /\ \A k \in DOMAIN todo : ~IsDue(todo[k], m)
    BY <1>3, <1>4
  <2> QED BY <1>2, <2>1
<1>5. CASE due # {}
  <2>1. i \in due /\ \A k \in due : i <= k
    BY <1>3, <1>5, LeastIs
  <2> HIDE DEF i
  <2>2. i \in DOMAIN todo /\ i # 0 /\ IsDue(todo[i], m)
    BY <1>3, <2>1
  <2>3. \A k \in DOMAIN todo : k < i => ~IsDue(todo[k], m)
    BY <1>3, <2>1
  <2> QED BY <1>2, <2>2, <2>3
<1> QED BY <1>4, <1>5

LEMMA AdvanceHolds ==
    ASSUME SettingsType, NEW m \in KeyModes, NEW todo \in Seq(Entry)
    PROVE  /\ Advance(m, todo) \in Seq(Command) /\ Len(Advance(m, todo)) <= 1
           /\ \A c \in Elements(Advance(m, todo)) : c.mode = m
           /\ \A l \in EnrolledLocks :
                 (\E k \in DOMAIN todo : todo[k].lock = l /\ IsDue(todo[k], m))
                 => \E c \in Elements(Advance(m, todo)) : Chases(c, l)
           /\ \A l, to :
                 (\A k \in DOMAIN todo : todo[k].lock = l => Wants(l, m) = to)
                 => \A c \in Elements(Advance(m, todo)) : Agrees(c, l, to)
<1> DEFINE u == Advance(m, todo)
<1>1. DOMAIN todo = 1 .. Len(todo) /\ Len(todo) \in Nat /\ \A k \in DOMAIN todo : todo[k] \in Entry
  BY LenProperties, ElementOfSeq
<1>2. CASE u = << >> /\ \A k \in DOMAIN todo : ~IsDue(todo[k], m)
  <2>1. u \in Seq(Command) /\ Len(u) <= 1 /\ Elements(u) = {}
    BY <1>2, EmptySeq DEF Elements
  <2> HIDE DEF u
  <2> QED BY <1>2, <2>1 DEF u
<1>3. ASSUME NEW i \in DOMAIN todo, IsDue(todo[i], m),
             \A k \in DOMAIN todo : k < i => ~IsDue(todo[k], m),
             u = <<[lock |-> todo[i].lock, to |-> Wants(todo[i].lock, m), mode |-> m,
                    todo |-> SubSeq(todo, i + 1, Len(todo))]>>
      PROVE  /\ u \in Seq(Command) /\ Len(u) <= 1
             /\ \A c \in Elements(u) : c.mode = m
             /\ \A l \in EnrolledLocks :
                   (\E k \in DOMAIN todo : todo[k].lock = l /\ IsDue(todo[k], m))
                   => \E c \in Elements(u) : Chases(c, l)
             /\ \A l, to :
                   (\A k \in DOMAIN todo : todo[k].lock = l => Wants(l, m) = to)
                   => \A c \in Elements(u) : Agrees(c, l, to)
  <2> DEFINE rest == SubSeq(todo, i + 1, Len(todo))
             c == [lock |-> todo[i].lock, to |-> Wants(todo[i].lock, m), mode |-> m, todo |-> rest]
  <2>1. rest \in Seq(Entry) /\ Elements(rest) = {todo[k] : k \in i + 1 .. Len(todo)}
    <3>1. i + 1 \in Nat \ {0} /\ Len(todo) \in 0 .. Len(todo)
      BY <1>1
    <3> QED BY <3>1, SliceIs
  <2>2. todo[i].lock \in EnrolledLocks /\ Wants(todo[i].lock, m) \in Bolt
    <3>1. todo[i].lock \in EnrolledLocks
      BY <1>1 DEF Entry
    <3>2. Wants(todo[i].lock, m) \in Bolt \cup {"none"}
      BY <3>1 DEF SettingsType, Wants
    <3> QED BY <1>3, <3>1, <3>2 DEF IsDue
  <2> HIDE DEF rest
  <2>3. c \in Command /\ c.lock = todo[i].lock /\ c.to = Wants(todo[i].lock, m)
        /\ c.mode = m /\ c.todo = rest
    BY <2>1, <2>2 DEF Command
  <2>4. u = <<c>>
    BY <1>3 DEF rest
  <2> HIDE DEF c, u
  <2>5. u \in Seq(Command) /\ Len(u) <= 1 /\ Elements(u) = {c}
    <3>1. <<c>> \in Seq(Command) /\ Len(<<c>>) = 1 /\ DOMAIN <<c>> = {1} /\ <<c>>[1] = c
      BY <2>3
    <3> QED BY <2>4, <3>1 DEF Elements
  <2>6. \A k \in DOMAIN rest : \E n \in DOMAIN todo : n > i /\ rest[k] = todo[n]
    <3> TAKE k \in DOMAIN rest
    <3>1. rest[k] \in {todo[n] : n \in i + 1 .. Len(todo)}
      BY <2>1 DEF Elements
    <3>2. PICK n \in i + 1 .. Len(todo) : rest[k] = todo[n]
      BY <3>1
    <3>3. n \in DOMAIN todo /\ n > i
      BY <1>1
    <3> QED BY <3>2, <3>3
  <2>7. \A n \in DOMAIN todo : n > i => \E k \in DOMAIN rest : rest[k] = todo[n]
    <3> TAKE n \in DOMAIN todo
    <3> HAVE n > i
    <3>1. n \in i + 1 .. Len(todo)
      BY <1>1
    <3>2. todo[n] \in Elements(rest)
      BY <2>1, <3>1
    <3> QED BY <3>2 DEF Elements
  <2>8. ASSUME NEW l \in EnrolledLocks, NEW k \in DOMAIN todo, todo[k].lock = l, IsDue(todo[k], m)
        PROVE  Chases(c, l)
    <3>1. k = i \/ k > i
      BY <1>1, <1>3, <2>8
    <3>2. CASE k = i
      BY <2>3, <2>8, <3>2 DEF Chases
    <3>3. CASE k > i
      <4>1. PICK n \in DOMAIN rest : rest[n] = todo[k]
        BY <2>7, <3>3
      <4> QED BY <2>3, <2>8, <4>1 DEF Chases
    <3> QED BY <3>1, <3>2, <3>3
  <2>9. ASSUME NEW l, NEW to, \A k \in DOMAIN todo : todo[k].lock = l => Wants(l, m) = to
        PROVE  Agrees(c, l, to)
    <3>1. \A k \in DOMAIN rest : rest[k].lock = l => Wants(l, m) = to
      BY <2>6, <2>9
    <3> QED BY <2>3, <2>9, <3>1 DEF Agrees
  <2> QED BY <2>3, <2>5, <2>8, <2>9
<1>4. \/ u = << >> /\ \A k \in DOMAIN todo : ~IsDue(todo[k], m)
      \/ \E i \in DOMAIN todo :
            /\ IsDue(todo[i], m)
            /\ \A k \in DOMAIN todo : k < i => ~IsDue(todo[k], m)
            /\ u = <<[lock |-> todo[i].lock, to |-> Wants(todo[i].lock, m), mode |-> m,
                      todo |-> SubSeq(todo, i + 1, Len(todo))]>>
  BY AdvanceIs
<1> HIDE DEF u
<1> QED BY <1>2, <1>3, <1>4 DEF u

-----------------------------------------------------------------------------
LEMMA SettingsOK ==
    ASSUME AutomationTypeOK
    PROVE  SettingsType
<1>1. DefaultSettings \in [armOnLockWithCode : BOOLEAN, armOnOneTouch : BOOLEAN,
                          disarmOnUnlock : BOOLEAN, actions : [KeyModes -> Bolt \cup {"none"}]]
  BY DEF DefaultSettings
<1> QED BY <1>1, LockAutomationAssumption DEF AutomationTypeOK, SettingsType

(* The list an entry goes through: the locks known, with what each last     *)
(* reported.                                                                *)
LEMMA ListIs ==
    ASSUME AutomationTypeOK
    PROVE  LET todo == [i \in DOMAIN listed |-> [lock |-> listed[i], saw |-> locked[listed[i]]]]
           IN  /\ todo \in Seq(Entry)
               /\ \A l \in Listed : \E i \in DOMAIN todo : todo[i].lock = l
               /\ \A i \in DOMAIN todo : todo[i].saw = locked[todo[i].lock]
<1> DEFINE todo == [i \in DOMAIN listed |-> [lock |-> listed[i], saw |-> locked[listed[i]]]]
<1>1. listed \in Seq(EnrolledLocks) /\ DOMAIN listed = 1 .. Len(listed) /\ Len(listed) \in Nat
  BY LenProperties DEF AutomationTypeOK
<1>2. \A i \in DOMAIN listed : listed[i] \in EnrolledLocks
  BY <1>1, ElementOfSeq
<1>3. \A i \in DOMAIN listed : [lock |-> listed[i], saw |-> locked[listed[i]]] \in Entry
  BY <1>2 DEF AutomationTypeOK, Entry
<1>4. todo \in Seq(Entry)
  BY <1>1, <1>3
<1>5. \A l \in Listed : \E i \in DOMAIN listed : listed[i] = l
  BY DEF Listed, Range
<1>6. DOMAIN todo = DOMAIN listed /\ \A i \in DOMAIN todo : todo[i].lock = listed[i] /\ todo[i].saw = locked[listed[i]]
  OBVIOUS
<1> HIDE DEF todo
<1>7. \A l \in Listed : \E i \in DOMAIN todo : todo[i].lock = l
  BY <1>5, <1>6
<1>8. \A i \in DOMAIN todo : todo[i].saw = locked[todo[i].lock]
  BY <1>6
<1> QED BY <1>4, <1>7, <1>8 DEF todo

LEMMA BeginHolds ==
    ASSUME AutomationTypeOK, NEW m \in KeyModes
    PROVE  /\ Begin(m) \in Seq(Command) /\ Len(Begin(m)) <= 1
           /\ \A c \in Elements(Begin(m)) : c.mode = m
           /\ \A l \in EnrolledLocks :
                 /\ l \in Listed /\ Wants(l, m) \notin {"none", locked[l]} =>
                       \E c \in Elements(Begin(m)) : Chases(c, l)
                 /\ \A c \in Elements(Begin(m)) : Agrees(c, l, Wants(l, m))
<1> DEFINE todo == [i \in DOMAIN listed |-> [lock |-> listed[i], saw |-> locked[listed[i]]]]
<1>1. /\ todo \in Seq(Entry)
      /\ \A l \in Listed : \E i \in DOMAIN todo : todo[i].lock = l
      /\ \A i \in DOMAIN todo : todo[i].saw = locked[todo[i].lock]
  BY ListIs
<1>2. Begin(m) = Advance(m, todo)
  BY DEF Begin
<1> HIDE DEF todo
<1>3. /\ Begin(m) \in Seq(Command) /\ Len(Begin(m)) <= 1
      /\ \A c \in Elements(Begin(m)) : c.mode = m
      /\ \A l \in EnrolledLocks :
            (\E k \in DOMAIN todo : todo[k].lock = l /\ IsDue(todo[k], m))
            => \E c \in Elements(Begin(m)) : Chases(c, l)
      /\ \A l, to :
            (\A k \in DOMAIN todo : todo[k].lock = l => Wants(l, m) = to)
            => \A c \in Elements(Begin(m)) : Agrees(c, l, to)
  BY <1>1, <1>2, SettingsOK, AdvanceHolds
<1>4. ASSUME NEW l \in EnrolledLocks, l \in Listed, Wants(l, m) \notin {"none", locked[l]}
      PROVE  \E c \in Elements(Begin(m)) : Chases(c, l)
  <2>1. PICK i \in DOMAIN todo : todo[i].lock = l
    BY <1>1, <1>4
  <2>2. IsDue(todo[i], m)
    BY <1>1, <1>4, <2>1 DEF IsDue
  <2> QED BY <1>3, <2>1, <2>2
<1>5. \A l \in EnrolledLocks : \A c \in Elements(Begin(m)) : Agrees(c, l, Wants(l, m))
  BY <1>3
<1> QED BY <1>3, <1>4, <1>5

(* The panel goes to a mode: what becomes of the commands and of what is    *)
(* asked of the bolts, unless the bolts themselves moved with it.           *)
LEMMA PanelTurn ==
    ASSUME AutomationInv, NEW m \in KeyModes \cup Alarms \cup {"arming"}, NEW skip, NEW who,
           PanelChanged(m, skip, who), settings' = settings,
           \/ bolt' = bolt
           \/ who = "lock"
           \/ m \in KeyModes /\ who # "other"
    PROVE  /\ CommandsOK' /\ \A l \in EnrolledLocks : Chased(l)'
           /\ asked' \in [EnrolledLocks -> Bolt \cup {"none"}]
           /\ mode' = m /\ skipEntryOf' = KeptEntry(m, skip) /\ cause' = who
           /\ obeyed' = (m \in KeyModes /\ skip # m)
<1> DEFINE obeys == m \in KeyModes /\ skip # m
<1>1. /\ obeys => Len(commands) < MaxCommands
      /\ commands' = IF obeys THEN commands \o Begin(m) ELSE commands
      /\ mode' = m /\ skipEntryOf' = KeptEntry(m, skip) /\ cause' = who /\ obeyed' = obeys
      /\ asked' = IF m \in KeyModes \/ who = "lock"
                  THEN [l \in EnrolledLocks |->
                           IF obeys /\ who = "other" /\ Calm /\ l \in Listed
                           THEN Wants(l, m) ELSE "none"]
                  ELSE asked
  BY DEF PanelChanged
<1>2. CommandsOK /\ AutomationTypeOK /\ SettingsType
  BY SettingsOK DEF AutomationInv
<1>3. CommandsOK'
  <2>1. CASE ~obeys
    <3>1. commands' = commands
      BY <1>1, <2>1
    <3> QED BY <1>2, <3>1 DEF CommandsOK
  <2>2. CASE obeys
    <3>1. /\ Begin(m) \in Seq(Command) /\ Len(Begin(m)) <= 1
          /\ \A c \in Elements(Begin(m)) : c.mode = m
      BY <1>2, <2>2, BeginHolds
    <3>2. commands \in Seq(Command)
      BY <1>2 DEF CommandsOK
    <3>3. /\ commands \o Begin(m) \in Seq(Command)
          /\ Len(commands \o Begin(m)) = Len(commands) + Len(Begin(m))
          /\ Elements(commands \o Begin(m)) = Elements(commands) \cup Elements(Begin(m))
      BY <3>1, <3>2, JoinedIs
    <3>4. commands' = commands \o Begin(m)
      BY <1>1, <2>2
    <3>5. Len(commands) + Len(Begin(m)) <= MaxCommands
      <4>1. Len(commands) \in Nat /\ Len(Begin(m)) \in Nat /\ MaxCommands \in Nat
        BY <3>1, <3>2, LenProperties, LockAutomationAssumption
      <4> QED BY <1>1, <2>2, <3>1, <4>1
    <3>6. m # "app"
      BY <2>2 DEF KeyModes
    <3>7. \A c \in Elements(commands \o Begin(m)) : c.mode = "app" => c.todo = << >>
      BY <1>2, <3>1, <3>3, <3>6 DEF CommandsOK
    <3> QED BY <3>3, <3>4, <3>5, <3>7 DEF CommandsOK
  <2> QED BY <2>1, <2>2
<1>4. CASE (m \in KeyModes \/ who = "lock") /\ obeys /\ who = "other" /\ Calm
  <2>1. /\ asked' = [l \in EnrolledLocks |-> IF l \in Listed THEN Wants(l, m) ELSE "none"]
        /\ bolt' = bolt
    BY <1>1, <1>4
  <2>2. /\ Begin(m) \in Seq(Command)
        /\ \A l \in EnrolledLocks :
              /\ l \in Listed /\ Wants(l, m) \notin {"none", locked[l]} =>
                    \E c \in Elements(Begin(m)) : Chases(c, l)
              /\ \A c \in Elements(Begin(m)) : Agrees(c, l, Wants(l, m))
    BY <1>2, <1>4, BeginHolds
  <2>3. commands = << >> /\ \A l \in EnrolledLocks : locked[l] \in {bolt[l], "unknown"}
    BY <1>4 DEF Calm
  <2>4. commands' = Begin(m)
    <3>1. << >> \o Begin(m) = Begin(m)
      BY <2>2, ConcatEmptySeq
    <3> QED BY <1>1, <1>4, <2>3, <3>1
  <2>5. \A l \in EnrolledLocks : Wants(l, m) \in Bolt \cup {"none"}
    BY <1>2, <1>4 DEF SettingsType, Wants
  <2>6. ASSUME NEW l \in EnrolledLocks, l \in Listed
        PROVE  Chased(l)'
    <3>1. asked'[l] = Wants(l, m) /\ bolt'[l] = bolt[l] /\ Wants(l, m) # "unknown"
      BY <2>1, <2>5, <2>6 DEF Bolt
    <3>2. \A c : Agrees(c, l, asked[l])' <=> Agrees(c, l, Wants(l, m))
      BY <3>1 DEF Agrees, Wants
    <3>3. \A c : Chases(c, l)' <=> Chases(c, l)
      BY DEF Chases, IsDue, Wants
    <3>4. \A c \in Elements(commands') : Agrees(c, l, asked[l])'
      BY <2>2, <2>4, <3>2
    <3>5. asked'[l] # "none" => bolt'[l] = asked'[l] \/ \E c \in Elements(commands') : Chases(c, l)'
      <4>1. CASE Wants(l, m) = locked[l]
        BY <2>3, <3>1, <4>1
      <4>2. CASE Wants(l, m) # locked[l] /\ Wants(l, m) # "none"
        BY <2>2, <2>4, <2>6, <3>3, <4>2
      <4> QED BY <3>1, <4>1, <4>2
    <3> QED BY <3>4, <3>5 DEF Chased, Elements
  <2>7. ASSUME NEW l \in EnrolledLocks, l \notin Listed
        PROVE  Chased(l)'
    BY <2>1, <2>7 DEF Chased
  <2> QED BY <1>1, <1>3, <2>1, <2>5, <2>6, <2>7
<1>5. CASE (m \in KeyModes \/ who = "lock") /\ ~(obeys /\ who = "other" /\ Calm)
  <2>1. asked' = [l \in EnrolledLocks |-> "none"]
    BY <1>1, <1>5
  <2> QED BY <1>1, <1>3, <2>1 DEF Chased
<1>6. CASE ~(m \in KeyModes \/ who = "lock")
  <2>1. asked' = asked /\ commands' = commands /\ bolt' = bolt
    BY <1>1, <1>6
  <2>2. ASSUME NEW l \in EnrolledLocks
        PROVE  Chased(l)'
    <3>1. Chased(l)
      BY DEF AutomationInv
    <3> QED BY <2>1, <3>1 DEF Chased, Agrees, Chases, IsDue, Wants, Elements
  <2> QED BY <1>1, <1>2, <1>3, <2>1, <2>2 DEF AutomationTypeOK
<1> QED BY <1>4, <1>5, <1>6

(* The rest of the invariant, for a step that is a turn of the panel.       *)
LEMMA TurnOfPanel ==
    ASSUME AutomationInv, NEW m \in KeyModes \cup Alarms \cup {"arming"},
           NEW skip \in {"none", "disarmed", "armed_away"}, NEW who,
           PanelChanged(m, skip, who), settings' = settings,
           \/ bolt' = bolt
           \/ who = "lock"
           \/ m \in KeyModes /\ who # "other",
           armedMode' \in ArmedModes \cup {"none"},
           listed' = listed,
           bolt' \in [EnrolledLocks -> Bolt], locked' \in [EnrolledLocks -> Bolt \cup {"unknown"}],
           EntryInv'
    PROVE  AutomationInv'
<1>1. /\ CommandsOK' /\ \A l \in EnrolledLocks : Chased(l)'
      /\ asked' \in [EnrolledLocks -> Bolt \cup {"none"}]
      /\ mode' = m /\ skipEntryOf' = KeptEntry(m, skip)
  BY PanelTurn
<1>2. /\ settings' \in [EnrolledLocks -> Settings \cup {DefaultSettings}]
      /\ listed' \in Seq(EnrolledLocks)
  BY DEF AutomationInv, AutomationTypeOK
<1>3. AutomationTypeOK'
  BY <1>1, <1>2 DEF AutomationTypeOK, CommandsOK, KeptEntry
<1> QED BY <1>1, <1>3 DEF AutomationInv

LEMMA MovesOf ==
    ASSUME NEW m, NEW skip, NEW who, PanelChanged(m, skip, who)
    PROVE  /\ mode' = m /\ cause' = who
           /\ skipEntryOf' = IF m = "arming" THEN skip ELSE "none"
           /\ obeyed' <=> m \in KeyModes /\ skip # m
BY DEF PanelChanged, KeptEntry

LEMMA ArmKeeps ==
    ASSUME AutomationInv, NEW m \in ArmedModes, Arm(m)
    PROVE  AutomationInv'
<1>1. AutomationTypeOK /\ EntryInv
  BY DEF AutomationInv
<1>2. PanelChanged("arming", skipEntryOf, "other") /\ armedMode' = m
  BY DEF Arm
<1>3. EntryInv'
  BY <1>1, <1>2, MovesOf DEF Arm, EntryInv, KeyModes, ArmedModes, Alarms
<1> QED BY <1>1, <1>2, <1>3, TurnOfPanel DEF Arm, Others, AutomationTypeOK

LEMMA DisarmKeeps ==
    ASSUME AutomationInv, Disarm
    PROVE  AutomationInv'
<1>1. AutomationTypeOK /\ EntryInv
  BY DEF AutomationInv
<1>2. PanelChanged("disarmed", skipEntryOf, Other) /\ armedMode' = "none"
  BY DEF Disarm
<1>3. EntryInv'
  BY <1>1, <1>2, MovesOf DEF Disarm, EntryInv, KeyModes, ArmedModes, Alarms, Other
<1> QED BY <1>1, <1>2, <1>3, TurnOfPanel DEF Disarm, Others, AutomationTypeOK, KeyModes

LEMMA ExitDelayKeeps ==
    ASSUME AutomationInv, ExitDelayElapses
    PROVE  AutomationInv'
<1>1. AutomationTypeOK /\ EntryInv
  BY DEF AutomationInv
<1>2. PanelChanged(armedMode, skipEntryOf, cause) /\ armedMode' = armedMode /\ mode = "arming"
  BY DEF ExitDelayElapses
<1>3. armedMode \in KeyModes
  BY <1>1, <1>2 DEF EntryInv, KeyModes, ArmedModes
<1>4. EntryInv'
  BY <1>1, <1>2, <1>3, MovesOf DEF EntryInv, KeyModes, ArmedModes, Alarms
<1> QED BY <1>1, <1>2, <1>3, <1>4, TurnOfPanel DEF ExitDelayElapses, Others, AutomationTypeOK

LEMMA AlarmKeeps ==
    ASSUME AutomationInv, NEW m \in Alarms, Alarm(m)
    PROVE  AutomationInv'
<1>1. AutomationTypeOK /\ EntryInv
  BY DEF AutomationInv
<1>2. PanelChanged(m, skipEntryOf, "other") /\ armedMode' = armedMode
  BY DEF Alarm
<1>3. EntryInv'
  BY <1>1, <1>2, MovesOf DEF EntryInv, KeyModes, ArmedModes, Alarms
<1> QED BY <1>1, <1>2, <1>3, TurnOfPanel DEF Alarm, Others, AutomationTypeOK

LEMMA StoodDownIs ==
    ASSUME AutomationTypeOK
    PROVE  StoodDown \in KeyModes
BY DEF AutomationTypeOK, StoodDown, KeyModes, ArmedModes

LEMMA GuestKeeps ==
    ASSUME AutomationInv, GuestStandsDown
    PROVE  AutomationInv'
<1>1. AutomationTypeOK /\ EntryInv
  BY DEF AutomationInv
<1>2. PanelChanged(StoodDown, skipEntryOf, "other") /\ armedMode' = armedMode /\ mode \in Alarms
  BY DEF GuestStandsDown
<1>3. StoodDown \in KeyModes /\ skipEntryOf = "none"
  BY <1>1, <1>2, StoodDownIs DEF EntryInv
<1>4. EntryInv'
  BY <1>1, <1>2, <1>3, MovesOf DEF EntryInv, KeyModes, ArmedModes, Alarms
<1> QED BY <1>1, <1>2, <1>3, <1>4, TurnOfPanel DEF GuestStandsDown, Others, AutomationTypeOK

-----------------------------------------------------------------------------
LEMMA OperatedIs ==
    ASSUME AutomationTypeOK, NEW l \in EnrolledLocks, NEW to \in Bolt, Operated(l, to)
    PROVE  /\ bolt' \in [EnrolledLocks -> Bolt] /\ locked' \in [EnrolledLocks -> Bolt \cup {"unknown"}]
           /\ settings' = settings /\ \A k \in EnrolledLocks : k # l => bolt'[k] = bolt[k]
           /\ listed' = listed
BY DEF AutomationTypeOK, Operated

LEMMA LockArmsKeeps ==
    ASSUME AutomationInv, NEW l \in EnrolledLocks, LockArms(l)
    PROVE  AutomationInv'
<1>1. AutomationTypeOK /\ EntryInv
  BY DEF AutomationInv
<1>2. PanelChanged("arming", "armed_away", "lock") /\ armedMode' = "armed_away" /\ Operated(l, "locked")
  BY DEF LockArms
<1>3. EntryInv'
  BY <1>1, <1>2, MovesOf DEF EntryInv, KeyModes, ArmedModes, Alarms
<1>4. armedMode' \in ArmedModes /\ "locked" \in Bolt
  BY <1>2 DEF ArmedModes, Bolt
<1> QED BY <1>1, <1>2, <1>3, <1>4, TurnOfPanel, OperatedIs

LEMMA LockDisarmsKeeps ==
    ASSUME AutomationInv, NEW l \in EnrolledLocks, LockDisarms(l)
    PROVE  AutomationInv'
<1>1. AutomationTypeOK /\ EntryInv
  BY DEF AutomationInv
<1>2. PanelChanged("disarmed", "disarmed", "lock") /\ armedMode' = "none" /\ Operated(l, "unlocked")
  BY DEF LockDisarms
<1>3. EntryInv'
  BY <1>1, <1>2, MovesOf DEF EntryInv, KeyModes, ArmedModes, Alarms
<1>4. "disarmed" \in KeyModes /\ "unlocked" \in Bolt
  BY <1>2 DEF KeyModes, Bolt
<1> QED BY <1>1, <1>2, <1>3, <1>4, TurnOfPanel, OperatedIs

LEMMA LockStandsDownKeeps ==
    ASSUME AutomationInv, NEW l \in EnrolledLocks, LockStandsDown(l)
    PROVE  AutomationInv'
<1>1. AutomationTypeOK /\ EntryInv
  BY DEF AutomationInv
<1>2. PanelChanged(StoodDown, "disarmed", "astray") /\ armedMode' = armedMode /\ Operated(l, "unlocked")
  BY DEF LockStandsDown
<1>3. StoodDown \in KeyModes /\ "unlocked" \in Bolt
  BY <1>1, StoodDownIs DEF Bolt
<1>4. EntryInv'
  BY <1>1, <1>2, <1>3, MovesOf DEF EntryInv, KeyModes, ArmedModes, Alarms
<1>5. armedMode' \in ArmedModes \cup {"none"}
  BY <1>1, <1>2 DEF AutomationTypeOK
<1> QED BY <1>1, <1>2, <1>3, <1>4, <1>5, TurnOfPanel, OperatedIs

-----------------------------------------------------------------------------
(* A step that leaves commands and settings alone, and every bolt whose     *)
(* place is still asked for.                                                *)
LEMMA ChasedStays ==
    ASSUME NEW l \in EnrolledLocks, Chased(l),
           asked'[l] # "none" => asked'[l] = asked[l] /\ bolt'[l] = bolt[l],
           commands' = commands, settings' = settings
    PROVE  Chased(l)'
<1>1. CASE asked'[l] = "none"
  BY <1>1 DEF Chased
<1>2. CASE asked'[l] # "none"
  <2>1. asked'[l] = asked[l] /\ bolt'[l] = bolt[l]
    BY <1>2
  <2> QED BY <2>1 DEF Chased, Agrees, Chases, IsDue, Wants, Elements
<1> QED BY <1>1, <1>2

LEMMA UnaskedIs ==
    ASSUME AutomationTypeOK, NEW l \in EnrolledLocks, Unasked(l)
    PROVE  /\ asked' \in [EnrolledLocks -> Bolt \cup {"none"}] /\ asked'[l] = "none"
           /\ \A k \in EnrolledLocks : k # l => asked'[k] = asked[k]
BY DEF AutomationTypeOK, Unasked

LEMMA ByHandKeeps ==
    ASSUME AutomationInv, NEW l \in EnrolledLocks, NEW to \in Bolt, OperatedByHand(l, to)
    PROVE  AutomationInv'
<1>1. AutomationTypeOK /\ EntryInv /\ CommandsOK /\ \A k \in EnrolledLocks : Chased(k)
  BY DEF AutomationInv
<1>2. /\ Operated(l, to) /\ Unasked(l)
      /\ UNCHANGED <<mode, armedMode, skipEntryOf, commands, cause, obeyed>>
  BY DEF OperatedByHand
<1>3. /\ bolt' \in [EnrolledLocks -> Bolt] /\ locked' \in [EnrolledLocks -> Bolt \cup {"unknown"}]
      /\ settings' = settings /\ \A k \in EnrolledLocks : k # l => bolt'[k] = bolt[k]
      /\ listed' = listed
  BY <1>1, <1>2, OperatedIs
<1>4. /\ asked' \in [EnrolledLocks -> Bolt \cup {"none"}] /\ asked'[l] = "none"
      /\ \A k \in EnrolledLocks : k # l => asked'[k] = asked[k]
  BY <1>1, <1>2, UnaskedIs
<1>5. AutomationTypeOK' /\ EntryInv' /\ CommandsOK'
  BY <1>1, <1>2, <1>3, <1>4 DEF AutomationTypeOK, EntryInv, CommandsOK
<1>6. ASSUME NEW k \in EnrolledLocks
      PROVE  Chased(k)'
  BY <1>1, <1>2, <1>3, <1>4, ChasedStays
<1> QED BY <1>5, <1>6 DEF AutomationInv

LEMMA LockDisarmsZoneKeeps ==
    ASSUME AutomationInv, NEW l \in EnrolledLocks, LockDisarmsZone(l)
    PROVE  AutomationInv'
<1>1. AutomationTypeOK /\ EntryInv /\ CommandsOK /\ \A k \in EnrolledLocks : Chased(k)
  BY DEF AutomationInv
<1>2. /\ mode # "disarmed" /\ Operated(l, "unlocked") /\ Unasked(l)
      /\ skipEntryOf' = (IF mode \in Alarms THEN "none" ELSE "disarmed")
      /\ cause' = (IF mode = "arming" /\ cause = "lock" THEN "astray" ELSE cause)
      /\ UNCHANGED <<mode, armedMode, commands, obeyed>>
  BY DEF LockDisarmsZone
<1>3. /\ bolt' \in [EnrolledLocks -> Bolt] /\ locked' \in [EnrolledLocks -> Bolt \cup {"unknown"}]
      /\ settings' = settings /\ \A k \in EnrolledLocks : k # l => bolt'[k] = bolt[k]
      /\ listed' = listed
  BY <1>1, <1>2, OperatedIs DEF Bolt
<1>4. /\ asked' \in [EnrolledLocks -> Bolt \cup {"none"}] /\ asked'[l] = "none"
      /\ \A k \in EnrolledLocks : k # l => asked'[k] = asked[k]
  BY <1>1, <1>2, UnaskedIs
<1>5. AutomationTypeOK' /\ CommandsOK'
  BY <1>1, <1>2, <1>3, <1>4 DEF AutomationTypeOK, CommandsOK
<1>6. EntryInv'
  BY <1>1, <1>2 DEF EntryInv, KeyModes, ArmedModes, Alarms
<1>7. ASSUME NEW k \in EnrolledLocks
      PROVE  Chased(k)'
  BY <1>1, <1>2, <1>3, <1>4, ChasedStays
<1> QED BY <1>5, <1>6, <1>7 DEF AutomationInv

LEMMA BoltReportedKeeps ==
    ASSUME AutomationInv, NEW l \in EnrolledLocks, BoltReported(l)
    PROVE  AutomationInv'
<1>1. AutomationTypeOK /\ EntryInv /\ CommandsOK /\ \A k \in EnrolledLocks : Chased(k)
  BY DEF AutomationInv
<1>2. /\ locked' = [locked EXCEPT ![l] = bolt[l]]
      /\ UNCHANGED <<mode, armedMode, skipEntryOf, listed, bolt, commands, settings, edits,
                     cause, obeyed, asked>>
  BY DEF BoltReported
<1>3. AutomationTypeOK' /\ EntryInv' /\ CommandsOK'
  BY <1>1, <1>2 DEF AutomationTypeOK, EntryInv, CommandsOK
<1>4. \A k \in EnrolledLocks : Chased(k)'
  BY <1>1, <1>2, ChasedStays
<1> QED BY <1>3, <1>4 DEF AutomationInv

LEMMA AppearsKeeps ==
    ASSUME AutomationInv, NEW l \in EnrolledLocks, LockAppears(l)
    PROVE  AutomationInv'
<1>1. AutomationTypeOK /\ EntryInv /\ CommandsOK /\ \A k \in EnrolledLocks : Chased(k)
  BY DEF AutomationInv
<1>2. /\ listed' = Append(listed, l)
      /\ UNCHANGED <<mode, armedMode, skipEntryOf, bolt, locked, commands, settings,
                     edits, cause, obeyed, asked>>
  BY DEF LockAppears
<1>3. listed' \in Seq(EnrolledLocks)
  BY <1>1, <1>2 DEF AutomationTypeOK
<1>4. AutomationTypeOK' /\ EntryInv' /\ CommandsOK'
  BY <1>1, <1>2, <1>3 DEF AutomationTypeOK, EntryInv, CommandsOK
<1>5. \A k \in EnrolledLocks : Chased(k)'
  BY <1>1, <1>2, ChasedStays
<1> QED BY <1>4, <1>5 DEF AutomationInv

LEMMA AppMovesKeeps ==
    ASSUME AutomationInv, NEW l \in EnrolledLocks, NEW to \in Bolt, AppMovesLock(l, to)
    PROVE  AutomationInv'
<1>1. AutomationTypeOK /\ EntryInv /\ CommandsOK /\ \A k \in EnrolledLocks : Chased(k)
  BY DEF AutomationInv
<1> DEFINE c == [lock |-> l, to |-> to, mode |-> "app", todo |-> << >>]
<1>2. /\ Len(commands) < MaxCommands /\ commands' = Append(commands, c) /\ Unasked(l)
      /\ UNCHANGED <<mode, armedMode, skipEntryOf, listed, bolt, locked, settings, edits,
                     cause, obeyed>>
  BY DEF AppMovesLock
<1>3. c \in Command /\ c.lock = l /\ c.mode = "app" /\ c.todo = << >>
  BY DEF Command
<1> HIDE DEF c
<1>4. /\ asked' \in [EnrolledLocks -> Bolt \cup {"none"}] /\ asked'[l] = "none"
      /\ \A k \in EnrolledLocks : k # l => asked'[k] = asked[k]
  BY <1>1, <1>2, UnaskedIs
<1>5. /\ commands' \in Seq(Command) /\ Len(commands') = Len(commands) + 1
      /\ Elements(commands') = Elements(commands) \cup {c}
  <2>1. commands \in Seq(Command)
    BY <1>1 DEF CommandsOK
  <2>2. <<c>> \in Seq(Command) /\ Len(<<c>>) = 1 /\ Elements(<<c>>) = {c}
    <3>1. DOMAIN <<c>> = {1} /\ <<c>>[1] = c /\ <<c>> \in Seq(Command) /\ Len(<<c>>) = 1
      BY <1>3
    <3> QED BY <3>1 DEF Elements
  <2>3. /\ commands \o <<c>> \in Seq(Command) /\ Len(commands \o <<c>>) = Len(commands) + 1
        /\ Elements(commands \o <<c>>) = Elements(commands) \cup {c}
    <3> DEFINE one == <<c>>
    <3>1. one \in Seq(Command) /\ Len(one) = 1 /\ Elements(one) = {c}
      BY <2>2
    <3> HIDE DEF one
    <3>2. /\ commands \o one \in Seq(Command) /\ Len(commands \o one) = Len(commands) + Len(one)
          /\ Elements(commands \o one) = Elements(commands) \cup Elements(one)
      BY <2>1, <3>1, JoinedIs
    <3> QED BY <3>1, <3>2 DEF one
  <2>4. Append(commands, c) = commands \o <<c>>
    BY <1>3, <2>1, AppendIsConcat
  <2> QED BY <1>2, <2>3, <2>4
<1>6. AutomationTypeOK' /\ EntryInv' /\ CommandsOK'
  <2>1. Len(commands) \in Nat /\ MaxCommands \in Nat
    BY <1>1, LenProperties, LockAutomationAssumption DEF CommandsOK
  <2>2. Len(commands') <= MaxCommands
    BY <1>2, <1>5, <2>1
  <2> QED BY <1>1, <1>2, <1>3, <1>4, <1>5, <2>2 DEF AutomationTypeOK, EntryInv, CommandsOK
<1>7. ASSUME NEW k \in EnrolledLocks
      PROVE  Chased(k)'
  <2>1. CASE k = l
    BY <1>4, <2>1 DEF Chased
  <2>2. CASE k # l
    <3>1. asked'[k] = asked[k] /\ bolt' = bolt /\ settings' = settings /\ Chased(k)
      BY <1>1, <1>2, <1>4, <2>2
    <3>2. \A d : Agrees(d, k, asked[k])' <=> Agrees(d, k, asked[k])
      BY <3>1 DEF Agrees, Wants
    <3>3. \A d : Chases(d, k)' <=> Chases(d, k)
      BY <3>1 DEF Chases, IsDue, Wants
    <3>4. Agrees(c, k, asked[k])
      BY <1>3, <2>2 DEF Agrees
    <3>5. asked[k] # "none" => \A d \in Elements(commands') : Agrees(d, k, asked[k])'
      BY <1>5, <3>1, <3>2, <3>4 DEF Chased
    <3>6. asked[k] # "none" => bolt[k] = asked[k] \/ \E d \in Elements(commands') : Chases(d, k)'
      BY <1>5, <3>1, <3>3 DEF Chased
    <3> QED BY <3>1, <3>5, <3>6 DEF Chased, Elements
  <2> QED BY <2>1, <2>2
<1> QED BY <1>6, <1>7 DEF AutomationInv

(* The settings of one lock, of which nothing is asked any more, change.    *)
LEMMA SettingsKeep ==
    ASSUME AutomationInv, NEW l \in EnrolledLocks, NEW s \in Settings \cup {DefaultSettings},
           settings' = [settings EXCEPT ![l] = s], Unasked(l),
           UNCHANGED <<mode, armedMode, skipEntryOf, listed, bolt, locked, commands, cause, obeyed>>
    PROVE  AutomationInv'
<1>1. AutomationTypeOK /\ EntryInv /\ CommandsOK /\ \A k \in EnrolledLocks : Chased(k)
  BY DEF AutomationInv
<1>2. /\ asked' \in [EnrolledLocks -> Bolt \cup {"none"}] /\ asked'[l] = "none"
      /\ \A k \in EnrolledLocks : k # l => asked'[k] = asked[k]
  BY <1>1, UnaskedIs
<1>3. AutomationTypeOK' /\ EntryInv' /\ CommandsOK'
  BY <1>1, <1>2 DEF AutomationTypeOK, EntryInv, CommandsOK
<1>4. ASSUME NEW k \in EnrolledLocks
      PROVE  Chased(k)'
  <2>1. CASE k = l
    BY <1>2, <2>1 DEF Chased
  <2>2. CASE k # l
    <3>1. settings'[k] = settings[k] /\ asked'[k] = asked[k] /\ bolt' = bolt /\ commands' = commands
      BY <1>1, <1>2, <2>2 DEF AutomationTypeOK
    <3>2. \A d, to : Agrees(d, k, to)' <=> Agrees(d, k, to)
      BY <3>1 DEF Agrees, Wants
    <3>3. \A d : Chases(d, k)' <=> Chases(d, k)
      BY <3>1 DEF Chases, IsDue, Wants
    <3>4. \A d : Agrees(d, k, asked[k])' <=> Agrees(d, k, asked[k])
      BY <3>1 DEF Agrees, Wants
    <3> QED BY <1>1, <3>1, <3>3, <3>4 DEF Chased, Elements
  <2> QED BY <2>1, <2>2
<1> QED BY <1>3, <1>4 DEF AutomationInv

-----------------------------------------------------------------------------
(* What a loop goes on with when the lock it waited for has answered.       *)
LEMMA RestHolds ==
    ASSUME AutomationInv, NEW i \in DOMAIN commands, NEW moves
    PROVE  LET c == commands[i]
           IN  /\ c \in Command
               /\ Rest(c, moves) \in Seq(Command) /\ Len(Rest(c, moves)) <= 1
               /\ \A d \in Elements(Rest(c, moves)) : d.mode # "app"
               /\ \A l \in EnrolledLocks :
                     /\ (\E k \in DOMAIN c.todo : c.todo[k].lock = l /\ IsDue(c.todo[k], c.mode))
                        => \E d \in Elements(Rest(c, moves)) : Chases(d, l)
                     /\ \A to : Agrees(c, l, to) =>
                           \A d \in Elements(Rest(c, moves)) : Agrees(d, l, to)
<1> DEFINE c == commands[i]
<1>1. c \in Command /\ (c.mode = "app" => c.todo = << >>)
  <2>1. commands \in Seq(Command) /\ c \in Elements(commands)
    BY DEF AutomationInv, CommandsOK, Elements
  <2>2. c \in Command
    BY <2>1, ElementOfSeq, LenProperties
  <2> QED BY <2>1, <2>2 DEF AutomationInv, CommandsOK
<1>2. SettingsType
  BY SettingsOK DEF AutomationInv
<1> HIDE DEF c
<1>3. CASE c.mode \in KeyModes
  <2>1. Rest(c, moves) = Advance(c.mode, c.todo) /\ c.todo \in Seq(Entry) /\ c.mode # "app"
    BY <1>1, <1>3 DEF Rest, Command, KeyModes
  <2>2. /\ Advance(c.mode, c.todo) \in Seq(Command) /\ Len(Advance(c.mode, c.todo)) <= 1
        /\ \A d \in Elements(Advance(c.mode, c.todo)) : d.mode = c.mode
        /\ \A l \in EnrolledLocks :
              (\E k \in DOMAIN c.todo : c.todo[k].lock = l /\ IsDue(c.todo[k], c.mode))
              => \E d \in Elements(Advance(c.mode, c.todo)) : Chases(d, l)
        /\ \A l, to :
              (\A k \in DOMAIN c.todo : c.todo[k].lock = l => Wants(l, c.mode) = to)
              => \A d \in Elements(Advance(c.mode, c.todo)) : Agrees(d, l, to)
    BY <1>2, <1>3, <2>1, AdvanceHolds
  <2>3. \A l, to : Agrees(c, l, to) => \A k \in DOMAIN c.todo : c.todo[k].lock = l => Wants(l, c.mode) = to
    BY DEF Agrees
  <2> QED BY <1>1, <2>1, <2>2, <2>3 DEF c
<1>4. CASE c.mode \notin KeyModes
  <2>1. Rest(c, moves) = << >> /\ c.todo = << >>
    BY <1>1, <1>4 DEF Rest, Command
  <2>2. Rest(c, moves) \in Seq(Command) /\ Len(Rest(c, moves)) <= 1 /\ Elements(Rest(c, moves)) = {}
    BY <2>1, EmptySeq DEF Elements
  <2>3. DOMAIN c.todo = {}
    BY <2>1
  <2> QED BY <1>1, <2>2, <2>3 DEF c
<1> QED BY <1>3, <1>4

LEMMA LockAnswersKeeps ==
    ASSUME AutomationInv, NEW i \in DOMAIN commands, NEW moves \in BOOLEAN, LockAnswers(i, moves)
    PROVE  AutomationInv'
<1> DEFINE c == commands[i]
           left == RemoveAt(commands, i)
           rest == Rest(c, moves)
<1>1. AutomationTypeOK /\ EntryInv /\ CommandsOK /\ \A k \in EnrolledLocks : Chased(k)
  BY DEF AutomationInv
<1>2. /\ bolt' = IF moves THEN [bolt EXCEPT ![c.lock] = c.to] ELSE bolt
      /\ commands' = left \o rest
      /\ IF moves THEN UNCHANGED asked ELSE Unasked(c.lock)
      /\ UNCHANGED <<mode, armedMode, skipEntryOf, listed, locked, settings, edits, cause,
                     obeyed>>
  BY DEF LockAnswers
<1>3. /\ c \in Command /\ rest \in Seq(Command) /\ Len(rest) <= 1
      /\ \A d \in Elements(rest) : d.mode # "app"
      /\ \A l \in EnrolledLocks :
            /\ (\E k \in DOMAIN c.todo : c.todo[k].lock = l /\ IsDue(c.todo[k], c.mode))
               => \E d \in Elements(rest) : Chases(d, l)
            /\ \A to : Agrees(c, l, to) => \A d \in Elements(rest) : Agrees(d, l, to)
  BY RestHolds
<1>4. /\ left \in Seq(Command) /\ Len(left) = Len(commands) - 1
      /\ Elements(left) \subseteq Elements(commands)
      /\ \A k \in DOMAIN commands \ {i} : commands[k] \in Elements(left)
  BY <1>1, RemovedIs DEF CommandsOK
<1>5. c \in Elements(commands)
  BY DEF Elements
<1> HIDE DEF left, rest
<1>6. \A d \in Elements(commands) : d = c \/ d \in Elements(left)
  BY <1>4 DEF Elements
<1> HIDE DEF c
<1>7. /\ left \o rest \in Seq(Command) /\ Len(left \o rest) = Len(left) + Len(rest)
      /\ Elements(left \o rest) = Elements(left) \cup Elements(rest)
  <2>1. left \in Seq(Command) /\ rest \in Seq(Command)
    BY <1>3, <1>4
  <2> QED BY <2>1, JoinedIs
<1>8. CommandsOK'
  <2>1. Len(left) \in Nat /\ Len(rest) \in Nat /\ Len(commands) \in Nat /\ MaxCommands \in Nat
    BY <1>1, <1>3, <1>4, LenProperties, LockAutomationAssumption DEF CommandsOK
  <2>2. Len(left) + Len(rest) <= MaxCommands
    BY <1>1, <1>3, <1>4, <2>1 DEF CommandsOK
  <2>3. \A d \in Elements(left \o rest) : d.mode = "app" => d.todo = << >>
    BY <1>1, <1>3, <1>4, <1>7 DEF CommandsOK
  <2> QED BY <1>2, <1>7, <2>2, <2>3 DEF CommandsOK
<1>9. c.lock \in EnrolledLocks /\ c.to \in Bolt
  BY <1>3 DEF Command
<1>10. /\ asked' \in [EnrolledLocks -> Bolt \cup {"none"}]
       /\ \A l \in EnrolledLocks : asked'[l] # "none" =>
             asked'[l] = asked[l] /\ (moves \/ l # c.lock)
  <2>1. CASE moves
    BY <1>1, <1>2, <2>1 DEF AutomationTypeOK
  <2>2. CASE ~moves
    BY <1>1, <1>2, <1>9, <2>2, UnaskedIs
  <2> QED BY <2>1, <2>2
<1>11. /\ bolt' \in [EnrolledLocks -> Bolt]
       /\ \A l \in EnrolledLocks : bolt'[l] = IF moves /\ l = c.lock THEN c.to ELSE bolt[l]
  BY <1>1, <1>2, <1>9 DEF AutomationTypeOK
<1>12. AutomationTypeOK' /\ EntryInv'
  <2>1. settings' \in [EnrolledLocks -> Settings \cup {DefaultSettings}]
    BY <1>1, <1>2 DEF AutomationTypeOK
  <2>2. Len(commands') <= MaxCommands
    BY <1>8 DEF CommandsOK
  <2>3. /\ mode' \in KeyModes \cup Alarms \cup {"arming"} /\ armedMode' \in ArmedModes \cup {"none"}
        /\ skipEntryOf' \in {"none", "disarmed", "armed_away"}
        /\ locked' \in [EnrolledLocks -> Bolt \cup {"unknown"}] /\ listed' \in Seq(EnrolledLocks)
    BY <1>1, <1>2 DEF AutomationTypeOK
  <2>4. AutomationTypeOK'
    BY <1>10, <1>11, <2>1, <2>2, <2>3 DEF AutomationTypeOK
  <2>5. EntryInv'
    BY <1>1, <1>2 DEF EntryInv
  <2> QED BY <2>4, <2>5
<1>13. ASSUME NEW l \in EnrolledLocks, asked'[l] # "none"
       PROVE  Chased(l)'
  <2>1. /\ asked'[l] = asked[l] /\ asked[l] # "none" /\ (moves \/ l # c.lock)
        /\ settings' = settings
    BY <1>2, <1>10, <1>13
  <2>2. /\ \A d \in Elements(commands) : Agrees(d, l, asked[l])
        /\ bolt[l] = asked[l] \/ \E d \in Elements(commands) : Chases(d, l)
    BY <1>1, <2>1 DEF Chased
  <2>3. \A d : Agrees(d, l, asked[l])' <=> Agrees(d, l, asked[l])
    BY <2>1 DEF Agrees, Wants
  <2>4. \A d : Chases(d, l)' <=> Chases(d, l)
    BY <2>1 DEF Chases, IsDue, Wants
  <2>5. Elements(commands') = Elements(left) \cup Elements(rest)
    BY <1>2, <1>7
  <2>6. Agrees(c, l, asked[l])
    BY <1>5, <2>2
  <2>7. \A d \in Elements(commands') : Agrees(d, l, asked[l])
    BY <1>3, <1>4, <2>2, <2>5, <2>6
  <2>8. bolt'[l] = asked[l] \/ \E d \in Elements(commands') : Chases(d, l)
    <3>1. CASE l = c.lock
      <4>1. bolt'[l] = asked[l]
        BY <1>11, <2>1, <2>6, <3>1 DEF Agrees
      <4> QED BY <4>1
    <3>2. CASE l # c.lock
      <4>1. bolt'[l] = bolt[l]
        BY <1>11, <3>2
      <4>2. ASSUME NEW d \in Elements(commands), Chases(d, l)
            PROVE  \E e \in Elements(commands') : Chases(e, l)
        <5>1. CASE d \in Elements(left)
          BY <2>5, <4>2, <5>1
        <5>2. CASE d = c
          <6>1. \E k \in DOMAIN c.todo : c.todo[k].lock = l /\ IsDue(c.todo[k], c.mode)
            BY <3>2, <4>2, <5>2 DEF Chases
          <6> QED BY <1>3, <2>5, <6>1
        <5> QED BY <1>6, <5>1, <5>2
      <4> QED BY <2>2, <4>1, <4>2
    <3> QED BY <3>1, <3>2
  <2> QED BY <2>1, <2>3, <2>4, <2>7, <2>8 DEF Chased, Elements
<1>14. \A l \in EnrolledLocks : Chased(l)'
  BY <1>13 DEF Chased
<1> QED BY <1>8, <1>12, <1>14 DEF AutomationInv

-----------------------------------------------------------------------------
LEMMA RestartKeeps ==
    ASSUME AutomationInv, AutomationRestarts
    PROVE  AutomationInv'
<1>1. AutomationTypeOK /\ EntryInv /\ CommandsOK
  BY DEF AutomationInv
<1>2. /\ skipEntryOf' = "none" /\ commands' = << >> /\ listed' = << >>
      /\ locked' = [l \in EnrolledLocks |-> "unknown"]
      /\ cause' = (IF mode = "arming" /\ cause = "lock" THEN "astray" ELSE cause)
      /\ asked' = [l \in EnrolledLocks |-> "none"]
      /\ UNCHANGED <<mode, armedMode, settings, edits, obeyed>>
  BY DEF AutomationRestarts
<1>3. bolt' \in [EnrolledLocks -> Bolt]
  <2>1. PICK lost \in SUBSET DOMAIN commands :
           bolt' = [l \in EnrolledLocks |->
                      LET done == {i \in DOMAIN commands \ lost : commands[i].lock = l}
                      IN  IF done = {} THEN bolt[l] ELSE commands[Max(done)].to]
    BY DEF AutomationRestarts
  <2>2. ASSUME NEW l \in EnrolledLocks
        PROVE  bolt'[l] \in Bolt
    <3> DEFINE done == {i \in DOMAIN commands \ lost : commands[i].lock = l}
    <3>1. bolt'[l] = IF done = {} THEN bolt[l] ELSE commands[Max(done)].to
      BY <2>1
    <3>2. DOMAIN commands = 1 .. Len(commands) /\ Len(commands) \in Nat /\ commands \in Seq(Command)
      BY <1>1, LenProperties DEF CommandsOK
    <3>3. \A i \in DOMAIN commands : commands[i].to \in Bolt
      <4>1. \A i \in DOMAIN commands : commands[i] \in Command
        BY <3>2, ElementOfSeq
      <4> QED BY <4>1 DEF Command
    <3>4. done \in SUBSET (0 .. Len(commands)) /\ done \subseteq DOMAIN commands
      BY <3>2
    <3> HIDE DEF done
    <3>5. CASE done = {}
      BY <1>1, <3>1, <3>5 DEF AutomationTypeOK
    <3>6. CASE done # {}
      <4>1. Max(done) \in done
        BY <3>2, <3>4, <3>6, GreatestIs
      <4> QED BY <3>1, <3>3, <3>4, <3>6, <4>1
    <3> QED BY <3>5, <3>6
  <2> QED BY <2>1, <2>2
<1>4. CommandsOK'
  <2>1. << >> \in Seq(Command) /\ Len(<< >>) = 0 /\ Elements(<< >>) = {}
    BY DEF Elements
  <2>2. 0 <= MaxCommands
    BY LockAutomationAssumption
  <2> QED BY <1>2, <2>1, <2>2 DEF CommandsOK
<1>5. EntryInv'
  BY <1>1, <1>2 DEF EntryInv, AutomationTypeOK, KeyModes, Alarms, ArmedModes
<1>6. AutomationTypeOK'
  <2>1. << >> \in Seq(EnrolledLocks)
    BY EmptySeq
  <2> QED BY <1>1, <1>2, <1>3, <1>4, <2>1 DEF AutomationTypeOK, CommandsOK
<1>7. \A l \in EnrolledLocks : Chased(l)'
  BY <1>2 DEF Chased
<1> QED BY <1>4, <1>5, <1>6, <1>7 DEF AutomationInv

LEMMA AutomationStarts ==
    AutomationInit => AutomationInv
<1> SUFFICES ASSUME AutomationInit PROVE AutomationInv
  OBVIOUS
<1>1. CommandsOK
  <2>1. << >> \in Seq(Command) /\ Len(<< >>) = 0 /\ Elements(<< >>) = {}
    BY DEF Elements
  <2>2. 0 <= MaxCommands
    BY LockAutomationAssumption
  <2> QED BY <2>1, <2>2 DEF CommandsOK, AutomationInit
<1>2. AutomationTypeOK
  <2>1. << >> \in Seq(EnrolledLocks)
    BY EmptySeq
  <2> QED BY <1>1, <2>1 DEF AutomationInit, AutomationTypeOK, CommandsOK, KeyModes
<1>3. EntryInv
  BY DEF AutomationInit, EntryInv, Alarms, ArmedModes
<1>4. \A l \in EnrolledLocks : Chased(l)
  BY DEF AutomationInit, Chased
<1> QED BY <1>1, <1>2, <1>3, <1>4 DEF AutomationInv

LEMMA AutomationKeeps ==
    AutomationInv /\ [AutomationNext]_automationVars => AutomationInv'
<1> SUFFICES ASSUME AutomationInv, [AutomationNext]_automationVars PROVE AutomationInv'
  OBVIOUS
<1>1. CASE Panel
  BY <1>1, ArmKeeps, DisarmKeeps, ExitDelayKeeps, GuestKeeps, AlarmKeeps DEF Panel
<1>2. ASSUME NEW l \in EnrolledLocks, Lock(l)
      PROVE  AutomationInv'
  <2>1. CASE LockArms(l)
    BY <2>1, LockArmsKeeps
  <2>2. CASE LockDisarms(l)
    BY <2>2, LockDisarmsKeeps
  <2>3. CASE LockStandsDown(l)
    BY <2>3, LockStandsDownKeeps
  <2>4. CASE LockDisarmsZone(l)
    BY <2>4, LockDisarmsZoneKeeps
  <2>5. CASE BoltReported(l)
    BY <2>5, BoltReportedKeeps
  <2>6. CASE SettingsDropped(l)
    BY <2>6, SettingsKeep DEF SettingsDropped
  <2>7. ASSUME NEW to \in Bolt, OperatedByHand(l, to)
        PROVE  AutomationInv'
    BY <2>7, ByHandKeeps
  <2>8. ASSUME NEW to \in Bolt, AppMovesLock(l, to)
        PROVE  AutomationInv'
    BY <2>8, AppMovesKeeps
  <2>9. ASSUME NEW s \in Settings, UpdateSettings(l, s)
        PROVE  AutomationInv'
    BY <2>9, SettingsKeep DEF UpdateSettings
  <2>10. CASE LockAppears(l)
    BY <2>10, AppearsKeeps
  <2> QED BY <1>2, <2>1, <2>2, <2>3, <2>4, <2>5, <2>6, <2>7, <2>8, <2>9, <2>10 DEF Lock
<1>3. ASSUME NEW i \in DOMAIN commands, NEW moves \in BOOLEAN, LockAnswers(i, moves)
      PROVE  AutomationInv'
  BY <1>3, LockAnswersKeeps
<1>4. CASE AutomationRestarts
  BY <1>4, RestartKeeps
<1>5. CASE UNCHANGED automationVars
  BY <1>5 DEF automationVars, AutomationInv, AutomationTypeOK, CommandsOK, EntryInv, Chased,
              Agrees, Chases, IsDue, Wants, Elements
<1> QED BY <1>1, <1>2, <1>3, <1>4, <1>5 DEF AutomationNext

LEMMA AutomationHolds ==
    AutomationSpec => []AutomationInv
<1> QED BY AutomationStarts, AutomationKeeps, PTL DEF AutomationSpec

(* Every variable keeps its type, and no more than MaxCommands commands are *)
(* ever under way.                                                          *)
THEOREM AutomationTypeCorrect ==
    AutomationSpec => []AutomationTypeOK
<1>1. AutomationInv => AutomationTypeOK
  BY DEF AutomationInv
<1> QED BY <1>1, AutomationHolds, PTL

(* Once the loops of handlePanel are through, each lock that was known when *)
(* the mode was entered, that nobody moved, that did not fail and whose     *)
(* settings did not change is where its settings want it in that mode,      *)
(* whatever locks became known meanwhile, and in whatever order.  A mode    *)
(* entered before the locks are known again after a restart moves none.     *)
THEOREM ModesMoveLocks ==
    AutomationSpec => []LocksObey
<1>1. AutomationInv => LocksObey
  <2> SUFFICES ASSUME AutomationInv, commands = << >>, NEW l \in EnrolledLocks, asked[l] # "none"
               PROVE  bolt[l] = asked[l]
    BY DEF LocksObey
  <2>1. Chased(l)
    BY DEF AutomationInv
  <2>2. Elements(commands) = {}
    BY DEF Elements
  <2> QED BY <2>1, <2>2 DEF Chased
<1> QED BY <1>1, AutomationHolds, PTL

(* The automation skips the entry of a mode exactly when a lock caused it,  *)
(* whatever arms, disarms, alarms and stand-downs came in between.          *)
THEOREM OwnEntriesSkipped ==
    AutomationSpec => []OwnChangesAreSkipped
<1>1. AutomationInv => OwnChangesAreSkipped
  BY DEF AutomationInv, EntryInv, OwnChangesAreSkipped
<1> QED BY <1>1, AutomationHolds, PTL
=============================================================================
