----------------------------- MODULE LockCodes -----------------------------
(***************************************************************************)
(* The user codes the base station keeps on the Schlage locks:             *)
(* LockCodeSync (src/src/locks/lock-code-sync.ts) over the code operations *)
(* of LockService and the table lock_code_slots, driven by the user routes,*)
(* the installer sweep and the enrolment routes.                           *)
(*                                                                         *)
(* A request runs from one await to the next, so every action below is the *)
(* code between two of them: the call that is sent, or the answer and what *)
(* follows it.  Nothing makes two requests wait for each other.  The locks *)
(* are external: `held` is what their slots hold.                          *)
(***************************************************************************)
EXTENDS Integers, FiniteSets, FiniteSetsExt

CONSTANTS
    Locks,        \* Z-Wave nodes that are Schlage locks
    Users,        \* ids an account can get; an id is used once
    Installers,   \* the users whose access ends by itself
    Requests,     \* clients that can have a request running
    SlotCount,    \* USER_SLOT_COUNT
    Faults        \* what may go wrong, of "radio", "restart" and "removal"

Sweeper == "sweeper"
Nobody == "nobody"
Local == "local"
Slots == 1 .. SlotCount

ASSUME LockCodesAssumption ==
    /\ SlotCount \in Nat \ {0}
    /\ Installers \subseteq Users
    /\ {Nobody, Local} \cap Users = {}
    /\ Nobody \notin Locks
    /\ Sweeper \notin Requests
    /\ Faults \subseteq {"radio", "restart", "removal"}

VARIABLES
    users,      \* accounts (persisted)
    gone,       \* ids of deleted accounts
    rows,       \* table lock_code_slots: <<lock, user>> -> slot and status
    enrolled,   \* table enrolled_locks (persisted)
    paired,     \* nodes on the network
    known,      \* LockService.locks: the nodes adopted since the start
    bits,       \* entry.raw userSlotBitField, of the locks it was read from
    held,       \* what each slot of each lock holds
    jobs,       \* the requests being served
    raced,      \* history: locks two requests worked on at once
    seen        \* history: the local codes the base station was able to see

vars == <<users, gone, rows, enrolled, paired, known, bits, held, jobs, raced, seen>>

Callers == Requests \cup {Sweeper}

(* A request being served: the locks still to do, as <<lock, slot>> pairs   *)
(* (a push knows no slot yet: 0); the one in hand; the slots that may be    *)
(* free and those still to be asked for; whether the lock has answered.     *)
Idle == [op |-> "none", at |-> "idle", user |-> Nobody, todo |-> {},
         lock |-> Nobody, slot |-> 0, free |-> {}, unread |-> {},
         reached |-> FALSE]

Init ==
    /\ users = {}
    /\ gone = {}
    /\ rows = [p \in {} |-> 0]
    /\ enrolled = {}
    /\ paired = Locks
    /\ known = {}
    /\ bits = [l \in {} |-> {}]
    /\ held \in [Locks \X Slots -> {Nobody, Local}]
    /\ jobs = [r \in Callers |-> Idle]
    /\ raced = {}
    /\ seen = {c \in Locks \X Slots : held[c] = Local}

-----------------------------------------------------------------------------
IsEnrolled(l) == l \in known \cap enrolled
Occupied(l) == {s \in Slots : held[l, s] # Nobody}
RowsOf(u) == {p \in DOMAIN rows : p[2] = u}
Without(gonePairs) == [p \in DOMAIN rows \ gonePairs |-> rows[p]]

\* Mutant: the slots of other users are not left out.
NoneTaken(l) == {}

(* The slots of the lock that belong to a user of the app.                  *)
Taken(l) == {rows[p].slot : p \in {q \in DOMAIN rows : q[1] = l}}

Synced == {p \in DOMAIN rows : rows[p].status = "synced"}

(* UNIQUE (node_id, slot), and the user of a row exists.                    *)
Conflicts(j) ==
    \/ j.user \notin users
    \/ \E p \in DOMAIN rows :
          p[1] = j.lock /\ p[2] # j.user /\ rows[p].slot = j.slot

Upserted(j, status) ==
    [p \in DOMAIN rows \cup {<<j.lock, j.user>>} |->
        IF p = <<j.lock, j.user>> THEN [slot |-> j.slot, status |-> status]
        ELSE rows[p]]

NextLock(j) == [Idle EXCEPT !.op = j.op, !.at = "next", !.user = j.user,
                            !.todo = j.todo]
Become(r, j) == jobs' = [jobs EXCEPT ![r] = j]

\* Mutant: the rows outlive the account.
RemoveUserOnly(u) ==
    /\ users' = users \ {u}
    /\ gone' = gone \cup ({u} \cap users)
    /\ UNCHANGED rows

(* The account goes, and with it (ON DELETE CASCADE) its rows.              *)
RemoveUser(u) ==
    /\ users' = users \ {u}
    /\ gone' = gone \cup ({u} \cap users)
    /\ rows' = Without(RowsOf(u))

KeepUsers == UNCHANGED <<users, gone>>
KeepTables == UNCHANGED <<users, gone, rows>>
KeepLocks == UNCHANGED <<enrolled, paired, known, bits, held>>

(* A rejected request: the sweep alone goes on, and removes the account.    *)
Reject(r) ==
    /\ Become(r, Idle)
    /\ IF jobs[r].op = "sweep" THEN RemoveUser(jobs[r].user)
       ELSE KeepTables

(* The row of the lock in hand, then on to the next lock; a row the table   *)
(* refuses is refused again in the catch, and the request is rejected.      *)
Record(r, j, status) ==
    IF Conflicts(j) THEN Reject(r)
    ELSE /\ rows' = Upserted(j, status)
         /\ Become(r, NextLock(j))
         /\ KeepUsers

\* Mutant: a code the lock would not take is recorded like one it took.
FailedAsSynced(r, j) == Record(r, j, "synced")

\* Mutant: a slot that could not be cleared loses its row.
FailedForgets(r, j) ==
    /\ rows' = Without({<<j.lock, j.user>>})
    /\ Become(r, NextLock(j))
    /\ KeepUsers

Failed(r, j) == Record(r, j, "failed")

(* A lock without a row and without a free slot, or that would not list     *)
(* its slots: reported as failed, nothing recorded.                         *)
Skip(r, j) ==
    /\ Become(r, NextLock(j))
    /\ KeepTables

(* The lock does not answer, or refuses: the radio, or the node has left.   *)
CanFail(l) == "radio" \in Faults \/ l \notin paired

(* The slot in hand becomes c, which a lock may do and not say so.          *)
Written(j, c) == [held EXCEPT ![<<j.lock, j.slot>>] = c]
MaybeWritten(j, c) == IF j.lock \in paired THEN {held, Written(j, c)} ELSE {held}

(* readInto: the bit field as the lock has it, or as it was.                *)
ReadBits(l) ==
    \/ /\ l \in known \cap paired
       /\ bits' = [k \in DOMAIN bits \cup {l} |->
                      IF k = l THEN Occupied(l) ELSE bits[k]]
    \/ /\ CanFail(l)
       /\ bits' = bits

-----------------------------------------------------------------------------
(* Requests.                                                               *)
Start(r, op, u, todo) ==
    /\ jobs[r] = Idle
    /\ Become(r, [Idle EXCEPT !.op = op, !.at = "next", !.user = u,
                              !.todo = todo])

(* POST /users with a code, and PUT /users/:id/code.                        *)
Push(r, u) ==
    /\ u \notin gone
    /\ users' = users \cup {u}
    /\ Start(r, "push", u, {<<l, 0>> : l \in known \cap enrolled})
    /\ KeepLocks
    /\ UNCHANGED <<gone, rows>>

(* DELETE /users/:id/code, DELETE /users/:id and an expired installer: the  *)
(* user's rows as they are now.                                             *)
Clear(r, op, u) ==
    /\ u \in users
    /\ Start(r, op, u, {<<p[1], rows[p].slot>> : p \in RowsOf(u)})
    /\ KeepLocks
    /\ KeepTables

Enroll(l) ==
    /\ l \in known \ enrolled
    /\ enrolled' = enrolled \cup {l}
    /\ KeepTables
    /\ UNCHANGED <<paired, known, bits, held, jobs>>

(* DELETE /locks/:id/enrollment.                                            *)
Unenroll(r, l) ==
    /\ IsEnrolled(l)
    /\ jobs[r] = Idle
    /\ Become(r, [Idle EXCEPT !.op = "unenroll", !.at = "bits", !.lock = l])
    /\ KeepLocks
    /\ KeepTables

(* The same for a lock not heard of since the start: it is dropped at once, *)
(* and nobody is told.                                                      *)
DropEnrollment(l) ==
    /\ l \in enrolled \ known
    /\ enrolled' = enrolled \ {l}
    /\ KeepTables
    /\ UNCHANGED <<paired, known, bits, held, jobs>>

-----------------------------------------------------------------------------
(* LockCodeSync.push, one lock at a time.                                  *)
SendSet(r, j) ==
    IF IsEnrolled(j.lock)
    THEN /\ Become(r, [j EXCEPT !.at = "set"])
         /\ KeepTables
    ELSE Failed(r, j)

PushTo(r) ==
    /\ jobs[r].op = "push"
    /\ jobs[r].at = "next"
    /\ \E t \in jobs[r].todo :
          LET l == t[1]
              j == [jobs[r] EXCEPT !.lock = l, !.todo = @ \ {t}]
          IN  IF <<l, j.user>> \in DOMAIN rows
              THEN SendSet(r, [j EXCEPT !.slot = rows[l, j.user].slot])
              ELSE IF IsEnrolled(l)
              THEN /\ Become(r, [j EXCEPT !.at = "list",
                                          !.free = Slots \ Taken(l),
                                          !.unread = IF l \in DOMAIN bits
                                                     THEN bits[l] ELSE Slots])
                   /\ KeepTables
              ELSE Skip(r, j)
    /\ KeepLocks

\* Mutant: a slot is free though the lock says it holds a code.
FreeAnyway(j, s) == j.free

(* What is left of the free slots when the lock has reported slot s.        *)
StillFree(j, s) == IF held[j.lock, s] = Nobody THEN j.free ELSE j.free \ {s}

(* listUsers asks for each slot that may hold a code, in order.             *)
ReadSlot(r) ==
    LET j == jobs[r]
        s == Min(j.unread)
        next == [j EXCEPT !.unread = @ \ {s}, !.free = StillFree(j, s)]
    IN  /\ j.at = "list"
        /\ j.unread # {}
        /\ \/ /\ j.lock \in paired
              /\ next.unread = {} \/ IsEnrolled(j.lock)
              /\ Become(r, next)
              /\ KeepTables
           \/ /\ CanFail(j.lock) \/ ~IsEnrolled(j.lock)
              /\ Skip(r, j)
        /\ KeepLocks

(* freeSlot, once every slot is known.                                      *)
ChooseSlot(r) ==
    LET j == jobs[r]
    IN  /\ j.at = "list"
        /\ j.unread = {}
        /\ IF j.free = {} THEN Skip(r, j)
           ELSE SendSet(r, [j EXCEPT !.slot = Min(j.free), !.free = {}])
        /\ KeepLocks

SetAnswered(r) ==
    LET j == jobs[r]
    IN  /\ j.at = "set"
        /\ \/ /\ j.lock \in paired
              /\ held' = Written(j, j.user)
              /\ Become(r, [j EXCEPT !.at = "report"])
              /\ KeepTables
           \/ /\ CanFail(j.lock)
              /\ held' \in MaybeWritten(j, j.user)
              /\ Failed(r, j)
        /\ UNCHANGED <<enrolled, paired, known, bits>>

SetReported(r) ==
    /\ jobs[r].op = "push"
    /\ jobs[r].at = "report"
    /\ ReadBits(jobs[r].lock)
    /\ Record(r, jobs[r], "synced")
    /\ UNCHANGED <<enrolled, paired, known, held>>

-----------------------------------------------------------------------------
(* LockCodeSync.clear, one row at a time.                                  *)
Forget(r, j) ==
    /\ rows' = Without({<<j.lock, j.user>>})
    /\ Become(r, NextLock(j))
    /\ KeepUsers

ClearFrom(r) ==
    /\ jobs[r].op \in {"clear", "delete", "sweep"}
    /\ jobs[r].at = "next"
    /\ \E t \in jobs[r].todo :
          LET j == [jobs[r] EXCEPT !.lock = t[1], !.slot = t[2], !.todo = @ \ {t}]
          IN  IF IsEnrolled(j.lock)
              THEN /\ Become(r, [j EXCEPT !.at = "clear"])
                   /\ KeepTables
              ELSE Forget(r, j)
    /\ KeepLocks

ClearAnswered(r) ==
    LET j == jobs[r]
    IN  /\ j.at = "clear"
        /\ \/ /\ j.lock \in paired
              /\ held' = Written(j, Nobody)
              /\ Become(r, [j EXCEPT !.at = "report"])
              /\ KeepTables
           \/ /\ CanFail(j.lock)
              /\ held' \in MaybeWritten(j, Nobody)
              /\ Failed(r, j)
        /\ UNCHANGED <<enrolled, paired, known, bits>>

ClearReported(r) ==
    /\ jobs[r].op \in {"clear", "delete", "sweep"}
    /\ jobs[r].at = "report"
    /\ ReadBits(jobs[r].lock)
    /\ Forget(r, jobs[r])
    /\ UNCHANGED <<enrolled, paired, known, held>>

(* The request is answered; the account goes whatever the locks said.       *)
Answer(r) ==
    /\ jobs[r].at = "next"
    /\ jobs[r].todo = {}
    /\ Become(r, Idle)
    /\ IF jobs[r].op \in {"delete", "sweep"} THEN RemoveUser(jobs[r].user)
       ELSE KeepTables
    /\ KeepLocks

-----------------------------------------------------------------------------
(* LockService.unenroll.                                                   *)
WipeStart(r) ==
    LET j == jobs[r]
        all == IF j.lock \in DOMAIN bits' THEN bits'[j.lock] ELSE Slots
    IN  /\ j.at = "bits"
        /\ ReadBits(j.lock)
        /\ Become(r, [j EXCEPT !.at = "wipe", !.unread = all])
        /\ KeepTables
        /\ UNCHANGED <<enrolled, paired, known, held>>

(* The next slot; nothing is left to do if the first command already fails. *)
(* The commands that clear schedules count as well, and are not modelled:   *)
(* one may have been answered.                                              *)
Wipe(r) ==
    LET j == [jobs[r] EXCEPT !.slot = Min(jobs[r].unread)]
        done == [jobs[r] EXCEPT !.unread = @ \ {j.slot}, !.reached = TRUE]
    IN  /\ jobs[r].at = "wipe"
        /\ jobs[r].unread # {}
        /\ \/ /\ j.lock \in paired
              /\ held' = Written(j, Nobody)
              /\ Become(r, done)
           \/ /\ CanFail(j.lock)
              /\ held' \in MaybeWritten(j, Nobody)
              /\ \/ Become(r, done)
                 \/ /\ ~j.reached
                    /\ Become(r, [jobs[r] EXCEPT !.unread = {}])
        /\ KeepTables
        /\ UNCHANGED <<enrolled, paired, known, bits>>

RowsAt(l) == {p \in DOMAIN rows : p[1] = l}

(* The enrolment goes whatever the lock said; 'lock_removed' takes the rows.*)
Unenrolled(r) ==
    /\ jobs[r].at = "wipe"
    /\ jobs[r].unread = {}
    /\ enrolled' = enrolled \ {jobs[r].lock}
    /\ rows' = Without(RowsAt(jobs[r].lock))
    /\ Become(r, Idle)
    /\ KeepUsers
    /\ UNCHANGED <<paired, known, bits, held>>

-----------------------------------------------------------------------------
(* A Configuration Report, or a refresh that reads the bit field.           *)
Report(l) ==
    /\ l \in known \cap paired
    /\ bits' = [k \in DOMAIN bits \cup {l} |->
                   IF k = l THEN Occupied(l) ELSE bits[k]]
    /\ KeepTables
    /\ UNCHANGED <<enrolled, paired, known, held, jobs>>

(* The node's interview is over.                                            *)
Adopt(l) ==
    /\ l \in paired \ known
    /\ known' = known \cup {l}
    /\ KeepTables
    /\ UNCHANGED <<enrolled, paired, bits, held, jobs>>

(* 'node removed'.                                                          *)
Leave(l) ==
    /\ "removal" \in Faults
    /\ l \in paired
    /\ paired' = paired \ {l}
    /\ known' = known \ {l}
    /\ bits' = [k \in DOMAIN bits \ {l} |-> bits[k]]
    /\ enrolled' = enrolled \ {l}
    /\ rows' = IF l \in enrolled THEN Without(RowsAt(l)) ELSE rows
    /\ KeepUsers
    /\ UNCHANGED <<held, jobs>>

(* Someone programs a code on the lock itself; the cached bit field knows   *)
(* nothing of it before it is read again.                                   *)
ProgramAtLock(l, s) ==
    /\ held[l, s] = Nobody
    /\ held' = [held EXCEPT ![<<l, s>>] = Local]
    /\ KeepTables
    /\ UNCHANGED <<enrolled, paired, known, bits, jobs>>

(* The commands on their way: lock, slot, what the slot is to hold.         *)
Sent ==
    {c \in UNION {IF j.at = "set" THEN {<<j.lock, j.slot, j.user>>}
                  ELSE IF j.at = "clear" THEN {<<j.lock, j.slot, Nobody>>}
                  ELSE IF j.at = "wipe" /\ j.unread # {}
                       THEN {<<j.lock, Min(j.unread), Nobody>>}
                  ELSE {} : j \in {jobs[r] : r \in Callers}} : c[1] \in paired}

(* The process stops, and some of them are carried out all the same.        *)
Restart ==
    /\ "restart" \in Faults
    /\ \E done \in SUBSET Sent :
          held' = [c \in Locks \X Slots |->
                     LET written == {d[3] : d \in {e \in done : <<e[1], e[2]>> = c}}
                     IN  IF written = {} THEN held[c]
                         ELSE CHOOSE w \in written : TRUE]
    /\ jobs' = [r \in Callers |-> Idle]
    /\ known' = {}
    /\ bits' = [l \in {} |-> {}]
    /\ KeepTables
    /\ UNCHANGED <<enrolled, paired>>

-----------------------------------------------------------------------------
WorksOn(j) == ({t[1] : t \in j.todo} \cup {j.lock}) \cap Locks

(* The locks two requests are working on, or are going to.                  *)
Contended(js) ==
    {l \in Locks : \E r, q \in Callers :
                      r # q /\ l \in WorksOn(js[r]) \cap WorksOn(js[q])}

(* A code in slot c would be seen before the slot is given to anyone: the   *)
(* bit field does not show it free, no row claims it, and no request is     *)
(* under way at the lock.                                                   *)
InSight(c) ==
    /\ c[1] \in DOMAIN bits => c[2] \in bits[c[1]]
    /\ \A p \in DOMAIN rows : <<p[1], rows[p].slot>> # c
    /\ \A r \in Callers : c[1] \notin WorksOn(jobs[r])

Request(r) ==
    \/ \E u \in Users : Push(r, u)
    \/ \E u \in Users : Clear(r, "clear", u)
    \/ \E u \in Users : Clear(r, "delete", u)
    \/ \E l \in Locks : Unenroll(r, l)

Continue(r) ==
    \/ PushTo(r)
    \/ ReadSlot(r)
    \/ ChooseSlot(r)
    \/ SetAnswered(r)
    \/ SetReported(r)
    \/ ClearFrom(r)
    \/ ClearAnswered(r)
    \/ ClearReported(r)
    \/ Answer(r)
    \/ WipeStart(r)
    \/ Wipe(r)
    \/ Unenrolled(r)

Step ==
    \/ \E r \in Requests : Request(r)
    \/ \E u \in Installers : Clear(Sweeper, "sweep", u)
    \/ \E r \in Callers : Continue(r)
    \/ \E l \in Locks : Enroll(l)
    \/ \E l \in Locks : DropEnrollment(l)
    \/ \E l \in Locks : Report(l)
    \/ \E l \in Locks : Adopt(l)
    \/ \E l \in Locks : Leave(l)
    \/ \E l \in Locks, s \in Slots : ProgramAtLock(l, s)
    \/ Restart

(* Once in sight, a code stays among the seen ones.                         *)
SeenAfter == {c \in Locks \X Slots : held'[c] = Local /\ (c \in seen \/ InSight(c)')}

Next ==
    /\ Step
    /\ raced' = raced \cup Contended(jobs')
    /\ seen' = SeenAfter

Spec == Init /\ [][Next]_vars

-----------------------------------------------------------------------------
Job ==
    [op : {"none", "push", "clear", "delete", "sweep", "unenroll"},
     at : {"idle", "next", "list", "set", "clear", "report", "bits", "wipe"},
     user : Users \cup {Nobody},
     todo : SUBSET (Locks \X (Slots \cup {0})),
     lock : Locks \cup {Nobody},
     slot : Slots \cup {0},
     free : SUBSET Slots,
     unread : SUBSET Slots,
     reached : BOOLEAN]

(* Every variable has its type, a row belongs to an account, and no two rows *)
(* of a lock share a slot (schema.ts:342-350).                               *)
TypeOK ==
    /\ users \subseteq Users
    /\ gone \subseteq Users \ users
    /\ DOMAIN rows \subseteq Locks \X users
    /\ \A p \in DOMAIN rows :
          rows[p] \in [slot : Slots, status : {"synced", "failed"}]
    /\ \A p, q \in DOMAIN rows :
          p[1] = q[1] /\ rows[p].slot = rows[q].slot => p = q
    /\ enrolled \subseteq Locks
    /\ paired \subseteq Locks
    /\ known \subseteq paired
    /\ DOMAIN bits \subseteq known
    /\ \A l \in DOMAIN bits : bits[l] \subseteq Slots
    /\ held \in [Locks \X Slots -> Users \cup {Nobody, Local}]
    /\ jobs \in [Callers -> Job]
    /\ raced \subseteq Locks
    /\ seen \subseteq Locks \X Slots

(* The slot a lock accepted a user's code in holds that user's code or none, *)
(* whatever was lost, refused or cut off by a restart: findUserBySlot names  *)
(* the person at the door (lock-code-slots.ts:6, "Which lock slot holds      *)
(* which user's code, and whether the lock accepted it").  Left out are      *)
(* locks that two requests worked on at once, where it fails, and a code     *)
(* programmed at the lock in a slot that the table claims.                   *)
Attributed ==
    \A p \in Synced :
        LET c == <<p[1], rows[p].slot>>
        IN  p[1] \notin raced
            => held[c] \in {p[2], Nobody} \/ (held[c] = Local /\ c \notin seen)

(* The record of a slot goes only when the slot holds no user's code, the    *)
(* account goes, or the lock is not (known to be) one of the system's.       *)
RecordKept ==
    [][\A p \in DOMAIN rows \ DOMAIN rows' :
          p[1] \in (known \cap enrolled)' /\ p[2] \in users' /\ p[1] \notin raced'
          => held'[p[1], rows[p].slot] \in {Nobody, Local}]_vars

(* A code someone programmed on the lock itself, before or while the base    *)
(* station runs, is left alone from the moment that it is in sight, by       *)
(* overlapping requests, lost commands and restarts too: only unenrolling    *)
(* takes it.  One programmed where the cached bit field shows a free slot    *)
(* is overwritten.                                                           *)
LocalKept ==
    [][\A c \in seen :
          held'[c] # Local
          => \E r \in Callers : jobs[r].at = "wipe" /\ jobs[r].lock = c[1]]_vars

(* A row becomes "synced" only while the lock holds the user's code.         *)
SyncedMeansHeld ==
    [][\A p \in DOMAIN rows' :
          /\ rows'[p].status = "synced"
          /\ p \in DOMAIN rows => rows[p] # rows'[p]
          /\ p[1] \notin raced'
          => held'[p[1], rows'[p].slot] = p[2]]_vars
=============================================================================
