------------------------------ MODULE Accounts ------------------------------
(***************************************************************************)
(* The household's users, their codes, the failed-attempt lock-out and the *)
(* guests' schedules (src/src/auth, api/routes/user-routes.ts), with the   *)
(* places a code is entered: the app's disarm, the login and the keypads.  *)
(*                                                                         *)
(* Routes are synchronous but for the deletion of a user and the expiry    *)
(* sweep, which first take the user's code off the locks and wait for it.  *)
(* A code is a member of a small set and its hash is the code itself; a    *)
(* `lockedUntil` of null is a time gone by.  The caller of an editing      *)
(* route is an administrator, or nobody while there are no users.          *)
(***************************************************************************)
EXTENDS Naturals, FiniteSets

CONSTANTS
    Users,           \* every id there can be; ids are never used again
    Codes, NoCode,   \* NO_CODE and a duress hash of null
    Never,           \* a guestExpiresAt of null
    MaxCodes,        \* MAX_CODES
    InstallerAccess, \* INSTALLER_ACCESS_MS in ticks
    Expiries,        \* when a guest's access may be said to end
    Policies,        \* lock-out policies an administrator chooses from
    Windows,         \* schedules a guest can be given
    Days, DayLength, \* of a week and of a day, in ticks
    MaxTime,         \* bound: the clock stops here
    MaxFails,        \* bound: wrong codes in a row that are followed
    MaxEdits         \* bound: requests that edit users or the policy

Roles == {"administrator", "member", "guest", "installer"}

ASSUME AccountsAssumption ==
    /\ NoCode \notin Codes
    /\ "nobody" \notin Users
    /\ Never \notin Nat
    /\ {MaxCodes, InstallerAccess, MaxTime, MaxFails, MaxEdits} \subseteq Nat
    /\ Expiries \subseteq Nat
    /\ {Days, DayLength} \subseteq Nat \ {0}
    /\ Policies \subseteq [threshold : Nat \ {0}, cooldown : Nat,
                           onThreshold : {"lockout", "trigger_alarm"}]
    /\ Windows \subseteq [days : SUBSET (0 .. Days - 1), allDay : BOOLEAN,
                          start : 0 .. DayLength - 1, end : 0 .. DayLength - 1]

VARIABLES
    users,    \* table users: id -> row, guest_schedules included
    gone,     \* ids of deleted users
    policy,   \* row lockout_policy
    sweep,    \* expired installers the running sweep has yet to remove
    leaving,  \* users whose DELETE waits for the locks
    now,
    edits,
    answered, \* whose code was compared in the last step, if any
    barred    \* history: until when a lock-out was announced to each user

vars == <<users, gone, policy, sweep, leaving, now, edits, answered, barred>>

Rows == [role : Roles, code : Codes \cup {NoCode}, duress : Codes \cup {NoCode},
         until : Nat \cup {Never}, zoned : BOOLEAN, fails : Nat,
         lockedUntil : Nat, schedules : SUBSET Windows]

Init ==
    /\ users = [u \in {} |-> {}]
    /\ gone = {}
    /\ policy \in Policies
    /\ sweep = {}
    /\ leaving = {}
    /\ now = 0
    /\ edits = 0
    /\ answered = "nobody"
    /\ barred = [u \in Users |-> 0]

Exists(u) == u \in DOMAIN users

-----------------------------------------------------------------------------
(* Reading the table. *)
Expired(u) ==
    /\ users[u].role \in {"guest", "installer"}
    /\ users[u].until # Never
    /\ users[u].until <= now

ExpiredInstallers ==
    {u \in DOMAIN users : users[u].role = "installer" /\ Expired(u)}

Locked(u) == users[u].lockedUntil > now

Administrators == {u \in DOMAIN users : users[u].role = "administrator"}

IsLastAdministrator(u) == Administrators = {u}

\* Mutant: a user's duress code is not compared with the user's own code.
IsCodeOfAnother(c, exceptUser, exceptDuressOf) ==
    \E u \in DOMAIN users \ (exceptUser \cup exceptDuressOf) :
        c \in {users[u].code, users[u].duress}

(* isCodeInUse: except as the code of one user and the duress code of another. *)
IsCodeInUse(c, exceptUser, exceptDuressOf) ==
    \E u \in DOMAIN users : \/ u \notin exceptUser /\ users[u].code = c
                            \/ u \notin exceptDuressOf /\ users[u].duress = c

CountCodes == Cardinality({u \in DOMAIN users : users[u].code # NoCode})
              + Cardinality({u \in DOMAIN users : users[u].duress # NoCode})

(* scheduleCovers; an overnight window belongs to the day it begins on. *)
\* Mutant: the morning of an overnight window is looked for on its own day.
CoversSameDay(w, at) ==
    LET today == (at \div DayLength) % Days
        minutes == at % DayLength
    IN  /\ today \in w.days
        /\ \/ w.allDay
           \/ w.start < w.end /\ minutes \in w.start .. w.end - 1
           \/ w.end < w.start /\ (minutes >= w.start \/ minutes < w.end)

ScheduleCovers(w, at) ==
    LET today == (at \div DayLength) % Days
        yesterday == (today + Days - 1) % Days
        minutes == at % DayLength
    IN  IF w.allDay \/ w.start < w.end
        THEN /\ today \in w.days
             /\ w.allDay \/ (w.start <= minutes /\ minutes < w.end)
        ELSE \/ today \in w.days /\ minutes >= w.start
             \/ yesterday \in w.days /\ minutes < w.end

IsWithinSchedules(u) ==
    \/ users[u].schedules = {}
    \/ \E w \in users[u].schedules : ScheduleCovers(w, now)

-----------------------------------------------------------------------------
(* The editing routes. *)
Edit ==
    /\ edits < MaxEdits
    /\ edits' = edits + 1
    /\ answered' = "nobody"
    /\ UNCHANGED now

Set(u, row) == users' = [v \in DOMAIN users \cup {u} |->
                            IF v = u THEN row ELSE users[v]]

Without(u) == [v \in DOMAIN users \ {u} |-> users[v]]

(* UserRepository.create: an installer's access is fixed. *)
NewUser(role, code, until, zoned) ==
    [role |-> role, code |-> code, duress |-> NoCode,
     until |-> CASE role = "guest"     -> until
                 [] role = "installer" -> now + InstallerAccess
                 [] OTHER              -> Never,
     zoned |-> role = "guest" /\ zoned,
     fails |-> 0, lockedUntil |-> 0, schedules |-> {}]

(* POST /users; the first account is an administrator with a code. *)
CreateUser(u, role, code, until, zoned) ==
    /\ Edit
    /\ u \in Users \ (DOMAIN users \cup gone)
    /\ DOMAIN users = {} => role = "administrator" /\ code # NoCode
    /\ code # NoCode => /\ ~IsCodeInUse(code, {}, {})
                        /\ CountCodes < MaxCodes
    /\ role = "guest" => until # Never \/ zoned
    /\ Set(u, NewUser(role, code, until, zoned))
    /\ UNCHANGED <<gone, policy, sweep, leaving, barred>>

(* UserRepository.update: who becomes an installer gets 48 h. *)
UpdatedUser(row, role, until, zoned) ==
    [row EXCEPT
        !.role = role,
        !.until = CASE role \notin {"guest", "installer"} -> Never
                    [] role = "installer" /\ row.role # "installer" -> now + InstallerAccess
                    [] OTHER -> until,
        !.zoned = role = "guest" /\ zoned]

(* PATCH /users/:id, with what the body leaves out taken from the row. *)
UpdateUser(u, role, until, zoned) ==
    /\ Edit
    /\ Exists(u)
    /\ role # "administrator" => ~IsLastAdministrator(u)
    /\ role = "guest" => until # Never \/ zoned
    /\ Set(u, UpdatedUser(users[u], role, until, zoned))
    /\ UNCHANGED <<gone, policy, sweep, leaving, barred>>

(* UserRepository.setCode: a new code, or none, lifts the lock-out. *)
SetCode(u, code) ==
    /\ Set(u, [users[u] EXCEPT !.code = code, !.fails = 0, !.lockedUntil = 0])
    /\ barred' = [barred EXCEPT ![u] = 0]

(* PUT /users/:id/code *)
PutCode(u, code) ==
    /\ Edit
    /\ Exists(u)
    /\ ~IsCodeInUse(code, {u}, {})
    /\ users[u].code = NoCode => CountCodes < MaxCodes
    /\ SetCode(u, code)
    /\ UNCHANGED <<gone, policy, sweep, leaving>>

(* DELETE /users/:id/code *)
ClearCode(u) ==
    /\ Edit
    /\ Exists(u)
    /\ users[u].role = "administrator" => ~IsLastAdministrator(u)
    /\ SetCode(u, NoCode)
    /\ UNCHANGED <<gone, policy, sweep, leaving>>

SetDuressCode(u, code) == Set(u, [users[u] EXCEPT !.duress = code])

(* PUT /users/:id/duress-code *)
PutDuressCode(u, code) ==
    /\ Edit
    /\ Exists(u)
    /\ users[u].role = "administrator"
    /\ ~IsCodeInUse(code, {}, {u})
    /\ users[u].duress = NoCode => CountCodes < MaxCodes
    /\ SetDuressCode(u, code)
    /\ UNCHANGED <<gone, policy, sweep, leaving, barred>>

(* DELETE /users/:id/duress-code *)
ClearDuressCode(u) ==
    /\ Edit
    /\ Exists(u)
    /\ SetDuressCode(u, NoCode)
    /\ UNCHANGED <<gone, policy, sweep, leaving, barred>>

(* GuestScheduleRepository: one schedule is created, changed or deleted. *)
StoreSchedules(u, schedules) ==
    /\ Cardinality(schedules \ users[u].schedules) <= 1
    /\ Cardinality(users[u].schedules \ schedules) <= 1
    /\ Set(u, [users[u] EXCEPT !.schedules = schedules])

(* POST, PATCH and DELETE /users/:id/schedules: a guest's schedules become  *)
(* these; checkedSchedule refuses a window that is neither all day nor has  *)
(* a start and an end that differ.                                          *)
EditSchedules(u, schedules) ==
    /\ Edit
    /\ Exists(u)
    /\ users[u].role = "guest"
    /\ \A w \in schedules : w.allDay \/ w.start # w.end
    /\ StoreSchedules(u, schedules)
    /\ UNCHANGED <<gone, policy, sweep, leaving, barred>>

(* PATCH /lockout-policy: counts and locks in force are left as they are. *)
UpdatePolicy(p) ==
    /\ Edit
    /\ policy' = p
    /\ UNCHANGED <<users, gone, sweep, leaving, barred>>

(* DELETE /users/:id, up to the answer of the locks and after it. *)
DeleteUser(u) ==
    /\ Edit
    /\ u \notin leaving
    /\ Exists(u)
    /\ leaving' = leaving \cup {u}
    /\ UNCHANGED <<users, gone, policy, sweep, barred>>

Removed(u) ==
    /\ users' = Without(u)
    /\ gone' = gone \cup {u}
    /\ answered' = "nobody"
    /\ UNCHANGED <<policy, now, edits, barred>>

FinishDelete(u) ==
    /\ u \in leaving
    /\ leaving' = leaving \ {u}
    /\ Removed(u)
    /\ UNCHANGED sweep

-----------------------------------------------------------------------------
(* The expiry sweep: every minute, and once when the service starts. *)
\* Mutant: only the sweep of the start; what is over later stays.
StartSweepOnce ==
    /\ sweep = {}
    /\ now = 0
    /\ sweep' = ExpiredInstallers
    /\ sweep' # sweep
    /\ answered' = "nobody"
    /\ UNCHANGED <<users, gone, policy, leaving, now, edits, barred>>

StartSweep ==
    /\ sweep = {}
    /\ sweep' = ExpiredInstallers
    /\ sweep' # sweep
    /\ answered' = "nobody"
    /\ UNCHANGED <<users, gone, policy, leaving, now, edits, barred>>

(* The locks have answered: the account is removed, whatever it is by now. *)
RemoveExpired(u) ==
    /\ u \in sweep
    /\ sweep' = sweep \ {u}
    /\ Removed(u)
    /\ UNCHANGED leaving

(* The process stops and starts: what waited for the locks is forgotten. *)
Restart ==
    /\ sweep' = ExpiredInstallers
    /\ leaving' = {}
    /\ answered' = "nobody"
    /\ UNCHANGED <<users, gone, policy, now, edits, barred>>

Tick ==
    /\ now < MaxTime
    /\ now' = now + 1
    /\ answered' = "nobody"
    /\ UNCHANGED <<users, gone, policy, sweep, leaving, edits, barred>>

-----------------------------------------------------------------------------
(* Entering a code.  What an accepted code does to the panel, and the alarm *)
(* that trigger_alarm asks of it, are Panel's.                              *)
Unchanged == UNCHANGED <<gone, policy, sweep, leaving, now, edits>>

(* resetFailedAttempts: what every place does with a code it accepts. *)
Accept(u) ==
    /\ Set(u, [users[u] EXCEPT !.fails = 0, !.lockedUntil = 0])
    /\ barred' = [barred EXCEPT ![u] = 0]
    /\ answered' = u
    /\ Unchanged

\* Mutant: only the attempt that reaches the threshold locks.
ReachedOnce(row) == row.fails + 1 = policy.threshold

Exceeded(row) == row.fails + 1 >= policy.threshold

LocksOut(row) == Exceeded(row) /\ policy.onThreshold = "lockout"

(* incrementFailedAttempts, lock *)
WithFailure(row) == [row EXCEPT !.fails = @ + 1]
WithLock(row) == [row EXCEPT !.lockedUntil = now + policy.cooldown]

(* recordFailedAttempt *)
RecordFailedAttempt(u) ==
    LET failed == WithFailure(users[u])
    IN  /\ users[u].fails < MaxFails
        /\ Set(u, IF LocksOut(users[u]) THEN WithLock(failed) ELSE failed)
        /\ barred' = [barred EXCEPT ![u] =
                         IF users[u].fails + 1 >= policy.threshold
                            /\ policy.onThreshold = "lockout"
                         THEN now + policy.cooldown ELSE @]
        /\ answered' = u
        /\ Unchanged

(* POST /panel/disarm by u, who is signed in: the code is right, u's own or *)
(* u's duress code, or it is charged to u.                                  *)
Disarm(u, c) ==
    /\ Exists(u)
    /\ ~Locked(u)
    /\ ~Expired(u)
    /\ IF c \in {users[u].code, users[u].duress}
       THEN Accept(u)
       ELSE RecordFailedAttempt(u)

FindByCode(c) == {u \in DOMAIN users : users[u].code = c}
FindByDuressCode(c) == {u \in DOMAIN users : users[u].duress = c}

(* findByCode ?? findByDuressCode *)
IsOwner(u, c) ==
    u \in IF FindByCode(c) # {} THEN FindByCode(c) ELSE FindByDuressCode(c)

(* The same with authentication off: the code says who it is, and a wrong   *)
(* one is no one's.                                                         *)
DisarmByCode(u, c) ==
    /\ IsOwner(u, c)
    /\ ~Locked(u)
    /\ ~Expired(u)
    /\ Accept(u)

(* POST /auth/login, which knows no duress codes. *)
Login(u, c) ==
    /\ Exists(u)
    /\ c = users[u].code
    /\ ~Locked(u)
    /\ ~Expired(u)
    /\ Accept(u)

(* KeypadController.authenticate, to disarm or, where that needs a code, to *)
(* arm; a duress code arms nothing but is authenticated first.              *)
\* Mutant: the keypad does not look at the lock-out.
KeypadIgnoresLockout(u, c) ==
    /\ IsOwner(u, c)
    /\ ~Expired(u)
    /\ users[u].role = "guest" => IsWithinSchedules(u)
    /\ Accept(u)

KeypadCode(u, c) ==
    /\ IsOwner(u, c)
    /\ ~Locked(u)
    /\ ~Expired(u)
    /\ users[u].role = "guest" => IsWithinSchedules(u)
    /\ Accept(u)

-----------------------------------------------------------------------------
EditUsers ==
    \E u \in Users :
        \/ \E role \in Roles, until \in Expiries \cup {Never}, zoned \in BOOLEAN :
              \/ \E code \in Codes \cup {NoCode} :
                    CreateUser(u, role, code, until, zoned)
              \/ UpdateUser(u, role, until, zoned)
        \/ \E code \in Codes : PutCode(u, code) \/ PutDuressCode(u, code)
        \/ ClearCode(u) \/ ClearDuressCode(u)
        \/ \E schedules \in SUBSET Windows : EditSchedules(u, schedules)
        \/ DeleteUser(u)

EnterCode ==
    \E u \in Users, c \in Codes :
        \/ Disarm(u, c) \/ DisarmByCode(u, c) \/ Login(u, c)
        \/ KeypadCode(u, c)

Next ==
    \/ EditUsers
    \/ \E p \in Policies : UpdatePolicy(p)
    \/ \E u \in Users : FinishDelete(u) \/ RemoveExpired(u)
    \/ StartSweep
    \/ Restart
    \/ Tick
    \/ EnterCode

(* The sweep's interval, and locks that answer or time out. *)
Fairness ==
    /\ WF_vars(StartSweep)
    /\ \A u \in Users : WF_vars(RemoveExpired(u))

Spec == Init /\ [][Next]_vars /\ Fairness

-----------------------------------------------------------------------------
TypeOK ==
    /\ DOMAIN users \subseteq Users \ gone
    /\ \A u \in DOMAIN users : users[u] \in Rows
    /\ gone \subseteq Users
    /\ policy \in Policies
    /\ sweep \subseteq Users
    /\ leaving \subseteq Users
    /\ now \in Nat
    /\ edits \in Nat
    /\ barred \in [Users -> Nat]

(* A code says who entered it, and whether under duress: no two codes of    *)
(* the location are equal, whatever the order they were set in.             *)
CodesDistinct ==
    \A u, v \in DOMAIN users :
        /\ u # v /\ users[u].code # NoCode => users[u].code # users[v].code
        /\ u # v /\ users[u].duress # NoCode => users[u].duress # users[v].duress
        /\ users[u].duress # NoCode => users[u].duress # users[v].code

(* Between the lock-out of a user and the end of the cooldown no code of    *)
(* the user is compared, right or wrong, anywhere, however the policy       *)
(* changes, unless an administrator gives or takes a code.                  *)
LockoutHolds ==
    [][answered' \in Users => barred[answered'] <= now]_vars

(* What a guest's schedule says: it opens at `start` on each listed day and *)
(* stays open until `end` comes round.                                      *)
InWindow(w, at) ==
    LET week == Days * DayLength
        length == IF w.allDay THEN DayLength
                  ELSE (w.end + DayLength - w.start) % DayLength
        opens(d) == d * DayLength + IF w.allDay THEN 0 ELSE w.start
    IN  \E d \in w.days : (at + week - opens(d)) % week < length

(* scheduleCovers, reading the clock's weekday and minute, finds the same   *)
(* as counting from the opening of each window, over midnight and over the  *)
(* end of the week.                                                         *)
SchedulesAsWritten ==
    \A u \in DOMAIN users : \A w \in users[u].schedules :
        \A at \in now .. now + Days * DayLength - 1 :
            ScheduleCovers(w, at) <=> InWindow(w, at)

(* An installer whose access has ended is removed, or made something else. *)
InstallersGo ==
    \A u \in Users :
        Exists(u) /\ u \in ExpiredInstallers
            ~> ~(Exists(u) /\ u \in ExpiredInstallers)
=============================================================================
