--------------------------- MODULE AccountsProofs ---------------------------
(***************************************************************************)
(* For every household and every set of codes, policies and schedules: a   *)
(* code names one person, a lock-out bars every place that compares codes, *)
(* and a guest's windows are open when they say.                           *)
(***************************************************************************)
EXTENDS Accounts, Integers, TLAPS

(* A lock-out that was announced is in the user's row; nobody has one       *)
(* before there is an account.                                              *)
BarsAreLocks ==
    /\ \A u \in DOMAIN users : barred[u] <= users[u].lockedUntil
    /\ \A u \in Users \ (DOMAIN users \cup gone) : barred[u] = 0

(* What an edit makes of a row, next to the row it was made of. *)
SameCodes(row, old) == row.code = old.code /\ row.duress = old.duress
SameLock(row, old) == row.lockedUntil = old.lockedUntil

LEMMA SetFacts ==
    ASSUME NEW u, NEW row, Set(u, row)
    PROVE  /\ DOMAIN users' = DOMAIN users \cup {u}
           /\ users'[u] = row
           /\ \A v \in DOMAIN users \ {u} : users'[v] = users[v]
BY DEF Set

LEMMA NewUserFacts ==
    ASSUME NEW role \in Roles, NEW code \in Codes \cup {NoCode},
           NEW until \in Expiries \cup {Never}, NEW zoned \in BOOLEAN, now \in Nat
    PROVE  LET row == NewUser(role, code, until, zoned)
           IN  /\ row \in Rows
               /\ row.code = code /\ row.duress = NoCode /\ row.lockedUntil = 0
<1>1. /\ now + InstallerAccess \in Nat
      /\ until \in Nat \cup {Never}
    BY AccountsAssumption
<1> QED BY <1>1 DEF NewUser, Rows, Roles

LEMMA UpdatedUserFacts ==
    ASSUME NEW old \in Rows, NEW role \in Roles,
           NEW until \in Expiries \cup {Never}, NEW zoned \in BOOLEAN, now \in Nat
    PROVE  LET row == UpdatedUser(old, role, until, zoned)
           IN  row \in Rows /\ SameCodes(row, old) /\ SameLock(row, old)
<1>1. /\ now + InstallerAccess \in Nat
      /\ until \in Nat \cup {Never}
    BY AccountsAssumption
<1> QED BY <1>1 DEF UpdatedUser, Rows, Roles, SameCodes, SameLock

(* Removing a user, or giving one a row with the codes of before, leaves    *)
(* the codes distinct.                                                      *)
LEMMA FewerCodesDistinct ==
    ASSUME CodesDistinct, DOMAIN users' \subseteq DOMAIN users,
           \A v \in DOMAIN users' : SameCodes(users'[v], users[v])
    PROVE  CodesDistinct'
BY DEF CodesDistinct, SameCodes

LEMMA SameCodesDistinct ==
    ASSUME CodesDistinct, NEW u \in DOMAIN users, NEW row,
           Set(u, row), SameCodes(row, users[u])
    PROVE  CodesDistinct'
<1>1. DOMAIN users' \subseteq DOMAIN users
    BY SetFacts
<1>2. \A v \in DOMAIN users' : SameCodes(users'[v], users[v])
    BY SetFacts DEF SameCodes
<1> QED BY <1>1, <1>2, FewerCodesDistinct

(* The rest of the types, which most actions leave alone. *)
UsersType ==
    /\ DOMAIN users \subseteq Users \ gone
    /\ \A u \in DOMAIN users : users[u] \in Rows

OthersType ==
    /\ gone \subseteq Users
    /\ policy \in Policies
    /\ sweep \subseteq Users
    /\ leaving \subseteq Users
    /\ now \in Nat
    /\ edits \in Nat
    /\ barred \in [Users -> Nat]

LEMMA SetType ==
    ASSUME UsersType, NEW u \in Users \ gone, NEW row \in Rows,
           Set(u, row), UNCHANGED gone
    PROVE  UsersType'
<1>1. /\ DOMAIN users' = DOMAIN users \cup {u}
      /\ users'[u] = row
      /\ \A v \in DOMAIN users \ {u} : users'[v] = users[v]
    BY SetFacts
<1> QED BY <1>1 DEF UsersType

(* A row that keeps the lock of before, and an account that has none yet. *)
LEMMA SetKeepsBars ==
    ASSUME OthersType, BarsAreLocks, NEW u \in Users \ gone, NEW row,
           Set(u, row), UNCHANGED <<gone, barred>>,
           IF u \in DOMAIN users THEN SameLock(row, users[u]) ELSE row.lockedUntil = 0
    PROVE  BarsAreLocks'
<1>1. /\ DOMAIN users' = DOMAIN users \cup {u}
      /\ users'[u] = row
      /\ \A v \in DOMAIN users \ {u} : users'[v] = users[v]
    BY SetFacts
<1>2. \A v \in DOMAIN users' : barred'[v] <= users'[v].lockedUntil
  <2>1. CASE u \in DOMAIN users
    BY <1>1, <2>1 DEF BarsAreLocks, SameLock
  <2>2. CASE u \notin DOMAIN users
    BY <1>1, <2>2 DEF BarsAreLocks
  <2> QED BY <2>1, <2>2
<1>3. \A v \in Users \ (DOMAIN users' \cup gone') : barred'[v] = 0
    BY <1>1 DEF BarsAreLocks
<1> QED BY <1>2, <1>3 DEF BarsAreLocks

(* A row whose lock is what was announced. *)
LEMMA SetBars ==
    ASSUME OthersType, BarsAreLocks, NEW u \in DOMAIN users, u \in Users, NEW row,
           NEW until \in Nat, Set(u, row), UNCHANGED gone,
           row.lockedUntil = until, barred' = [barred EXCEPT ![u] = until]
    PROVE  BarsAreLocks'
<1>1. /\ DOMAIN users' = DOMAIN users \cup {u}
      /\ users'[u] = row
      /\ \A v \in DOMAIN users \ {u} : users'[v] = users[v]
    BY SetFacts
<1>2. \A v \in DOMAIN users' : barred'[v] <= users'[v].lockedUntil
    BY <1>1 DEF BarsAreLocks, OthersType
<1>3. \A v \in Users \ (DOMAIN users' \cup gone') : barred'[v] = 0
    BY <1>1 DEF BarsAreLocks, OthersType
<1> QED BY <1>2, <1>3 DEF BarsAreLocks

IInv == TypeOK /\ CodesDistinct /\ BarsAreLocks

LEMMA InitInv == Init => IInv
<1> SUFFICES ASSUME Init PROVE IInv
    OBVIOUS
<1>1. DOMAIN users = {}
    BY DEF Init
<1>2. TypeOK
    BY <1>1 DEF Init, TypeOK
<1>3. CodesDistinct
    BY <1>1 DEF CodesDistinct
<1>4. BarsAreLocks
    BY <1>1 DEF Init, BarsAreLocks
<1> QED BY <1>2, <1>3, <1>4 DEF IInv

-----------------------------------------------------------------------------
(* The editing routes. *)
LEMMA CreateUserInv ==
    ASSUME IInv, NEW u \in Users, NEW role \in Roles, NEW code \in Codes \cup {NoCode},
           NEW until \in Expiries \cup {Never}, NEW zoned \in BOOLEAN,
           CreateUser(u, role, code, until, zoned)
    PROVE  IInv'
<1> DEFINE row == NewUser(role, code, until, zoned)
<1>1. UsersType /\ OthersType /\ CodesDistinct /\ BarsAreLocks
    BY DEF IInv, TypeOK, UsersType, OthersType
<1>2. /\ u \in Users \ gone /\ u \notin DOMAIN users
      /\ Set(u, row)
      /\ UNCHANGED <<gone, policy, sweep, leaving, barred, now>>
      /\ edits' = edits + 1
      /\ code # NoCode => ~IsCodeInUse(code, {}, {})
    BY DEF CreateUser, Edit
<1>3. row \in Rows /\ row.code = code /\ row.duress = NoCode /\ row.lockedUntil = 0
    BY <1>1, NewUserFacts DEF OthersType
<1>4. UsersType'
    BY <1>1, <1>2, <1>3, SetType
<1>5. OthersType'
    BY <1>1, <1>2 DEF OthersType
<1>6. CodesDistinct'
  <2>1. /\ DOMAIN users' = DOMAIN users \cup {u}
        /\ users'[u] = row
        /\ \A v \in DOMAIN users \ {u} : users'[v] = users[v]
      BY <1>2, SetFacts
  <2>2. code # NoCode => \A v \in DOMAIN users : users[v].code # code /\ users[v].duress # code
      BY <1>2 DEF IsCodeInUse
  <2> QED BY <1>1, <1>2, <1>3, <2>1, <2>2 DEF CodesDistinct
<1>7. BarsAreLocks'
    BY <1>1, <1>2, <1>3, SetKeepsBars
<1> QED BY <1>4, <1>5, <1>6, <1>7 DEF IInv, TypeOK, UsersType, OthersType

(* A route that leaves codes and lock of the row alone. *)
LEMMA EditInv ==
    ASSUME IInv, NEW u \in DOMAIN users, NEW row \in Rows, Set(u, row),
           SameCodes(row, users[u]), SameLock(row, users[u]),
           UNCHANGED <<gone, policy, sweep, leaving, barred, now>>, edits' = edits + 1
    PROVE  IInv'
<1>1. UsersType /\ OthersType /\ CodesDistinct /\ BarsAreLocks
    BY DEF IInv, TypeOK, UsersType, OthersType
<1>2. u \in Users \ gone
    BY <1>1 DEF UsersType
<1>3. UsersType'
    BY <1>1, <1>2, SetType
<1>4. OthersType'
    BY <1>1 DEF OthersType
<1>5. CodesDistinct'
    BY <1>1, SameCodesDistinct
<1>6. BarsAreLocks'
    BY <1>1, <1>2, SetKeepsBars
<1> QED BY <1>3, <1>4, <1>5, <1>6 DEF IInv, TypeOK, UsersType, OthersType

LEMMA UpdateUserInv ==
    ASSUME IInv, NEW u \in Users, NEW role \in Roles,
           NEW until \in Expiries \cup {Never}, NEW zoned \in BOOLEAN,
           UpdateUser(u, role, until, zoned)
    PROVE  IInv'
<1> DEFINE row == UpdatedUser(users[u], role, until, zoned)
<1>1. u \in DOMAIN users /\ users[u] \in Rows /\ now \in Nat
    BY DEF UpdateUser, Exists, IInv, TypeOK
<1>2. row \in Rows /\ SameCodes(row, users[u]) /\ SameLock(row, users[u])
    BY <1>1, UpdatedUserFacts
<1>3. /\ Set(u, row)
      /\ UNCHANGED <<gone, policy, sweep, leaving, barred, now>>
      /\ edits' = edits + 1
    BY DEF UpdateUser, Edit
<1> QED BY <1>1, <1>2, <1>3, EditInv

LEMMA EditSchedulesInv ==
    ASSUME IInv, NEW u \in Users, NEW schedules \in SUBSET Windows,
           EditSchedules(u, schedules)
    PROVE  IInv'
<1> DEFINE row == [users[u] EXCEPT !.schedules = schedules]
<1>1. u \in DOMAIN users /\ users[u] \in Rows
    BY DEF EditSchedules, Exists, IInv, TypeOK
<1>2. row \in Rows /\ SameCodes(row, users[u]) /\ SameLock(row, users[u])
    BY <1>1 DEF Rows, SameCodes, SameLock
<1>3. /\ Set(u, row)
      /\ UNCHANGED <<gone, policy, sweep, leaving, barred, now>>
      /\ edits' = edits + 1
    BY DEF EditSchedules, StoreSchedules, Edit
<1> QED BY <1>1, <1>2, <1>3, EditInv

(* PUT and DELETE /users/:id/code: a code that is nobody's, or none. *)
LEMMA SetCodeInv ==
    ASSUME IInv, NEW u \in DOMAIN users, NEW code \in Codes \cup {NoCode},
           SetCode(u, code), code # NoCode => ~IsCodeInUse(code, {u}, {}),
           UNCHANGED <<gone, policy, sweep, leaving, now>>, edits' = edits + 1
    PROVE  IInv'
<1> DEFINE row == [users[u] EXCEPT !.code = code, !.fails = 0, !.lockedUntil = 0]
<1>1. UsersType /\ OthersType /\ CodesDistinct /\ BarsAreLocks
    BY DEF IInv, TypeOK, UsersType, OthersType
<1>2. u \in Users \ gone /\ users[u] \in Rows
    BY <1>1 DEF UsersType
<1>3. /\ row \in Rows /\ row.code = code /\ row.duress = users[u].duress
      /\ row.lockedUntil = 0
    BY <1>2 DEF Rows
<1>4. Set(u, row) /\ barred' = [barred EXCEPT ![u] = 0]
    BY DEF SetCode
<1>5. UsersType'
    BY <1>1, <1>2, <1>3, <1>4, SetType
<1>6. OthersType'
  <2>1. barred' \in [Users -> Nat]
      BY <1>1, <1>2, <1>4 DEF OthersType
  <2> QED BY <1>1, <2>1 DEF OthersType
<1>7. CodesDistinct'
  <2>1. /\ DOMAIN users' = DOMAIN users
        /\ users'[u].code = code /\ users'[u].duress = users[u].duress
        /\ \A v \in DOMAIN users \ {u} : users'[v] = users[v]
    <3>1. /\ DOMAIN users' = DOMAIN users \cup {u}
          /\ users'[u] = row
          /\ \A v \in DOMAIN users \ {u} : users'[v] = users[v]
        BY <1>4, SetFacts
    <3>2. users'[u].code = code /\ users'[u].duress = users[u].duress
        BY <1>3, <3>1
    <3> QED BY <3>1, <3>2
  <2>2. code # NoCode => /\ \A v \in DOMAIN users \ {u} : users[v].code # code
                         /\ \A v \in DOMAIN users : users[v].duress # code
      BY DEF IsCodeInUse
  <2>3. ASSUME NEW v \in DOMAIN users, NEW w \in DOMAIN users
        PROVE  /\ v # w /\ users'[v].code # NoCode => users'[v].code # users'[w].code
               /\ v # w /\ users'[v].duress # NoCode => users'[v].duress # users'[w].duress
               /\ users'[v].duress # NoCode => users'[v].duress # users'[w].code
    <3>1. /\ v # w /\ users[v].code # NoCode => users[v].code # users[w].code
          /\ v # w /\ users[v].duress # NoCode => users[v].duress # users[w].duress
          /\ users[v].duress # NoCode => users[v].duress # users[w].code
        BY <1>1 DEF CodesDistinct
    <3>2. CASE v = u /\ w = u
        BY <2>1, <2>2, <3>1, <3>2
    <3>3. CASE v = u /\ w # u
        BY <2>1, <2>2, <3>1, <3>3
    <3>4. CASE v # u /\ w = u
        BY <2>1, <2>2, <3>1, <3>4
    <3>5. CASE v # u /\ w # u
        BY <2>1, <3>1, <3>5
    <3> QED BY <3>2, <3>3, <3>4, <3>5
  <2> QED BY <2>1, <2>3 DEF CodesDistinct
<1>8. BarsAreLocks'
    BY <1>1, <1>2, <1>3, <1>4, SetBars
<1> QED BY <1>5, <1>6, <1>7, <1>8 DEF IInv, TypeOK, UsersType, OthersType

(* PUT and DELETE /users/:id/duress-code, in the same way. *)
LEMMA SetDuressCodeInv ==
    ASSUME IInv, NEW u \in DOMAIN users, NEW code \in Codes \cup {NoCode},
           SetDuressCode(u, code), code # NoCode => ~IsCodeInUse(code, {}, {u}),
           UNCHANGED <<gone, policy, sweep, leaving, barred, now>>, edits' = edits + 1
    PROVE  IInv'
<1> DEFINE row == [users[u] EXCEPT !.duress = code]
<1>1. UsersType /\ OthersType /\ CodesDistinct /\ BarsAreLocks
    BY DEF IInv, TypeOK, UsersType, OthersType
<1>2. u \in Users \ gone /\ users[u] \in Rows
    BY <1>1 DEF UsersType
<1>3. /\ row \in Rows /\ row.code = users[u].code /\ row.duress = code
      /\ SameLock(row, users[u])
    BY <1>2 DEF Rows, SameLock
<1>4. Set(u, row)
    BY DEF SetDuressCode
<1>5. UsersType'
    BY <1>1, <1>2, <1>3, <1>4, SetType
<1>6. OthersType'
    BY <1>1 DEF OthersType
<1>7. CodesDistinct'
  <2>1. /\ DOMAIN users' = DOMAIN users
        /\ users'[u].duress = code /\ users'[u].code = users[u].code
        /\ \A v \in DOMAIN users \ {u} : users'[v] = users[v]
    <3>1. /\ DOMAIN users' = DOMAIN users \cup {u}
          /\ users'[u] = row
          /\ \A v \in DOMAIN users \ {u} : users'[v] = users[v]
        BY <1>4, SetFacts
    <3>2. users'[u].duress = code /\ users'[u].code = users[u].code
        BY <1>3, <3>1
    <3> QED BY <3>1, <3>2
  <2>2. code # NoCode => /\ \A v \in DOMAIN users \ {u} : users[v].duress # code
                         /\ \A v \in DOMAIN users : users[v].code # code
      BY DEF IsCodeInUse
  <2>3. ASSUME NEW v \in DOMAIN users, NEW w \in DOMAIN users
        PROVE  /\ v # w /\ users'[v].code # NoCode => users'[v].code # users'[w].code
               /\ v # w /\ users'[v].duress # NoCode => users'[v].duress # users'[w].duress
               /\ users'[v].duress # NoCode => users'[v].duress # users'[w].code
    <3>1. /\ v # w /\ users[v].code # NoCode => users[v].code # users[w].code
          /\ v # w /\ users[v].duress # NoCode => users[v].duress # users[w].duress
          /\ users[v].duress # NoCode => users[v].duress # users[w].code
        BY <1>1 DEF CodesDistinct
    <3>2. CASE v = u /\ w = u
        BY <2>1, <2>2, <3>1, <3>2
    <3>3. CASE v = u /\ w # u
        BY <2>1, <2>2, <3>1, <3>3
    <3>4. CASE v # u /\ w = u
        BY <2>1, <2>2, <3>1, <3>4
    <3>5. CASE v # u /\ w # u
        BY <2>1, <3>1, <3>5
    <3> QED BY <3>2, <3>3, <3>4, <3>5
  <2> QED BY <2>1, <2>3 DEF CodesDistinct
<1>8. BarsAreLocks'
    BY <1>1, <1>2, <1>3, <1>4, SetKeepsBars
<1> QED BY <1>5, <1>6, <1>7, <1>8 DEF IInv, TypeOK, UsersType, OthersType

LEMMA CodeRoutesInv ==
    ASSUME IInv, NEW u \in Users, NEW code \in Codes,
           PutCode(u, code) \/ PutDuressCode(u, code)
    PROVE  IInv'
<1>1. CASE PutCode(u, code)
    BY <1>1, SetCodeInv DEF PutCode, Edit, Exists
<1>2. CASE PutDuressCode(u, code)
    BY <1>2, SetDuressCodeInv DEF PutDuressCode, Edit, Exists
<1> QED BY <1>1, <1>2

-----------------------------------------------------------------------------
(* A user goes: its id is never used again. *)
LEMMA RemovedInv ==
    ASSUME IInv, NEW u \in Users, Removed(u),
           sweep' \subseteq Users, leaving' \subseteq Users
    PROVE  IInv'
<1>1. UsersType /\ OthersType /\ CodesDistinct /\ BarsAreLocks
    BY DEF IInv, TypeOK, UsersType, OthersType
<1>2. /\ DOMAIN users' = DOMAIN users \ {u}
      /\ \A v \in DOMAIN users' : users'[v] = users[v]
    BY DEF Removed, Without
<1>3. /\ gone' = gone \cup {u}
      /\ UNCHANGED <<policy, now, edits, barred>>
    BY DEF Removed
<1>4. UsersType'
    BY <1>1, <1>2, <1>3 DEF UsersType
<1>5. OthersType'
    BY <1>1, <1>3 DEF OthersType
<1>6. CodesDistinct'
    BY <1>1, <1>2, FewerCodesDistinct DEF SameCodes
<1>7. BarsAreLocks'
    BY <1>1, <1>2, <1>3 DEF BarsAreLocks
<1> QED BY <1>4, <1>5, <1>6, <1>7 DEF IInv, TypeOK, UsersType, OthersType

(* What leaves the table of users alone. *)
LEMMA SameUsersInv ==
    ASSUME IInv, UNCHANGED <<users, gone, barred>>, policy' \in Policies,
           sweep' \subseteq Users, leaving' \subseteq Users, now' \in Nat, edits' \in Nat
    PROVE  IInv'
<1>1. TypeOK'
    BY DEF IInv, TypeOK
<1>2. CodesDistinct' /\ BarsAreLocks'
    BY DEF IInv, CodesDistinct, BarsAreLocks
<1> QED BY <1>1, <1>2 DEF IInv

LEMMA ExpiredAreUsers ==
    ASSUME IInv
    PROVE  ExpiredInstallers \subseteq Users
BY DEF IInv, TypeOK, ExpiredInstallers

LEMMA EditUsersInv ==
    ASSUME IInv, EditUsers
    PROVE  IInv'
<1>1. PICK u \in Users :
        \/ \E role \in Roles, until \in Expiries \cup {Never}, zoned \in BOOLEAN :
              \/ \E code \in Codes \cup {NoCode} : CreateUser(u, role, code, until, zoned)
              \/ UpdateUser(u, role, until, zoned)
        \/ \E code \in Codes : PutCode(u, code) \/ PutDuressCode(u, code)
        \/ ClearCode(u) \/ ClearDuressCode(u)
        \/ \E schedules \in SUBSET Windows : EditSchedules(u, schedules)
        \/ DeleteUser(u)
    BY DEF EditUsers
<1>2. CASE \E role \in Roles, until \in Expiries \cup {Never}, zoned \in BOOLEAN :
              \/ \E code \in Codes \cup {NoCode} : CreateUser(u, role, code, until, zoned)
              \/ UpdateUser(u, role, until, zoned)
    BY <1>2, CreateUserInv, UpdateUserInv
<1>3. CASE \E code \in Codes : PutCode(u, code) \/ PutDuressCode(u, code)
    BY <1>3, CodeRoutesInv
<1>4. CASE ClearCode(u)
    BY <1>4, SetCodeInv DEF ClearCode, Edit, Exists
<1>5. CASE ClearDuressCode(u)
    BY <1>5, SetDuressCodeInv DEF ClearDuressCode, Edit, Exists
<1>6. CASE \E schedules \in SUBSET Windows : EditSchedules(u, schedules)
    BY <1>6, EditSchedulesInv
<1>7. CASE DeleteUser(u)
  <2>1. /\ UNCHANGED <<users, gone, barred, policy, sweep, now>>
        /\ leaving' = leaving \cup {u} /\ edits' = edits + 1
      BY <1>7 DEF DeleteUser, Edit
  <2>2. /\ policy \in Policies /\ sweep \subseteq Users /\ leaving \subseteq Users
        /\ now \in Nat /\ edits \in Nat
      BY DEF IInv, TypeOK
  <2> QED BY <2>1, <2>2, SameUsersInv
<1> QED BY <1>1, <1>2, <1>3, <1>4, <1>5, <1>6, <1>7

-----------------------------------------------------------------------------
(* Entering a code. *)
LEMMA AcceptInv ==
    ASSUME IInv, NEW u \in DOMAIN users, Accept(u)
    PROVE  IInv'
<1> DEFINE row == [users[u] EXCEPT !.fails = 0, !.lockedUntil = 0]
<1>1. UsersType /\ OthersType /\ CodesDistinct /\ BarsAreLocks
    BY DEF IInv, TypeOK, UsersType, OthersType
<1>2. u \in Users \ gone /\ users[u] \in Rows
    BY <1>1 DEF UsersType
<1>3. row \in Rows /\ SameCodes(row, users[u]) /\ row.lockedUntil = 0
    BY <1>2 DEF Rows, SameCodes
<1>4. /\ Set(u, row) /\ barred' = [barred EXCEPT ![u] = 0]
      /\ UNCHANGED <<gone, policy, sweep, leaving, now, edits>>
    BY DEF Accept, Unchanged
<1>5. UsersType'
    BY <1>1, <1>2, <1>3, <1>4, SetType
<1>6. barred' \in [Users -> Nat]
    BY <1>1, <1>2, <1>4 DEF OthersType
<1>7. OthersType'
    BY <1>1, <1>4, <1>6 DEF OthersType
<1>8. CodesDistinct'
    BY <1>1, <1>3, <1>4, SameCodesDistinct
<1>9. BarsAreLocks'
    BY <1>1, <1>2, <1>3, <1>4, SetBars
<1> QED BY <1>5, <1>7, <1>8, <1>9 DEF IInv, TypeOK, UsersType, OthersType

LEMMA RecordFailedAttemptInv ==
    ASSUME IInv, NEW u \in DOMAIN users, RecordFailedAttempt(u)
    PROVE  IInv'
<1> DEFINE failed == WithFailure(users[u])
           locked == WithLock(failed)
           end == now + policy.cooldown
<1>1. UsersType /\ OthersType /\ CodesDistinct /\ BarsAreLocks
    BY DEF IInv, TypeOK, UsersType, OthersType
<1>2. u \in Users \ gone /\ users[u] \in Rows
    BY <1>1 DEF UsersType
<1>3. end \in Nat
    BY <1>1, AccountsAssumption DEF OthersType
<1>4. failed \in Rows /\ SameCodes(failed, users[u]) /\ SameLock(failed, users[u])
    BY <1>2 DEF Rows, WithFailure, SameCodes, SameLock
<1>5. locked \in Rows /\ SameCodes(locked, users[u]) /\ locked.lockedUntil = end
    BY <1>3, <1>4 DEF Rows, WithLock, SameCodes
<1>6. UNCHANGED <<gone, policy, sweep, leaving, now, edits>>
    BY DEF RecordFailedAttempt, Unchanged
<1>7. CASE LocksOut(users[u])
  <2>1. Set(u, locked) /\ barred' = [barred EXCEPT ![u] = end]
      BY <1>7 DEF RecordFailedAttempt, LocksOut, Exceeded
  <2>2. UsersType'
      BY <1>1, <1>2, <1>5, <1>6, <2>1, SetType
  <2>3. barred' \in [Users -> Nat]
      BY <1>1, <1>2, <1>3, <2>1 DEF OthersType
  <2>4. OthersType'
      BY <1>1, <1>6, <2>3 DEF OthersType
  <2>5. CodesDistinct'
      BY <1>1, <1>5, <2>1, SameCodesDistinct
  <2>6. BarsAreLocks'
      BY <1>1, <1>2, <1>3, <1>5, <1>6, <2>1, SetBars
  <2> QED BY <2>2, <2>4, <2>5, <2>6 DEF IInv, TypeOK, UsersType, OthersType
<1>8. CASE ~LocksOut(users[u])
  <2>1. Set(u, failed) /\ barred' = [barred EXCEPT ![u] = barred[u]]
      BY <1>8 DEF RecordFailedAttempt, LocksOut, Exceeded
  <2>2. UNCHANGED barred
      BY <1>1, <1>2, <2>1 DEF OthersType
  <2>3. UsersType'
      BY <1>1, <1>2, <1>4, <1>6, <2>1, SetType
  <2>4. OthersType'
      BY <1>1, <1>6, <2>2 DEF OthersType
  <2>5. CodesDistinct'
      BY <1>1, <1>4, <2>1, SameCodesDistinct
  <2>6. BarsAreLocks'
      BY <1>1, <1>2, <1>4, <1>6, <2>1, <2>2, SetKeepsBars
  <2> QED BY <2>3, <2>4, <2>5, <2>6 DEF IInv, TypeOK, UsersType, OthersType
<1> QED BY <1>7, <1>8

(* Wherever a code is entered, it is compared for a user who is not locked. *)
LEMMA EnterCodeCompares ==
    ASSUME EnterCode
    PROVE  \E u \in DOMAIN users : ~Locked(u) /\ (Accept(u) \/ RecordFailedAttempt(u))
<1>1. PICK u \in Users, c \in Codes :
        Disarm(u, c) \/ DisarmByCode(u, c) \/ Login(u, c) \/ KeypadCode(u, c)
    BY DEF EnterCode
<1>2. ~Locked(u) /\ (Accept(u) \/ RecordFailedAttempt(u))
    BY <1>1 DEF Disarm, DisarmByCode, Login, KeypadCode
<1>3. ASSUME IsOwner(u, c) PROVE u \in DOMAIN users
    BY <1>3 DEF IsOwner, FindByCode, FindByDuressCode
<1>4. u \in DOMAIN users
    BY <1>1, <1>3 DEF Disarm, DisarmByCode, Login, KeypadCode, Exists
<1> QED BY <1>2, <1>4

LEMMA EnterCodeInv ==
    ASSUME IInv, EnterCode
    PROVE  IInv'
BY EnterCodeCompares, AcceptInv, RecordFailedAttemptInv

-----------------------------------------------------------------------------
LEMMA NextInv == IInv /\ [Next]_vars => IInv'
<1> SUFFICES ASSUME IInv, [Next]_vars PROVE IInv'
    OBVIOUS
<1>1. /\ policy \in Policies /\ sweep \subseteq Users /\ leaving \subseteq Users
      /\ now \in Nat /\ edits \in Nat
    BY DEF IInv, TypeOK
<1>2. CASE EditUsers
    BY <1>2, EditUsersInv
<1>3. CASE \E p \in Policies : UpdatePolicy(p)
    BY <1>1, <1>3, SameUsersInv DEF UpdatePolicy, Edit
<1>4. CASE \E u \in Users : FinishDelete(u) \/ RemoveExpired(u)
  <2>1. PICK u \in Users : FinishDelete(u) \/ RemoveExpired(u)
      BY <1>4
  <2>2. Removed(u) /\ sweep' \subseteq Users /\ leaving' \subseteq Users
      BY <1>1, <2>1 DEF FinishDelete, RemoveExpired
  <2> QED BY <2>2, RemovedInv
<1>5. CASE StartSweep
    BY <1>1, <1>5, ExpiredAreUsers, SameUsersInv DEF StartSweep
<1>6. CASE Restart
    BY <1>1, <1>6, ExpiredAreUsers, SameUsersInv DEF Restart
<1>7. CASE Tick
    BY <1>1, <1>7, SameUsersInv DEF Tick
<1>8. CASE EnterCode
    BY <1>8, EnterCodeInv
<1>9. CASE UNCHANGED vars
    BY <1>1, <1>9, SameUsersInv DEF vars
<1> QED BY <1>2, <1>3, <1>4, <1>5, <1>6, <1>7, <1>8, <1>9 DEF Next

LEMMA Invariant == Spec => []IInv
BY InitInv, NextInv, PTL DEF Spec

(* Type correctness: every row keeps its form through every route, sweep    *)
(* and attempt, and the id of a deleted user is not given out again.        *)
THEOREM TypeCorrect == Spec => []TypeOK
<1>1. IInv => TypeOK
    BY DEF IInv
<1> QED BY <1>1, Invariant, PTL

(* Any number of users, codes and edits: whatever the order in which users  *)
(* are made and given codes and duress codes, no code is two people's, and  *)
(* no duress code is anyone's ordinary code.                                *)
THEOREM CodesName == Spec => []CodesDistinct
<1>1. IInv => CodesDistinct
    BY DEF IInv
<1> QED BY <1>1, Invariant, PTL

(* A lock-out holds against the disarm, the login and the keypads for the   *)
(* whole of its cooldown: no step compares a code of the user before.       *)
THEOREM LockoutBars == Spec => LockoutHolds
<1>1. ASSUME IInv, Next, answered' \in Users
      PROVE  barred[answered'] <= now
  <2>1. "nobody" \notin Users
      BY AccountsAssumption
  <2>2. EnterCode
    <3>1. EditUsers => Edit
        BY DEF EditUsers, CreateUser, UpdateUser, PutCode, PutDuressCode,
           ClearCode, ClearDuressCode, EditSchedules, DeleteUser
    <3>2. \A p \in Policies : UpdatePolicy(p) => Edit
        BY DEF UpdatePolicy
    <3>3. Edit => answered' = "nobody"
        BY DEF Edit
    <3>4. /\ \A u \in Users : FinishDelete(u) \/ RemoveExpired(u) => answered' = "nobody"
          /\ StartSweep \/ Restart \/ Tick => answered' = "nobody"
        BY DEF FinishDelete, RemoveExpired, Removed, StartSweep, Restart, Tick
    <3> QED BY <1>1, <2>1, <3>1, <3>2, <3>3, <3>4 DEF Next
  <2>3. PICK u \in DOMAIN users : ~Locked(u) /\ (Accept(u) \/ RecordFailedAttempt(u))
      BY <2>2, EnterCodeCompares
  <2>4. answered' = u
      BY <2>3 DEF Accept, RecordFailedAttempt
  <2>5. users[u] \in Rows /\ u \in Users /\ now \in Nat /\ barred \in [Users -> Nat]
      BY <1>1, <2>3 DEF IInv, TypeOK
  <2>6. barred[u] \in Nat /\ users[u].lockedUntil \in Nat
      BY <2>5 DEF Rows
  <2>7. barred[u] <= users[u].lockedUntil /\ ~(users[u].lockedUntil > now)
      BY <1>1, <2>3 DEF IInv, BarsAreLocks, Locked
  <2> QED BY <2>4, <2>5, <2>6, <2>7
<1>2. IInv /\ [Next]_vars => [answered' \in Users => barred[answered'] <= now]_vars
    BY <1>1
<1> QED BY <1>2, Invariant, PTL DEF Spec, LockoutHolds

-----------------------------------------------------------------------------
(* Schedules: reading the weekday and the minute finds what counting from   *)
(* the openings finds.                                                      *)
(* The quotient and the remainder, and that there is but one remainder. *)
LEMMA DivMod ==
    ASSUME NEW a \in Nat, NEW b \in Nat \ {0}
    PROVE  /\ a = (a \div b) * b + (a % b)
           /\ (a % b) \in 0 .. b - 1
           /\ (a \div b) \in Nat
OBVIOUS

LEMMA ModUnique ==
    ASSUME NEW b \in Nat \ {0}, NEW k \in Int, NEW y \in 0 .. b - 1
    PROVE  (k * b + y) % b = y
OBVIOUS

LEMMA ModOnce ==
    ASSUME NEW b \in Nat \ {0}, NEW y \in 0 .. b - 1
    PROVE  y % b = y /\ (b + y) % b = y
<1>1. (0 * b + y) % b = y /\ (1 * b + y) % b = y
  <2>1. \A k \in Int : (k * b + y) % b = y
    BY ModUnique
  <2> QED BY <2>1
<1>2. 0 * b + y = y /\ 1 * b + y = b + y
  OBVIOUS
<1> QED BY <1>1, <1>2

(* At day t and minute m of some week, the window of day d with start s     *)
(* opened k days, and m - s minutes, ago: k is 0 today and 1 for the day    *)
(* before, and only those two can be less than a day old.                   *)
DaysAgo(t, d, D) == IF d <= t THEN t - d ELSE D + t - d

LEMMA SinceOpening ==
    ASSUME NEW D \in Nat \ {0}, NEW L \in Nat \ {0}, NEW p \in Nat,
           NEW t \in 0 .. D - 1, NEW d \in 0 .. D - 1,
           NEW m \in 0 .. L - 1, NEW s \in 0 .. L - 1,
           NEW at \in Nat, at = (p * D + t) * L + m
    PROVE  LET k == DaysAgo(t, d, D)
           IN  (at + D * L - (d * L + s)) % (D * L) =
                   IF k = 0 /\ m < s THEN D * L + (m - s) ELSE k * L + (m - s)
<1> DEFINE W == D * L
           x == at + D * L - (d * L + s)
           k == DaysAgo(t, d, D)
           y == IF k = 0 /\ m < s THEN W + (m - s) ELSE k * L + (m - s)
           h == IF d <= t THEN (IF k = 0 /\ m < s THEN p ELSE p + 1) ELSE p
<1>1. W \in Nat \ {0} /\ W >= L
  OBVIOUS
<1>2. k \in 0 .. D - 1 /\ (d > t => k # 0)
  BY DEF DaysAgo
<1>3. y \in 0 .. W - 1
  <2>1. CASE k = 0
    BY <1>1, <2>1
  <2>2. CASE k # 0
    <3>1. k * L >= L /\ k * L \in Nat
      BY <1>2, <2>2
    <3>2. k * L <= W - L
      <4>1. D - 1 - k \in Nat
        BY <1>2
      <4>2. (D - 1 - k) * L >= 0
        BY <4>1
      <4>3. (D - 1 - k) * L = D * L - L - k * L
        BY <1>2
      <4> QED BY <4>2, <4>3, <3>1
    <3> HIDE DEF k, W
    <3> QED BY <1>1, <2>2, <3>1, <3>2
  <2> QED BY <2>1, <2>2
<1>4. x = h * W + y /\ h \in Int
  <2>1. (p * D + t) * L = p * W + t * L /\ p * W \in Int /\ t * L \in Int /\ d * L \in Int /\ W \in Int
    OBVIOUS
  <2>2. k * L = IF d <= t THEN t * L - d * L ELSE W + t * L - d * L
    BY DEF DaysAgo
  <2>3. (p + 1) * W = p * W + W
    OBVIOUS
  <2>4. k = 0 => k * L = 0
    OBVIOUS
  <2>5. h \in Int /\ (h = p \/ h = p + 1)
    OBVIOUS
  <2>6. x = p * W + t * L + m + W - d * L - s
    BY <2>1
  <2>7. CASE d <= t /\ k = 0 /\ m < s
    <3>1. h = p /\ y = W + (m - s) /\ t * L = d * L
      BY <2>2, <2>7, <2>4, <2>1
    <3> HIDE DEF x, y, h, W, k
    <3> QED BY <2>1, <2>6, <3>1, <2>5
  <2>8. CASE d <= t /\ ~(k = 0 /\ m < s)
    <3>1. h = p + 1 /\ y = k * L + (m - s) /\ k * L = t * L - d * L
      BY <2>2, <2>8
    <3> HIDE DEF x, y, h, W, k
    <3> QED BY <2>1, <2>3, <2>6, <3>1, <2>5
  <2>9. CASE d > t
    <3>1. h = p /\ y = k * L + (m - s) /\ k * L = W + t * L - d * L
      BY <1>2, <2>2, <2>9
    <3> HIDE DEF x, y, h, W, k
    <3> QED BY <2>1, <2>6, <3>1, <2>5
  <2> QED BY <2>7, <2>8, <2>9
<1>5. x % W = y
  <2> HIDE DEF x, W, y, h
  <2> QED BY <1>1, <1>3, <1>4, ModUnique
<1> QED BY <1>5

Length(w) == IF w.allDay THEN DayLength ELSE (w.end + DayLength - w.start) % DayLength
Opens(w) == IF w.allDay THEN 0 ELSE w.start

LEMMA LengthIs ==
    ASSUME NEW w \in Windows, w.allDay \/ w.start # w.end
    PROVE  /\ w.days \subseteq 0 .. Days - 1
           /\ Opens(w) \in 0 .. DayLength - 1
           /\ Length(w) \in 1 .. DayLength
           /\ Length(w) = IF w.allDay THEN DayLength
                          ELSE IF w.start < w.end THEN w.end - w.start
                          ELSE w.end + DayLength - w.start
<1>1. /\ w.days \subseteq 0 .. Days - 1
      /\ w.start \in 0 .. DayLength - 1 /\ w.end \in 0 .. DayLength - 1
      /\ DayLength \in Nat \ {0} /\ w.allDay \in BOOLEAN
  BY AccountsAssumption
<1>2. Opens(w) \in 0 .. DayLength - 1
  BY <1>1 DEF Opens
<1>3. CASE w.allDay
  BY <1>1, <1>2, <1>3 DEF Length
<1>4. CASE ~w.allDay /\ w.start < w.end
  <2>1. w.end - w.start \in 0 .. DayLength - 1
    BY <1>1, <1>4
  <2>2. w.end + DayLength - w.start = DayLength + (w.end - w.start)
    BY <1>1
  <2>3. (DayLength + (w.end - w.start)) % DayLength = w.end - w.start
    BY <1>1, <2>1, ModOnce
  <2> QED BY <1>1, <1>2, <1>4, <2>2, <2>3 DEF Length
<1>5. CASE ~w.allDay /\ ~(w.start < w.end)
  <2>1. w.end + DayLength - w.start \in 0 .. DayLength - 1 /\ w.start # w.end
    BY <1>1, <1>5
  <2>2. (w.end + DayLength - w.start) % DayLength = w.end + DayLength - w.start
    BY <1>1, <2>1, ModOnce
  <2> QED BY <1>1, <1>2, <1>5, <2>1, <2>2 DEF Length
<1> QED BY <1>3, <1>4, <1>5

(* A window of day d is open at minute m of day t: it opened today, or it   *)
(* opened yesterday and reaches over midnight.                              *)
LEMMA OpenSince ==
    ASSUME NEW at \in Nat, NEW d \in 0 .. Days - 1, NEW s \in 0 .. DayLength - 1,
           NEW length \in 1 .. DayLength
    PROVE  LET today == (at \div DayLength) % Days
               yesterday == (today + Days - 1) % Days
               m == at % DayLength
               week == Days * DayLength
           IN  (at + week - (d * DayLength + s)) % week < length
                   <=> \/ d = today /\ s <= m /\ m - s < length
                       \/ d = yesterday /\ m < s /\ DayLength + m - s < length
<1> DEFINE L == DayLength
           D == Days
           q == at \div L
           m == at % L
           p == q \div D
           t == q % D
           yesterday == (t + D - 1) % D
           k == DaysAgo(t, d, D)
           y == (at + D * L - (d * L + s)) % (D * L)
<1>1. L \in Nat \ {0} /\ D \in Nat \ {0}
  BY AccountsAssumption
<1>2. q \in Nat /\ m \in 0 .. L - 1 /\ at = q * L + m
  BY <1>1, DivMod
<1>3. p \in Nat /\ t \in 0 .. D - 1 /\ q = p * D + t
  <2> HIDE DEF q
  <2> QED BY <1>1, <1>2, DivMod
<1>4. yesterday = IF t = 0 THEN D - 1 ELSE t - 1
  <2> HIDE DEF t, D
  <2>1. CASE t = 0
    <3>1. t + D - 1 = D - 1 /\ D - 1 \in 0 .. D - 1
      BY <1>1, <2>1
    <3>2. (D - 1) % D = D - 1
      BY <1>1, <3>1, ModOnce
    <3> QED BY <2>1, <3>1, <3>2
  <2>2. CASE t # 0
    <3>1. t + D - 1 = D + (t - 1) /\ t - 1 \in 0 .. D - 1
      BY <1>1, <1>3, <2>2
    <3>2. (D + (t - 1)) % D = t - 1
      BY <1>1, <3>1, ModOnce
    <3> QED BY <2>2, <3>1, <3>2
  <2> QED BY <2>1, <2>2
<1>5. y = IF k = 0 /\ m < s THEN D * L + (m - s) ELSE k * L + (m - s)
  <2>1. at = (p * D + t) * L + m
    BY <1>2, <1>3
  <2> HIDE DEF D, L, q, m, p, t, k
  <2>3. d \in 0 .. D - 1 /\ s \in 0 .. L - 1
    BY DEF D, L
  <2>4. (at + D * L - (d * L + s)) % (D * L) =
            IF k = 0 /\ m < s THEN D * L + (m - s) ELSE k * L + (m - s)
    <3>1. /\ D \in Nat \ {0} /\ L \in Nat \ {0} /\ p \in Nat /\ t \in 0 .. D - 1
          /\ d \in 0 .. D - 1 /\ m \in 0 .. L - 1 /\ s \in 0 .. L - 1 /\ at \in Nat
      BY <1>1, <1>2, <1>3, <2>3
    <3>2. \A pp \in Nat, tt \in 0 .. D - 1, dd \in 0 .. D - 1,
             mm \in 0 .. L - 1, ss \in 0 .. L - 1, aa \in Nat :
             aa = (pp * D + tt) * L + mm =>
                (aa + D * L - (dd * L + ss)) % (D * L) =
                    IF DaysAgo(tt, dd, D) = 0 /\ mm < ss THEN D * L + (mm - ss)
                    ELSE DaysAgo(tt, dd, D) * L + (mm - ss)
      BY <3>1, SinceOpening, Zenon
    <3>3. \A mm \in 0 .. L - 1, ss \in 0 .. L - 1, aa \in Nat :
             aa = (p * D + t) * L + mm =>
                (aa + D * L - (d * L + ss)) % (D * L) =
                    IF k = 0 /\ mm < ss THEN D * L + (mm - ss) ELSE k * L + (mm - ss)
      BY <3>1, <3>2, Zenon DEF k
    <3> QED BY <2>1, <3>1, <3>3, Zenon
  <2> QED BY <2>4 DEF y
<1>6. s \in 0 .. L - 1 /\ length \in 1 .. L /\ d \in 0 .. D - 1
  OBVIOUS
<1> HIDE DEF D, L, q, m, p, t, y, yesterday
<1>7. k \in 0 .. D - 1 /\ (k = 0 <=> d = t)
  BY <1>1, <1>3, <1>6 DEF DaysAgo
<1>8. d = yesterday <=> k = 1 \/ (k = 0 /\ D = 1)
  BY <1>1, <1>3, <1>4, <1>6 DEF DaysAgo
<1> HIDE DEF k
<1>9. CASE k = 0 /\ ~(m < s)
  <2>1. y = m - s
    BY <1>1, <1>2, <1>5, <1>6, <1>9
  <2> QED BY <1>2, <1>6, <1>7, <1>9, <2>1 DEF D, L, q, m, t, y, yesterday
<1>10. CASE k = 0 /\ m < s
  <2>1. y = D * L + (m - s)
    BY <1>5, <1>10
  <2>2. D = 1 => y = L + m - s
    BY <1>1, <1>2, <1>6, <2>1
  <2>3. D # 1 => y >= L
    <3>1. D # 1 => (D - 1) * L >= L /\ D * L = (D - 1) * L + L
      BY <1>1
    <3> QED BY <1>1, <1>2, <1>6, <2>1, <3>1
  <2>4. y < length <=> D = 1 /\ L + m - s < length
    BY <1>1, <1>2, <1>6, <2>2, <2>3, <2>1
  <2> QED BY <1>7, <1>8, <1>10, <1>2, <1>6, <2>4 DEF D, L, q, m, t, y, yesterday
<1>11. CASE k = 1
  <2>1. y = L + m - s
    BY <1>1, <1>2, <1>5, <1>6, <1>11
  <2>2. y < length <=> m < s /\ L + m - s < length
    BY <1>1, <1>2, <1>6, <2>1
  <2> QED BY <1>7, <1>8, <1>11, <2>2 DEF D, L, q, m, t, y, yesterday
<1>12. CASE k > 1
  <2>1. y = k * L + (m - s)
    BY <1>5, <1>12
  <2>2. k * L >= 2 * L
    <3>1. k - 2 \in Nat
      BY <1>7, <1>12
    <3>2. (k - 2) * L >= 0 /\ (k - 2) * L = k * L - 2 * L
      BY <1>1, <1>7, <3>1
    <3> QED BY <1>1, <1>7, <3>2
  <2>3. ~(y < length)
    BY <1>1, <1>2, <1>6, <1>7, <2>1, <2>2
  <2> QED BY <1>7, <1>8, <1>12, <2>3 DEF D, L, q, m, t, y, yesterday
<1> QED BY <1>7, <1>9, <1>10, <1>11, <1>12

(* scheduleCovers is right about a window that is all day or has two ends. *)
LEMMA CoversAsWritten ==
    ASSUME NEW w \in Windows, w.allDay \/ w.start # w.end, NEW at \in Nat
    PROVE  ScheduleCovers(w, at) <=> InWindow(w, at)
<1> DEFINE today == (at \div DayLength) % Days
           yesterday == (today + Days - 1) % Days
           m == at % DayLength
           s == Opens(w)
           open == \/ today \in w.days /\ s <= m /\ m - s < Length(w)
                   \/ yesterday \in w.days /\ m < s /\ DayLength + m - s < Length(w)
<1>1. /\ w.days \subseteq 0 .. Days - 1
      /\ s \in 0 .. DayLength - 1
      /\ Length(w) \in 1 .. DayLength
      /\ Length(w) = IF w.allDay THEN DayLength
                     ELSE IF w.start < w.end THEN w.end - w.start
                     ELSE w.end + DayLength - w.start
  BY LengthIs
<1>2. /\ w.start \in 0 .. DayLength - 1 /\ w.end \in 0 .. DayLength - 1
      /\ DayLength \in Nat \ {0} /\ w.allDay \in BOOLEAN
  BY AccountsAssumption
<1>3. m \in 0 .. DayLength - 1
  BY <1>2, DivMod
<1>4. InWindow(w, at) <=>
        \E d \in w.days : (at + Days * DayLength - (d * DayLength + s)) % (Days * DayLength)
                             < Length(w)
  BY DEF InWindow, Opens, Length
<1>5. InWindow(w, at) <=> open
  <2>1. \A d \in w.days :
           (at + Days * DayLength - (d * DayLength + s)) % (Days * DayLength) < Length(w)
              <=> \/ d = today /\ s <= m /\ m - s < Length(w)
                  \/ d = yesterday /\ m < s /\ DayLength + m - s < Length(w)
    <3> TAKE d \in w.days
    <3>1. d \in 0 .. Days - 1
      BY <1>1
    <3> HIDE DEF s
    <3> QED BY <1>1, <3>1, OpenSince
  <2> HIDE DEF today, yesterday, m, s
  <2>2. (\E d \in w.days : (at + Days * DayLength - (d * DayLength + s)) % (Days * DayLength)
                             < Length(w)) <=> open
    BY <2>1, Zenon
  <2> QED BY <1>4, <2>2
<1>6. ScheduleCovers(w, at) <=>
        IF w.allDay \/ w.start < w.end
        THEN today \in w.days /\ (w.allDay \/ (w.start <= m /\ m < w.end))
        ELSE \/ today \in w.days /\ m >= w.start
             \/ yesterday \in w.days /\ m < w.end
  BY DEF ScheduleCovers
<1> HIDE DEF today, yesterday, m
<1>7. CASE w.allDay
  BY <1>1, <1>2, <1>3, <1>5, <1>6, <1>7 DEF Opens
<1>8. CASE ~w.allDay /\ w.start < w.end
  BY <1>1, <1>2, <1>3, <1>5, <1>6, <1>8 DEF Opens
<1>9. CASE ~w.allDay /\ ~(w.start < w.end)
  BY <1>1, <1>2, <1>3, <1>5, <1>6, <1>9 DEF Opens
<1> QED BY <1>7, <1>8, <1>9

(* checkedSchedule lets no other window into the table. *)
Checked(row) == \A w \in row.schedules : w.allDay \/ w.start # w.end

SchedulesChecked == \A u \in DOMAIN users : Checked(users[u])

LEMMA SetChecked ==
    ASSUME SchedulesChecked, NEW u, NEW row, Set(u, row), Checked(row)
    PROVE  SchedulesChecked'
<1>1. \A v \in DOMAIN users' : users'[v] = row \/ (v \in DOMAIN users /\ users'[v] = users[v])
  BY SetFacts
<1>2. \A v \in DOMAIN users' : Checked(users'[v])
  BY <1>1 DEF SchedulesChecked
<1> QED BY <1>2 DEF SchedulesChecked, Checked

LEMMA SetSame ==
    ASSUME SchedulesChecked, NEW u \in DOMAIN users, NEW row, Set(u, row),
           row.schedules = users[u].schedules
    PROVE  SchedulesChecked'
<1>1. Checked(row)
  BY DEF SchedulesChecked, Checked
<1> QED BY <1>1, SetChecked

LEMMA EditChecked ==
    ASSUME IInv, SchedulesChecked, EditUsers
    PROVE  SchedulesChecked'
<1>1. PICK u \in Users :
        \/ \E role \in Roles, until \in Expiries \cup {Never}, zoned \in BOOLEAN :
              \/ \E code \in Codes \cup {NoCode} : CreateUser(u, role, code, until, zoned)
              \/ UpdateUser(u, role, until, zoned)
        \/ \E code \in Codes : PutCode(u, code) \/ PutDuressCode(u, code)
        \/ ClearCode(u) \/ ClearDuressCode(u)
        \/ \E schedules \in SUBSET Windows : EditSchedules(u, schedules)
        \/ DeleteUser(u)
  BY DEF EditUsers
<1>2. u \in DOMAIN users => users[u] \in Rows
  BY DEF IInv, TypeOK
<1>3. ASSUME NEW role \in Roles, NEW until \in Expiries \cup {Never}, NEW zoned \in BOOLEAN,
             NEW code \in Codes \cup {NoCode}, CreateUser(u, role, code, until, zoned)
      PROVE  SchedulesChecked'
  <2>1. Checked(NewUser(role, code, until, zoned))
    BY DEF Checked, NewUser
  <2> QED BY <1>3, <2>1, SetChecked DEF CreateUser
<1>4. ASSUME NEW role \in Roles, NEW until \in Expiries \cup {Never}, NEW zoned \in BOOLEAN,
             UpdateUser(u, role, until, zoned)
      PROVE  SchedulesChecked'
  <2>1. u \in DOMAIN users /\ Set(u, UpdatedUser(users[u], role, until, zoned))
    BY <1>4 DEF UpdateUser, Exists
  <2>2. UpdatedUser(users[u], role, until, zoned).schedules = users[u].schedules
    BY <1>2, <2>1 DEF UpdatedUser, Rows
  <2> QED BY <2>1, <2>2, SetSame
<1>5. ASSUME NEW code, SetCode(u, code) \/ SetDuressCode(u, code), Exists(u)
      PROVE  SchedulesChecked'
  <2>1. /\ [users[u] EXCEPT !.code = code, !.fails = 0, !.lockedUntil = 0].schedules = users[u].schedules
        /\ [users[u] EXCEPT !.duress = code].schedules = users[u].schedules
    BY <1>2, <1>5 DEF Exists, Rows
  <2> QED BY <1>5, <2>1, SetSame DEF SetCode, SetDuressCode, Exists
<1>6. ASSUME NEW schedules \in SUBSET Windows, EditSchedules(u, schedules)
      PROVE  SchedulesChecked'
  <2>1. /\ u \in DOMAIN users
        /\ Set(u, [users[u] EXCEPT !.schedules = schedules])
        /\ \A w \in schedules : w.allDay \/ w.start # w.end
    BY <1>6 DEF EditSchedules, StoreSchedules, Exists
  <2>2. Checked([users[u] EXCEPT !.schedules = schedules])
    BY <1>2, <2>1 DEF Checked, Rows
  <2> QED BY <2>1, <2>2, SetChecked
<1>7. ASSUME DeleteUser(u)
      PROVE  SchedulesChecked'
  BY <1>7 DEF DeleteUser, SchedulesChecked, Checked
<1> QED BY <1>1, <1>3, <1>4, <1>5, <1>6, <1>7
      DEF PutCode, PutDuressCode, ClearCode, ClearDuressCode

LEMMA CodeChecked ==
    ASSUME IInv, SchedulesChecked, EnterCode
    PROVE  SchedulesChecked'
<1>1. PICK u \in DOMAIN users : Accept(u) \/ RecordFailedAttempt(u)
  BY EnterCodeCompares
<1>2. users[u] \in Rows
  BY DEF IInv, TypeOK
<1>3. /\ [users[u] EXCEPT !.fails = 0, !.lockedUntil = 0].schedules = users[u].schedules
      /\ WithFailure(users[u]).schedules = users[u].schedules
      /\ WithLock(WithFailure(users[u])).schedules = users[u].schedules
  BY <1>2 DEF Rows, WithFailure, WithLock
<1>4. PICK row : Set(u, row) /\ row.schedules = users[u].schedules
  BY <1>1, <1>3 DEF Accept, RecordFailedAttempt
<1> QED BY <1>4, SetSame

LEMMA CheckedStays == IInv /\ SchedulesChecked /\ [Next]_vars => SchedulesChecked'
<1> SUFFICES ASSUME IInv, SchedulesChecked, [Next]_vars PROVE SchedulesChecked'
  OBVIOUS
<1>1. ASSUME NEW u \in Users, FinishDelete(u) \/ RemoveExpired(u)
      PROVE  SchedulesChecked'
  BY <1>1 DEF FinishDelete, RemoveExpired, Removed, Without, SchedulesChecked, Checked
<1>2. ASSUME UNCHANGED users
      PROVE  SchedulesChecked'
  BY <1>2 DEF SchedulesChecked, Checked
<1>3. (\E p \in Policies : UpdatePolicy(p)) \/ StartSweep \/ Restart \/ Tick \/ UNCHANGED vars
         => UNCHANGED users
  BY DEF UpdatePolicy, StartSweep, Restart, Tick, vars
<1> QED BY <1>1, <1>2, <1>3, EditChecked, CodeChecked DEF Next

(* Any week, any day and any windows: reading the weekday and the minute of *)
(* the clock, as scheduleCovers does, finds a guest's window open exactly   *)
(* from its start to its end, over midnight and over the end of the week.   *)
THEOREM SchedulesMeanWindows == Spec => []SchedulesAsWritten
<1>1. Init => SchedulesChecked
  BY DEF Init, SchedulesChecked
<1>2. IInv /\ SchedulesChecked => SchedulesAsWritten
  <2> SUFFICES ASSUME IInv, SchedulesChecked, NEW u \in DOMAIN users,
                      NEW w \in users[u].schedules,
                      NEW at \in now .. now + Days * DayLength - 1
               PROVE  ScheduleCovers(w, at) <=> InWindow(w, at)
    BY DEF SchedulesAsWritten
  <2>1. users[u] \in Rows /\ now \in Nat
    BY DEF IInv, TypeOK
  <2>2. w \in Windows /\ (w.allDay \/ w.start # w.end)
    BY <2>1 DEF Rows, SchedulesChecked, Checked
  <2>3. at \in Nat
    BY <2>1
  <2> QED BY <2>2, <2>3, CoversAsWritten
<1> QED BY <1>1, <1>2, Invariant, CheckedStays, PTL DEF Spec
=============================================================================
