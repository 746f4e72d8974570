--------------------------- MODULE LockAutomation ---------------------------
(***************************************************************************)
(* What the locks do to the panel and the panel to the locks               *)
(* (src/src/locks/lock-automation.ts, lock-mode-settings.ts).              *)
(*                                                                         *)
(* The panel is the mode machine of PanelContract.  Every turn of the      *)
(* process is one action.  The locks are external: a command takes its     *)
(* time and may fail, commands to one lock are carried out in order, and   *)
(* the report of a bolt that moved to a command arrives later.  After a    *)
(* start of the process a lock is known only once the driver is ready and  *)
(* its node interviewed, which the panel does not wait for.                *)
(***************************************************************************)
EXTENDS Naturals, Sequences, SequencesExt

CONSTANTS
    EnrolledLocks, \* the locks added to the alarm system
    Settings,      \* LockModeSettings an administrator chooses from
    MaxCommands,   \* bound: commands to locks under way
    MaxEdits       \* bound: changes of the settings

KeyModes == {"disarmed", "armed_home", "armed_away"}
ArmedModes == {"armed_home", "armed_away"}
Alarms == {"alarm_pending", "alarm_triggered"}
Bolt == {"locked", "unlocked"}

ASSUME LockAutomationAssumption ==
    /\ Settings \subseteq [armOnLockWithCode : BOOLEAN, armOnOneTouch : BOOLEAN,
                           disarmOnUnlock : BOOLEAN,
                           actions : [KeyModes -> Bolt \cup {"none"}]]
    /\ {MaxCommands, MaxEdits} \subseteq Nat

DefaultSettings ==
    [armOnLockWithCode |-> FALSE, armOnOneTouch |-> FALSE, disarmOnUnlock |-> FALSE,
     actions |-> [m \in KeyModes |-> "none"]]

VARIABLES
    mode, armedMode, \* of the panel
    skipEntryOf,
    listed,          \* LockService.list(): the locks known since the start
    bolt,            \* of each lock
    locked,          \* LockEntry.locked: what the lock last reported
    commands,        \* to locks, each with what its loop has still to look at
    settings,        \* table lock_mode_settings
    edits,
    cause,           \* history: who set the mode the panel is in or heads for
    obeyed,          \* history: whether the mode's entry went through the locks
    asked            \* history: where the last entry wants each bolt

automationVars ==
    <<mode, armedMode, skipEntryOf, listed, bolt, locked, commands, settings,
      edits, cause, obeyed, asked>>

AutomationInit ==
    /\ mode = "disarmed"
    /\ armedMode = "none"
    /\ skipEntryOf = "none"
    /\ listed = <<>>
    /\ bolt \in [EnrolledLocks -> Bolt]
    /\ locked = [l \in EnrolledLocks |-> "unknown"]
    /\ commands = <<>>
    /\ settings \in [EnrolledLocks -> Settings]
    /\ edits = 0
    /\ cause = "other"
    /\ obeyed = TRUE
    /\ asked = [l \in EnrolledLocks |-> "none"]

-----------------------------------------------------------------------------
Listed == Range(listed)

(* handlePanel. *)
Wants(l, m) == settings[l].actions[m]

(* The loop up to its next command, if any: [lock, saw] is what it read in  *)
(* the list it goes through.                                                *)
Advance(m, todo) ==
    LET i == SelectInSeq(todo, LAMBDA e : Wants(e.lock, m) \notin {"none", e.saw})
    IN  IF i = 0 THEN <<>>
        ELSE <<[lock |-> todo[i].lock, to |-> Wants(todo[i].lock, m), mode |-> m,
                todo |-> SubSeq(todo, i + 1, Len(todo))]>>

Begin(m) ==
    Advance(m, [i \in DOMAIN listed |-> [lock |-> listed[i], saw |-> locked[listed[i]]]])

(* What is left of skipEntryOf when the panel goes to mode m. *)
\* Mutant: an alarm does not make the automation forget the entry it skips.
KeptThroughAlarm(m, skip) == IF m \in KeyModes THEN "none" ELSE skip

KeptEntry(m, skip) == IF m = "arming" THEN skip ELSE "none"

(* Nothing is on its way to or from a lock. *)
Calm == commands = <<>> /\ \A l \in EnrolledLocks : locked[l] \in {bolt[l], "unknown"}

(* The panel goes to mode m, which `who` caused, while the automation       *)
(* remembers to skip the entry of `skip`.                                   *)
PanelChanged(m, skip, who) ==
    LET obeys == m \in KeyModes /\ skip # m
    IN  /\ obeys => Len(commands) < MaxCommands
        /\ mode' = m
        /\ skipEntryOf' = KeptEntry(m, skip)
        /\ commands' = IF obeys THEN commands \o Begin(m) ELSE commands
        /\ cause' = who
        /\ obeyed' = obeys
        /\ asked' = IF m \in KeyModes \/ who = "lock"
                    THEN [l \in EnrolledLocks |->
                             IF obeys /\ who = "other" /\ Calm /\ l \in Listed
                             THEN Wants(l, m) ELSE "none"]
                    ELSE asked

-----------------------------------------------------------------------------
(* The panel, moved by anything but a lock.  History: an entry a lock was   *)
(* to skip, and that did not come to pass, goes astray.                     *)
Other == IF skipEntryOf = "disarmed" THEN "astray" ELSE "other"

Others == UNCHANGED <<listed, bolt, locked, settings, edits>>

Arm(m) ==
    /\ mode = "disarmed"
    /\ armedMode' = m
    /\ PanelChanged("arming", skipEntryOf, "other")
    /\ Others

Disarm ==
    /\ mode # "disarmed"
    /\ armedMode' = "none"
    /\ PanelChanged("disarmed", skipEntryOf, Other)
    /\ Others

ExitDelayElapses ==
    /\ mode = "arming"
    /\ PanelChanged(armedMode, skipEntryOf, cause)
    /\ UNCHANGED armedMode
    /\ Others

(* A breach starts an entry delay, or anything raises the alarm. *)
Alarm(m) ==
    /\ m = "alarm_pending" => mode \in ArmedModes
    /\ m # mode
    /\ PanelChanged(m, skipEntryOf, "other")
    /\ UNCHANGED armedMode
    /\ Others

StoodDown == IF armedMode = "none" THEN "disarmed" ELSE armedMode

GuestStandsDown ==
    /\ mode \in Alarms
    /\ PanelChanged(StoodDown, skipEntryOf, "other")
    /\ UNCHANGED armedMode
    /\ Others

-----------------------------------------------------------------------------
(* A lock operated at the door, which it reports at once: recordLocked,     *)
(* then handleAccess and driveAlarm.  Of a lock that is not known yet       *)
(* nobody hears.                                                            *)
Operated(l, to) ==
    /\ bolt' = [bolt EXCEPT ![l] = to]
    /\ locked' = IF l \in Listed THEN [locked EXCEPT ![l] = to] ELSE locked
    /\ UNCHANGED <<listed, settings, edits>>

Unasked(l) == asked' = [asked EXCEPT ![l] = "none"]

(* With an app code that has not expired, or the one-touch button. *)
LockArms(l) ==
    /\ l \in Listed
    /\ settings[l].armOnLockWithCode \/ settings[l].armOnOneTouch
    /\ mode = "disarmed"
    /\ Operated(l, "locked")
    /\ armedMode' = "armed_away"
    /\ PanelChanged("arming", "armed_away", "lock")

LockDisarms(l) ==
    /\ l \in Listed
    /\ settings[l].disarmOnUnlock
    /\ mode # "disarmed"
    /\ Operated(l, "unlocked")
    /\ armedMode' = "none"
    /\ PanelChanged("disarmed", "disarmed", "lock")

(* The code of a guest of one zone, where an alarm is, or is not. *)
LockStandsDown(l) ==
    /\ l \in Listed
    /\ settings[l].disarmOnUnlock
    /\ mode \in Alarms
    /\ Operated(l, "unlocked")
    /\ PanelChanged(StoodDown, "disarmed", "astray")
    /\ UNCHANGED armedMode

LockDisarmsZone(l) ==
    /\ l \in Listed
    /\ settings[l].disarmOnUnlock
    /\ mode # "disarmed"
    /\ Operated(l, "unlocked")
    /\ skipEntryOf' = IF mode \in Alarms THEN "none" ELSE "disarmed"
    /\ cause' = IF mode = "arming" /\ cause = "lock" THEN "astray" ELSE cause
    /\ Unasked(l)
    /\ UNCHANGED <<mode, armedMode, commands, obeyed>>

(* By hand, by auto-lock, with a code of the lock's own or one that expired, *)
(* or in any way while the lock is not known.                                *)
OperatedByHand(l, to) ==
    /\ bolt[l] # to
    /\ Operated(l, to)
    /\ Unasked(l)
    /\ UNCHANGED <<mode, armedMode, skipEntryOf, commands, cause, obeyed>>

-----------------------------------------------------------------------------
(* Commands to the locks.  The i-th is the oldest to its lock. *)
IsOldest(i) == \A j \in 1 .. i - 1 : commands[j].lock # commands[i].lock

\* Mutant: a lock that fails ends the loop.
RestIfMoved(c, moves) ==
    IF c.mode \in KeyModes /\ moves THEN Advance(c.mode, c.todo) ELSE <<>>

Rest(c, moves) == IF c.mode \in KeyModes THEN Advance(c.mode, c.todo) ELSE <<>>

(* The lock carries it out, or refuses or does not answer. *)
LockAnswers(i, moves) ==
    LET c == commands[i]
    IN  /\ IsOldest(i)
        /\ bolt' = IF moves THEN [bolt EXCEPT ![c.lock] = c.to] ELSE bolt
        /\ commands' = RemoveAt(commands, i) \o Rest(c, moves)
        /\ IF moves THEN UNCHANGED asked ELSE Unasked(c.lock)
        /\ UNCHANGED <<mode, armedMode, skipEntryOf, listed, locked, settings, edits,
                       cause, obeyed>>

BoltReported(l) ==
    /\ l \in Listed
    /\ locked[l] # bolt[l]
    /\ locked' = [locked EXCEPT ![l] = bolt[l]]
    /\ UNCHANGED <<mode, armedMode, skipEntryOf, listed, bolt, commands, settings, edits,
                   cause, obeyed, asked>>

(* PUT /locks/:nodeId/state *)
AppMovesLock(l, to) ==
    /\ l \in Listed
    /\ Len(commands) < MaxCommands
    /\ commands' = Append(commands, [lock |-> l, to |-> to, mode |-> "app", todo |-> <<>>])
    /\ Unasked(l)
    /\ UNCHANGED <<mode, armedMode, skipEntryOf, listed, bolt, locked, settings, edits,
                   cause, obeyed>>

(* PUT /locks/:nodeId/mode-settings *)
UpdateSettings(l, s) ==
    /\ l \in Listed
    /\ edits < MaxEdits
    /\ edits' = edits + 1
    /\ settings' = [settings EXCEPT ![l] = s]
    /\ Unasked(l)
    /\ UNCHANGED <<mode, armedMode, skipEntryOf, listed, bolt, locked, commands, cause,
                   obeyed>>

(* DELETE of the enrolment: 'lock_removed' deletes the settings, and a lock  *)
(* without settings does nothing, whether it is listed or not.              *)
SettingsDropped(l) ==
    /\ edits < MaxEdits
    /\ edits' = edits + 1
    /\ settings' = [settings EXCEPT ![l] = DefaultSettings]
    /\ Unasked(l)
    /\ UNCHANGED <<mode, armedMode, skipEntryOf, listed, bolt, locked, commands, cause,
                   obeyed>>

(* The driver is ready and the lock's node interviewed; the bolt is read    *)
(* next.                                                                    *)
LockAppears(l) ==
    /\ l \notin Listed
    /\ listed' = Append(listed, l)
    /\ UNCHANGED <<mode, armedMode, skipEntryOf, bolt, locked, commands, settings,
                   edits, cause, obeyed, asked>>

(* The process stops and starts: the panel is resumed in its mode, no lock  *)
(* is known, and a command under way is carried out or not.                 *)
AutomationRestarts ==
    /\ listed' = <<>>
    /\ skipEntryOf' = "none"
    /\ commands' = <<>>
    /\ locked' = [l \in EnrolledLocks |-> "unknown"]
    /\ \E lost \in SUBSET DOMAIN commands :
          bolt' = [l \in EnrolledLocks |->
                      LET done == {i \in DOMAIN commands \ lost : commands[i].lock = l}
                      IN  IF done = {} THEN bolt[l]
                          ELSE commands[Max(done)].to]
    /\ cause' = IF mode = "arming" /\ cause = "lock" THEN "astray" ELSE cause
    /\ asked' = [l \in EnrolledLocks |-> "none"]
    /\ UNCHANGED <<mode, armedMode, settings, edits, obeyed>>

-----------------------------------------------------------------------------
Panel ==
    \/ \E m \in ArmedModes : Arm(m)
    \/ Disarm \/ ExitDelayElapses \/ GuestStandsDown
    \/ \E m \in Alarms : Alarm(m)

Lock(l) ==
    \/ LockArms(l) \/ LockDisarms(l) \/ LockStandsDown(l) \/ LockDisarmsZone(l)
    \/ LockAppears(l) \/ BoltReported(l) \/ SettingsDropped(l)
    \/ \E to \in Bolt : OperatedByHand(l, to) \/ AppMovesLock(l, to)
    \/ \E s \in Settings : UpdateSettings(l, s)

AutomationNext ==
    \/ Panel
    \/ \E l \in EnrolledLocks : Lock(l)
    \/ \E i \in DOMAIN commands, moves \in BOOLEAN : LockAnswers(i, moves)
    \/ AutomationRestarts

AutomationSpec == AutomationInit /\ [][AutomationNext]_automationVars

-----------------------------------------------------------------------------
AutomationTypeOK ==
    /\ mode \in KeyModes \cup Alarms \cup {"arming"}
    /\ armedMode \in ArmedModes \cup {"none"}
    /\ skipEntryOf \in {"none", "disarmed", "armed_away"}
    /\ listed \in Seq(EnrolledLocks)
    /\ bolt \in [EnrolledLocks -> Bolt]
    /\ locked \in [EnrolledLocks -> Bolt \cup {"unknown"}]
    /\ Len(commands) <= MaxCommands
    /\ settings \in [EnrolledLocks -> Settings \cup {DefaultSettings}]
    /\ asked \in [EnrolledLocks -> Bolt \cup {"none"}]

(* "Locks or unlocks locks when the panel enters a mode, per their          *)
(* settings": once a mode that was entered while nothing was on its way to  *)
(* or from a lock has been dealt with, each lock that was known by then is  *)
(* where its settings want it, unless it failed, or someone moved it or     *)
(* changed its settings since; a lock that fails does not keep the others   *)
(* from moving.  A lock that becomes known after the mode was entered, as   *)
(* after a restart, is never moved for it.                                  *)
LocksObey ==
    commands = <<>> => \A l \in EnrolledLocks : asked[l] \in {"none", bolt[l]}

(* "A mode change that a lock itself caused does not command any lock", and *)
(* any other does, after an alarm, a disarm or a stand-down in between      *)
(* too, unless a restart or a guest of one zone made it go astray.          *)
OwnChangesAreSkipped ==
    mode \in KeyModes /\ cause # "astray" => (obeyed <=> cause = "other")
=============================================================================
