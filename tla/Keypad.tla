------------------------------- MODULE Keypad -------------------------------
(***************************************************************************)
(* What a keypad shows: KeypadController                                   *)
(* (src/src/keypads/keypad-controller.ts), KeypadService.indicate and      *)
(* KeypadGateway, over the whole panel.  A turn of the panel emits         *)
(* `alarm_event` for the events it changes and then `panel_changed` for    *)
(* the row it commits; the controller answers each with writes to the      *)
(* keypad and, where it awaits one, goes on after the turn.                *)
(*                                                                         *)
(* zwave-js carries out the writes to a node in order.  The keypad, the    *)
(* driver and the radio are external.                                      *)
(***************************************************************************)
EXTENDS Panel

CONSTANTS
    Faults,    \* what may go wrong, of "crash", "offline" and "driver"
    MaxWrites  \* bound on the writes in flight

ASSUME KeypadAssumption ==
    /\ Faults \subseteq {"crash", "offline", "driver"}
    /\ MaxWrites \in Nat

VARIABLES
    sirenOn,   \* KeypadController.sirenOn
    known,     \* the keypad is in KeypadService.keypads
    ready,     \* the driver has a controller
    attached,  \* the gateway listens to the node of this driver
    answers,   \* the node answers
    online,    \* KeypadEntry.connectivityStatus
    wire,      \* writes in flight, and what is to be shown after each
    shows,     \* the last indication the keypad was given
    astray     \* history: the keypad missed what nothing will make up for

keypad == <<sirenOn, known, ready, attached, answers, online, wire, shows, astray>>
keypadVars == <<vars, keypad>>

Shown == {"disarmed", "armed_home", "armed_away", "exit_delay", "entry_delay",
          "alarm", "nothing"}

KeypadInit ==
    /\ Init
    /\ sirenOn = FALSE
    /\ known = FALSE
    /\ ready = FALSE
    /\ attached = FALSE
    /\ answers = TRUE
    /\ online = FALSE
    /\ wire = << >>
    /\ shows = "nothing"
    /\ astray = FALSE

-----------------------------------------------------------------------------
(* indicationFor, of a panel in mode m, armed for am, with the log l. *)
IndicationFor(m, am, l) ==
    CASE m = "arming"        -> "exit_delay"
      [] m = "alarm_pending" -> "entry_delay"
      [] m = "alarm_triggered" /\ Sounding(l) # {} -> "alarm"
      [] m = "alarm_triggered" /\ Sounding(l) = {} ->
            IF am = NoMode THEN "disarmed" ELSE am
      [] OTHER               -> m

Current == IndicationFor(mode, armedMode, log)

(* A write, and the indication whose turn comes when it is done. *)
Write(indication) == [shows |-> indication, next |-> "nothing"]
AlarmOffThen(indication) == [shows |-> "alarm_off", next |-> indication]

(* show, from k: whether the siren is on, and what was sent so far. *)
Show(k, indication) ==
    CASE indication = "alarm" /\ k.siren -> k
      [] indication # "alarm" /\ k.siren ->
            [siren |-> FALSE, sent |-> Append(k.sent, AlarmOffThen(indication))]
      [] OTHER ->
            [siren |-> indication = "alarm", sent |-> Append(k.sent, Write(indication))]

\* Mutant: a change of the alarm events is not looked at.
OnAlarmEventIgnored(k) == k

(* The listener of `alarm_event`; the panel row is not committed yet. *)
OnAlarmEvent(k) ==
    IF (Sounding(log') # {}) # k.siren
    THEN Show(k, IndicationFor(mode, armedMode, log'))
    ELSE k

(* The listener of `panel_changed`. *)
OnPanelChanged(k) == Show(k, IndicationFor(mode', armedMode', log'))

(* A turn that opens, moves or ends an event emits it; one that commits the *)
(* row, or disarms a zone, emits the panel.  Time emits nothing.            *)
EventsChanged ==
    \/ Len(log') > Len(log)
    \/ \E i \in DOMAIN log : \/ log'[i].siren # log[i].siren
                             \/ log'[i].dispatch # log[i].dispatch
                             \/ log'[i].ended # log[i].ended

PanelCommitted ==
    <<mode', armedMode', bypassed', disarmedZones'>>
        # <<mode, armedMode, bypassed, disarmedZones>>

(* indicateAll: nothing is written to a keypad that is not known, and a     *)
(* write without a driver fails, which is only logged.                      *)
Send(writes) == wire' = IF known /\ ready THEN wire \o writes ELSE wire

(* What a keypad shows is followed until something goes astray. *)
ShowsNext(indication) == shows' = IF astray' THEN "nothing" ELSE indication

(* What the controller makes of a turn of the panel.                        *)
PanelTurn ==
    /\ Len(wire) < MaxWrites
    /\ up'
    /\ LET k0 == [siren |-> sirenOn, sent |-> << >>]
           k1 == IF EventsChanged THEN OnAlarmEvent(k0) ELSE k0
           k2 == IF PanelCommitted THEN OnPanelChanged(k1) ELSE k1
       IN  /\ sirenOn' = k2.siren
           /\ Send(k2.sent)
           /\ astray' = (astray \/ (known /\ ~ready /\ k2.sent # << >>))
           /\ ShowsNext(shows)
    /\ UNCHANGED <<known, ready, attached, answers, online>>

(* A turn of the panel in which the process stops, and with it the driver.  *)
ProcessStops ==
    /\ "crash" \in Faults
    /\ up /\ ~up'
    /\ sirenOn' = FALSE
    /\ known' = FALSE
    /\ ready' = FALSE
    /\ attached' = FALSE
    /\ online' = FALSE
    /\ wire' = << >>
    /\ astray' = (astray \/ Sounding(log') # {})
    /\ ShowsNext(shows)
    /\ UNCHANGED answers

-----------------------------------------------------------------------------
(* Once a write is done, the coroutine that awaited it sends the next one.  *)
Resumed == IF Head(wire).next = "nothing" THEN << >> ELSE <<Write(Head(wire).next)>>

Delivered ==
    /\ wire # << >>
    /\ answers
    /\ wire' = Tail(wire) \o Resumed
    /\ UNCHANGED <<vars, sirenOn, known, ready, attached, answers, online, astray>>
    /\ ShowsNext(IF Head(wire).shows # "alarm_off" THEN Head(wire).shows
                 ELSE IF shows = "alarm" THEN "nothing" ELSE shows)

Lost ==
    /\ wire # << >>
    /\ ~answers
    /\ wire' = Tail(wire) \o Resumed
    /\ UNCHANGED <<vars, sirenOn, known, ready, attached, answers, online, shows, astray>>

(* The node dies and comes back.  The service hears of it ("dead", "alive") *)
(* from the nodes the gateway is attached to.                               *)
NodeDies ==
    /\ "offline" \in Faults
    /\ answers
    /\ answers' = FALSE
    /\ online' = (online /\ ~attached)
    /\ UNCHANGED <<vars, sirenOn, known, ready, attached, wire, shows, astray>>

\* Mutant: a keypad that comes back is not shown anything.
ComesOnlineUnshown ==
    /\ Len(wire) < MaxWrites
    /\ ~answers
    /\ attached /\ ~online
    /\ answers' = TRUE
    /\ online' = TRUE
    /\ UNCHANGED <<vars, sirenOn, known, ready, attached, wire, shows, astray>>

(* The status changes, and keypad_changed shows the current state.          *)
ComesOnline ==
    /\ Len(wire) < MaxWrites
    /\ ~answers
    /\ attached /\ ~online
    /\ answers' = TRUE
    /\ online' = TRUE
    /\ Send(<<Write(Current)>>)
    /\ UNCHANGED <<vars, sirenOn, known, ready, attached, shows, astray>>

(* It comes back while nobody listens to it, or while the service has it as *)
(* online all along: nothing is shown, and what it missed stays missed.     *)
ReturnsUnnoticed ==
    /\ ~answers
    /\ ~attached \/ online
    /\ answers' = TRUE
    /\ astray' = (astray \/ known)
    /\ ShowsNext(shows)
    /\ UNCHANGED <<vars, sirenOn, known, ready, attached, online, wire>>

(* "driver ready".                                                          *)
DriverReady ==
    /\ up
    /\ ~ready
    /\ ready' = TRUE
    /\ UNCHANGED <<vars, sirenOn, known, attached, answers, online, wire, shows, astray>>

(* The adapters are loaded and the node is interviewed: the gateway adopts  *)
(* it.  A keypad that is already known keeps the status it had.             *)
Adopt ==
    /\ ready
    /\ ~attached
    /\ attached' = TRUE
    /\ known' = TRUE
    /\ online' = IF known THEN online ELSE answers
    /\ wire' = IF ~known /\ answers THEN Append(wire, Write(Current)) ELSE wire
    /\ UNCHANGED <<vars, sirenOn, ready, answers, shows, astray>>

DriverFails ==
    /\ "driver" \in Faults
    /\ up
    /\ ready
    /\ ready' = FALSE
    /\ attached' = FALSE
    /\ wire' = << >>
    /\ astray' = (astray \/ wire # << >>)
    /\ ShowsNext(shows)
    /\ UNCHANGED <<vars, sirenOn, known, answers, online>>

KeypadNext ==
    \/ Next /\ (PanelTurn \/ ProcessStops)
    \/ Delivered
    \/ Lost
    \/ NodeDies
    \/ ComesOnline
    \/ ReturnsUnnoticed
    \/ DriverReady
    \/ Adopt
    \/ DriverFails

KeypadSpec == KeypadInit /\ [][KeypadNext]_keypadVars

-----------------------------------------------------------------------------
KeypadTypeOK ==
    /\ TypeOK
    /\ sirenOn \in BOOLEAN
    /\ known \in BOOLEAN
    /\ ready \in BOOLEAN
    /\ attached \in BOOLEAN
    /\ answers \in BOOLEAN
    /\ online \in BOOLEAN
    /\ wire \in Seq([shows : Shown \cup {"alarm_off"}, next : Shown])
    /\ shows \in Shown
    /\ astray \in BOOLEAN

(* Nothing is on its way to a keypad that can be reached. *)
Settled == up /\ known /\ ready /\ answers /\ wire = << >>

(* contracts/keypads.md:63: "Panel state is mirrored on every keypad that   *)
(* supports `indicators`: mode, exit delay, entry delay and alarm".         *)
MirrorsPanel == Settled => shows = Current

(* The same as long as no alarm has sounded and nothing went astray: a      *)
(* keypad that appeared, came back online, or was there all along shows the *)
(* mode and the delays, whatever it missed and however late its writes are  *)
(* (keypad_changed, indicationFor).                                         *)
MirrorsUntilAlarm ==
    ~astray /\ (\A i \in DOMAIN log : log[i].siren = "none") => MirrorsPanel

(* keypad-controller.ts:81: "The keypad siren follows the alarm events:     *)
(* silenced, timed out or ended means off, even while the panel stays in    *)
(* alarm."                                                                  *)
SirenOffWhenSilent == Settled /\ Sounding(log) = {} => shows # "alarm"

(* The same for a keypad from which nothing went astray: alarms that        *)
(* overlap, are silenced, time out and end, with a keypad that dies and     *)
(* comes back between the writes.                                           *)
SirenOffUnlessAstray == ~astray => SirenOffWhenSilent

(* A guest stands down their zone while smoke or panic still sounds: the    *)
(* keypads' siren ends with the panel's alarm (panel_changed,               *)
(* indicationFor).                                                          *)
StoodDownInAlarm ==
    /\ mode = "alarm_triggered" /\ mode' # "alarm_triggered"
    /\ Sounding(log') # {}

(* But for that, no turn makes the controller take the keypads' siren for   *)
(* other than what the events say, whatever becomes of the driver: one      *)
(* alarm silenced while a second one opens, or an entry delay that ends     *)
(* (sirenOn).  Only a restart does more.                                    *)
FlagFollowsEvents ==
    [][up /\ up' /\ sirenOn = (Sounding(log) # {})
        => StoodDownInAlarm \/ sirenOn' = (Sounding(log') # {})]_keypadVars
=============================================================================
