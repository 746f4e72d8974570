----------------------------- MODULE Dispatcher -----------------------------
(***************************************************************************)
(* The single writer of the panel (src/src/alarm/dispatcher.ts): commands  *)
(* from the native interfaces and from Home Assistant run one at a time,   *)
(* in order, and a native one has precedence over a conflicting one from   *)
(* Home Assistant that has not begun.                                      *)
(*                                                                         *)
(* A command is its number in order of arrival.  The handler is whatever   *)
(* the constructor was given and may return at once or take its time;      *)
(* requestedAt is a reading of a clock that can be set back.               *)
(***************************************************************************)
EXTENDS Naturals, Sequences, FiniteSets, Functions

CONSTANTS
    MaxCommands,    \* bound: commands that are followed
    Times,          \* readings of the clock
    Window          \* windowMs

ASSUME DispatcherAssumption ==
    /\ MaxCommands \in Nat
    /\ Times \subseteq Nat
    /\ Window \in Nat

Sources == {"native", "home_assistant"}
Nobody == 0

VARIABLES
    sent,       \* AlarmCommandRequest of each command so far
    answer,     \* what became of each one's promise
    queue,      \* the commands of `queue`
    awaiting,   \* the command in the handler
    processing  \* whether processQueue runs

vars == <<sent, answer, queue, awaiting, processing>>

Init ==
    /\ sent = <<>>
    /\ answer = <<>>
    /\ queue = <<>>
    /\ awaiting = Nobody
    /\ processing = FALSE

IsWithinWindow(a, b) ==
    /\ a.requestedAt <= b.requestedAt + Window
    /\ b.requestedAt <= a.requestedAt + Window

\* Mutant: only the command in the handler is looked at.
ConflictsWithRunning(request) ==
    /\ awaiting # Nobody
    /\ sent[awaiting].source = "native"
    /\ IsWithinWindow(sent[awaiting], request)

HasConflictingNative(request) ==
    \E c \in Range(queue) : /\ sent[c].source = "native"
                            /\ IsWithinWindow(sent[c], request)

\* Mutant: the command in the handler is taken out as well.
SupersededOrRunning(request) ==
    {c \in Range(queue) : /\ sent[c].source = "home_assistant"
                          /\ IsWithinWindow(sent[c], request)}

Superseded(request) ==
    {c \in Range(queue) \ {awaiting} : /\ sent[c].source = "home_assistant"
                                       /\ IsWithinWindow(sent[c], request)}

(* processQueue hands the head to the handler, if there is one. *)
Process(commands) ==
    /\ processing' = (commands # <<>>)
    /\ awaiting' = IF commands = <<>> THEN Nobody ELSE Head(commands)

(* splice: what is left of s without the members of out, in its order: at   *)
(* k is the kept one that has k kept ones up to it.                         *)
Kept(s, out) == {i \in DOMAIN s : s[i] \notin out}

Rank(K, i) == Cardinality({j \in K : j <= i})

Without(s, out) ==
    LET K == Kept(s, out)
    IN  [k \in 1 .. Cardinality(K) |-> s[CHOOSE i \in K : Rank(K, i) = k]]

(* dispatch: rejected at once, or queued, superseding what it conflicts with. *)
Dispatch(request) ==
    LET c == Len(sent) + 1
        refused == request.source = "home_assistant"
                   /\ HasConflictingNative(request)
        losers == IF request.source = "native" THEN Superseded(request) ELSE {}
    IN  /\ c <= MaxCommands
        /\ sent' = Append(sent, request)
        /\ IF refused
           THEN /\ answer' = Append(answer, "rejected")
                /\ UNCHANGED <<queue, awaiting, processing>>
           ELSE /\ answer' = Append([d \in DOMAIN answer |->
                                        IF d \in losers THEN "rejected"
                                        ELSE answer[d]], "none")
                /\ queue' = Append(Without(queue, losers), c)
                /\ IF processing THEN UNCHANGED <<awaiting, processing>>
                                 ELSE Process(queue')

(* The handler returns or throws: the promise settles (it had not, or this  *)
(* does nothing), the entry is shifted out and the next one begins.         *)
Settle(outcome) ==
    answer' = [answer EXCEPT ![awaiting] = IF @ = "none" THEN outcome ELSE @]

\* Mutant: no `finally`: a handler that throws leaves the loop.
HandlerEndsUnguarded(outcome) ==
    /\ awaiting # Nobody
    /\ Settle(outcome)
    /\ queue' = Tail(queue)
    /\ IF outcome = "failed"
       THEN awaiting' = Nobody /\ UNCHANGED processing
       ELSE Process(queue')
    /\ UNCHANGED sent

HandlerEnds(outcome) ==
    /\ awaiting # Nobody
    /\ Settle(outcome)
    /\ queue' = Tail(queue)
    /\ Process(queue')
    /\ UNCHANGED sent

Next ==
    \/ \E request \in [source : Sources, requestedAt : Times] : Dispatch(request)
    \/ \E outcome \in {"done", "failed"} : HandlerEnds(outcome)

(* The panel's handler is synchronous: it always comes back. *)
Fairness == WF_vars(\E outcome \in {"done", "failed"} : HandlerEnds(outcome))

Spec == Init /\ [][Next]_vars /\ Fairness

-----------------------------------------------------------------------------
TypeOK ==
    /\ sent \in Seq([source : Sources, requestedAt : Times])
    /\ Len(sent) <= MaxCommands
    /\ answer \in Seq({"none", "done", "failed", "rejected"})
    /\ Len(answer) = Len(sent)
    /\ queue \in Seq(1 .. Len(sent))
    /\ awaiting \in 0 .. Len(sent)
    /\ processing \in BOOLEAN

(* The queue holds exactly the commands that were not answered, each once   *)
(* and in the order of their dispatch, and its head is the one in the       *)
(* handler: nothing superseded runs later, and shift() takes out the        *)
(* command that was answered and no other.                                  *)
QueueIsUnanswered ==
    /\ Range(queue) = {c \in DOMAIN sent : answer[c] = "none"}
    /\ \A i, j \in DOMAIN queue : i < j => queue[i] < queue[j]
    /\ queue # <<>> => awaiting = Head(queue)

(* FR-014: no command of Home Assistant waits while a native command of the *)
(* same window is queued or runs, whichever came first.                     *)
NativePrecedes ==
    \A c \in Range(queue) \ {awaiting}, d \in Range(queue) :
        sent[c].source = "home_assistant" /\ sent[d].source = "native"
            => ~IsWithinWindow(sent[c], sent[d])

(* Every command is answered, whatever became of those before it. *)
EveryoneAnswered ==
    \A c \in 1 .. MaxCommands :
        c \in DOMAIN sent ~> c \in DOMAIN sent /\ answer[c] # "none"
=============================================================================
