------------------------------ MODULE Watcher ------------------------------
(***************************************************************************)
(* The critic's watcher as a process (review/watcher.py: watch, run_pass,  *)
(* _post_results, contain_environmental_fault; review/poll.py): it polls   *)
(* the channel, plans from the whole of what it has read, runs passes, and *)
(* tells the operator what waits for him.  It keeps nothing on disk: after *)
(* a death the next process reads the channel again from its first message.*)
(*                                                                         *)
(* The channel is a sequence of messages and a message's seq its index.    *)
(* The gate is reduced to the message that moved it last (module RoundGate *)
(* has its decision sequence), the critic to what a pass ends in.          *)
(***************************************************************************)
EXTENDS Naturals, Sequences, FiniteSets, FiniteSetsExt

CONSTANTS
    OwnPrimary,       \* configuration: the primary ping is the watcher's own
    DistinctFallback, \* configuration: the fallback is another channel
    Budget,     \* attempts of a fault stretch before it goes quiet
    MaxMoves,   \* bound: messages of development, the operator and the server
    MaxFaults,  \* bound: posts lost, processes that die, passes that fail
    MaxBreaks   \* bound: times the environment of a pass breaks

ASSUME WatcherAssumption ==
    /\ {Budget, MaxMoves, MaxFaults, MaxBreaks} \subseteq Nat
    /\ Budget > 0
    /\ {OwnPrimary, DistinctFallback} \subseteq BOOLEAN

\* findings: a pass found something; clean: its findings message is empty.
Moves == {"artifact", "context", "item", "answer", "proposals", "directive", "ruling"}
Notices == {"gate_ping", "fallback", "items_ping", "fault", "watcher_error", "refusal"}
Kinds == Moves \cup Notices \cup {"findings", "clean", "status", "needs_human"}

VARIABLES
    log,
    healthy,  \* whether the environment of a pass would let it run
    pc,       \* where the process is, "off" when there is none
    read,     \* the messages it has read: its replay
    pending,  \* the round whose fallback timer runs, 0 for none
    stretch,  \* FaultStretch
    version,  \* the version of the pass that runs
    sent,     \* history: pushes of the newest proposals, by channel role
    noise,    \* history: fault notices since a pass last completed
    unread,   \* history: gates raised where the check could not read the channel
    moves, faults, breaks

process == <<pc, read, pending, stretch, version>>
history == <<sent, noise, unread>>
counts == <<moves, faults, breaks>>
vars == <<log, healthy, process, history, counts>>

Places == {"off", "poll", "gate_ping", "gate_notice", "operator_ping", "review",
           "post_findings", "post_clean", "post_status", "recovered", "fault"}
Closed == [open |-> FALSE, attempts |-> 0, quiet |-> FALSE]
NoPush == [primary |-> 0, fallback |-> 0]

TypeOK ==
    /\ \A i \in DOMAIN log : log[i].kind \in Kinds /\ log[i].about < i
    /\ healthy \in BOOLEAN /\ pc \in Places /\ read \in 0 .. Len(log)
    /\ pending # 0 => log[pending].kind = "proposals"
    /\ stretch \in [open : BOOLEAN, attempts : Nat, quiet : BOOLEAN]
    /\ stretch.quiet => stretch.open /\ stretch.attempts >= Budget
    /\ version # 0 => log[version].kind = "artifact"
    /\ sent \in [primary : Nat, fallback : Nat] /\ noise \in Nat /\ unread \in 0 .. faults

Init ==
    /\ log = <<>> /\ healthy = TRUE
    /\ pc = "off" /\ read = 0 /\ pending = 0 /\ stretch = Closed /\ version = 0
    /\ sent = NoPush /\ noise = 0 /\ unread = 0
    /\ moves = 0 /\ faults = 0 /\ breaks = 0

-----------------------------------------------------------------------------
(* What a prefix of the channel says; n is its length.                      *)

Seqs(kinds, n) == {i \in 1 .. n : log[i].kind \in kinds}
Last(kinds, n) == Max(Seqs(kinds, n) \cup {0})
Latest(n) == Last({"artifact"}, n)

GateMoves == {"artifact", "findings", "proposals", "ruling"}
GateMovedBy(n) ==
    IF Seqs(GateMoves, n) = {} THEN "nothing" ELSE log[Last(GateMoves, n)].kind
GateOpen(n) == GateMovedBy(n) = "proposals"
PassAllowed(n) == GateMovedBy(n) \in {"nothing", "artifact"}

\* Pass ends that count: a needs_human of the watcher's own error does not.
LastReviewed(n) ==
    Max({log[i].about : i \in {j \in Seqs({"findings", "clean"}, n) :
                                   j < Last({"status"}, n)}} \cup {0})

FrameRepassDue(n) == Last({"status"}, n) # 0 /\ Last({"context"}, n) > Last({"status"}, n)

Items == {"item", "needs_human"}
ItemsOpen(n) == Last(Items, n) > Last({"answer"}, n)

Told(kinds, ref, n) == \E i \in Seqs(kinds, n) : log[i].about = ref
Answered(round, n) == Last({"directive", "ruling"}, n) > round

GatePingDueUnrecorded(n) == GateOpen(n)

GatePingDue(n) ==
    GateOpen(n) /\ ~Told({"gate_ping", "fallback"}, Last({"proposals"}, n), n)

FallbackForgotten(n) == 0

\* The timer a new process takes over from the journal.
FallbackResumed(n) ==
    LET round == Last({"proposals"}, n) IN
    IF /\ GateOpen(n) /\ Told({"gate_ping"}, round, n)
       /\ ~Told({"fallback"}, round, n) /\ ~Answered(round, n)
    THEN round ELSE 0

PassDue(n) ==
    /\ Latest(n) # 0 /\ PassAllowed(n)
    /\ Latest(n) > LastReviewed(n) \/ FrameRepassDue(n)

Plan(n) ==
    IF Latest(n) # 0 /\ GatePingDue(n) THEN "gate_ping"
    ELSE IF ~PassDue(n) THEN "wait"
    ELSE IF ~ItemsOpen(n) THEN "review"
    ELSE IF Told({"items_ping"}, Last(Items, n), n) THEN "wait" ELSE "operator_ping"

-----------------------------------------------------------------------------
(* Posting.  A notice is best effort; a result that fails is a fault.       *)

Message(kind, about) == [kind |-> kind, about |-> about]

\* Best-effort posts, one after the other, two at most: one or all are lost.
Noticed(messages) ==
    \/ log' = log \o messages /\ UNCHANGED faults
    \/ /\ faults < MaxFaults /\ faults' = faults + 1
       /\ \/ UNCHANGED log
          \/ \E i \in DOMAIN messages : log' = Append(log, messages[i])

\* A post of the pass's results: accepted, landed with its answer lost, or not.
Posted(message, next) ==
    \/ log' = Append(log, message) /\ pc' = next /\ UNCHANGED faults
    \/ /\ faults < MaxFaults /\ faults' = faults + 1 /\ pc' = "fault"
       /\ log' \in {log, Append(log, message)}

-----------------------------------------------------------------------------
(* The loop: arm the timer, poll, plan.                                     *)

\* The head of the loop, with p left of the timer: a process that has none
\* takes over what the journal, as far as it is read, still owes.
Loop(p, n) ==
    pc' = "poll" /\ pending' = IF p = 0 THEN FallbackResumed(n) ELSE p

\* The end of the process: what it held is gone.
Gone ==
    /\ pc' = "off" /\ read' = 0 /\ pending' = 0 /\ version' = 0
    /\ stretch' = Closed /\ noise' = 0

Start ==
    /\ pc = "off" /\ pc' = "poll"
    /\ UNCHANGED <<log, healthy, read, pending, stretch, version, history, counts>>

Poll ==
    LET n == Len(log)
        timer == IF pending # 0 /\ Answered(pending, n) THEN 0 ELSE pending
    IN  /\ pc = "poll" /\ read < n /\ read' = n
        /\ IF Plan(n) = "wait"
           THEN Loop(timer, n)
           ELSE pc' = Plan(n) /\ pending' = timer
        /\ version' = IF Plan(n) = "review" THEN Latest(n) ELSE 0
        /\ UNCHANGED <<log, healthy, stretch, history, counts>>

\* on_idle, its delay over: the once-only fallback, unless it was answered.
FireFallback ==
    /\ pc = "poll" /\ read = Len(log) /\ pending # 0
    /\ pending' = 0
    /\ IF Answered(pending, read)
       THEN UNCHANGED <<log, sent, faults>>
       ELSE /\ sent' = IF DistinctFallback THEN [sent EXCEPT !.fallback = @ + 1] ELSE sent
            /\ Noticed(<<Message("fallback", pending)>>)
    /\ UNCHANGED <<healthy, pc, read, stretch, version, noise, unread, moves, breaks>>

\* The push goes first and the notice that records it second.
PushGate ==
    /\ pc = "gate_ping" /\ pc' = "gate_notice"
    /\ sent' = IF OwnPrimary THEN [sent EXCEPT !.primary = @ + 1] ELSE sent
    /\ UNCHANGED <<log, healthy, read, pending, stretch, version, noise, unread, counts>>

NoticeGate ==
    /\ pc = "gate_notice"
    /\ Noticed(<<Message("gate_ping", Last({"proposals"}, read))>>)
    /\ Loop(Last({"proposals"}, read), read)
    /\ UNCHANGED <<healthy, read, stretch, version, history, moves, breaks>>

\* A ping about the machinery is journalled as a fault notice.
NoticeItems ==
    /\ pc = "operator_ping"
    /\ Noticed(<<Message("fault", 0), Message("items_ping", Last(Items, read))>>)
    /\ Loop(pending, read)
    /\ UNCHANGED <<healthy, read, stretch, version, history, moves, breaks>>

-----------------------------------------------------------------------------
(* A pass.                                                                  *)

\* A probe, the subject, the frame or the invocation fails: nothing is spent.
PassFaults ==
    /\ pc = "review" /\ ~healthy /\ pc' = "fault"
    /\ UNCHANGED <<log, healthy, read, pending, stretch, version, history, counts>>

\* channel_moved_on, on a fresh read after the invocation.
MovedOn ==
    \/ Latest(Len(log)) > version
    \/ Last({"context"}, Len(log)) > read
    \/ ItemsOpen(Len(log))

\* Before the invocation too, where the pickup meets a conflict.
PassAbandoned ==
    /\ pc = "review" /\ MovedOn /\ pc' = "recovered"
    /\ UNCHANGED <<log, healthy, read, pending, stretch, version, history, counts>>

PassConcludes ==
    /\ pc = "review" /\ healthy /\ ~MovedOn
    /\ pc' \in {"post_findings", "post_clean"}
    /\ UNCHANGED <<log, healthy, read, pending, stretch, version, history, counts>>

PostFindings ==
    /\ \/ pc = "post_findings" /\ Posted(Message("findings", version), "post_status")
       \/ pc = "post_clean" /\ Posted(Message("clean", version), "post_status")
    /\ UNCHANGED <<healthy, read, pending, stretch, version, history, moves, breaks>>

\* The server may refuse a conclusion for a reason of its own: the pass is over.
PostStatus ==
    /\ pc = "post_status"
    /\ \/ Posted(Message("status", version), "recovered")
       \/ /\ faults < MaxFaults /\ faults' = faults + 1
          /\ log' = Append(log, Message("refusal", version)) /\ pc' = "recovered"
    /\ UNCHANGED <<healthy, read, pending, stretch, version, history, moves, breaks>>

ConcludedNever == FALSE

\* _pass_concluded
Concluded == Told({"status", "needs_human"}, version, Len(log))

\* The critic is unparseable twice, or the machinery raises: a notice, the
\* operator's gate unless the channel holds a status of this version, the end.
\* A check that cannot read the channel finds none, not even one in the replay.
PassFails ==
    /\ pc = "review"
    /\ faults < MaxFaults /\ faults' = faults + 1
    /\ LET error == log \o <<Message("watcher_error", version)>>
           human == error \o <<Message("needs_human", version)>>
       IN  \/ log' \in {log, error} /\ UNCHANGED unread
           \/ log' = human /\ ~Concluded /\ UNCHANGED unread
           \/ log' = human /\ unread' = unread + 1
    /\ Gone
    /\ UNCHANGED <<healthy, sent, moves, breaks>>

-----------------------------------------------------------------------------
(* Fault stretches.                                                         *)

\* A completed pass, and an abandoned one, close the stretch.
Recover ==
    /\ pc = "recovered" /\ Loop(pending, read)
    /\ IF stretch.open THEN Noticed(<<Message("fault", 0)>>) ELSE UNCHANGED <<log, faults>>
    /\ stretch' = Closed /\ noise' = 0 /\ version' = 0
    /\ UNCHANGED <<healthy, read, sent, unread, moves, breaks>>

FaultStepNoisy ==
    LET attempts == IF stretch.open THEN stretch.attempts + 1 ELSE 1
    IN  [open |-> TRUE, attempts |-> IF attempts > Budget THEN Budget ELSE attempts,
         quiet |-> FALSE]

FaultStep ==
    LET attempts == IF stretch.open THEN stretch.attempts + 1 ELSE 1
    IN  [open |-> TRUE, attempts |-> IF attempts > Budget THEN Budget ELSE attempts,
         quiet |-> attempts >= Budget]

\* The ping that opens a stretch, and a notice of each step but the repeats
\* of the slow probe; then the pause.
FaultNotices ==
    (IF stretch.open THEN <<>> ELSE <<Message("fault", 0)>>) \o
    (IF stretch.open /\ stretch.quiet THEN <<>> ELSE <<Message("fault", 0)>>)

Contain ==
    /\ pc = "fault" /\ Loop(pending, read)
    /\ stretch' = FaultStep
    /\ noise' = noise + Len(FaultNotices)
    /\ IF FaultNotices = <<>> THEN UNCHANGED <<log, faults>> ELSE Noticed(FaultNotices)
    /\ version' = 0
    /\ UNCHANGED <<healthy, read, sent, unread, moves, breaks>>

-----------------------------------------------------------------------------
(* Around the process.                                                      *)

\* It is killed, or three polls in a row fail.
Die ==
    /\ pc # "off" /\ Gone
    /\ faults < MaxFaults /\ faults' = faults + 1
    /\ UNCHANGED <<log, healthy, sent, unread, moves, breaks>>

\* Only a pass looks at its environment.
Break ==
    /\ pc = "review" /\ healthy /\ breaks < MaxBreaks
    /\ healthy' = FALSE /\ breaks' = breaks + 1
    /\ UNCHANGED <<log, process, history, moves, faults>>

Repair ==
    /\ ~healthy /\ healthy' = TRUE
    /\ UNCHANGED <<log, process, history, counts>>

\* What the server takes from the others (module RoundGate): a version where
\* no round is open or its rulings ask for one, proposals on findings, marks
\* on proposals, answers to open items.
MoveAllowed(kind) ==
    LET n == Len(log) IN
        CASE kind = "artifact"  -> GateMovedBy(n) \in {"nothing", "artifact", "ruling"}
          [] kind = "proposals" -> GateMovedBy(n) = "findings"
          [] kind \in {"directive", "ruling"} -> GateOpen(n)
          [] kind = "answer"    -> ItemsOpen(n)
          [] OTHER -> TRUE

Move(kind) ==
    /\ moves < MaxMoves /\ moves' = moves + 1
    /\ MoveAllowed(kind)
    /\ log' = Append(log, Message(kind, 0))
    /\ sent' = IF kind = "proposals" THEN NoPush ELSE sent
    /\ UNCHANGED <<healthy, process, noise, unread, faults, breaks>>

Polling == Poll \/ PushGate \/ NoticeGate \/ NoticeItems
Pass == PassFaults \/ PassAbandoned \/ PassConcludes \/ PostFindings \/ PostStatus
Ends == Recover \/ Contain

Next ==
    \/ Start \/ Polling \/ Pass \/ Ends \/ FireFallback \/ PassFails
    \/ Die \/ Break \/ Repair
    \/ \E kind \in Moves : Move(kind)

Spec == Init /\ [][Next]_vars

\* The process does what it can do and is started again: polls, timers and pauses
\* all end by themselves.  An environment that broke may stay so.
Fairness ==
    /\ WF_vars(Start) /\ WF_vars(Polling) /\ WF_vars(Pass) /\ WF_vars(Ends)
    /\ WF_vars(FireFallback)

FairSpec == Spec /\ Fairness

-----------------------------------------------------------------------------
(* Properties.                                                              *)

\* A fault stretch costs one ping, a notice for each attempt of its budget and
\* one for the drop to the slow probe, however long the environment is broken.
QuietStretch == noise <= Budget + 1

\* An opened gate is pushed once through each channel: a repeat needs a notice
\* or a process that was lost after the push.
GatePingedOnce ==
    sent.primary <= 1 + faults /\ sent.fallback <= 1 + faults

\* The operator's gates on a version that had its status, or such a gate, already.
Stacked ==
    {j \in DOMAIN log :
        /\ log[j].kind = "needs_human"
        /\ \E i \in DOMAIN log :
               /\ i < j /\ log[i].about = log[j].about
               /\ log[i].kind \in {"status", "needs_human"}}

\* A fault after a pass concluded puts the operator's gate on top of it only where the
\* check before the gate could not read the channel, and once for each such check:
\* whatever was posted in between, by this process or by those before it
\* (_pass_concluded, run_pass).
ConcludedStands == Cardinality(Stacked) <= unread

\* "An accepted `needs_human` also ENDS a pass, and a later fault must not stack a second
\* gate on top of it" (_pass_concluded).
\* Refuted, see the README.
NoSecondGate == Stacked = {}

\* With a second channel configured, a gate nobody answers is pushed through it
\* in the end, whatever dies between the opening ping and the timer.
GateIsSurfaced ==
    GateOpen(Len(log)) /\ DistinctFallback
        ~> \/ sent.fallback > 0
           \/ ~GateOpen(Len(log)) \/ Answered(Last({"proposals"}, Len(log)), Len(log))

\* "The pass is still DUE and resumes by itself when the environment recovers"
\* (watcher.py, contain_environmental_fault).
\* Refuted, see the README.
DuePassResumes ==
    <>[]healthy => (PassDue(Len(log)) ~> ~PassDue(Len(log)) \/ ItemsOpen(Len(log)))
=============================================================================
