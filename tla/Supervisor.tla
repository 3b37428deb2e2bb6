----------------------------- MODULE Supervisor -----------------------------
(***************************************************************************)
(* The kanban manager's supervision of its runs: one process, its asyncio  *)
(* tasks, and the three files that have to survive it (inflight.json,      *)
(* pending.json, .paused) next to board.json.                              *)
(*                                                                         *)
(* A step is what the event loop does between two awaits; the awaits that  *)
(* separate two changes of state are control points ("pc") of a task.      *)
(* Where two files are written with no await between them the stretch is   *)
(* split at the write, and the split is visible to a crash only: see       *)
(* LoopFree.  What an agent does inside a turn is a free choice.           *)
(***************************************************************************)
EXTENDS Naturals, Sequences, FiniteSets

CONSTANTS
    Cards,        \* card conversations, driven by a manager and his workers
    Threads,      \* board chats and prompt chats: a run is one turn, no worker
    Tasks,        \* identities for the handler coroutines alive at one time
    Msgs,         \* what the human may send, each at most once
    CarryOn,      \* CONTINUE_AFTER_PAUSE, the text of a carry-on
    Triage,       \* TRIAGE_PROMPT
    Nobody,
    MaxAttempts,  \* journal.MAX_ATTEMPTS
    MaxRounds,    \* the delegate loop's bound (40 in the code)
    Quota         \* how often each thing the environment does may happen

Ops == {"death", "pause", "resume", "restart", "shutdown", "error", "removal", "create"}
Targets == Cards \cup Threads
Texts == Msgs \cup {CarryOn, Triage}

ASSUME ConstantsOK ==
    /\ Cards \cap Threads = {}
    /\ CarryOn \notin Msgs /\ Triage \notin Msgs /\ CarryOn # Triage
    /\ Nobody \notin Targets \cup Tasks
    /\ MaxAttempts \in Nat \ {0}
    /\ MaxRounds \in Nat \ {0}
    /\ Quota \in [Ops -> Nat]

VARIABLES
    \* ---- disk
    journal,        \* inflight.json: a function whose domain is the runs in flight
    pending,        \* pending.json: a sequence of messages
    marker,         \* the .paused file
    busy,           \* board.json: targets flagged busy
    place,          \* board.json: where each target is
    saved,          \* board.json: cards that remember a stopped worker's session
    \* ---- the Manager object
    draining, stopping, paused,
    driving, turnKind, delegated, woundDown, interrupted, clients, workersRunning,
    lock, session,  \* the asyncio locks: holder first, then waiters in order
    \* ---- coroutines
    task,           \* handle_*_message calls
    ready,          \* those that were spawned and have not taken their first step
    taker,          \* _take_work_again, at startup and from /api/resume
    pauser,         \* pause(), suspended in stop_workers
    restarter,      \* _wait_then_restart and _bye
    \* ---- history, read by the properties only
    unsent, answered, resumed, gaveUp,
    quota

disk == <<journal, pending, marker, busy, place, saved>>
flags == <<draining, stopping, paused>>
turnState == <<turnKind, delegated, woundDown>>
workerState == <<interrupted, clients, workersRunning>>
locks == <<lock, session>>
server == <<taker, pauser, restarter>>
history == <<unsent, answered, resumed, gaveUp>>
coroutines == <<task, ready>>
vars == <<disk, flags, driving, turnState, workerState, locks, coroutines, server, history, quota>>

-----------------------------------------------------------------------------
Entry == [text : Texts, attempts : 0 .. MaxAttempts]
Message == [target : Targets, text : Texts, human : BOOLEAN]

TurnPcs == {"turn", "chat"}
WorkerPcs == {"connecting", "working", "saving", "parting", "breaking"}
\* Control points of a run between journal.start and journal.finish.
RunPcs == {"turnwait", "turn", "reporting", "failing", "winddown", "striking", "thread"} \cup WorkerPcs
\* Control points at which the task holds the lock of its target.
HolderPcs == {"starting", "releasing"} \cup RunPcs
Pcs == {"idle", "new", "posted", "noted", "lockwait", "chatwait", "chat"} \cup HolderPcs

Task == [pc : Pcs, target : Targets \cup {Nobody}, text : Texts,
         human : BOOLEAN, resuming : BOOLEAN, left : 0 .. MaxRounds]
NewTask(c, x, human, resuming) ==
    [pc |-> "new", target |-> c, text |-> x, human |-> human, resuming |-> resuming, left |-> MaxRounds]
IdleTask == [pc |-> "idle", target |-> Nobody, text |-> CarryOn,
             human |-> FALSE, resuming |-> FALSE, left |-> 0]

At(t, pc) == task[t].pc = pc
On(t) == task[t].target
Go(t, pc) == task' = [task EXCEPT ![t].pc = pc]
\* Going on as an answer to the human, or as the machine's own doing.
GoAs(t, pc, human) == task' = [task EXCEPT ![t] = [@ EXCEPT !.pc = pc, !.human = human]]
\* Another round of the delegate loop.
AwaitTurn(t, human) ==
    task' = [task EXCEPT ![t] = [@ EXCEPT !.pc = "turnwait", !.human = human, !.left = task[t].left - 1]]
Stop(t) == task' = [task EXCEPT ![t] = IdleTask]
Spawn(t, c, x, human, resuming) ==
    /\ At(t, "idle")
    /\ task' = [task EXCEPT ![t] = NewTask(c, x, human, resuming)]
    /\ ready' = Append(ready, t)
\* The loop gives new coroutines their first step in the order they were spawned.
Starts(t) ==
    /\ At(t, "new") /\ ready # <<>> /\ Head(ready) = t
    /\ ready' = Tail(ready)
Spend(op) ==
    /\ quota[op] > 0
    /\ quota' = [quota EXCEPT ![op] = @ - 1]

Inflight == DOMAIN journal
Put(f, c, v) == [x \in DOMAIN f \cup {c} |-> IF x = c THEN v ELSE f[x]]
Strike(f, c) == [x \in DOMAIN f \ {c} |-> f[x]]
Exists(c) == place[c] # "gone"
CarryOnFor(c) == [target |-> c, text |-> CarryOn, human |-> FALSE]

\* A task between two file writes that no await separates keeps the loop to itself.
LoopFree ==
    /\ \A t \in Tasks : ~At(t, "striking")
    /\ taker.pc # "dispatch"

\* The board is served once the startup recovery is through.
Serving == ~taker.boot

Enqueue(q, c, t) == [q EXCEPT ![c] = Append(@, t)]
Dequeue(q, c) == [q EXCEPT ![c] = Tail(@)]
Holds(q, c, t) == q[c] # <<>> /\ Head(q[c]) = t

\* Mutants: a lock that is not taken.
NoSession(t) == TRUE

\* Inside `async with self._lock_for(...)`.
HasLock(t) == Holds(lock, On(t), t)
HasSession(t) == Holds(session, On(t), t)

-----------------------------------------------------------------------------
(* A message reaches the manager.                                          *)

\* handle_ws spawns the handler for what the human typed.
HumanSends(t, m, c) ==
    /\ LoopFree /\ Serving
    /\ m \in unsent
    /\ Exists(c)
    /\ Spawn(t, c, m, TRUE, FALSE)
    /\ unsent' = unsent \ {m}
    /\ UNCHANGED <<disk, flags, driving, turnState, workerState, locks, server,
                   answered, resumed, gaveUp, quota>>

\* triage_card has put its note in the thread of a card that was created untyped, and so
\* has never run, and asks the manager to type it.
CardCreated(t, c) ==
    /\ LoopFree /\ Serving
    /\ c \in Cards \ Inflight /\ Exists(c)
    /\ Spend("create")
    /\ Spawn(t, c, Triage, FALSE, TRUE)
    /\ UNCHANGED <<disk, flags, driving, turnState, workerState, locks, server, history>>

\* The target is gone: the handler returns.
HandlerDrops(t) ==
    /\ LoopFree
    /\ Starts(t) /\ ~Exists(On(t))
    /\ Stop(t)
    /\ UNCHANGED <<disk, flags, driving, turnState, workerState, locks, server, history, quota>>

\* Mutant: a board that winds down takes no message either.
ClosedWhileDraining == draining

\* The process is committed to exit: there is nothing left to act with.
Closed == stopping

\* _queue_while_draining: the message waits on disk for the next process.
HandlerQueues(t) ==
    /\ LoopFree
    /\ Starts(t) /\ Exists(On(t))
    /\ Closed /\ ~task[t].resuming
    /\ pending' = Append(pending, [target |-> On(t), text |-> task[t].text, human |-> TRUE])
    /\ Stop(t)
    /\ UNCHANGED <<journal, marker, busy, place, saved, flags, driving, turnState, workerState,
                   locks, server, history, quota>>

\* The message is put in the thread, which suspends the handler.
HandlerPosts(t) ==
    /\ LoopFree
    /\ Starts(t) /\ Exists(On(t))
    /\ ~Closed /\ ~task[t].resuming
    /\ Go(t, "posted")
    /\ UNCHANGED <<disk, flags, driving, turnState, workerState, locks, server, history, quota>>

Posted(t) ==
    \/ At(t, "posted") /\ UNCHANGED ready
    \/ Starts(t) /\ Exists(On(t)) /\ task[t].resuming

\* A run owns the card, so this becomes a chat turn on its session...
BecomesChat(t) ==
    /\ LoopFree
    /\ Posted(t) /\ On(t) \in driving
    /\ session' = Enqueue(session, On(t), t)
    /\ Go(t, "chatwait")
    /\ UNCHANGED <<disk, flags, driving, turnState, workerState, lock, server, history, quota>>

\* ...and otherwise a run of its own.  Behind a locked lock it says so in the thread first,
\* which suspends the handler once more,
Locked(c) == \E t \in Tasks : On(t) = c /\ task[t].pc \in HolderPcs

HandlerNotes(t) ==
    /\ LoopFree
    /\ Posted(t) /\ On(t) \notin driving
    /\ Locked(On(t))
    /\ Go(t, "noted")
    /\ UNCHANGED <<disk, flags, driving, turnState, workerState, locks, server, history, quota>>

\* and then it waits in line, whatever has become of the lock and its holder meanwhile.
QueuesOnLock(t) ==
    /\ LoopFree
    /\ \/ At(t, "noted") /\ UNCHANGED ready
       \/ Posted(t) /\ On(t) \notin driving /\ ~Locked(On(t))
    /\ lock' = Enqueue(lock, On(t), t)
    /\ Go(t, "lockwait")
    /\ UNCHANGED <<disk, flags, driving, turnState, workerState, session, server, history, quota>>

TakesLock(t) ==
    /\ LoopFree
    /\ At(t, "lockwait") /\ HasLock(t)
    /\ driving' = driving \cup ({On(t)} \cap Cards)
    /\ busy' = IF Exists(On(t)) THEN busy \cup {On(t)} ELSE busy
    /\ Go(t, "starting")
    /\ UNCHANGED <<journal, pending, marker, place, saved, flags, turnState, workerState,
                   locks, server, history, quota, ready>>

\* Mutant: every start counts from nought.
AttemptsAnew(c) == 0

\* "A resume re-enters start(); it must not reset the attempt counter."
AttemptsSoFar(c) == IF c \in Inflight THEN journal[c].attempts ELSE 0

\* Mutant: what is resumed is taken to be in the journal already.
StartedUnlessResuming(t) ==
    IF task[t].resuming THEN journal
    ELSE Put(journal, On(t), [text |-> task[t].text, attempts |-> AttemptsSoFar(On(t))])

\* journal.start.
Started(t) == Put(journal, On(t), [text |-> task[t].text, attempts |-> AttemptsSoFar(On(t))])

\* The entry is on disk before the run.  A message is a run of its own; what recovery sends
\* in again is the run that died.
JournalStarts(t) ==
    LET c == On(t) IN
    /\ LoopFree
    /\ At(t, "starting")
    /\ journal' = Started(t)
    /\ resumed' = IF task[t].resuming THEN resumed ELSE [resumed EXCEPT ![c] = 0]
    /\ \/ /\ c \in Cards
          /\ session' = Enqueue(session, c, t)
          /\ AwaitTurn(t, task[t].human)
       \/ /\ c \in Threads
          /\ UNCHANGED session
          /\ Go(t, "thread")
    /\ UNCHANGED <<pending, marker, busy, place, saved, flags, driving, turnState, workerState,
                   lock, server, unsent, answered, gaveUp, quota, ready>>

-----------------------------------------------------------------------------
(* The end of a run: strike it off, then clear the flag and the lock.      *)

EndsRun(t) ==
    /\ driving' = driving \ {On(t)}
    /\ turnKind' = IF On(t) \in Cards THEN [turnKind EXCEPT ![On(t)] = "none"] ELSE turnKind
    /\ journal' = Strike(journal, On(t))
    /\ gaveUp' = gaveUp \ {On(t)}
    /\ resumed' = [resumed EXCEPT ![On(t)] = 0]
    /\ Go(t, "releasing")

Releases(t) ==
    /\ LoopFree
    /\ At(t, "releasing")
    /\ busy' = busy \ {On(t)}
    /\ lock' = Dequeue(lock, On(t))
    /\ Stop(t)
    /\ UNCHANGED <<journal, pending, marker, place, saved, flags, driving, turnState, workerState,
                   session, server, history, quota, ready>>

\* The error was put in the thread; there is nothing to resume.
FailsHere(t) ==
    /\ LoopFree
    /\ At(t, "failing")
    /\ EndsRun(t)
    /\ UNCHANGED <<pending, marker, busy, place, saved, flags, delegated, woundDown, workerState,
                   locks, server, unsent, answered, quota, ready>>

\* A board chat or a prompt chat is one turn: it answers, or its error is posted.
ThreadEnds(t) ==
    /\ LoopFree
    /\ At(t, "thread")
    /\ answered' = answered \cup ({task[t].text} \cap Msgs)
    /\ EndsRun(t)
    /\ UNCHANGED <<pending, marker, busy, place, saved, flags, delegated, woundDown, workerState,
                   locks, server, unsent, quota, ready>>

-----------------------------------------------------------------------------
(* One turn of the manager, under the session lock of his card.            *)

TurnBegins(t) ==
    LET c == On(t) IN
    /\ LoopFree
    /\ At(t, "turnwait") /\ HasSession(t)
    /\ delegated' = delegated \ {c}
    /\ turnKind' = [turnKind EXCEPT ![c] = IF task[t].human THEN "reply" ELSE "drive"]
    /\ Go(t, "turn")
    /\ UNCHANGED <<disk, flags, driving, woundDown, workerState, locks, server, history, quota, ready>>

ChatBegins(t) ==
    LET c == On(t) IN
    /\ LoopFree
    /\ At(t, "chatwait") /\ HasSession(t)
    /\ delegated' = delegated \ {c}
    /\ turnKind' = [turnKind EXCEPT ![c] = "chat"]
    /\ Go(t, "chat")
    /\ UNCHANGED <<disk, flags, driving, woundDown, workerState, locks, server, history, quota, ready>>

\* The delegate tool, called while the board winds down: refused, and remembered.
DelegateRefused(t) ==
    /\ LoopFree
    /\ task[t].pc \in TurnPcs /\ Exists(On(t))
    /\ draining
    /\ woundDown' = woundDown \cup {On(t)}
    /\ UNCHANGED <<disk, flags, driving, turnKind, delegated, workerState, locks, coroutines, server,
                   history, quota>>

\* Mutant: a drain refuses nothing.
DelegateTaken(t) ==
    /\ LoopFree
    /\ task[t].pc \in TurnPcs /\ Exists(On(t))
    /\ On(t) \notin workersRunning /\ turnKind[On(t)] # "chat"
    /\ delegated' = delegated \cup {On(t)}
    /\ UNCHANGED <<disk, flags, driving, turnKind, woundDown, workerState, locks, coroutines, server,
                   history, quota>>

\* The delegate tool; its other refusals change nothing.
DelegateAccepted(t) ==
    /\ LoopFree
    /\ task[t].pc \in TurnPcs /\ Exists(On(t))
    /\ ~draining
    /\ On(t) \notin workersRunning /\ turnKind[On(t)] # "chat"
    /\ delegated' = delegated \cup {On(t)}
    /\ UNCHANGED <<disk, flags, driving, turnKind, woundDown, workerState, locks, coroutines, server,
                   history, quota>>

\* What the first turn of a run says goes to the human if he woke it.
Replies(t) == IF task[t].human THEN {task[t].text} \cap Msgs ELSE {}

\* The turn handed work over: its worker is started at once.
TurnDelegates(t) ==
    LET c == On(t) IN
    /\ LoopFree
    /\ At(t, "turn") /\ c \in delegated /\ Exists(c)
    /\ delegated' = delegated \ {c}
    /\ session' = Dequeue(session, c)
    /\ workersRunning' = workersRunning \cup {c}
    /\ answered' = answered \cup Replies(t)
    /\ GoAs(t, "connecting", FALSE)
    /\ UNCHANGED <<disk, flags, driving, turnKind, woundDown, interrupted, clients, lock, server,
                   unsent, resumed, gaveUp, quota, ready>>

\* The card left its column (or was purged) during the turn: the worker reports BLOCKED.
\* No worker ran, so none was told to stop.
TurnDelegatesNowhere(t) ==
    LET c == On(t) IN
    /\ LoopFree
    /\ At(t, "turn") /\ c \in delegated
    /\ delegated' = delegated \ {c}
    /\ answered' = answered \cup Replies(t)
    /\ IF task[t].left > 0
       THEN /\ session' = [session EXCEPT ![c] = Append(Tail(@), t)]
            /\ AwaitTurn(t, FALSE)
       ELSE /\ session' = Dequeue(session, c)
            /\ GoAs(t, "failing", FALSE)
    /\ UNCHANGED <<disk, flags, driving, turnKind, woundDown, workerState, lock, server,
                   unsent, resumed, gaveUp, quota, ready>>

\* He stopped because he was told to: the run ends owing a carry-on.
TurnWindsDown(t) ==
    LET c == On(t) IN
    /\ LoopFree
    /\ At(t, "turn") /\ c \notin delegated /\ c \in woundDown
    /\ session' = Dequeue(session, c)
    /\ woundDown' = woundDown \ {c}
    /\ interrupted' = interrupted \ {c}
    /\ answered' = answered \cup Replies(t)
    /\ Go(t, "winddown")
    /\ UNCHANGED <<disk, flags, driving, turnKind, delegated, clients, workersRunning, lock, server,
                   unsent, resumed, gaveUp, quota, ready>>

\* He stopped because the card is done, or is waiting for the human.
TurnCompletes(t) ==
    LET c == On(t) IN
    /\ LoopFree
    /\ At(t, "turn") /\ c \notin delegated /\ c \notin woundDown
    /\ session' = Dequeue(session, c)
    /\ answered' = answered \cup Replies(t)
    /\ EndsRun(t)
    /\ UNCHANGED <<pending, marker, busy, place, saved, flags, delegated, woundDown, workerState,
                   lock, server, unsent, quota, ready>>

\* The query raised: the error goes to the thread, the run ends.
TurnFails(t) ==
    LET c == On(t) IN
    /\ LoopFree
    /\ At(t, "turn")
    /\ Spend("error")
    /\ session' = Dequeue(session, c)
    /\ answered' = answered \cup Replies(t)
    /\ Go(t, "failing")
    /\ UNCHANGED <<disk, flags, driving, turnState, workerState, lock, server,
                   unsent, resumed, gaveUp, ready>>

\* Mutant: the session lock is not released.
ChatKeepsSession(t) ==
    /\ LoopFree
    /\ At(t, "chat")
    /\ delegated' = delegated \ {On(t)}
    /\ answered' = answered \cup ({task[t].text} \cap Msgs)
    /\ Stop(t)
    /\ UNCHANGED <<disk, flags, driving, turnKind, woundDown, workerState, locks, server,
                   unsent, resumed, gaveUp, quota, ready>>

\* A chat turn's delegation is dropped with its return value.
ChatEnds(t) ==
    LET c == On(t) IN
    /\ LoopFree
    /\ At(t, "chat")
    /\ session' = Dequeue(session, c)
    /\ delegated' = delegated \ {c}
    /\ answered' = answered \cup ({task[t].text} \cap Msgs)
    /\ Stop(t)
    /\ UNCHANGED <<disk, flags, driving, turnKind, woundDown, workerState, lock, server,
                   unsent, resumed, gaveUp, quota, ready>>

\* Nothing catches a chat turn's exception but the log.
ChatFails(t) ==
    LET c == On(t) IN
    /\ LoopFree
    /\ At(t, "chat")
    /\ Spend("error")
    /\ session' = Dequeue(session, c)
    /\ Stop(t)
    /\ UNCHANGED <<disk, flags, driving, turnState, workerState, lock, server, history, ready>>

-----------------------------------------------------------------------------
(* _run_worker: one worker, in a conversation that can be interrupted.     *)

\* Mutant: only the round of stop_workers stops a worker.
ConnectsUnasked(c) == interrupted

\* A worker that connects into a drain is told to stop.
ToldAtConnect(c) == IF draining THEN interrupted \cup {c} ELSE interrupted

\* The handle on the worker exists from here.
WorkerConnects(t) ==
    LET c == On(t) IN
    /\ LoopFree
    /\ At(t, "connecting")
    /\ clients' = clients \cup {c}
    /\ interrupted' = ToldAtConnect(c)
    /\ Go(t, "working")
    /\ UNCHANGED <<disk, flags, driving, turnState, workersRunning, locks, server, history, quota, ready>>

\* The stream ended. A worker that was told to stop is asked to save its place.
WorkerReports(t) ==
    LET c == On(t) IN
    /\ LoopFree
    /\ At(t, "working")
    /\ IF c \in interrupted
       THEN /\ Go(t, "saving")
            /\ UNCHANGED clients
       ELSE /\ Go(t, "parting")
            /\ clients' = clients \ {c}
    /\ UNCHANGED <<disk, flags, driving, turnState, interrupted, workersRunning, locks, server,
                   history, quota, ready>>

WorkerSaves(t) ==
    /\ LoopFree
    /\ At(t, "saving")
    /\ clients' = clients \ {On(t)}
    /\ Go(t, "parting")
    /\ UNCHANGED <<disk, flags, driving, turnState, interrupted, workersRunning, locks, server,
                   history, quota, ready>>

\* Connecting or streaming raised. After an interrupt that is how a stream may end.
WorkerBreaks(t) ==
    LET c == On(t) IN
    /\ LoopFree
    /\ task[t].pc \in {"connecting", "working", "saving"}
    /\ Spend("error")
    /\ clients' = clients \ {c}
    /\ Go(t, IF c \in interrupted THEN "parting" ELSE "breaking")
    /\ UNCHANGED <<disk, flags, driving, turnState, interrupted, workersRunning, locks, server,
                   history, ready>>

\* Disconnected: the card remembers the session of a stopped worker, and no other.
WorkerParts(t) ==
    LET c == On(t) IN
    /\ LoopFree
    /\ At(t, "parting")
    /\ workersRunning' = workersRunning \ {c}
    /\ saved' = IF c \in interrupted /\ Exists(c) THEN saved \cup {c} ELSE saved \ {c}
    /\ Go(t, "reporting")
    /\ UNCHANGED <<journal, pending, marker, busy, place, flags, driving, turnState, interrupted,
                   clients, locks, server, history, quota, ready>>

WorkerFailed(t) ==
    /\ LoopFree
    /\ At(t, "breaking")
    /\ workersRunning' = workersRunning \ {On(t)}
    /\ Go(t, "failing")
    /\ UNCHANGED <<disk, flags, driving, turnState, interrupted, clients, locks, server,
                   history, quota, ready>>

\* "Do not make the manager judge a half-finished report."
ReportIsWhole(c) == c \notin interrupted

\* The report wakes the manager for another turn, as long as the loop has one left.
ReportJudged(t) ==
    LET c == On(t) IN
    /\ LoopFree
    /\ At(t, "reporting") /\ ReportIsWhole(c)
    /\ IF task[t].left > 0
       THEN /\ session' = Enqueue(session, c, t)
            /\ AwaitTurn(t, task[t].human)
       ELSE /\ Go(t, "failing")
            /\ UNCHANGED session
    /\ UNCHANGED <<disk, flags, driving, turnState, workerState, lock, server, history, quota, ready>>

\* A half-finished report is not judged: the run ends owing a carry-on.
ReportWindsDown(t) ==
    LET c == On(t) IN
    /\ LoopFree
    /\ At(t, "reporting") /\ c \in interrupted
    /\ woundDown' = woundDown \ {c}
    /\ interrupted' = interrupted \ {c}
    /\ Go(t, "winddown")
    /\ UNCHANGED <<disk, flags, driving, turnKind, delegated, clients, workersRunning, locks, server,
                   history, quota, ready>>

\* pending.add: the card is owed a carry-on.
Owed(c) == Append(pending, CarryOnFor(c))

\* _wind_down_card's carry-on is on disk before the run is struck off.
CarryOnQueued(t) ==
    /\ LoopFree
    /\ At(t, "winddown")
    /\ pending' = Owed(On(t))
    /\ Go(t, "striking")
    /\ UNCHANGED <<journal, marker, busy, place, saved, flags, driving, turnState, workerState, locks,
                   server, history, quota, ready>>

WoundDownStruck(t) ==
    /\ At(t, "striking")
    /\ EndsRun(t)
    /\ UNCHANGED <<pending, marker, busy, place, saved, flags, delegated, woundDown, workerState,
                   locks, server, unsent, answered, quota, ready>>

-----------------------------------------------------------------------------
(* Pause, and the restart that is a caller of it.                          *)

NoPause == [on |-> FALSE, todo |-> {}, remember |-> FALSE, restart |-> FALSE]

\* What is left of pause(), and of the restart that called it, after stop_workers.
PauseDone(remember, restart) ==
    /\ paused' = (paused \/ remember)
    /\ marker' = (marker \/ remember)
    /\ restarter' = IF restart THEN "waiting" ELSE restarter
    /\ pauser' = NoPause

\* begin_drain, and stop_workers' list of the handles there are now.
PauseBegins(remember, restart) ==
    /\ LoopFree /\ Serving
    /\ ~pauser.on
    /\ restart => ~remember /\ restarter = "off"
    /\ Spend(IF restart THEN "restart" ELSE "pause")
    /\ draining' = TRUE
    /\ \/ /\ clients # {}
          /\ pauser' = [on |-> TRUE, todo |-> clients, remember |-> remember, restart |-> restart]
          /\ UNCHANGED <<paused, marker, restarter>>
       \/ /\ clients = {}
          /\ PauseDone(remember, restart)
    /\ UNCHANGED <<journal, pending, busy, place, saved, stopping, driving, turnState, workerState,
                   locks, coroutines, taker, history>>

\* _interrupt_worker, for a handle that may be gone by now.
ToldToStop(c) == IF c \in clients THEN interrupted \cup {c} ELSE interrupted

PauseStops(c) ==
    /\ LoopFree
    /\ c \in pauser.todo
    /\ interrupted' = ToldToStop(c)
    /\ pauser' = [pauser EXCEPT !.todo = @ \ {c}]
    /\ UNCHANGED <<disk, flags, driving, turnState, clients, workersRunning, locks, coroutines, taker,
                   restarter, history, quota>>

\* Only now is the pause written down, if it is to be remembered.
PauseEnds ==
    /\ LoopFree
    /\ pauser.on /\ pauser.todo = {}
    /\ PauseDone(pauser.remember, pauser.restart)
    /\ UNCHANGED <<journal, pending, busy, place, saved, draining, stopping, driving, turnState,
                   workerState, locks, coroutines, taker, history, quota>>

\* _wait_then_restart: nothing in flight, so commit to going down...
RestartCommits ==
    /\ LoopFree
    /\ restarter = "waiting" /\ Inflight = {}
    /\ stopping' = TRUE
    /\ restarter' = "committed"
    /\ UNCHANGED <<disk, draining, paused, driving, turnState, workerState, locks, coroutines, taker,
                   pauser, history, quota>>

\* Half a second lets every coroutine that waits on nothing but the loop take its steps.
Settled ==
    \A t \in Tasks :
        /\ task[t].pc \notin {"new", "posted", "noted", "starting", "releasing"}
        /\ ~(At(t, "lockwait") /\ HasLock(t))

\* Mutant: go down without the second look.
NothingStarted == TRUE

NothingInFlight == Inflight = {}

\* ...and look once more.
RestartLooksAgain ==
    /\ LoopFree
    /\ restarter = "committed" /\ Settled
    /\ IF NothingInFlight
       THEN /\ restarter' = "leaving"
            /\ UNCHANGED stopping
       ELSE /\ restarter' = "waiting"
            /\ stopping' = FALSE
    /\ UNCHANGED <<disk, draining, paused, driving, turnState, workerState, locks, coroutines, taker,
                   pauser, history, quota>>

\* /api/shutdown refuses while runs are in flight, unless it is forced.
ShutdownAsked(force) ==
    /\ LoopFree /\ Serving
    /\ restarter = "off"
    /\ Inflight = {} \/ force
    /\ Spend("shutdown")
    /\ stopping' = TRUE
    /\ restarter' = "leaving"
    /\ UNCHANGED <<disk, draining, paused, driving, turnState, workerState, locks, coroutines, taker,
                   pauser, history>>

-----------------------------------------------------------------------------
(* Taking work again: Recovery.run, then dispatch_pending.                 *)

NoRun == [target |-> Nobody, text |-> CarryOn, attempts |-> 0]
IdleTaker == [pc |-> "off", runs |-> {}, now |-> NoRun, msgs |-> <<>>, boot |-> FALSE]
Snapshot(j) == {[target |-> c, text |-> j[c].text, attempts |-> j[c].attempts] : c \in DOMAIN j}

\* /api/resume: unpause first.
Resumes ==
    /\ LoopFree /\ Serving
    /\ taker.pc = "off"
    /\ Spend("resume")
    /\ marker' = FALSE
    /\ paused' = FALSE /\ draining' = FALSE /\ stopping' = FALSE
    /\ taker' = [taker EXCEPT !.pc = "asked"]
    /\ UNCHANGED <<journal, pending, busy, place, saved, driving, turnState, workerState, locks, coroutines,
                   pauser, restarter, history>>

RecoveryBegins ==
    /\ LoopFree
    /\ taker.pc = "asked"
    /\ taker' = [taker EXCEPT !.pc = "recover", !.runs = Snapshot(journal)]
    /\ UNCHANGED <<disk, flags, driving, turnState, workerState, locks, coroutines, pauser, restarter,
                   history, quota>>

Recovering(r) ==
    /\ LoopFree
    /\ taker.pc = "recover" /\ r \in taker.runs
    /\ taker' = [taker EXCEPT !.runs = @ \ {r}]

\* The target was deleted: drop the entry.
RecoveryDrops(r) ==
    /\ Recovering(r)
    /\ ~Exists(r.target)
    /\ journal' = Strike(journal, r.target)
    /\ resumed' = [resumed EXCEPT ![r.target] = 0]
    /\ UNCHANGED <<pending, marker, busy, place, saved, flags, driving, turnState, workerState, locks,
                   coroutines, pauser, restarter, unsent, answered, gaveUp, quota>>

\* journal.is_exhausted.
Exhausted(r) == r.attempts >= MaxAttempts

\* It took the process down too often: retire the entry, hand it to the human.
RecoveryGivesUp(r) ==
    /\ Recovering(r)
    /\ Exists(r.target) /\ Exhausted(r)
    /\ journal' = Strike(journal, r.target)
    /\ busy' = busy \ {r.target}
    /\ gaveUp' = gaveUp \cup {r.target}
    /\ resumed' = [resumed EXCEPT ![r.target] = 0]
    /\ UNCHANGED <<pending, marker, place, saved, flags, driving, turnState, workerState, locks, coroutines,
                   pauser, restarter, unsent, answered, quota>>

\* Count the attempt on disk, before making it.  The note in the thread that follows
\* suspends the recovery...
RecoveryCounts(r) ==
    LET c == r.target IN
    /\ LoopFree
    /\ taker.pc = "recover" /\ r \in taker.runs
    /\ Exists(c) /\ ~Exhausted(r)
    /\ journal' = Put(journal, c, [text |-> r.text, attempts |-> r.attempts + 1])
    /\ resumed' = [resumed EXCEPT ![c] = @ + 1]
    /\ taker' = [taker EXCEPT !.pc = "resume", !.runs = @ \ {r}, !.now = r]
    /\ UNCHANGED <<pending, marker, busy, place, saved, flags, driving, turnState, workerState, locks,
                   coroutines, pauser, restarter, unsent, answered, gaveUp, quota>>

\* ...and then the run's text is sent in again, whatever has become of the run meanwhile.
RecoveryResumes(t) ==
    /\ LoopFree
    /\ taker.pc = "resume"
    /\ Spawn(t, taker.now.target, taker.now.text, FALSE, TRUE)
    /\ taker' = [taker EXCEPT !.pc = "recover", !.now = NoRun]
    /\ UNCHANGED <<disk, flags, driving, turnState, workerState, locks, pauser, restarter,
                   history, quota>>

\* Mutant: the journal is taken to know of every busy flag.
NoOrphans == {}

\* A busy flag with no run behind it is a lie.
Orphans == busy \ Inflight

\* _clear_orphans.
OrphansCleared ==
    /\ LoopFree
    /\ taker.pc = "recover" /\ taker.runs = {}
    /\ busy' = busy \ Orphans
    /\ taker' = [taker EXCEPT !.pc = "orphans"]
    /\ UNCHANGED <<journal, pending, marker, place, saved, flags, driving, turnState, workerState,
                   locks, coroutines, pauser, restarter, history, quota>>

\* dispatch_pending empties the queue, on disk too...
DispatchBegins ==
    /\ LoopFree
    /\ taker.pc = "orphans"
    /\ Len(pending) <= Cardinality({t \in Tasks : At(t, "idle")})
    /\ pending' = <<>>
    /\ taker' = IF pending = <<>> THEN IdleTaker
                ELSE [taker EXCEPT !.pc = "dispatch", !.msgs = pending]
    /\ UNCHANGED <<journal, marker, busy, place, saved, flags, driving, turnState, workerState, locks,
                   coroutines, pauser, restarter, history, quota>>

\* Mutant: the loop over the queue ends at its first message.
DispatchedTheFirst == taker' = IdleTaker

DispatchedOne ==
    taker' = IF Len(taker.msgs) = 1 THEN IdleTaker ELSE [taker EXCEPT !.msgs = Tail(@)]

\* ...and then spawns a handler for each message whose target still exists.
DispatchSpawns(t) ==
    LET m == Head(taker.msgs) IN
    /\ taker.pc = "dispatch" /\ taker.msgs # <<>>
    /\ Exists(m.target)
    /\ Spawn(t, m.target, m.text, m.human, TRUE)
    /\ DispatchedOne
    /\ UNCHANGED <<disk, flags, driving, turnState, workerState, locks, pauser, restarter,
                   history, quota>>

DispatchSkips ==
    /\ taker.pc = "dispatch" /\ taker.msgs # <<>>
    /\ ~Exists(Head(taker.msgs).target)
    /\ DispatchedOne
    /\ UNCHANGED <<disk, flags, driving, turnState, workerState, locks, coroutines, pauser, restarter,
                   history, quota>>

-----------------------------------------------------------------------------
(* The board, as far as the runs see it.                                   *)

\* A trashed card is not busy, whatever runs on it.
Trash(c) ==
    /\ LoopFree /\ Serving
    /\ c \in Cards /\ place[c] = "board"
    /\ Spend("removal")
    /\ place' = [place EXCEPT ![c] = "trash"]
    /\ busy' = busy \ {c}
    /\ UNCHANGED <<journal, pending, marker, saved, flags, driving, turnState, workerState, locks,
                   coroutines, server, history>>

Restore(c) ==
    /\ LoopFree /\ Serving
    /\ place[c] = "trash"
    /\ place' = [place EXCEPT ![c] = "board"]
    /\ UNCHANGED <<journal, pending, marker, busy, saved, flags, driving, turnState, workerState,
                   locks, coroutines, server, history, quota>>

\* purge_card, remove_manager, delete_column: the target is gone, what names it stays.
Purge(c) ==
    /\ LoopFree /\ Serving
    /\ IF c \in Cards THEN place[c] = "trash" ELSE place[c] = "board"
    /\ Spend("removal")
    /\ place' = [place EXCEPT ![c] = "gone"]
    /\ busy' = busy \ {c}
    /\ saved' = saved \ {c}
    /\ UNCHANGED <<journal, pending, marker, flags, driving, turnState, workerState, locks, coroutines,
                   server, history>>

-----------------------------------------------------------------------------
(* The process.                                                            *)

\* Manager.__init__ on what the disk says; recovery starts unless the board is paused.
FreshProcess ==
    /\ draining' = marker /\ stopping' = FALSE /\ paused' = marker
    /\ driving' = {}
    /\ turnKind' = [c \in Cards |-> "none"]
    /\ delegated' = {} /\ woundDown' = {}
    /\ interrupted' = {} /\ clients' = {} /\ workersRunning' = {}
    /\ lock' = [c \in Targets |-> <<>>]
    /\ session' = [c \in Cards |-> <<>>]
    /\ task' = [t \in Tasks |-> IdleTask] /\ ready' = <<>>
    /\ pauser' = NoPause
    /\ restarter' = "off"
    /\ taker' = IF marker THEN IdleTaker
                ELSE [IdleTaker EXCEPT !.pc = "recover", !.runs = Snapshot(journal), !.boot = TRUE]

\* The process is gone and comes back: what was only in memory is lost.
Reboots ==
    /\ FreshProcess
    /\ gaveUp' = {}
    /\ UNCHANGED <<disk, unsent, answered, resumed>>

\* kill -9, a closed terminal, a power cut: between any two steps.
Dies ==
    /\ Spend("death")
    /\ Reboots

\* The exit that a restart or a shutdown committed to.
Leaves ==
    /\ LoopFree
    /\ restarter = "leaving"
    /\ Reboots
    /\ UNCHANGED quota

-----------------------------------------------------------------------------
Init ==
    /\ journal = [c \in {} |-> 0]
    /\ pending = <<>> /\ marker = FALSE
    /\ busy = {} /\ saved = {}
    /\ place = [c \in Targets |-> "board"]
    /\ draining = FALSE /\ stopping = FALSE /\ paused = FALSE
    /\ driving = {}
    /\ turnKind = [c \in Cards |-> "none"]
    /\ delegated = {} /\ woundDown = {}
    /\ interrupted = {} /\ clients = {} /\ workersRunning = {}
    /\ lock = [c \in Targets |-> <<>>]
    /\ session = [c \in Cards |-> <<>>]
    /\ task = [t \in Tasks |-> IdleTask] /\ ready = <<>>
    /\ taker = IdleTaker /\ pauser = NoPause /\ restarter = "off"
    /\ unsent = Msgs /\ answered = {} /\ gaveUp = {}
    /\ resumed = [c \in Targets |-> 0]
    /\ quota = Quota

\* How a turn of the manager ends.
TurnEnds(t) ==
    \/ TurnDelegates(t) \/ TurnDelegatesNowhere(t) \/ TurnWindsDown(t)
    \/ TurnCompletes(t) \/ TurnFails(t)

\* What a handler does once its turn has come: none of it waits on anything but
\* the locks, the agent's turn ending, or the worker's stream ending.
HandlerStep(t) ==
    \/ HandlerDrops(t) \/ HandlerQueues(t) \/ HandlerPosts(t)
    \/ BecomesChat(t) \/ HandlerNotes(t) \/ QueuesOnLock(t) \/ TakesLock(t) \/ JournalStarts(t)
    \/ Releases(t) \/ FailsHere(t) \/ ThreadEnds(t)
    \/ TurnBegins(t) \/ TurnEnds(t) \/ ChatBegins(t) \/ ChatEnds(t) \/ ChatFails(t)
    \/ WorkerConnects(t) \/ WorkerReports(t) \/ WorkerSaves(t) \/ WorkerBreaks(t)
    \/ WorkerParts(t) \/ WorkerFailed(t)
    \/ ReportJudged(t) \/ ReportWindsDown(t) \/ CarryOnQueued(t) \/ WoundDownStruck(t)

\* What the agent may do inside a turn.
AgentStep(t) == DelegateRefused(t) \/ DelegateAccepted(t)

TakerStep ==
    \/ RecoveryBegins \/ OrphansCleared \/ DispatchBegins \/ DispatchSkips
    \/ \E r \in taker.runs :
          RecoveryDrops(r) \/ RecoveryGivesUp(r) \/ RecoveryCounts(r)
    \/ \E t \in Tasks : RecoveryResumes(t) \/ DispatchSpawns(t)

PauserStep == PauseEnds \/ \E c \in pauser.todo : PauseStops(c)
RestarterStep == RestartCommits \/ RestartLooksAgain \/ Leaves

HumanStep ==
    \/ \E t \in Tasks, m \in Msgs, c \in Targets : HumanSends(t, m, c)
    \/ \E t \in Tasks, c \in Cards : CardCreated(t, c)
    \/ \E remember \in BOOLEAN : PauseBegins(remember, FALSE)
    \/ PauseBegins(FALSE, TRUE)
    \/ Resumes
    \/ \E force \in BOOLEAN : ShutdownAsked(force)
    \/ \E c \in Targets : Trash(c) \/ Restore(c) \/ Purge(c)

Next ==
    \/ \E t \in Tasks : HandlerStep(t) \/ AgentStep(t)
    \/ TakerStep \/ PauserStep \/ RestarterStep
    \/ HumanStep
    \/ Dies

Spec == Init /\ [][Next]_vars

(* asyncio runs every ready coroutine; an agent's query and a worker's stream  *)
(* end.  The human, the agent's choices and a death owe nothing.               *)
Fairness ==
    /\ \A t \in Tasks : WF_vars(HandlerStep(t))
    /\ WF_vars(TakerStep) /\ WF_vars(PauserStep) /\ WF_vars(RestarterStep)

FairSpec == Spec /\ Fairness

-----------------------------------------------------------------------------
(* Types.                                                                  *)

DiskTypeOK ==
    /\ journal \in [DOMAIN journal -> Entry] /\ DOMAIN journal \subseteq Targets
    /\ pending \in Seq(Message)
    /\ marker \in BOOLEAN /\ busy \subseteq Targets /\ saved \subseteq Cards
    /\ place \in [Targets -> {"board", "trash", "gone"}]

ManagerTypeOK ==
    /\ draining \in BOOLEAN /\ stopping \in BOOLEAN /\ paused \in BOOLEAN
    /\ driving \subseteq Cards
    /\ turnKind \in [Cards -> {"none", "reply", "drive", "chat"}]
    /\ delegated \subseteq Cards /\ woundDown \subseteq Cards
    /\ interrupted \subseteq Cards /\ clients \subseteq Cards /\ workersRunning \subseteq Cards

LocksTypeOK == lock \in [Targets -> Seq(Tasks)] /\ session \in [Cards -> Seq(Tasks)]

TasksTypeOK == task \in [Tasks -> Task] /\ ready \in Seq(Tasks)

ServerTypeOK ==
    /\ taker \in [pc : {"off", "asked", "recover", "resume", "orphans", "dispatch"},
                  runs : SUBSET [target : Targets, text : Texts, attempts : 0 .. MaxAttempts],
                  now : [target : Targets, text : Texts, attempts : 0 .. MaxAttempts] \cup {NoRun},
                  msgs : Seq(Message), boot : BOOLEAN]
    /\ taker.pc = "resume" => taker.now # NoRun
    /\ pauser \in [on : BOOLEAN, todo : SUBSET Cards, remember : BOOLEAN, restart : BOOLEAN]
    /\ restarter \in {"off", "waiting", "committed", "leaving"}

HistoryTypeOK ==
    /\ unsent \subseteq Msgs /\ answered \subseteq Msgs /\ gaveUp \subseteq Targets
    /\ resumed \in [Targets -> Nat] /\ quota \in [Ops -> Nat]

\* Every variable holds what its class in the source holds: the journal and the queue
\* name targets of the board, and no run is resumed past its last attempt.
TypeOK ==
    DiskTypeOK /\ ManagerTypeOK /\ LocksTypeOK /\ TasksTypeOK /\ ServerTypeOK /\ HistoryTypeOK

-----------------------------------------------------------------------------
(* Safety.                                                                 *)

\* "Serialise turns on this session - never two at once": the manager of a card is
\* never in two turns of its conversation, whoever woke him.
OneTurnPerSession ==
    \A s, t \in Tasks :
        s # t /\ task[s].pc \in TurnPcs /\ task[t].pc \in TurnPcs => On(s) # On(t)

\* One run per card, board chat or prompt chat, and so one worker per card: a
\* message, a recovery and a carry-on for the same target never run side by side.
OneRunPerTarget ==
    \A s, t \in Tasks :
        s # t /\ task[s].pc \in HolderPcs /\ task[t].pc \in HolderPcs => On(s) # On(t)

\* Neither the session of a target nor its run is entered twice, whoever comes.
OneAtATime == OneTurnPerSession /\ OneRunPerTarget

\* Whenever a run may be killed its journal entry is on disk, from before its first
\* turn to after its carry-on is queued - unless its target was deleted under it, or
\* a resume retired the entry of a run that was alive.
RunOnDisk ==
    \A t \in Tasks :
        task[t].pc \in RunPcs => \/ On(t) \in Inflight
                                 \/ ~Exists(On(t)) \/ On(t) \in gaveUp

\* Once the pause has made its round, every worker there is has been told to stop -
\* also the one that was still connecting while the round was made - and a worker
\* that was told has a run behind it that will wind its card down: no card is left
\* marked by a stop that came too late.
StopMeetsEveryWorker ==
    /\ draining /\ ~pauser.on => clients \subseteq interrupted
    /\ \A c \in interrupted :
          \E t \in Tasks : On(t) = c /\ task[t].pc \in {"working", "saving", "parting", "reporting"}

Quiet == taker.pc = "off" /\ ~pauser.on /\ \A t \in Tasks : At(t, "idle")

\* When nothing runs and nothing is held back, no card or chat spins as busy, whatever
\* died, failed, was trashed or was deleted on the way.
NoStuckBusy == Quiet /\ ~paused => busy = {}

\* No crash loop: a run that dies is sent in again MaxAttempts times at the most, however
\* often it dies on the way, is resumed beside itself, paused or overtaken by a message
\* (journal.py:18-21, 46, 128).  The first run is none of them, so it may take the process
\* down once more than that.
ResumesBounded == \A c \in Targets : resumed[c] <= MaxAttempts

\* "Cutting it off is the one thing we promised never to do": a restart that nobody called
\* off leaves no run behind, also when one started between its two looks at the journal.
\* The exceptions are machinery, which does not wait for the next process: a triage run,
\* and what a resume dispatches (the run of this property has none).
RestartNeverCuts ==
    [][Leaves /\ stopping => \A t \in Tasks : task[t].pc \in RunPcs => task[t].text = Triage]_vars

\* What a handler has left to do while the board drains.  A turn that was handed the tool
\* before the drain may still start a worker, and a worker that was not told to stop may
\* still be judged; neither can lead to another worker.
DrainStage ==
    [idle |-> 0, releasing |-> 1, chat |-> 1, chatwait |-> 2, failing |-> 2, striking |-> 2,
     thread |-> 2, breaking |-> 3, winddown |-> 3, turn |-> 4, turnwait |-> 5, reporting |-> 6,
     starting |-> 6, parting |-> 7, lockwait |-> 7, saving |-> 8, noted |-> 8, working |-> 9,
     posted |-> 9, connecting |-> 10, new |-> 10]
DrainLeft(t) == IF At(t, "turn") /\ On(t) \in delegated THEN 11 ELSE DrainStage[task[t].pc]

\* While the board drains every step of a run, of a chat turn or of a handler takes it nearer
\* to its end, and nothing that others do takes it further away: the agent's asking for
\* work, the rounds his loop has left, messages and resumes never wind a run up again
\* ("the pipeline empties instead of being topped up", manager.py:229-230).
DrainWindsDown ==
    [][draining =>
        \A t \in Tasks :
            ~At(t, "idle") => \/ DrainLeft(t)' < DrainLeft(t)
                              \/ task'[t] = task[t] /\ DrainLeft(t)' = DrainLeft(t)]_vars

-----------------------------------------------------------------------------
(* Liveness.                                                               *)

LiveRun(c) == \E t \in Tasks : task[t].pc \in RunPcs /\ On(t) = c

\* A drain gets a run out of the way, or is called off: the agent cannot keep a run
\* going by delegating, and no lock or worker holds it for ever.
DrainEmpties == \A c \in Targets : draining /\ LiveRun(c) ~> ~draining \/ ~LiveRun(c)

\* What the human sends is answered, as a run or as a chat turn beside one, also by a board
\* that winds down; only a restart waits for no chat turn.
EveryMessageAnswered ==
    \A m \in Msgs : m \notin unsent ~> m \in answered \/ quota["restart"] < Quota["restart"]

\* What was queued because the process was leaving is answered after the restart.
QueuedIsDelivered ==
    \A m \in Msgs : (\E i \in DOMAIN pending : pending[i].text = m) ~> m \in answered \/ paused

=============================================================================
