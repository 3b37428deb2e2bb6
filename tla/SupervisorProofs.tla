-------------------------- MODULE SupervisorProofs --------------------------
(***************************************************************************)
(* Theorems about Supervisor, for every set of cards, tasks and messages   *)
(* and every quota.                                                        *)
(***************************************************************************)
EXTENDS Supervisor, TLAPS

-----------------------------------------------------------------------------
(* Lemmas about the operators of Supervisor.                               *)

\* A task that joins a queue leaves the holder where it is.
LEMMA EnqueueFacts ==
    ASSUME NEW S, NEW q \in [S -> Seq(Tasks)], NEW c \in S, NEW t \in Tasks
    PROVE  /\ Enqueue(q, c, t) \in [S -> Seq(Tasks)]
           /\ \A d \in S, u \in Tasks : Holds(q, d, u) => Holds(Enqueue(q, c, t), d, u)
<1>1. Append(q[c], t) \in Seq(Tasks) /\ Append(q[c], t) # <<>>
  OBVIOUS
<1>2. q[c] # <<>> => Head(Append(q[c], t)) = Head(q[c])
  OBVIOUS
<1> QED BY <1>1, <1>2 DEF Enqueue, Holds

\* There is one holder, and his leaving touches no other queue.
LEMMA DequeueFacts ==
    ASSUME NEW S, NEW q \in [S -> Seq(Tasks)], NEW c \in S, NEW t \in Tasks, Holds(q, c, t)
    PROVE  /\ Dequeue(q, c) \in [S -> Seq(Tasks)]
           /\ \A d \in S \ {c}, u \in Tasks : Holds(q, d, u) => Holds(Dequeue(q, c), d, u)
           /\ \A u \in Tasks : Holds(q, c, u) => u = t
BY DEF Dequeue, Holds

\* The holder may also rejoin behind those who wait.
LEMMA RequeueFacts ==
    ASSUME NEW S, NEW q \in [S -> Seq(Tasks)], NEW c \in S, NEW t \in Tasks, Holds(q, c, t)
    PROVE  /\ [q EXCEPT ![c] = Append(Tail(@), t)] \in [S -> Seq(Tasks)]
           /\ \A d \in S \ {c}, u \in Tasks :
                 Holds(q, d, u) => Holds([q EXCEPT ![c] = Append(Tail(@), t)], d, u)
<1>1. Tail(q[c]) \in Seq(Tasks)
  BY DEF Holds
<1>2. Append(Tail(q[c]), t) \in Seq(Tasks)
  BY <1>1
<1> QED BY <1>2 DEF Holds

-----------------------------------------------------------------------------
(* Where a coroutine can go from where it is.                              *)

Flow(p, q) ==
    \/ p = "new" /\ q \in {"posted", "noted", "chatwait", "lockwait"}
    \/ p = "posted" /\ q \in {"noted", "chatwait", "lockwait"}
    \/ p = "noted" /\ q = "lockwait"
    \/ p = "lockwait" /\ q = "starting"
    \/ p = "starting" /\ q \in {"turnwait", "thread"}
    \/ p = "turnwait" /\ q = "turn"
    \/ p = "turn" /\ q \in {"turnwait", "connecting", "winddown", "failing", "releasing"}
    \/ p = "connecting" /\ q = "working"
    \/ p = "working" /\ q \in {"saving", "parting"}
    \/ p = "saving" /\ q = "parting"
    \/ p \in {"connecting", "working", "saving"} /\ q \in {"parting", "breaking"}
    \/ p = "parting" /\ q = "reporting"
    \/ p = "breaking" /\ q = "failing"
    \/ p = "reporting" /\ q \in {"turnwait", "failing", "winddown"}
    \/ p = "winddown" /\ q = "striking"
    \/ p \in {"striking", "failing", "thread"} /\ q = "releasing"
    \/ p = "chatwait" /\ q = "chat"

\* A coroutine that is past "new" waits in a queue of its target, or is ahead of it.
Placed ==
    \A t \in Tasks :
        /\ task[t].pc # "idle" => On(t) \in Targets
        /\ task[t].pc \in {"chatwait", "chat"} \cup (RunPcs \ {"thread"}) => On(t) \in Cards
        /\ task[t].pc \in {"new", "posted", "noted", "lockwait", "starting"} => task[t].left = MaxRounds

\* What runs is at the head of its target's lock...
LockHeld == \A t \in Tasks : task[t].pc \in HolderPcs => Holds(lock, On(t), t)

\* ...and a turn of the manager is at the head of his session's.
SessionHeld == \A t \in Tasks : task[t].pc \in TurnPcs => Holds(session, On(t), t)

IInv == TypeOK /\ Placed /\ LockHeld /\ SessionHeld

Others(t) == \A s \in Tasks \ {t} : task'[s] = task[s]

\* The task goes on along the graph, on the same target.
Moves(t) ==
    /\ Flow(task[t].pc, task'[t].pc)
    /\ task'[t].target = On(t)
    /\ task'[t].left = MaxRounds \/ task'[t].pc \notin {"new", "posted", "noted", "lockwait", "starting"}

LEMMA GoFacts ==
    ASSUME TasksTypeOK, NEW t \in Tasks, NEW p \in Pcs, Go(t, p)
    PROVE  /\ task' \in [Tasks -> Task] /\ Others(t)
           /\ task'[t].pc = p /\ task'[t].target = On(t) /\ task'[t].left = task[t].left
BY DEF TasksTypeOK, Go, Task, Others, On

LEMMA StopFacts ==
    ASSUME TasksTypeOK, NEW t \in Tasks, Stop(t)
    PROVE  task' \in [Tasks -> Task] /\ Others(t) /\ task'[t] = IdleTask
BY ConstantsOK DEF TasksTypeOK, Stop, Task, IdleTask, Texts, Targets, Pcs, Others

LEMMA SpawnFacts ==
    ASSUME TasksTypeOK, NEW t \in Tasks, NEW c \in Targets, NEW x \in Texts, NEW h \in BOOLEAN,
           NEW r \in BOOLEAN, Spawn(t, c, x, h, r)
    PROVE  TasksTypeOK' /\ Others(t) /\ task'[t] = NewTask(c, x, h, r) /\ At(t, "idle")
BY ConstantsOK DEF TasksTypeOK, Spawn, Task, NewTask, Texts, Targets, Pcs, Others

LEMMA GoAsFacts ==
    ASSUME TasksTypeOK, NEW t \in Tasks, NEW p \in Pcs, NEW h \in BOOLEAN, GoAs(t, p, h)
    PROVE  /\ task' \in [Tasks -> Task] /\ Others(t)
           /\ task'[t].pc = p /\ task'[t].target = On(t) /\ task'[t].left = task[t].left
BY DEF TasksTypeOK, GoAs, Task, Others, On

\* journal.start, and a report, send the task to wait for its next turn.
LEMMA AwaitTurnFacts ==
    ASSUME TasksTypeOK, NEW t \in Tasks, NEW h \in BOOLEAN, task[t].left > 0, AwaitTurn(t, h)
    PROVE  /\ task' \in [Tasks -> Task] /\ Others(t)
           /\ task'[t].pc = "turnwait" /\ task'[t].target = On(t)
<1>1. task[t] \in Task /\ task[t].left - 1 \in 0 .. MaxRounds
  BY ConstantsOK DEF TasksTypeOK, Task
<1> DEFINE left == task[t].left - 1
           new == [task[t] EXCEPT !.pc = "turnwait", !.human = h, !.left = left]
<1>2. task' = [task EXCEPT ![t] = new]
  BY DEF AwaitTurn
<1> HIDE DEF left
<1>3. new \in Task /\ new.pc = "turnwait" /\ new.target = task[t].target
  BY <1>1 DEF Task, Pcs, HolderPcs, RunPcs, left
<1> QED BY <1>2, <1>3 DEF TasksTypeOK, Others, On

LEMMA HandlerFlow ==
    ASSUME IInv, NEW t \in Tasks, HandlerStep(t)
    PROVE  /\ task' \in [Tasks -> Task] /\ Others(t)
           /\ Moves(t) \/ task'[t] = IdleTask
<1> DEFINE G == /\ task' \in [Tasks -> Task] /\ Others(t)
                /\ Moves(t) \/ task'[t] = IdleTask
<1> SUFFICES G
  OBVIOUS
<1> USE DEF IInv, TypeOK, At
<1>s. ASSUME Stop(t) PROVE G
  BY <1>s, StopFacts
<1>g. ASSUME NEW p \in Pcs, Go(t, p), Flow(task[t].pc, p),
             p \in {"posted", "noted", "lockwait", "starting"} => task[t].left = MaxRounds
      PROVE  G
  BY <1>g, GoFacts DEF Moves, Flow
<1> HIDE DEF G
<1> USE DEF Pcs, HolderPcs, RunPcs, WorkerPcs, Placed, Flow, Starts, Posted
<1>1. CASE HandlerDrops(t) \/ HandlerQueues(t) \/ Releases(t) \/ ChatEnds(t) \/ ChatFails(t)
  BY <1>1, <1>s DEF HandlerDrops, HandlerQueues, Releases, ChatEnds, ChatFails
<1>2. CASE HandlerPosts(t)
  BY <1>2, <1>g DEF HandlerPosts
<1>3. CASE BecomesChat(t)
  BY <1>3, <1>g DEF BecomesChat
<1>4. CASE HandlerNotes(t) \/ QueuesOnLock(t)
  BY <1>4, <1>g DEF HandlerNotes, QueuesOnLock
<1>5. CASE TakesLock(t)
  BY <1>5, <1>g DEF TakesLock
<1>7. CASE TurnBegins(t) \/ ChatBegins(t)
  BY <1>7, <1>g DEF TurnBegins, ChatBegins
<1>8. CASE TurnCompletes(t) \/ TurnFails(t) \/ TurnWindsDown(t)
  BY <1>8, <1>g DEF TurnCompletes, TurnFails, TurnWindsDown, EndsRun
<1>9. CASE FailsHere(t) \/ ThreadEnds(t) \/ WoundDownStruck(t) \/ CarryOnQueued(t)
  BY <1>9, <1>g DEF FailsHere, ThreadEnds, WoundDownStruck, CarryOnQueued, EndsRun
<1>10. CASE WorkerConnects(t) \/ WorkerReports(t) \/ WorkerSaves(t) \/ WorkerBreaks(t) \/ WorkerParts(t) \/ WorkerFailed(t)
  BY <1>10, <1>g DEF WorkerConnects, WorkerReports, WorkerSaves, WorkerBreaks, WorkerParts, WorkerFailed
<1>11. CASE ReportWindsDown(t)
  BY <1>11, <1>g DEF ReportWindsDown
<1>a. ASSUME NEW h \in BOOLEAN, AwaitTurn(t, h), task[t].left > 0, Flow(task[t].pc, "turnwait")
      PROVE  G
  BY <1>a, AwaitTurnFacts DEF Moves, G
<1>h. ASSUME NEW p \in Pcs, NEW h \in BOOLEAN, GoAs(t, p, h), Flow(task[t].pc, p),
             p \notin {"posted", "noted", "lockwait", "starting"}
      PROVE  G
  BY <1>h, GoAsFacts DEF Moves, G
<1>12. CASE JournalStarts(t)
  BY <1>12, <1>g, <1>a, ConstantsOK DEF JournalStarts, TasksTypeOK, Task
<1>13. CASE TurnDelegates(t) \/ TurnDelegatesNowhere(t)
  BY <1>13, <1>h, <1>a DEF TurnDelegates, TurnDelegatesNowhere
<1>14. CASE ReportJudged(t)
  BY <1>14, <1>g, <1>a DEF ReportJudged, TasksTypeOK, Task
<1> QED
  BY <1>1, <1>2, <1>3, <1>4, <1>5, <1>7, <1>8, <1>9, <1>10, <1>11, <1>12, <1>13, <1>14 DEF HandlerStep, TurnEnds
\* What the human, the server and recovery do: they spawn a handler, or no task moves.
LEMMA OtherFlow ==
    ASSUME IInv, Next, ~Reboots, \A t \in Tasks : ~HandlerStep(t)
    PROVE  /\ UNCHANGED locks
           /\ \/ UNCHANGED coroutines
              \/ \E t \in Tasks, c \in Targets, x \in Texts, h, r \in BOOLEAN : Spawn(t, c, x, h, r)
<1> DEFINE G == /\ UNCHANGED locks
                /\ \/ UNCHANGED coroutines
                   \/ \E t \in Tasks, c \in Targets, x \in Texts, h, r \in BOOLEAN :
                         Spawn(t, c, x, h, r)
<1> SUFFICES G
  OBVIOUS
<1> USE DEF IInv, TypeOK
<1>s. ASSUME NEW t \in Tasks, NEW c \in Targets, NEW x \in Texts, NEW h \in BOOLEAN,
             NEW r \in BOOLEAN, Spawn(t, c, x, h, r), UNCHANGED locks
      PROVE  G
  BY <1>s
<1> HIDE DEF G
<1>1. ASSUME NEW t \in Tasks, AgentStep(t) PROVE G
  BY <1>1 DEF AgentStep, DelegateRefused, DelegateAccepted, G
<1>2. CASE PauserStep \/ RestarterStep
  BY <1>2 DEF PauserStep, PauseEnds, PauseStops, RestarterStep, RestartCommits, RestartLooksAgain, Leaves, G
<1>3. ASSUME NEW t \in Tasks, RecoveryResumes(t) PROVE G
  BY <1>3, <1>s DEF RecoveryResumes, ServerTypeOK
<1>4. ASSUME NEW t \in Tasks, DispatchSpawns(t) PROVE G
  <2>1. Head(taker.msgs) \in Message
    BY <1>4 DEF DispatchSpawns, ServerTypeOK
  <2> QED BY <1>4, <1>s, <2>1 DEF DispatchSpawns, Message
<1>5. CASE TakerStep
  BY <1>3, <1>4, <1>5 DEF TakerStep, RecoveryBegins, OrphansCleared, DispatchBegins, DispatchSkips,
     RecoveryDrops, RecoveryGivesUp, RecoveryCounts, G
<1>6. ASSUME NEW t \in Tasks, NEW m \in Msgs, NEW c \in Targets, HumanSends(t, m, c) PROVE G
  BY <1>6, <1>s DEF HumanSends, Texts
<1>7. ASSUME NEW t \in Tasks, NEW c \in Cards, CardCreated(t, c) PROVE G
  BY <1>7, <1>s DEF CardCreated, Texts, Targets
<1>8. CASE HumanStep
  BY <1>6, <1>7, <1>8 DEF HumanStep, PauseBegins, Resumes, ShutdownAsked, Trash, Restore, Purge, G
<1> QED
  BY <1>1, <1>2, <1>5, <1>8 DEF Next, Dies

-----------------------------------------------------------------------------
(* The queues of the locks.                                                *)

\* The locks change hands as asyncio's do: every holder stays the head of his queue.
LEMMA LocksStep ==
    ASSUME IInv, Next, ~Reboots
    PROVE  LocksTypeOK' /\ LockHeld' /\ SessionHeld'
<1> USE DEF IInv, TypeOK, LocksTypeOK
<1>1. CASE \A t \in Tasks : ~HandlerStep(t)
  <2>1. CASE UNCHANGED coroutines
    BY <1>1, <2>1, OtherFlow DEF coroutines, locks, LockHeld, SessionHeld, On
  <2>2. ASSUME NEW t \in Tasks, NEW c \in Targets, NEW x \in Texts, NEW h \in BOOLEAN,
               NEW r \in BOOLEAN, Spawn(t, c, x, h, r)
        PROVE  LocksTypeOK' /\ LockHeld' /\ SessionHeld'
    <3>1. UNCHANGED locks
      BY <1>1, OtherFlow
    <3>2. Others(t) /\ task'[t].pc = "new"
      BY <2>2 DEF Spawn, NewTask, Others, TasksTypeOK
    <3>3. \A s \in Tasks : task'[s].pc \in HolderPcs \cup TurnPcs => task'[s] = task[s]
      BY <3>2 DEF Others, HolderPcs, RunPcs, TurnPcs, WorkerPcs
    <3>4. LocksTypeOK'
      BY <3>1 DEF locks
    <3>5. LockHeld'
      BY <3>1, <3>3 DEF locks, LockHeld, On
    <3>6. SessionHeld'
      BY <3>1, <3>3 DEF locks, SessionHeld, On
    <3> QED BY <3>4, <3>5, <3>6
  <2> QED BY <1>1, <2>1, <2>2, OtherFlow
<1>2. ASSUME NEW t \in Tasks, HandlerStep(t)
      PROVE  LocksTypeOK' /\ LockHeld' /\ SessionHeld'
  <2>f. /\ task' \in [Tasks -> Task] /\ Others(t)
        /\ Moves(t) \/ task'[t] = IdleTask
    BY <1>2, HandlerFlow
  <2>p. /\ task[t].pc # "idle" => On(t) \in Targets
        /\ task[t].pc \in {"chatwait", "chat"} \cup (RunPcs \ {"thread"}) => On(t) \in Cards
    BY DEF Placed
  <2> USE DEF At
  <2>1. lock' \in [Targets -> Seq(Tasks)] /\ LockHeld'
    <3>1. CASE QueuesOnLock(t)
      <4>1. lock' = Enqueue(lock, On(t), t) /\ On(t) \in Targets /\ task'[t].pc = "lockwait"
        BY <3>1, <2>p, GoFacts DEF QueuesOnLock, Posted, Starts, Pcs
      <4> QED BY <4>1, <2>f, EnqueueFacts DEF LockHeld, Others, On, HolderPcs, RunPcs, WorkerPcs, Placed
    <3>2. CASE TakesLock(t)
      <4>1. UNCHANGED lock /\ Holds(lock, On(t), t)
        BY <3>2 DEF TakesLock, HasLock, locks
      <4> QED BY <3>2, <4>1, <2>f DEF LockHeld, Others, On, Moves, IdleTask, HolderPcs, RunPcs, WorkerPcs
    <3>3. CASE Releases(t)
      <4>1. /\ lock' = Dequeue(lock, On(t)) /\ On(t) \in Targets /\ Holds(lock, On(t), t)
            /\ task'[t] = IdleTask
        BY <3>3, <2>p, StopFacts DEF Releases, LockHeld, HolderPcs
      <4>2. \A s \in Tasks : task'[s].pc \in HolderPcs =>
                /\ s # t /\ task'[s] = task[s]
                /\ On(s) \in Targets /\ Holds(lock, On(s), s)
        BY <4>1, <2>f DEF LockHeld, Others, IdleTask, HolderPcs, RunPcs, WorkerPcs, Placed
      <4>3. \A s \in Tasks : task'[s].pc \in HolderPcs => On(s) \in Targets \ {On(t)}
        BY <4>1, <4>2, DequeueFacts
      <4>4. \A s \in Tasks : task'[s].pc \in HolderPcs => Holds(Dequeue(lock, On(t)), On(s), s)
        BY <4>1, <4>2, <4>3, DequeueFacts
      <4> QED BY <4>1, <4>2, <4>4, DequeueFacts DEF LockHeld, On, Holds
    <3>4. CASE ~QueuesOnLock(t) /\ ~TakesLock(t) /\ ~Releases(t)
      <4>1. UNCHANGED lock
        BY <1>2, <3>4 DEF HandlerStep, TurnEnds, locks, HandlerDrops, HandlerQueues, HandlerPosts, BecomesChat,
           HandlerNotes, JournalStarts, FailsHere, ThreadEnds, TurnBegins, ChatBegins, ChatEnds, ChatFails,
           TurnDelegates, TurnDelegatesNowhere, TurnWindsDown, TurnCompletes, TurnFails,
           WorkerConnects, WorkerReports, WorkerSaves, WorkerBreaks, WorkerParts, WorkerFailed,
           ReportJudged, ReportWindsDown, CarryOnQueued, WoundDownStruck
      <4>2. task[t].pc # "lockwait"
        BY <1>2, <3>4 DEF HandlerStep, TurnEnds, HandlerDrops, HandlerQueues, HandlerPosts, BecomesChat,
           HandlerNotes, JournalStarts, FailsHere, ThreadEnds, TurnBegins, ChatBegins, ChatEnds, ChatFails,
           TurnDelegates, TurnDelegatesNowhere, TurnWindsDown, TurnCompletes, TurnFails,
           WorkerConnects, WorkerReports, WorkerSaves, WorkerBreaks, WorkerParts, WorkerFailed,
           ReportJudged, ReportWindsDown, CarryOnQueued, WoundDownStruck, Starts, Posted
      <4>3. task'[t].pc \in HolderPcs => task[t].pc \in HolderPcs /\ task'[t].target = On(t)
        BY <2>f, <4>2 DEF Moves, Flow, IdleTask, HolderPcs, RunPcs, WorkerPcs
      <4> QED BY <4>1, <4>3, <2>f DEF LockHeld, Others, On
    <3> QED BY <3>1, <3>2, <3>3, <3>4
  <2>2. session' \in [Cards -> Seq(Tasks)] /\ SessionHeld'
    <3> DEFINE Joins == BecomesChat(t) \/ JournalStarts(t) \/ ReportJudged(t)
               Begins == TurnBegins(t) \/ ChatBegins(t)
               Ends == TurnEnds(t) \/ ChatEnds(t) \/ ChatFails(t)
    <3>1. CASE Joins
      <4>1. \/ UNCHANGED session
            \/ session' = Enqueue(session, On(t), t) /\ On(t) \in Cards
        BY <3>1, <2>p DEF Joins, BecomesChat, JournalStarts, ReportJudged, ManagerTypeOK, RunPcs
      <4>p. task[t].pc \in {"new", "posted", "starting", "reporting"}
        BY <3>1 DEF Joins, BecomesChat, JournalStarts, ReportJudged, Posted, Starts
      <4>2. \A s \in Tasks : task'[s].pc \in TurnPcs => task'[s] = task[s] /\ On(s) \in Cards
        <5>1. task'[t].pc \notin TurnPcs
          BY <4>p, <2>f DEF Moves, Flow, IdleTask, TurnPcs
        <5> QED BY <5>1, <2>f DEF Others, TurnPcs, Placed, RunPcs
      <4>3. /\ session' \in [Cards -> Seq(Tasks)]
            /\ \A d \in Cards, u \in Tasks : Holds(session, d, u) => Holds(session', d, u)
        <5>1. CASE session' = Enqueue(session, On(t), t) /\ On(t) \in Cards
          BY <5>1, EnqueueFacts
        <5> QED BY <4>1, <5>1
      <4> QED BY <4>2, <4>3 DEF SessionHeld, On
    <3>2. CASE Begins
      <4>1. UNCHANGED session /\ Holds(session, On(t), t)
        BY <3>2 DEF Begins, TurnBegins, ChatBegins, HasSession, locks
      <4> QED BY <4>1, <2>f DEF SessionHeld, Others, On, Moves, IdleTask, TurnPcs
    <3>3. CASE Ends
      <4>1. On(t) \in Cards /\ Holds(session, On(t), t) /\ task[t].pc \in TurnPcs
        BY <3>3, <2>p DEF Ends, TurnEnds, TurnDelegates, TurnDelegatesNowhere, TurnWindsDown, TurnCompletes,
           TurnFails, ChatEnds, ChatFails, SessionHeld, TurnPcs, RunPcs
      <4>2. \/ session' = Dequeue(session, On(t))
            \/ session' = [session EXCEPT ![On(t)] = Append(Tail(@), t)]
        BY <3>3 DEF Ends, TurnEnds, TurnDelegates, TurnDelegatesNowhere, TurnWindsDown, TurnCompletes,
           TurnFails, ChatEnds, ChatFails
      <4>3. \A s \in Tasks : task'[s].pc \in TurnPcs =>
                task'[s] = task[s] /\ On(s) \in Cards \ {On(t)} /\ Holds(session, On(s), s)
        <5>1. \A s \in Tasks : task'[s].pc \in TurnPcs =>
                  s # t /\ task'[s] = task[s] /\ On(s) \in Cards /\ Holds(session, On(s), s)
          BY <4>1, <2>f DEF Others, Moves, Flow, IdleTask, TurnPcs, Placed, RunPcs, SessionHeld
        <5> QED BY <5>1, <4>1, DequeueFacts
      <4>4. /\ session' \in [Cards -> Seq(Tasks)]
            /\ \A d \in Cards \ {On(t)}, u \in Tasks : Holds(session, d, u) => Holds(session', d, u)
        <5>1. CASE session' = Dequeue(session, On(t))
          BY <4>1, <5>1, DequeueFacts
        <5>2. CASE session' = [session EXCEPT ![On(t)] = Append(Tail(@), t)]
          BY <4>1, <5>2, RequeueFacts
        <5> QED BY <4>2, <5>1, <5>2
      <4> QED BY <4>3, <4>4 DEF SessionHeld, On
    <3>4. CASE ~Joins /\ ~Begins /\ ~Ends
      <4>1. UNCHANGED session /\ task[t].pc \notin {"turnwait", "chatwait"}
        BY <1>2, <3>4 DEF Joins, Begins, Ends, locks, Starts, Posted,
           HandlerStep, HandlerDrops, HandlerQueues, HandlerPosts, HandlerNotes, QueuesOnLock, TakesLock, Releases,
           FailsHere, ThreadEnds, WorkerConnects, WorkerReports, WorkerSaves, WorkerBreaks, WorkerParts,
           WorkerFailed, ReportWindsDown, CarryOnQueued, WoundDownStruck
      <4> QED BY <4>1, <2>f DEF SessionHeld, Others, On, Moves, Flow, IdleTask, TurnPcs
    <3> QED BY <3>1, <3>2, <3>3, <3>4
  <2> QED BY <2>1, <2>2
<1> QED BY <1>1, <1>2

-----------------------------------------------------------------------------
(* Types.                                                                  *)

\* A handler keeps to the target it was spawned for.
LEMMA TasksStep ==
    ASSUME IInv, Next, ~Reboots
    PROVE  TasksTypeOK' /\ Placed'
<1> USE DEF IInv, TypeOK
<1>1. CASE \A t \in Tasks : ~HandlerStep(t)
  <2>1. CASE UNCHANGED coroutines
    BY <2>1 DEF coroutines, TasksTypeOK, Placed, On
  <2>2. ASSUME NEW t \in Tasks, NEW c \in Targets, NEW x \in Texts, NEW h \in BOOLEAN,
               NEW r \in BOOLEAN, Spawn(t, c, x, h, r)
        PROVE  TasksTypeOK' /\ Placed'
    <3>1. TasksTypeOK'
      BY <2>2, SpawnFacts
    <3>2. Others(t) /\ task'[t].pc = "new" /\ task'[t].target = c /\ task'[t].left = MaxRounds
      BY <2>2 DEF Spawn, NewTask, Others, TasksTypeOK
    <3> QED BY <3>1, <3>2 DEF Placed, Others, On, RunPcs, WorkerPcs
  <2> QED BY <1>1, <2>1, <2>2, OtherFlow
<1>2. ASSUME NEW t \in Tasks, HandlerStep(t)
      PROVE  TasksTypeOK' /\ Placed'
  <2>f. /\ task' \in [Tasks -> Task] /\ Others(t)
        /\ Moves(t) \/ task'[t] = IdleTask
    BY <1>2, HandlerFlow
  <2>1. ready' \in Seq(Tasks)
    <3>1. ready' = ready \/ (ready # <<>> /\ ready' = Tail(ready))
      BY <1>2 DEF coroutines, Starts, Posted, EndsRun,
         HandlerStep, TurnEnds, HandlerDrops, HandlerQueues, HandlerPosts, BecomesChat, HandlerNotes, QueuesOnLock, TakesLock,
         JournalStarts, Releases, FailsHere, ThreadEnds, TurnBegins, ChatBegins, ChatEnds, ChatFails,
         TurnDelegates, TurnDelegatesNowhere, TurnWindsDown, TurnCompletes, TurnFails,
         WorkerConnects, WorkerReports, WorkerSaves, WorkerBreaks, WorkerParts, WorkerFailed,
         ReportJudged, ReportWindsDown, CarryOnQueued, WoundDownStruck
    <3> QED BY <3>1 DEF TasksTypeOK
  <2>2. task'[t].pc # "idle" => task'[t].target = On(t) /\ task[t].pc # "idle"
    BY <2>f DEF Moves, Flow, IdleTask
  <2>3. task'[t].pc \in {"chatwait", "chat"} \cup (RunPcs \ {"thread"}) => On(t) \in Cards
    <3>1. CASE BecomesChat(t)
      BY <3>1 DEF BecomesChat, ManagerTypeOK
    <3>2. CASE JournalStarts(t)
      <4>1. On(t) \in Cards \/ Go(t, "thread")
        BY <3>2 DEF JournalStarts
      <4> QED BY <4>1, GoFacts DEF RunPcs, WorkerPcs, Pcs, HolderPcs
    <3>3. CASE ~BecomesChat(t) /\ ~JournalStarts(t)
      <4>1. \/ task[t].pc \notin {"new", "posted", "noted", "lockwait", "starting"}
            \/ Stop(t) \/ Go(t, "posted") \/ Go(t, "noted") \/ Go(t, "lockwait") \/ Go(t, "starting")
        BY <1>2, <3>3 DEF At, HandlerStep, TurnEnds, HandlerDrops, HandlerQueues, HandlerPosts, HandlerNotes, QueuesOnLock,
           TakesLock, Releases, FailsHere, ThreadEnds, TurnBegins, ChatBegins, ChatEnds, ChatFails,
           TurnDelegates, TurnDelegatesNowhere, TurnWindsDown, TurnCompletes, TurnFails,
           WorkerConnects, WorkerReports, WorkerSaves, WorkerBreaks, WorkerParts, WorkerFailed,
           ReportJudged, ReportWindsDown, CarryOnQueued, WoundDownStruck
      <4>2. CASE task[t].pc \notin {"new", "posted", "noted", "lockwait", "starting"}
        <5>1. task'[t].pc \in {"chatwait", "chat"} \cup (RunPcs \ {"thread"}) =>
                  task[t].pc \in {"chatwait", "chat"} \cup (RunPcs \ {"thread"})
          BY <4>2, <2>f DEF Moves, Flow, IdleTask, RunPcs, WorkerPcs
        <5> QED BY <5>1 DEF Placed
      <4>3. CASE Stop(t) \/ Go(t, "posted") \/ Go(t, "noted") \/ Go(t, "lockwait") \/ Go(t, "starting")
        BY <4>3, GoFacts, StopFacts DEF IdleTask, RunPcs, WorkerPcs, Pcs, HolderPcs
      <4> QED BY <4>1, <4>2, <4>3
    <3> QED BY <3>1, <3>2, <3>3
  <2>4. task'[t].pc \in {"new", "posted", "noted", "lockwait", "starting"} => task'[t].left = MaxRounds
    BY <2>f DEF Moves, IdleTask
  <2>5. TasksTypeOK'
    BY <2>1, <2>f DEF TasksTypeOK
  <2>6. task'[t].pc # "idle" => task'[t].target \in Targets
    BY <2>2 DEF Placed
  <2>7. task'[t].pc \in {"chatwait", "chat"} \cup (RunPcs \ {"thread"}) => task'[t].target \in Cards
    BY <2>2, <2>3 DEF RunPcs, WorkerPcs
  <2> QED BY <2>4, <2>5, <2>6, <2>7, <2>f DEF Placed, Others, On
<1> QED BY <1>1, <1>2

JournalOK(j) == j \in [DOMAIN j -> Entry] /\ DOMAIN j \subseteq Targets

LEMMA JournalFacts ==
    ASSUME NEW j, JournalOK(j), NEW c \in Targets, NEW v \in Entry
    PROVE  JournalOK(Put(j, c, v)) /\ JournalOK(Strike(j, c))
<1>1. Put(j, c, v) \in [DOMAIN j \cup {c} -> Entry] /\ DOMAIN Put(j, c, v) = DOMAIN j \cup {c}
  BY DEF JournalOK, Put
<1>2. Strike(j, c) \in [DOMAIN j \ {c} -> Entry] /\ DOMAIN Strike(j, c) = DOMAIN j \ {c}
  BY DEF JournalOK, Strike
<1> QED BY <1>1, <1>2 DEF JournalOK

\* What a handler knows of its own target and text.
LEMMA TaskFacts ==
    ASSUME IInv, NEW t \in Tasks
    PROVE  /\ task[t].text \in Texts /\ task[t].human \in BOOLEAN
           /\ task[t].left \in 0 .. MaxRounds /\ task[t].resuming \in BOOLEAN
           /\ task[t].pc # "idle" => On(t) \in Targets
           /\ task[t].pc \in {"chatwait", "chat"} \cup (RunPcs \ {"thread"}) => On(t) \in Cards
BY DEF IInv, TypeOK, TasksTypeOK, Task, Placed

\* What the runs left behind, and the steps of the recovery, is typed.
LEMMA TakerFacts ==
    ASSUME IInv
    PROVE  /\ \A r \in taker.runs :
                 r.target \in Targets /\ r.text \in Texts /\ r.attempts \in 0 .. MaxAttempts
           /\ taker.msgs \in Seq(Message)
BY DEF IInv, TypeOK, ServerTypeOK

LEMMA JournalType ==
    ASSUME IInv, Next
    PROVE  JournalOK(journal')
<1> USE DEF IInv, TypeOK, DiskTypeOK
<1>0. JournalOK(journal) /\ [text |-> CarryOn, attempts |-> 0] \in Entry
  BY ConstantsOK DEF JournalOK, Entry, Texts
<1>1. ASSUME NEW t \in Tasks, JournalStarts(t) PROVE JournalOK(journal')
  <2>1. On(t) \in Targets /\ task[t].text \in Texts
    BY <1>1, TaskFacts DEF JournalStarts, At
  <2>2. AttemptsSoFar(On(t)) \in 0 .. MaxAttempts
    BY <1>0, ConstantsOK DEF AttemptsSoFar, Inflight, JournalOK, Entry
  <2> QED BY <1>0, <1>1, <2>1, <2>2, JournalFacts DEF JournalStarts, Started, Entry
<1>2. ASSUME NEW t \in Tasks, EndsRun(t), task[t].pc # "idle" PROVE JournalOK(journal')
  BY <1>0, <1>2, TaskFacts, JournalFacts DEF EndsRun
<1>3. ASSUME NEW r \in taker.runs, RecoveryDrops(r) \/ RecoveryGivesUp(r) PROVE JournalOK(journal')
  BY <1>0, <1>3, TakerFacts, JournalFacts DEF RecoveryDrops, RecoveryGivesUp
<1>4. ASSUME NEW r \in taker.runs, RecoveryCounts(r) PROVE JournalOK(journal')
  <2>1. [text |-> r.text, attempts |-> r.attempts + 1] \in Entry
    BY <1>4, TakerFacts, ConstantsOK DEF RecoveryCounts, Exhausted, Entry
  <2> QED BY <1>0, <1>4, <2>1, TakerFacts, JournalFacts DEF RecoveryCounts
<1>5. ASSUME NEW t \in Tasks, HandlerStep(t) PROVE JournalOK(journal')
  BY <1>0, <1>1, <1>2, <1>5 DEF disk, At,
     HandlerStep, TurnEnds, HandlerDrops, HandlerQueues, HandlerPosts, BecomesChat, HandlerNotes, QueuesOnLock, TakesLock,
     Releases, FailsHere, ThreadEnds, TurnBegins, ChatBegins, ChatEnds, ChatFails,
     TurnDelegates, TurnDelegatesNowhere, TurnWindsDown, TurnCompletes, TurnFails,
     WorkerConnects, WorkerReports, WorkerSaves, WorkerBreaks, WorkerParts, WorkerFailed,
     ReportJudged, ReportWindsDown, CarryOnQueued, WoundDownStruck
<1>6. CASE TakerStep
  BY <1>0, <1>3, <1>4, <1>6 DEF disk, TakerStep, RecoveryBegins, RecoveryResumes, OrphansCleared, DispatchBegins,
     DispatchSkips, DispatchSpawns
<1>7. ASSUME NEW t \in Tasks, AgentStep(t) PROVE JournalOK(journal')
  BY <1>0, <1>7 DEF disk, AgentStep, DelegateRefused, DelegateAccepted
<1>8. CASE PauserStep \/ RestarterStep \/ HumanStep \/ Dies
  BY <1>0, <1>8 DEF disk, PauserStep, PauseEnds, PauseStops, RestarterStep, RestartCommits, RestartLooksAgain,
     Leaves, Dies, Reboots, HumanStep, HumanSends, CardCreated, PauseBegins, Resumes, ShutdownAsked, Trash,
     Restore, Purge
<1> QED BY <1>5, <1>6, <1>7, <1>8 DEF Next

LEMMA PendingType ==
    ASSUME IInv, Next
    PROVE  pending' \in Seq(Message)
<1> USE DEF IInv, TypeOK, DiskTypeOK
<1>1. ASSUME NEW t \in Tasks, HandlerQueues(t) \/ CarryOnQueued(t) PROVE pending' \in Seq(Message)
  <2>1. On(t) \in Targets /\ task[t].text \in Texts
    BY <1>1, TaskFacts DEF HandlerQueues, CarryOnQueued, Starts, At
  <2>2. /\ [target |-> On(t), text |-> task[t].text, human |-> TRUE] \in Message
        /\ CarryOnFor(On(t)) \in Message
    BY <2>1 DEF Message, CarryOnFor, Texts
  <2> QED BY <1>1, <2>2 DEF HandlerQueues, CarryOnQueued, Owed
<1>2. ASSUME NEW t \in Tasks, HandlerStep(t) PROVE pending' \in Seq(Message)
  BY <1>1, <1>2 DEF disk,
     HandlerStep, TurnEnds, HandlerDrops, HandlerPosts, BecomesChat, HandlerNotes, QueuesOnLock, TakesLock, JournalStarts,
     Releases, FailsHere, ThreadEnds, TurnBegins, ChatBegins, ChatEnds, ChatFails,
     TurnDelegates, TurnDelegatesNowhere, TurnWindsDown, TurnCompletes, TurnFails,
     WorkerConnects, WorkerReports, WorkerSaves, WorkerBreaks, WorkerParts, WorkerFailed,
     ReportJudged, ReportWindsDown, WoundDownStruck
<1>3. CASE TakerStep
  <2>1. CASE DispatchBegins
    <3>1. pending' = <<>>
      BY <2>1 DEF DispatchBegins
    <3> QED BY <3>1
  <2>2. CASE ~DispatchBegins
    <3>1. UNCHANGED pending
      BY <1>3, <2>2 DEF disk, TakerStep, RecoveryBegins, RecoveryDrops, RecoveryGivesUp, RecoveryCounts, RecoveryResumes,
         OrphansCleared, DispatchSkips, DispatchSpawns
    <3> QED BY <3>1
  <2> QED BY <2>1, <2>2
<1>4. ASSUME NEW t \in Tasks, AgentStep(t) PROVE pending' \in Seq(Message)
  BY <1>4 DEF disk, AgentStep, DelegateRefused, DelegateAccepted
<1>5. CASE PauserStep \/ RestarterStep \/ HumanStep \/ Dies
  BY <1>5 DEF disk, PauserStep, PauseEnds, PauseStops, RestarterStep, RestartCommits, RestartLooksAgain,
     Leaves, Dies, Reboots, HumanStep, HumanSends, CardCreated, PauseBegins, Resumes, ShutdownAsked, Trash,
     Restore, Purge
<1> QED BY <1>2, <1>3, <1>4, <1>5 DEF Next

LEMMA BoardType ==
    ASSUME IInv, Next
    PROVE  /\ marker' \in BOOLEAN /\ busy' \subseteq Targets /\ saved' \subseteq Cards
           /\ place' \in [Targets -> {"board", "trash", "gone"}]
<1> DEFINE G == /\ marker' \in BOOLEAN /\ busy' \subseteq Targets /\ saved' \subseteq Cards
                /\ place' \in [Targets -> {"board", "trash", "gone"}]
<1> SUFFICES G
  OBVIOUS
<1> USE DEF IInv, TypeOK, DiskTypeOK
<1>1. ASSUME NEW t \in Tasks, TakesLock(t) \/ WorkerParts(t) PROVE G
  BY <1>1, TaskFacts DEF TakesLock, WorkerParts, At, RunPcs, WorkerPcs
<1>2. ASSUME NEW t \in Tasks, HandlerStep(t) PROVE G
  BY <1>1, <1>2 DEF disk,
     HandlerStep, TurnEnds, HandlerDrops, HandlerQueues, HandlerPosts, BecomesChat, HandlerNotes, QueuesOnLock, JournalStarts,
     Releases, FailsHere, ThreadEnds, TurnBegins, ChatBegins, ChatEnds, ChatFails,
     TurnDelegates, TurnDelegatesNowhere, TurnWindsDown, TurnCompletes, TurnFails,
     WorkerConnects, WorkerReports, WorkerSaves, WorkerBreaks, WorkerFailed,
     ReportJudged, ReportWindsDown, CarryOnQueued, WoundDownStruck
<1>3. CASE TakerStep
  BY <1>3 DEF disk, TakerStep, RecoveryBegins, RecoveryDrops, RecoveryGivesUp, RecoveryCounts, RecoveryResumes,
     OrphansCleared, DispatchBegins, DispatchSkips, DispatchSpawns
<1>4. ASSUME NEW t \in Tasks, AgentStep(t) PROVE G
  BY <1>4 DEF disk, AgentStep, DelegateRefused, DelegateAccepted
<1>5. ASSUME NEW c \in Targets, Trash(c) \/ Restore(c) \/ Purge(c) PROVE G
  BY <1>5 DEF Trash, Restore, Purge
<1>6. ASSUME NEW m \in BOOLEAN, NEW r \in BOOLEAN, PauseDone(m, r), UNCHANGED <<busy, saved, place>> PROVE G
  BY <1>6 DEF PauseDone, ManagerTypeOK
<1>7. CASE PauserStep
  BY <1>6, <1>7 DEF disk, PauserStep, PauseEnds, PauseStops, ServerTypeOK
<1>8. ASSUME NEW m \in BOOLEAN, NEW r \in BOOLEAN, PauseBegins(m, r) PROVE G
  BY <1>6, <1>8 DEF PauseBegins
<1>9. CASE RestarterStep \/ HumanStep \/ Dies
  BY <1>5, <1>8, <1>9 DEF disk, RestarterStep, RestartCommits, RestartLooksAgain,
     Leaves, Dies, Reboots, HumanStep, HumanSends, CardCreated, Resumes, ShutdownAsked
<1> QED BY <1>2, <1>3, <1>4, <1>7, <1>9 DEF Next

LEMMA DiskStep == ASSUME IInv, Next PROVE DiskTypeOK'
BY JournalType, PendingType, BoardType DEF DiskTypeOK, JournalOK

LEMMA ManagerStep ==
    ASSUME IInv, Next, ~Reboots
    PROVE  ManagerTypeOK'
<1> USE DEF IInv, TypeOK, ManagerTypeOK
<1>1. ASSUME NEW t \in Tasks, HandlerStep(t) PROVE ManagerTypeOK'
  <2>1. task[t].pc \in {"chatwait", "chat"} \cup (RunPcs \ {"thread"}) => On(t) \in Cards
    BY TaskFacts
  <2>2. UNCHANGED flags
    BY <1>1 DEF
       HandlerStep, TurnEnds, HandlerDrops, HandlerQueues, HandlerPosts, BecomesChat, HandlerNotes, QueuesOnLock, TakesLock,
       JournalStarts, Releases, FailsHere, ThreadEnds, TurnBegins, ChatBegins, ChatEnds, ChatFails,
       TurnDelegates, TurnDelegatesNowhere, TurnWindsDown, TurnCompletes, TurnFails,
       WorkerConnects, WorkerReports, WorkerSaves, WorkerBreaks, WorkerParts, WorkerFailed,
       ReportJudged, ReportWindsDown, CarryOnQueued, WoundDownStruck
  <2>3. driving' \subseteq Cards
    BY <1>1 DEF EndsRun,
       HandlerStep, TurnEnds, HandlerDrops, HandlerQueues, HandlerPosts, BecomesChat, HandlerNotes, QueuesOnLock, TakesLock,
       JournalStarts, Releases, FailsHere, ThreadEnds, TurnBegins, ChatBegins, ChatEnds, ChatFails,
       TurnDelegates, TurnDelegatesNowhere, TurnWindsDown, TurnCompletes, TurnFails,
       WorkerConnects, WorkerReports, WorkerSaves, WorkerBreaks, WorkerParts, WorkerFailed,
       ReportJudged, ReportWindsDown, CarryOnQueued, WoundDownStruck
  <2>4. turnKind' \in [Cards -> {"none", "reply", "drive", "chat"}]
    BY <1>1, <2>1 DEF turnState, At, RunPcs, EndsRun,
       HandlerStep, TurnEnds, HandlerDrops, HandlerQueues, HandlerPosts, BecomesChat, HandlerNotes, QueuesOnLock, TakesLock,
       JournalStarts, Releases, FailsHere, ThreadEnds, TurnBegins, ChatBegins, ChatEnds, ChatFails,
       TurnDelegates, TurnDelegatesNowhere, TurnWindsDown, TurnCompletes, TurnFails,
       WorkerConnects, WorkerReports, WorkerSaves, WorkerBreaks, WorkerParts, WorkerFailed,
       ReportJudged, ReportWindsDown, CarryOnQueued, WoundDownStruck
  <2>5. delegated' \subseteq Cards /\ woundDown' \subseteq Cards
    BY <1>1 DEF turnState,
       HandlerStep, TurnEnds, HandlerDrops, HandlerQueues, HandlerPosts, BecomesChat, HandlerNotes, QueuesOnLock, TakesLock,
       JournalStarts, Releases, FailsHere, ThreadEnds, TurnBegins, ChatBegins, ChatEnds, ChatFails,
       TurnDelegates, TurnDelegatesNowhere, TurnWindsDown, TurnCompletes, TurnFails,
       WorkerConnects, WorkerReports, WorkerSaves, WorkerBreaks, WorkerParts, WorkerFailed,
       ReportJudged, ReportWindsDown, CarryOnQueued, WoundDownStruck
  <2>6. interrupted' \subseteq Cards /\ clients' \subseteq Cards /\ workersRunning' \subseteq Cards
    BY <1>1, <2>1 DEF workerState, At, RunPcs, WorkerPcs, ToldAtConnect,
       HandlerStep, TurnEnds, HandlerDrops, HandlerQueues, HandlerPosts, BecomesChat, HandlerNotes, QueuesOnLock, TakesLock,
       JournalStarts, Releases, FailsHere, ThreadEnds, TurnBegins, ChatBegins, ChatEnds, ChatFails,
       TurnDelegates, TurnDelegatesNowhere, TurnWindsDown, TurnCompletes, TurnFails,
       WorkerConnects, WorkerReports, WorkerSaves, WorkerBreaks, WorkerParts, WorkerFailed,
       ReportJudged, ReportWindsDown, CarryOnQueued, WoundDownStruck
  <2> QED BY <2>2, <2>3, <2>4, <2>5, <2>6 DEF flags
<1>2. ASSUME NEW t \in Tasks, AgentStep(t) PROVE ManagerTypeOK'
  BY <1>2, TaskFacts DEF flags, workerState, AgentStep, DelegateRefused, DelegateAccepted, TurnPcs, RunPcs
<1>3. CASE TakerStep
  BY <1>3 DEF flags, turnState, workerState, TakerStep, RecoveryBegins, RecoveryDrops, RecoveryGivesUp,
     RecoveryCounts, RecoveryResumes, OrphansCleared, DispatchBegins, DispatchSkips, DispatchSpawns
<1>4. CASE PauserStep
  <2>1. ASSUME NEW c \in pauser.todo, PauseStops(c) PROVE ManagerTypeOK'
    BY <2>1 DEF flags, turnState, PauseStops, ToldToStop
  <2>2. CASE PauseEnds
    BY <2>2 DEF turnState, workerState, PauseEnds, PauseDone, ServerTypeOK
  <2> QED BY <1>4, <2>1, <2>2 DEF PauserStep
<1>5. CASE RestarterStep
  BY <1>5 DEF turnState, workerState, RestarterStep, RestartCommits, RestartLooksAgain, Leaves
<1>6. ASSUME NEW m \in BOOLEAN, NEW r \in BOOLEAN, PauseBegins(m, r) PROVE ManagerTypeOK'
  BY <1>6 DEF turnState, workerState, PauseBegins, PauseDone
<1>7. CASE HumanStep
  BY <1>6, <1>7 DEF flags, turnState, workerState, HumanStep, HumanSends, CardCreated, Resumes,
     ShutdownAsked, Trash, Restore, Purge
<1> QED BY <1>1, <1>2, <1>3, <1>4, <1>5, <1>7 DEF Next, Dies

LEMMA SnapshotFacts ==
    ASSUME DiskTypeOK
    PROVE  \A r \in Snapshot(journal) :
               r \in [target : Targets, text : Texts, attempts : 0 .. MaxAttempts]
BY DEF Snapshot, DiskTypeOK, Entry

LEMMA TakerTyped ==
    ASSUME IInv, TakerStep
    PROVE  ServerTypeOK'
<1> USE DEF IInv, TypeOK, ServerTypeOK
<1>0. <<>> \in Seq(Message) /\ IdleTaker.pc = "off"
  BY DEF IdleTaker
<1>1. CASE RecoveryBegins
  BY <1>1, SnapshotFacts DEF RecoveryBegins
<1>2. CASE OrphansCleared
  BY <1>2 DEF OrphansCleared
<1>3. ASSUME NEW r \in taker.runs,
             RecoveryDrops(r) \/ RecoveryGivesUp(r) \/ RecoveryCounts(r)
      PROVE  ServerTypeOK'
  <2>1. CASE RecoveryDrops(r) \/ RecoveryGivesUp(r)
    BY <2>1 DEF RecoveryDrops, RecoveryGivesUp, Recovering
  <2>2. CASE RecoveryCounts(r)
    <3>1. r # NoRun
      BY ConstantsOK DEF NoRun
    <3>2. /\ taker' = [[[taker EXCEPT !.pc = "resume"] EXCEPT !.runs = taker.runs \ {r}] EXCEPT !.now = r]
          /\ UNCHANGED <<pauser, restarter>>
      BY <2>2 DEF RecoveryCounts
    <3> QED BY <3>1, <3>2
  <2> QED BY <1>3, <2>1, <2>2
<1>6. ASSUME NEW t \in Tasks, RecoveryResumes(t) PROVE ServerTypeOK'
  <2>1. /\ taker' = [[taker EXCEPT !.pc = "recover"] EXCEPT !.now = NoRun]
        /\ UNCHANGED <<pauser, restarter>>
    BY <1>6 DEF RecoveryResumes
  <2> QED BY <2>1
<1>4. CASE DispatchBegins
  BY <1>0, <1>4 DEF DispatchBegins, DiskTypeOK, IdleTaker
<1>5. CASE DispatchSkips \/ \E t \in Tasks : DispatchSpawns(t)
  <2>1. taker.msgs # <<>> /\ DispatchedOne /\ UNCHANGED <<pauser, restarter>>
    BY <1>5 DEF DispatchSkips, DispatchSpawns
  <2>2. Tail(taker.msgs) \in Seq(Message)
    BY <2>1
  <2> QED BY <1>0, <2>1, <2>2 DEF DispatchedOne, IdleTaker
<1> QED BY <1>1, <1>2, <1>3, <1>4, <1>5, <1>6 DEF TakerStep

LEMMA ServerStep ==
    ASSUME IInv, Next, ~Reboots
    PROVE  ServerTypeOK'
<1> USE DEF IInv, TypeOK, ServerTypeOK
<1>1. ASSUME NEW t \in Tasks, HandlerStep(t) \/ AgentStep(t) PROVE ServerTypeOK'
  BY <1>1 DEF server, AgentStep, DelegateRefused, DelegateAccepted,
     HandlerStep, TurnEnds, HandlerDrops, HandlerQueues, HandlerPosts, BecomesChat, HandlerNotes, QueuesOnLock, TakesLock,
     JournalStarts, Releases, FailsHere, ThreadEnds, TurnBegins, ChatBegins, ChatEnds, ChatFails,
     TurnDelegates, TurnDelegatesNowhere, TurnWindsDown, TurnCompletes, TurnFails,
     WorkerConnects, WorkerReports, WorkerSaves, WorkerBreaks, WorkerParts, WorkerFailed,
     ReportJudged, ReportWindsDown, CarryOnQueued, WoundDownStruck
<1>0. ASSUME NEW m, NEW r, PauseDone(m, r), UNCHANGED taker PROVE ServerTypeOK'
  BY <1>0 DEF PauseDone, NoPause
<1>2. CASE PauserStep
  <2>1. ASSUME NEW c \in pauser.todo, PauseStops(c) PROVE ServerTypeOK'
    BY <2>1 DEF PauseStops
  <2>2. CASE PauseEnds
    BY <1>0, <2>2 DEF PauseEnds
  <2> QED BY <1>2, <2>1, <2>2 DEF PauserStep
<1>3. CASE RestarterStep
  BY <1>3 DEF RestarterStep, RestartCommits, RestartLooksAgain, Leaves
<1>4. ASSUME NEW m \in BOOLEAN, NEW r \in BOOLEAN, PauseBegins(m, r) PROVE ServerTypeOK'
  <2>1. CASE PauseDone(m, r)
    BY <1>0, <1>4, <2>1 DEF PauseBegins
  <2>2. CASE ~PauseDone(m, r)
    <3>1. /\ UNCHANGED <<taker, restarter>>
          /\ pauser' = [on |-> TRUE, todo |-> clients, remember |-> m, restart |-> r]
      BY <1>4, <2>2 DEF PauseBegins
    <3> QED BY <3>1 DEF ManagerTypeOK
  <2> QED BY <2>1, <2>2
<1>5. CASE Resumes
  BY <1>5 DEF Resumes
<1>6. CASE HumanStep
  BY <1>4, <1>5, <1>6 DEF server, HumanStep, HumanSends, CardCreated, ShutdownAsked, Trash, Restore, Purge
<1> QED BY <1>1, <1>2, <1>3, <1>6, TakerTyped DEF Next, Dies

LEMMA QuotaStep ==
    ASSUME IInv, Next
    PROVE  quota' \in [Ops -> Nat]
<1> USE DEF IInv, TypeOK, HistoryTypeOK
<1>1. ASSUME NEW op \in Ops, Spend(op) PROVE quota' \in [Ops -> Nat]
  BY <1>1 DEF Spend
<1> HIDE DEF HistoryTypeOK
<1>0. quota \in [Ops -> Nat]
  BY DEF HistoryTypeOK
<1> HIDE DEF IInv, TypeOK
<1>2. ASSUME NEW t \in Tasks, HandlerStep(t) \/ AgentStep(t) PROVE quota' \in [Ops -> Nat]
  BY <1>0, <1>1, <1>2 DEF Ops, AgentStep, DelegateRefused, DelegateAccepted,
     HandlerStep, TurnEnds, HandlerDrops, HandlerQueues, HandlerPosts, BecomesChat, HandlerNotes, QueuesOnLock, TakesLock,
     JournalStarts, Releases, FailsHere, ThreadEnds, TurnBegins, ChatBegins, ChatEnds, ChatFails,
     TurnDelegates, TurnDelegatesNowhere, TurnWindsDown, TurnCompletes, TurnFails,
     WorkerConnects, WorkerReports, WorkerSaves, WorkerBreaks, WorkerParts, WorkerFailed,
     ReportJudged, ReportWindsDown, CarryOnQueued, WoundDownStruck
<1>3. CASE TakerStep
  BY <1>0, <1>3 DEF TakerStep, RecoveryBegins, RecoveryDrops, RecoveryGivesUp, RecoveryCounts, RecoveryResumes,
     OrphansCleared, DispatchBegins, DispatchSkips, DispatchSpawns
<1>4. CASE PauserStep \/ RestarterStep
  BY <1>0, <1>4 DEF PauserStep, PauseEnds, PauseStops, RestarterStep, RestartCommits, RestartLooksAgain, Leaves
<1>5. CASE HumanStep \/ Dies
  BY <1>0, <1>1, <1>5 DEF Ops, HumanStep, HumanSends, CardCreated, PauseBegins, Resumes,
     ShutdownAsked, Trash, Restore, Purge, Dies
<1> QED BY <1>2, <1>3, <1>4, <1>5 DEF Next

LEMMA HistoryStep ==
    ASSUME IInv, Next
    PROVE  HistoryTypeOK'
<1> USE DEF IInv, TypeOK, HistoryTypeOK
<1> DEFINE G == /\ unsent' \subseteq Msgs /\ answered' \subseteq Msgs /\ gaveUp' \subseteq Targets
                /\ resumed' \in [Targets -> Nat]
<1> SUFFICES G
  BY QuotaStep
<1>1. ASSUME NEW t \in Tasks, HandlerStep(t) \/ AgentStep(t) PROVE G
  <2>1. unsent' \subseteq Msgs /\ gaveUp' \subseteq Targets
    BY <1>1 DEF history, EndsRun, AgentStep, DelegateRefused, DelegateAccepted,
       HandlerStep, TurnEnds, HandlerDrops, HandlerQueues, HandlerPosts, BecomesChat, HandlerNotes, QueuesOnLock, TakesLock,
       JournalStarts, Releases, FailsHere, ThreadEnds, TurnBegins, ChatBegins, ChatEnds, ChatFails,
       TurnDelegates, TurnDelegatesNowhere, TurnWindsDown, TurnCompletes, TurnFails,
       WorkerConnects, WorkerReports, WorkerSaves, WorkerBreaks, WorkerParts, WorkerFailed,
       ReportJudged, ReportWindsDown, CarryOnQueued, WoundDownStruck
  <2>2. answered' \subseteq Msgs
    BY <1>1 DEF history, Replies, EndsRun, AgentStep, DelegateRefused, DelegateAccepted,
       HandlerStep, TurnEnds, HandlerDrops, HandlerQueues, HandlerPosts, BecomesChat, HandlerNotes, QueuesOnLock, TakesLock,
       JournalStarts, Releases, FailsHere, ThreadEnds, TurnBegins, ChatBegins, ChatEnds, ChatFails,
       TurnDelegates, TurnDelegatesNowhere, TurnWindsDown, TurnCompletes, TurnFails,
       WorkerConnects, WorkerReports, WorkerSaves, WorkerBreaks, WorkerParts, WorkerFailed,
       ReportJudged, ReportWindsDown, CarryOnQueued, WoundDownStruck
  <2>3. UNCHANGED resumed \/ resumed' = [resumed EXCEPT ![On(t)] = 0]
    BY <1>1 DEF history, EndsRun, AgentStep, DelegateRefused, DelegateAccepted,
       HandlerStep, TurnEnds, HandlerDrops, HandlerQueues, HandlerPosts, BecomesChat, HandlerNotes, QueuesOnLock, TakesLock,
       JournalStarts, Releases, FailsHere, ThreadEnds, TurnBegins, ChatBegins, ChatEnds, ChatFails,
       TurnDelegates, TurnDelegatesNowhere, TurnWindsDown, TurnCompletes, TurnFails,
       WorkerConnects, WorkerReports, WorkerSaves, WorkerBreaks, WorkerParts, WorkerFailed,
       ReportJudged, ReportWindsDown, CarryOnQueued, WoundDownStruck
  <2> QED BY <2>1, <2>2, <2>3
<1>2. CASE TakerStep
  <2>1. ASSUME NEW r \in taker.runs, RecoveryGivesUp(r) \/ RecoveryDrops(r) PROVE G
    BY <2>1, TakerFacts DEF RecoveryGivesUp, RecoveryDrops
  <2>3. ASSUME NEW r \in taker.runs, RecoveryCounts(r) PROVE G
    BY <2>3, TakerFacts DEF RecoveryCounts
  <2>2. CASE \A r \in taker.runs : ~RecoveryGivesUp(r) /\ ~RecoveryDrops(r) /\ ~RecoveryCounts(r)
    BY <1>2, <2>2 DEF history, TakerStep, RecoveryBegins, RecoveryResumes,
       OrphansCleared, DispatchBegins, DispatchSkips, DispatchSpawns
  <2> QED BY <2>1, <2>2, <2>3
<1>3. CASE Reboots
  BY <1>3 DEF Reboots, disk
<1>4. CASE (PauserStep \/ RestarterStep) /\ ~Reboots
  BY <1>4 DEF history, PauserStep, PauseEnds, PauseStops, RestarterStep, RestartCommits, RestartLooksAgain, Leaves
<1>5. CASE HumanStep
  BY <1>5 DEF history, HumanStep, HumanSends, CardCreated, PauseBegins, Resumes, ShutdownAsked,
     Trash, Restore, Purge
<1> QED BY <1>1, <1>2, <1>3, <1>4, <1>5 DEF Next, Dies

-----------------------------------------------------------------------------
(* The invariant of every run.                                             *)

\* An empty board satisfies it: no queue has a member, no task is awake.
LEMMA FreshFacts ==
    /\ [t \in Tasks |-> IdleTask] \in [Tasks -> Task]
    /\ <<>> \in Seq(Tasks) /\ <<>> \in Seq(Message)
    /\ "idle" \notin HolderPcs \cup TurnPcs \cup {"chatwait", "chat", "new", "posted", "lockwait", "starting"}
<1>1. IdleTask \in Task
  BY ConstantsOK DEF IdleTask, Task, Texts, Targets, Pcs
<1> QED BY <1>1 DEF HolderPcs, TurnPcs, RunPcs, WorkerPcs

LEMMA InitInv == Init => IInv
<1> SUFFICES ASSUME Init PROVE IInv
  OBVIOUS
<1> USE DEF Init
<1>1. DiskTypeOK
  BY FreshFacts DEF DiskTypeOK
<1>2. ManagerTypeOK
  BY DEF ManagerTypeOK
<1>3. LocksTypeOK
  BY FreshFacts DEF LocksTypeOK
<1>4. TasksTypeOK
  BY FreshFacts DEF TasksTypeOK
<1>5. ServerTypeOK
  BY FreshFacts DEF ServerTypeOK, IdleTaker, NoPause
<1>6. HistoryTypeOK
  BY ConstantsOK DEF HistoryTypeOK
<1>7. \A t \in Tasks : task[t] = IdleTask
  OBVIOUS
<1>8. Placed /\ LockHeld /\ SessionHeld
  BY <1>7, FreshFacts DEF Placed, LockHeld, SessionHeld, IdleTask, HolderPcs
<1> QED BY <1>1, <1>2, <1>3, <1>4, <1>5, <1>6, <1>8 DEF IInv, TypeOK

\* What a new process finds on disk is whole, whenever the old one died.
LEMMA RebootInv ==
    ASSUME IInv, Next, Reboots
    PROVE  IInv'
<1> USE DEF Reboots, FreshProcess
<1>1. DiskTypeOK' /\ HistoryTypeOK'
  BY DiskStep, HistoryStep
<1>2. ManagerTypeOK'
  BY <1>1 DEF ManagerTypeOK, DiskTypeOK, disk, IInv, TypeOK
<1>3. LocksTypeOK'
  BY FreshFacts DEF LocksTypeOK
<1>4. TasksTypeOK'
  BY FreshFacts DEF TasksTypeOK
<1>5. ServerTypeOK'
  <2>1. CASE marker
    BY <2>1, FreshFacts DEF ServerTypeOK, IdleTaker, NoPause
  <2>2. CASE ~marker
    <3>1. Snapshot(journal) \subseteq [target : Targets, text : Texts, attempts : 0 .. MaxAttempts]
      BY SnapshotFacts DEF IInv, TypeOK
    <3>2. taker' = [pc |-> "recover", runs |-> Snapshot(journal), now |-> NoRun, msgs |-> <<>>, boot |-> TRUE]
      BY <2>2 DEF IdleTaker
    <3>3. pauser' = NoPause /\ restarter' = "off"
      OBVIOUS
    <3> HIDE DEF Reboots, FreshProcess
    <3> QED BY <3>1, <3>2, <3>3, FreshFacts DEF ServerTypeOK, NoPause
  <2> QED BY <2>1, <2>2
<1>6. \A t \in Tasks : task'[t] = IdleTask
  OBVIOUS
<1>7. Placed' /\ LockHeld' /\ SessionHeld'
  BY <1>6, FreshFacts DEF Placed, LockHeld, SessionHeld, IdleTask, HolderPcs
<1> QED BY <1>1, <1>2, <1>3, <1>4, <1>5, <1>7 DEF IInv, TypeOK

LEMMA StutterInv ==
    ASSUME IInv, UNCHANGED vars
    PROVE  IInv'
<1> USE DEF vars, disk, flags, turnState, workerState, locks, server, history, coroutines, IInv, TypeOK
<1>1. DiskTypeOK' /\ LocksTypeOK'
  BY DEF DiskTypeOK, LocksTypeOK
<1>6. TasksTypeOK'
  BY DEF TasksTypeOK
<1>2. ManagerTypeOK'
  BY DEF ManagerTypeOK
<1>3. ServerTypeOK'
  BY DEF ServerTypeOK
<1>4. HistoryTypeOK'
  BY DEF HistoryTypeOK
<1>5. Placed' /\ LockHeld' /\ SessionHeld'
  BY DEF Placed, LockHeld, SessionHeld, On, Holds
<1> QED BY <1>1, <1>2, <1>3, <1>4, <1>5, <1>6

LEMMA StepInv == IInv /\ [Next]_vars => IInv'
<1>1. ASSUME IInv, Next, ~Reboots PROVE IInv'
  BY <1>1, DiskStep, ManagerStep, LocksStep, TasksStep, ServerStep, HistoryStep DEF IInv, TypeOK
<1> QED BY <1>1, RebootInv, StutterInv

LEMMA InvHolds == Spec => []IInv
BY InitInv, StepInv, PTL DEF Spec

\* Every variable keeps its type, whatever dies, fails, is deleted or is restarted: no
\* handler, no recovery and no restart puts anything else in the files or in the Manager.
THEOREM TypeCorrect == Spec => []TypeOK
<1>1. IInv => TypeOK
  BY DEF IInv
<1> QED BY <1>1, InvHolds, PTL

\* Who has the lock of a target is the head of its queue, and a queue has one head.
\* The claim is manager.py's own lock discipline: handlers take _lock_for first.
THEOREM OneRun == Spec => []OneRunPerTarget
<1>1. IInv => OneRunPerTarget
  BY DEF IInv, LockHeld, OneRunPerTarget, Holds
<1> QED BY <1>1, InvHolds, PTL

\* A turn of the manager, driven or chatted, is at the head of its session's queue, so
\* no two turns share a session.
THEOREM OneTurn == Spec => []OneTurnPerSession
<1>1. IInv => OneTurnPerSession
  BY DEF IInv, SessionHeld, OneTurnPerSession, Holds
<1> QED BY <1>1, InvHolds, PTL

\* Both at once: whatever handlers, recoveries and carry-ons meet on a target, it has
\* one run and its session one turn.
THEOREM OneOfEach == Spec => []OneAtATime
<1>1. IInv => OneAtATime
  BY DEF IInv, LockHeld, SessionHeld, OneAtATime, OneRunPerTarget, OneTurnPerSession, Holds
<1> QED BY <1>1, InvHolds, PTL

-----------------------------------------------------------------------------
(* A run is on disk for as long as it may be killed.                       *)

\* Two runs of one target would be at the head of the same queue.
LEMMA RunsDiffer ==
    ASSUME IInv, NEW s \in Tasks, NEW t \in Tasks, s # t,
           task[s].pc \in HolderPcs, task[t].pc \in HolderPcs
    PROVE  On(s) # On(t)
BY DEF IInv, LockHeld, Holds

\* A run comes out of journal.start, or was one before.
LEMMA RunsBefore ==
    ASSUME IInv, NEW s \in Tasks, HandlerStep(s), NEW t \in Tasks, task'[t].pc \in RunPcs,
           ~(t = s /\ JournalStarts(s))
    PROVE  task[t].pc \in RunPcs /\ task'[t].target = On(t)
<1>1. /\ task' \in [Tasks -> Task] /\ Others(s)
      /\ Moves(s) \/ task'[s] = IdleTask
  BY HandlerFlow
<1>2. CASE t # s
  BY <1>1, <1>2 DEF Others, On
<1>3. CASE t = s
  <2>1. task[s].pc # "starting"
    BY <1>3 DEF At, Starts, Posted,
       HandlerStep, TurnEnds, HandlerDrops, HandlerQueues, HandlerPosts, BecomesChat, HandlerNotes, QueuesOnLock, TakesLock,
       Releases, FailsHere, ThreadEnds, TurnBegins, ChatBegins, ChatEnds, ChatFails,
       TurnDelegates, TurnDelegatesNowhere, TurnWindsDown, TurnCompletes, TurnFails,
       WorkerConnects, WorkerReports, WorkerSaves, WorkerBreaks, WorkerParts, WorkerFailed,
       ReportJudged, ReportWindsDown, CarryOnQueued, WoundDownStruck
  <2> QED BY <1>1, <1>3, <2>1 DEF Moves, Flow, IdleTask, RunPcs, WorkerPcs
<1> QED BY <1>2, <1>3

\* What a handler does to the journal: it starts its run, ends it, or leaves it alone.
LEMMA HandlerJournal ==
    ASSUME IInv, NEW s \in Tasks, HandlerStep(s)
    PROVE  /\ UNCHANGED place
           /\ \/ JournalStarts(s) /\ UNCHANGED gaveUp
              \/ EndsRun(s) /\ task[s].pc \in RunPcs
              \/ UNCHANGED <<journal, gaveUp>>
<1>1. UNCHANGED place
  BY DEF disk, EndsRun,
     HandlerStep, TurnEnds, HandlerDrops, HandlerQueues, HandlerPosts, BecomesChat, HandlerNotes, QueuesOnLock, TakesLock,
     JournalStarts, Releases, FailsHere, ThreadEnds, TurnBegins, ChatBegins, ChatEnds, ChatFails,
     TurnDelegates, TurnDelegatesNowhere, TurnWindsDown, TurnCompletes, TurnFails,
     WorkerConnects, WorkerReports, WorkerSaves, WorkerBreaks, WorkerParts, WorkerFailed,
     ReportJudged, ReportWindsDown, CarryOnQueued, WoundDownStruck
<1>2. CASE JournalStarts(s)
  BY <1>1, <1>2 DEF JournalStarts, history
<1>3. CASE FailsHere(s) \/ ThreadEnds(s) \/ TurnCompletes(s) \/ WoundDownStruck(s)
  BY <1>1, <1>3 DEF FailsHere, ThreadEnds, TurnCompletes, WoundDownStruck, At, RunPcs
<1>4. CASE ~JournalStarts(s) /\ ~FailsHere(s) /\ ~ThreadEnds(s) /\ ~TurnCompletes(s) /\ ~WoundDownStruck(s)
  <2>1. UNCHANGED <<journal, gaveUp>>
    BY <1>4 DEF disk, history,
       HandlerStep, TurnEnds, HandlerDrops, HandlerQueues, HandlerPosts, BecomesChat, HandlerNotes, QueuesOnLock, TakesLock,
       Releases, TurnBegins, ChatBegins, ChatEnds, ChatFails,
       TurnDelegates, TurnDelegatesNowhere, TurnWindsDown, TurnFails,
       WorkerConnects, WorkerReports, WorkerSaves, WorkerBreaks, WorkerParts, WorkerFailed,
       ReportJudged, ReportWindsDown, CarryOnQueued
  <2> QED BY <1>1, <2>1
<1> QED BY <1>2, <1>3, <1>4

\* What anything else does: an entry goes only with its target, or to the human; and what
\* was deleted stays deleted.
LEMMA OtherJournal ==
    ASSUME IInv, Next, ~Reboots, \A t \in Tasks : ~HandlerStep(t), NEW c \in Targets
    PROVE  /\ place[c] = "gone" => place'[c] = "gone"
           /\ c \in gaveUp => c \in gaveUp'
           /\ c \in Inflight => c \in Inflight' \/ ~Exists(c) \/ c \in gaveUp'
<1> DEFINE G == /\ place[c] = "gone" => place'[c] = "gone"
                /\ c \in gaveUp => c \in gaveUp'
                /\ c \in Inflight => c \in Inflight' \/ ~Exists(c) \/ c \in gaveUp'
<1> SUFFICES G
  OBVIOUS
<1> USE DEF IInv, TypeOK, DiskTypeOK, Inflight, Strike, Put
<1>1. ASSUME NEW t \in Tasks, AgentStep(t) PROVE G
  BY <1>1 DEF disk, history, AgentStep, DelegateRefused, DelegateAccepted
<1>2. ASSUME NEW r \in taker.runs,
             RecoveryDrops(r) \/ RecoveryGivesUp(r) \/ RecoveryCounts(r)
      PROVE  G
  BY <1>2 DEF history, RecoveryDrops, RecoveryGivesUp, RecoveryCounts
<1>3. CASE TakerStep
  BY <1>2, <1>3 DEF disk, history, TakerStep, RecoveryBegins, RecoveryResumes, OrphansCleared, DispatchBegins,
     DispatchSkips, DispatchSpawns
<1>4. CASE PauserStep \/ RestarterStep
  BY <1>4 DEF disk, history, PauserStep, PauseEnds, PauseStops, RestarterStep, RestartCommits,
     RestartLooksAgain, Leaves
<1>5. ASSUME NEW d \in Targets, Trash(d) \/ Restore(d) \/ Purge(d) PROVE G
  BY <1>5 DEF history, Trash, Restore, Purge
<1>6. CASE HumanStep
  BY <1>5, <1>6 DEF disk, history, HumanStep, HumanSends, CardCreated, PauseBegins, Resumes, ShutdownAsked
<1> QED BY <1>1, <1>3, <1>4, <1>6 DEF Next, Dies

LEMMA RunOnDiskStep ==
    ASSUME IInv, RunOnDisk, [Next]_vars
    PROVE  RunOnDisk'
<1> DEFINE Safe(c) == c \in DOMAIN journal \/ place[c] = "gone" \/ c \in gaveUp
           SafeNext(c) == c \in DOMAIN journal' \/ place'[c] = "gone" \/ c \in gaveUp'
<1>1. CASE UNCHANGED vars
  BY <1>1 DEF vars, disk, coroutines, history, RunOnDisk, On, Inflight, Exists
<1>2. CASE Reboots
  BY <1>2 DEF Reboots, FreshProcess, RunOnDisk, IdleTask, RunPcs, WorkerPcs
<1>3. ASSUME NEW s \in Tasks, HandlerStep(s) PROVE RunOnDisk'
  <2> SUFFICES ASSUME NEW t \in Tasks, task'[t].pc \in RunPcs
               PROVE  SafeNext(task'[t].target)
    BY DEF RunOnDisk, On, Inflight, Exists
  <2>1. CASE t = s /\ JournalStarts(s)
    <3>1. On(s) \in DOMAIN journal'
      BY <2>1 DEF JournalStarts, Started, Put
    <3>2. task'[s].target = On(s)
      <4>1. \/ task'[s].target = On(s)
            \/ task'[s] = IdleTask
        BY <1>3, HandlerFlow DEF Moves
      <4> QED BY <4>1, <2>1 DEF IdleTask, RunPcs, WorkerPcs
    <3> QED BY <2>1, <3>1, <3>2
  <2>2. CASE ~(t = s /\ JournalStarts(s))
    <3>1. task[t].pc \in RunPcs /\ task'[t].target = On(t)
      BY <1>3, <2>2, RunsBefore
    <3>2. Safe(On(t))
      BY <3>1 DEF RunOnDisk, Inflight, Exists
    <3>3. CASE EndsRun(s) /\ task[s].pc \in RunPcs
      <4>1. task'[s].pc = "releasing"
        BY <3>3, GoFacts DEF EndsRun, Pcs, HolderPcs, IInv, TypeOK
      <4>2. t # s
        BY <4>1 DEF RunPcs, WorkerPcs
      <4>3. On(t) # On(s)
        BY <3>1, <3>3, <4>2, RunsDiffer DEF HolderPcs
      <4> QED BY <1>3, <3>1, <3>2, <3>3, <4>3, HandlerJournal DEF EndsRun, Strike
    <3>4. CASE JournalStarts(s) /\ UNCHANGED gaveUp
      BY <1>3, <3>1, <3>2, <3>4, HandlerJournal DEF JournalStarts, Started, Put
    <3>5. CASE UNCHANGED <<journal, gaveUp>>
      BY <1>3, <3>1, <3>2, <3>5, HandlerJournal
    <3> QED BY <1>3, <3>3, <3>4, <3>5, HandlerJournal
  <2> QED BY <2>1, <2>2
<1>4. CASE Next /\ ~Reboots /\ \A t \in Tasks : ~HandlerStep(t)
  <2> SUFFICES ASSUME NEW t \in Tasks, task'[t].pc \in RunPcs
               PROVE  SafeNext(task'[t].target)
    BY DEF RunOnDisk, On, Inflight, Exists
  <2>1. task'[t] = task[t]
    <3>1. CASE UNCHANGED coroutines
      BY <3>1 DEF coroutines
    <3>2. ASSUME NEW u \in Tasks, NEW c \in Targets, NEW x \in Texts, NEW h \in BOOLEAN,
                 NEW r \in BOOLEAN, Spawn(u, c, x, h, r)
          PROVE  task'[t] = task[t]
      <4>1. Others(u) /\ task'[u].pc = "new"
        BY <3>2 DEF Spawn, NewTask, Others, IInv, TypeOK, TasksTypeOK
      <4> QED BY <4>1 DEF Others, RunPcs, WorkerPcs
    <3> QED BY <1>4, <3>1, <3>2, OtherFlow
  <2>2. On(t) \in Targets /\ Safe(On(t))
    BY <2>1 DEF RunOnDisk, IInv, Placed, RunPcs, WorkerPcs, Inflight, Exists
  <2>3. SafeNext(On(t))
    BY <1>4, <2>2, OtherJournal DEF Inflight, Exists
  <2> QED BY <2>1, <2>3 DEF On
<1> QED BY <1>1, <1>2, <1>3, <1>4

\* Wherever the process is killed, the runs it takes along are in the journal: the entry is
\* written before the first turn and struck only at the end, by the run that has the lock.
\* The exceptions are the two the code makes: a deleted target, and an entry retired by a
\* recovery that judged a live run to be dead.
THEOREM RunsSurvive == Spec => []RunOnDisk
<1>1. Init => RunOnDisk
  BY DEF Init, RunOnDisk, IdleTask, RunPcs, WorkerPcs
<1>2. IInv /\ RunOnDisk /\ [Next]_vars => RunOnDisk'
  BY RunOnDiskStep
<1> QED BY <1>1, <1>2, InvHolds, PTL DEF Spec

-----------------------------------------------------------------------------
(* Three more invariants, for every quota of pauses, resumes, deaths,      *)
(* errors, removals and restarts: a pause meets every worker, nothing      *)
(* spins for ever, and no run is a crash loop.                             *)

-----------------------------------------------------------------------------
(* What the three need to be inductive.                                    *)

\* A worker's handle, and a worker's stop, belong to a run that has got that far; and in
\* a draining process who has a handle was told, or is still on the list of the round.
WorkInv ==
    /\ \A c \in clients : \E t \in Tasks : On(t) = c /\ task[t].pc \in {"working", "saving"}
    /\ \A c \in interrupted :
          \E t \in Tasks : On(t) = c /\ task[t].pc \in {"working", "saving", "parting", "reporting"}
    /\ draining => \A c \in clients : c \in interrupted \/ (pauser.on /\ c \in pauser.todo)

\* Who clears a busy flag: the run itself, the run that recovery has just sent in or is
\* about to, or recovery when it gets there.
Accounted(c) ==
    \/ \E t \in Tasks : On(t) = c /\ task[t].pc \in HolderPcs \cup {"lockwait", "noted"}
    \/ \E t \in Tasks : On(t) = c /\ task[t].pc = "new" /\ task[t].resuming
    \/ /\ taker.pc \in {"recover", "resume"}
       /\ c \notin Inflight \/ \E r \in taker.runs : r.target = c
    \/ taker.pc = "resume" /\ taker.now.target = c

BusyInv ==
    /\ marker = paused
    /\ \A c \in busy : Exists(c)
    /\ \A c \in driving : \E t \in Tasks : On(t) = c /\ task[t].pc \in RunPcs \cup {"starting"}
    /\ ~paused /\ taker.pc # "asked" => \A c \in busy : Accounted(c)

\* A resume is counted in the entry of the run it resumes, or the run is over, or it is
\* another's by now; and recovery's list is no older than the count.
ResumeInv ==
    /\ \A c \in Targets \ Inflight : resumed[c] = 0
    /\ \A c \in Inflight : resumed[c] <= journal[c].attempts
    /\ \A r \in taker.runs : resumed[r.target] <= r.attempts
    /\ \A r, s \in taker.runs : r.target = s.target => r = s

-----------------------------------------------------------------------------
(* Who moves.                                                              *)

\* A step that is no handler's moves no coroutine that has begun, and begins none but one
\* that sat idle.
LEMMA OthersStay ==
    ASSUME IInv, Next, ~Reboots, \A t \in Tasks : ~HandlerStep(t), NEW s \in Tasks, ~At(s, "idle")
    PROVE  task'[s] = task[s]
<1>1. CASE UNCHANGED coroutines
  BY <1>1 DEF coroutines
<1>2. ASSUME NEW u \in Tasks, NEW c \in Targets, NEW x \in Texts, NEW h \in BOOLEAN,
             NEW r \in BOOLEAN, Spawn(u, c, x, h, r)
      PROVE  task'[s] = task[s]
  BY <1>2 DEF Spawn, IInv, TypeOK, TasksTypeOK
<1> QED BY <1>1, <1>2, OtherFlow

\* What has no worker keeps the marks of those that have.
LEMMA WorkerUntouched ==
    ASSUME IInv, NEW t \in Tasks, HandlerStep(t)
    PROVE  /\ UNCHANGED <<draining, pauser>>
           /\ \/ /\ UNCHANGED <<clients, interrupted>>
                 /\ task[t].pc \notin {"working", "saving", "parting", "reporting"}
              \/ WorkerConnects(t) \/ WorkerReports(t) \/ WorkerSaves(t) \/ WorkerBreaks(t)
              \/ WorkerParts(t) \/ ReportJudged(t) \/ ReportWindsDown(t) \/ TurnWindsDown(t)
BY DEF flags, server, workerState, At, Starts, Posted,
   HandlerStep, TurnEnds, HandlerDrops, HandlerQueues, HandlerPosts, BecomesChat, HandlerNotes, QueuesOnLock, TakesLock,
   JournalStarts, Releases, FailsHere, ThreadEnds, TurnBegins, ChatBegins, ChatEnds, ChatFails,
   TurnDelegates, TurnDelegatesNowhere, TurnWindsDown, TurnCompletes, TurnFails,
   WorkerConnects, WorkerReports, WorkerSaves, WorkerBreaks, WorkerParts, WorkerFailed,
   ReportJudged, ReportWindsDown, CarryOnQueued, WoundDownStruck

-----------------------------------------------------------------------------
(* A pause meets every worker.                                             *)

LEMMA WorkHandler ==
    ASSUME IInv, WorkInv, NEW t \in Tasks, HandlerStep(t)
    PROVE  WorkInv'
<1> DEFINE c == On(t)
<1>f. /\ Others(t)
      /\ Moves(t) \/ task'[t] = IdleTask
  BY HandlerFlow
<1>k. UNCHANGED <<draining, pauser>>
  BY WorkerUntouched
\* Who waits on another target is there as before.
<1>o. \A s \in Tasks : On(s) # c => task'[s] = task[s]
  BY <1>f DEF Others
<1> USE DEF WorkInv, On
<1>1. CASE UNCHANGED <<clients, interrupted>> /\ task[t].pc \notin {"working", "saving", "parting", "reporting"}
  <2>1. \A s \in Tasks : task[s].pc \in {"working", "saving", "parting", "reporting"} => task'[s] = task[s]
    BY <1>1, <1>f DEF Others
  <2> QED BY <1>1, <1>k, <2>1
<1>2. CASE WorkerConnects(t)
  <2>1. /\ clients' = clients \cup {c} /\ interrupted' = ToldAtConnect(c)
        /\ task'[t].pc = "working" /\ task'[t].target = c /\ task[t].pc = "connecting"
    BY <1>2, GoFacts DEF WorkerConnects, At, IInv, TypeOK, Pcs, HolderPcs, RunPcs, WorkerPcs
  <2>2. \A s \in Tasks : task[s].pc \in {"working", "saving", "parting", "reporting"} => task'[s] = task[s]
    BY <2>1, <1>f DEF Others
  <2> QED BY <1>k, <2>1, <2>2 DEF ToldAtConnect
<1>3. CASE WorkerReports(t) \/ WorkerSaves(t)
  <2>1. /\ UNCHANGED interrupted /\ task'[t].target = c
        /\ \/ UNCHANGED clients /\ task'[t].pc = "saving"
           \/ clients' = clients \ {c} /\ task'[t].pc = "parting"
    BY <1>3, GoFacts DEF WorkerReports, WorkerSaves, IInv, TypeOK, Pcs, HolderPcs, RunPcs, WorkerPcs
  <2> QED BY <1>k, <1>o, <1>f, <2>1 DEF Others
<1>4. CASE WorkerBreaks(t)
  <2>1. /\ UNCHANGED interrupted /\ task'[t].target = c /\ clients' = clients \ {c}
        /\ c \in interrupted => task'[t].pc = "parting"
    BY <1>4, GoFacts DEF WorkerBreaks, IInv, TypeOK, Pcs, HolderPcs, RunPcs, WorkerPcs
  <2> QED BY <1>k, <1>o, <1>f, <2>1 DEF Others
<1>5. CASE WorkerParts(t)
  <2>1. /\ UNCHANGED <<interrupted, clients>> /\ task[t].pc = "parting"
        /\ task'[t].target = c /\ task'[t].pc = "reporting"
    BY <1>5, GoFacts DEF WorkerParts, At, IInv, TypeOK, Pcs, HolderPcs, RunPcs, WorkerPcs
  <2> QED BY <1>k, <1>f, <2>1 DEF Others
<1>6. CASE ReportJudged(t)
  <2>1. UNCHANGED <<interrupted, clients>> /\ task[t].pc = "reporting" /\ c \notin interrupted
    BY <1>6 DEF ReportJudged, ReportIsWhole, workerState, At
  <2> QED BY <1>k, <1>f, <1>o, <2>1 DEF Others
<1>7. CASE ReportWindsDown(t) \/ TurnWindsDown(t)
  <2>1. /\ UNCHANGED clients /\ interrupted' = interrupted \ {c}
        /\ task[t].pc \in {"reporting", "turn"}
    BY <1>7 DEF ReportWindsDown, TurnWindsDown, At
  <2>2. \A s \in Tasks : task[s].pc \in {"working", "saving"} => On(s) # c
    BY <2>1, RunsDiffer DEF HolderPcs, RunPcs, WorkerPcs
  <2> QED BY <1>k, <1>o, <2>1, <2>2
<1> QED BY <1>1, <1>2, <1>3, <1>4, <1>5, <1>6, <1>7, WorkerUntouched

LEMMA WorkStep ==
    ASSUME IInv, WorkInv, [Next]_vars
    PROVE  WorkInv'
<1>1. CASE UNCHANGED vars
  BY <1>1 DEF vars, flags, workerState, coroutines, server, WorkInv, On
<1>2. CASE Reboots
  BY <1>2 DEF Reboots, FreshProcess, WorkInv
<1>3. CASE Next /\ ~Reboots /\ \A t \in Tasks : ~HandlerStep(t)
  <2>s. \A s \in Tasks : task[s].pc \in {"working", "saving", "parting", "reporting"} => task'[s] = task[s]
    BY <1>3, OthersStay DEF At
  <2> USE DEF WorkInv, On
  <2>k. ASSUME UNCHANGED <<clients, interrupted, draining, pauser>> PROVE WorkInv'
    BY <2>s, <2>k
  <2>1. ASSUME NEW t \in Tasks, AgentStep(t) PROVE WorkInv'
    BY <2>1, <2>k DEF AgentStep, DelegateRefused, DelegateAccepted, flags, workerState, server
  <2>2. CASE TakerStep
    BY <2>2, <2>k DEF flags, workerState, TakerStep, RecoveryBegins, RecoveryDrops, RecoveryGivesUp,
       RecoveryCounts, RecoveryResumes, OrphansCleared, DispatchBegins, DispatchSkips, DispatchSpawns
  <2>3. ASSUME NEW c \in pauser.todo, PauseStops(c) PROVE WorkInv'
    <3>1. /\ UNCHANGED <<clients, draining>> /\ interrupted' = ToldToStop(c)
          /\ pauser' = [pauser EXCEPT !.todo = @ \ {c}]
      BY <2>3 DEF PauseStops, flags
    <3>2. pauser'.on = pauser.on /\ pauser'.todo = pauser.todo \ {c}
      BY <3>1 DEF IInv, TypeOK, ServerTypeOK
    <3> QED BY <2>s, <3>1, <3>2 DEF ToldToStop
  <2>4. CASE PauseEnds
    BY <2>s, <2>4 DEF PauseEnds, PauseDone, NoPause, workerState
  <2>5. CASE RestartCommits \/ RestartLooksAgain
    BY <2>5, <2>k DEF RestartCommits, RestartLooksAgain, workerState
  <2>6. ASSUME NEW m \in BOOLEAN, NEW r \in BOOLEAN, PauseBegins(m, r) PROVE WorkInv'
    BY <2>s, <2>6 DEF PauseBegins, PauseDone, NoPause, workerState
  <2>7. CASE Resumes
    BY <2>s, <2>7 DEF Resumes, workerState
  <2>8. CASE HumanStep
    BY <2>k, <2>6, <2>7, <2>8 DEF HumanStep, HumanSends, CardCreated, ShutdownAsked, Trash, Restore, Purge,
       flags, workerState, server
  <2> QED BY <1>3, <2>1, <2>2, <2>3, <2>4, <2>5, <2>8 DEF Next, PauserStep, RestarterStep, Leaves, Dies
<1> QED BY <1>1, <1>2, <1>3, WorkHandler

\* A drain meets every worker, also one that connects while the round is made or ends
\* before its turn in it; and what it marks is going to be wound down.
THEOREM PauseMeetsAll == Spec => []StopMeetsEveryWorker
<1>1. Init => WorkInv
  BY DEF Init, WorkInv
<1>2. IInv /\ WorkInv /\ [Next]_vars => WorkInv'
  BY WorkStep
<1>3. WorkInv => StopMeetsEveryWorker
  BY DEF WorkInv, StopMeetsEveryWorker
<1> QED BY <1>1, <1>2, <1>3, InvHolds, PTL DEF Spec

-----------------------------------------------------------------------------
(* Nothing spins for ever.                                                 *)

\* What a handler does to the flags and to what explains them.
LEMMA HandlerBusy ==
    ASSUME IInv, NEW t \in Tasks, HandlerStep(t)
    PROVE  /\ UNCHANGED <<marker, paused, place, taker>>
           /\ \/ TakesLock(t) /\ Inflight' = Inflight
              \/ Releases(t) /\ UNCHANGED driving /\ Inflight' = Inflight
              \/ EndsRun(t) /\ UNCHANGED busy /\ task[t].pc \in RunPcs
              \/ /\ ~TakesLock(t) /\ ~Releases(t)
                 /\ UNCHANGED <<busy, driving>>
                 /\ Inflight' = Inflight \/ JournalStarts(t)
<1>1. UNCHANGED <<marker, paused, place, taker>>
  BY DEF disk, flags, server, EndsRun,
     HandlerStep, TurnEnds, HandlerDrops, HandlerQueues, HandlerPosts, BecomesChat, HandlerNotes, QueuesOnLock, TakesLock,
     JournalStarts, Releases, FailsHere, ThreadEnds, TurnBegins, ChatBegins, ChatEnds, ChatFails,
     TurnDelegates, TurnDelegatesNowhere, TurnWindsDown, TurnCompletes, TurnFails,
     WorkerConnects, WorkerReports, WorkerSaves, WorkerBreaks, WorkerParts, WorkerFailed,
     ReportJudged, ReportWindsDown, CarryOnQueued, WoundDownStruck
<1>2. CASE TakesLock(t) \/ Releases(t)
  BY <1>1, <1>2 DEF TakesLock, Releases, Inflight
<1>3. CASE FailsHere(t) \/ ThreadEnds(t) \/ TurnCompletes(t) \/ WoundDownStruck(t)
  BY <1>1, <1>3 DEF FailsHere, ThreadEnds, TurnCompletes, WoundDownStruck, At, RunPcs
<1>4. CASE /\ ~FailsHere(t) /\ ~ThreadEnds(t) /\ ~TurnCompletes(t) /\ ~WoundDownStruck(t)
           /\ ~TakesLock(t) /\ ~Releases(t)
  <2>1. UNCHANGED <<busy, driving>> /\ (journal' = journal \/ JournalStarts(t))
    BY <1>4 DEF disk,
       HandlerStep, TurnEnds, HandlerDrops, HandlerQueues, HandlerPosts, BecomesChat, HandlerNotes, QueuesOnLock, JournalStarts,
       TurnBegins, ChatBegins, ChatEnds, ChatFails,
       TurnDelegates, TurnDelegatesNowhere, TurnWindsDown, TurnFails,
       WorkerConnects, WorkerReports, WorkerSaves, WorkerBreaks, WorkerParts, WorkerFailed,
       ReportJudged, ReportWindsDown, CarryOnQueued
  <2> QED BY <1>1, <1>4, <2>1 DEF Inflight
<1> QED BY <1>2, <1>3, <1>4, <1>1

\* The way of a run, from its handler's first step to the release of its lock.
Onward(p, q) ==
    \/ p \in {"new", "posted"} /\ q \in {"noted", "lockwait"}
    \/ p = "noted" /\ q = "lockwait"
    \/ p = "lockwait" /\ q = "starting"
    \/ p = "starting" /\ q \in RunPcs
    \/ p \in RunPcs /\ q \in RunPcs

\* A coroutine leaves its place in front of a target only when its run is over, when its
\* target is gone, when the message waits for the next process, or to be a chat turn
\* beside the run of another.
LEMMA GoesOn ==
    ASSUME IInv, NEW t \in Tasks, HandlerStep(t)
    PROVE  \/ HandlerDrops(t) \/ HandlerQueues(t) \/ HandlerPosts(t) \/ BecomesChat(t) \/ Releases(t)
           \/ task[t].pc \in {"chatwait", "chat"}
           \/ /\ EndsRun(t) /\ task[t].pc \in RunPcs
              /\ task'[t].target = On(t) /\ task'[t].pc = "releasing"
           \/ /\ Onward(task[t].pc, task'[t].pc)
              /\ task'[t].target = On(t) /\ task'[t].resuming = task[t].resuming
<1> DEFINE G == /\ Onward(task[t].pc, task'[t].pc)
                /\ task'[t].target = On(t) /\ task'[t].resuming = task[t].resuming
<1> USE DEF IInv, TypeOK, At
<1>g. ASSUME NEW p \in Pcs, Go(t, p), Onward(task[t].pc, p) PROVE G
  BY <1>g DEF Go, TasksTypeOK, Task, On
<1>h. ASSUME NEW p \in Pcs, NEW h \in BOOLEAN, GoAs(t, p, h), Onward(task[t].pc, p) PROVE G
  BY <1>h DEF GoAs, TasksTypeOK, Task, On
<1>a. ASSUME NEW h \in BOOLEAN, AwaitTurn(t, h), Onward(task[t].pc, "turnwait") PROVE G
  BY <1>a DEF AwaitTurn, TasksTypeOK, Task, On
<1>e. ASSUME EndsRun(t), task[t].pc \in RunPcs
      PROVE  task'[t].target = On(t) /\ task'[t].pc = "releasing"
  BY <1>e, GoFacts DEF EndsRun, Pcs, HolderPcs
<1> HIDE DEF G
<1> USE DEF Pcs, HolderPcs, RunPcs, WorkerPcs, Onward
<1>1. CASE HandlerNotes(t) \/ QueuesOnLock(t) \/ TakesLock(t)
  <2>1. G
    BY <1>1, <1>g DEF HandlerNotes, QueuesOnLock, TakesLock, Starts, Posted
  <2> QED BY <2>1 DEF G
<1>2. CASE JournalStarts(t)
  <2>1. task[t].human \in BOOLEAN
    BY TaskFacts
  <2>2. G
    BY <1>2, <2>1, <1>g, <1>a DEF JournalStarts
  <2> QED BY <2>2 DEF G
<1>3. CASE FailsHere(t) \/ ThreadEnds(t) \/ TurnCompletes(t) \/ WoundDownStruck(t)
  BY <1>3, <1>e DEF FailsHere, ThreadEnds, TurnCompletes, WoundDownStruck
<1>4. CASE TurnBegins(t) \/ TurnFails(t) \/ TurnWindsDown(t) \/ ReportWindsDown(t) \/ CarryOnQueued(t)
  <2>1. G
    BY <1>4, <1>g DEF TurnBegins, TurnFails, TurnWindsDown, ReportWindsDown, CarryOnQueued
  <2> QED BY <2>1 DEF G
<1>5. CASE TurnDelegates(t) \/ TurnDelegatesNowhere(t) \/ ReportJudged(t)
  <2>1. task[t].human \in BOOLEAN
    BY TaskFacts
  <2>2. G
    BY <1>5, <2>1, <1>g, <1>h, <1>a DEF TurnDelegates, TurnDelegatesNowhere, ReportJudged
  <2> QED BY <2>2 DEF G
<1>6. CASE WorkerConnects(t) \/ WorkerReports(t) \/ WorkerSaves(t) \/ WorkerBreaks(t) \/ WorkerParts(t)
           \/ WorkerFailed(t)
  <2>1. G
    BY <1>6, <1>g DEF WorkerConnects, WorkerReports, WorkerSaves, WorkerBreaks, WorkerParts, WorkerFailed
  <2> QED BY <2>1 DEF G
<1>7. CASE ChatBegins(t) \/ ChatEnds(t) \/ ChatFails(t)
  BY <1>7 DEF ChatBegins, ChatEnds, ChatFails
<1> QED
  BY <1>1, <1>2, <1>3, <1>4, <1>5, <1>6, <1>7 DEF HandlerStep, TurnEnds

\* A flag that was accounted for is, or was cleared.
LEMMA AccountedHandler ==
    ASSUME IInv, BusyInv, NEW t \in Tasks, HandlerStep(t), NEW c \in busy, Accounted(c), c \in busy'
    PROVE  Accounted(c)'
<1>f. Others(t)
  BY HandlerFlow
<1>b. /\ UNCHANGED <<marker, paused, place, taker>>
      /\ c \in Inflight' => c \in Inflight \/ (JournalStarts(t) /\ On(t) = c)
  BY HandlerBusy DEF EndsRun, JournalStarts, Started, Put, Strike, Inflight
<1> USE DEF Accounted, On, HolderPcs, RunPcs, WorkerPcs
<1>1. CASE On(t) # c
  BY <1>1, <1>f, <1>b DEF Others
<1>2. CASE On(t) = c
  <2>1. CASE /\ Onward(task[t].pc, task'[t].pc)
             /\ task'[t].target = On(t)
    BY <1>2, <2>1 DEF Onward
  <2>2. CASE EndsRun(t) /\ task'[t].target = On(t) /\ task'[t].pc = "releasing"
    BY <1>2, <2>2
  <2>3. CASE HandlerDrops(t)
    BY <1>2, <2>3 DEF HandlerDrops, BusyInv
  <2>4. CASE Releases(t)
    BY <1>2, <2>4 DEF Releases
  <2>5. CASE task[t].pc \in {"chatwait", "chat"}
    <3>1. ~JournalStarts(t)
      BY <2>5 DEF JournalStarts, At
    <3>2. \A s \in Tasks : task[s].pc \in HolderPcs \cup {"lockwait", "noted", "new"} => task'[s] = task[s]
      BY <2>5, <1>f DEF Others
    <3> QED BY <3>1, <3>2, <1>b
  <2>6. CASE HandlerQueues(t) \/ HandlerPosts(t)
    <3>1. task[t].pc = "new" /\ ~task[t].resuming /\ Inflight' = Inflight
      BY <2>6 DEF HandlerQueues, HandlerPosts, Starts, At, disk, Inflight
    <3> QED BY <3>1, <1>f, <1>b DEF Others
  <2>7. CASE BecomesChat(t)
    <3>1. On(t) \in driving /\ task[t].pc \in {"new", "posted"}
      BY <2>7 DEF BecomesChat, Posted, Starts, At
    <3>2. PICK s \in Tasks : On(s) = c /\ task[s].pc \in RunPcs \cup {"starting"}
      BY <1>2, <3>1 DEF BusyInv
    <3>3. s # t /\ task'[s] = task[s]
      BY <3>1, <3>2, <1>f DEF Others
    <3> QED BY <3>2, <3>3
  <2> QED BY <2>1, <2>2, <2>3, <2>4, <2>5, <2>6, <2>7, GoesOn
<1> QED BY <1>1, <1>2

LEMMA BusyHandler ==
    ASSUME IInv, BusyInv, NEW t \in Tasks, HandlerStep(t)
    PROVE  BusyInv'
<1>f. Others(t)
  BY HandlerFlow
<1>b. UNCHANGED <<marker, paused, place, taker>>
  BY HandlerBusy
<1>1. \A c \in busy' : c \in busy \/ (TakesLock(t) /\ c = On(t) /\ Exists(c))
  BY HandlerBusy DEF TakesLock, Releases
<1>l. TakesLock(t) => task'[t].pc = "starting" /\ task'[t].target = On(t)
  BY GoFacts DEF TakesLock, IInv, TypeOK, Pcs, HolderPcs
<1>2. \A c \in busy' : Exists(c)'
  BY <1>1, <1>b DEF BusyInv, Exists
<1>3. ASSUME NEW c \in driving'
      PROVE  \E s \in Tasks : task'[s].target = c /\ task'[s].pc \in RunPcs \cup {"starting"}
  <2>1. CASE TakesLock(t) /\ c = On(t)
    BY <1>l, <2>1
  <2>2. CASE ~(TakesLock(t) /\ c = On(t))
    <3>1. c \in driving /\ (EndsRun(t) => c # On(t))
      BY <2>2, HandlerBusy DEF TakesLock, EndsRun
    <3>2. PICK s \in Tasks : On(s) = c /\ task[s].pc \in RunPcs \cup {"starting"}
      BY <3>1 DEF BusyInv
    <3>3. CASE s # t
      BY <3>2, <3>3, <1>f DEF Others, On
    <3>4. CASE s = t
      <4>1. /\ Onward(task[t].pc, task'[t].pc)
            /\ task'[t].target = On(t)
        BY <3>1, <3>2, <3>4, GoesOn DEF HandlerDrops, HandlerQueues, HandlerPosts, BecomesChat, Releases,
           Starts, Posted, At, RunPcs, WorkerPcs
      <4> QED BY <3>2, <3>4, <4>1 DEF Onward, RunPcs, WorkerPcs
    <3> QED BY <3>3, <3>4
  <2> QED BY <2>1, <2>2
<1>4. ASSUME ~paused', taker'.pc # "asked", NEW c \in busy'
      PROVE  Accounted(c)'
  <2>1. CASE TakesLock(t) /\ c = On(t)
    BY <1>l, <2>1 DEF Accounted, On, HolderPcs
  <2>2. CASE ~(TakesLock(t) /\ c = On(t))
    <3>1. c \in busy /\ Accounted(c)
      BY <1>1, <1>4, <1>b, <2>2 DEF BusyInv
    <3> QED BY <1>4, <3>1, AccountedHandler
  <2> QED BY <2>1, <2>2
<1> QED BY <1>b, <1>2, <1>3, <1>4 DEF BusyInv, On

\* Recovery's list names every entry there is.
LEMMA SnapshotComplete == \A c \in Inflight : \E r \in Snapshot(journal) : r.target = c
<1> SUFFICES ASSUME NEW c \in Inflight PROVE \E r \in Snapshot(journal) : r.target = c
  OBVIOUS
<1> DEFINE r == [target |-> c, text |-> journal[c].text, attempts |-> journal[c].attempts]
<1>1. r.target = c /\ r \in Snapshot(journal)
  BY DEF Snapshot, Inflight
<1> QED BY <1>1

\* Recovery accounts for what a dead process left.
LEMMA BusyTaker ==
    ASSUME IInv, BusyInv, TakerStep, \A s \in Tasks : ~At(s, "idle") => task'[s] = task[s]
    PROVE  BusyInv'
<1>s. /\ UNCHANGED <<marker, paused, place, driving>> /\ busy' \subseteq busy
  BY DEF TakerStep, RecoveryBegins, RecoveryDrops, RecoveryGivesUp, RecoveryCounts, RecoveryResumes, OrphansCleared,
     DispatchBegins, DispatchSkips, DispatchSpawns, disk, flags
<1>1. /\ marker' = paused'
      /\ \A c \in busy' : Exists(c)'
      /\ \A c \in driving' : \E t \in Tasks : task'[t].target = c /\ task'[t].pc \in RunPcs \cup {"starting"}
  BY <1>s DEF BusyInv, Exists, On, At, RunPcs, WorkerPcs
<1>2. ASSUME ~paused', taker'.pc # "asked", NEW c \in busy'
      PROVE  Accounted(c)'
  <2>k. ASSUME \E t \in Tasks : /\ On(t) = c
                               /\ \/ task[t].pc \in HolderPcs \cup {"lockwait", "noted"}
                                  \/ task[t].pc = "new" /\ task[t].resuming
        PROVE  Accounted(c)'
    BY <2>k DEF At, Accounted, On, HolderPcs, RunPcs, WorkerPcs
  <2>1. CASE RecoveryBegins
    <3>1. taker'.pc = "recover" /\ taker'.runs = Snapshot(journal) /\ UNCHANGED journal
      BY <2>1 DEF RecoveryBegins, disk, IInv, TypeOK, ServerTypeOK
    <3> QED BY <3>1, SnapshotComplete DEF Accounted, Inflight
  <2>2. CASE taker.pc = "asked" /\ ~RecoveryBegins
    BY <2>2 DEF TakerStep, OrphansCleared, DispatchBegins, DispatchSkips, DispatchSpawns,
       RecoveryDrops, RecoveryGivesUp, RecoveryCounts, RecoveryResumes, Recovering
  <2>3. CASE taker.pc # "asked"
    <3>1. Accounted(c)
      BY <1>2, <1>s, <2>3 DEF BusyInv
    <3>2. ASSUME NEW r \in taker.runs, RecoveryDrops(r) \/ RecoveryGivesUp(r) PROVE Accounted(c)'
      <4>1. /\ taker.pc = "recover" /\ taker'.pc = "recover"
            /\ taker'.runs = taker.runs \ {r} /\ c # r.target
        BY <3>2, <1>s DEF RecoveryDrops, RecoveryGivesUp, Recovering, IInv, TypeOK, ServerTypeOK, BusyInv
      <4>2. Inflight' \subseteq Inflight
        BY <3>2 DEF RecoveryDrops, RecoveryGivesUp, Inflight, Strike
      <4> QED BY <2>k, <3>1, <4>1, <4>2 DEF Accounted
    <3>3. ASSUME NEW r \in taker.runs, RecoveryCounts(r) PROVE Accounted(c)'
      <4>1. /\ taker.pc = "recover" /\ taker'.pc = "resume"
            /\ taker'.runs = taker.runs \ {r} /\ taker'.now = r
            /\ Inflight' = Inflight \cup {r.target}
        BY <3>3 DEF RecoveryCounts, IInv, TypeOK, ServerTypeOK, Inflight, Put
      <4>2. CASE c = r.target
        BY <4>1, <4>2 DEF Accounted
      <4>3. CASE c # r.target
        BY <2>k, <3>1, <4>1, <4>3 DEF Accounted
      <4> QED BY <4>2, <4>3
    <3>6. ASSUME NEW t \in Tasks, RecoveryResumes(t) PROVE Accounted(c)'
      <4>1. /\ taker.pc = "resume" /\ taker'.pc = "recover" /\ taker'.runs = taker.runs
            /\ Inflight' = Inflight
        BY <3>6 DEF RecoveryResumes, IInv, TypeOK, ServerTypeOK, Inflight, disk
      <4>2. task'[t].target = taker.now.target /\ task'[t].pc = "new" /\ task'[t].resuming
        BY <3>6 DEF RecoveryResumes, Spawn, NewTask, IInv, TypeOK, TasksTypeOK
      <4>3. CASE c = taker.now.target
        BY <4>2, <4>3 DEF Accounted, On
      <4>4. CASE c # taker.now.target
        BY <2>k, <3>1, <4>1, <4>4 DEF Accounted
      <4> QED BY <4>3, <4>4
    <3>4. CASE OrphansCleared
      <4>1. taker.pc = "recover" /\ taker.runs = {} /\ c \in Inflight
        BY <3>4 DEF OrphansCleared, Orphans
      <4> QED BY <2>k, <3>1, <4>1 DEF Accounted
    <3>5. CASE RecoveryBegins \/ DispatchBegins \/ DispatchSkips \/ \E t \in Tasks : DispatchSpawns(t)
      <4>1. taker.pc \notin {"recover", "resume"}
        BY <3>5 DEF RecoveryBegins, DispatchBegins, DispatchSkips, DispatchSpawns
      <4> QED BY <2>k, <3>1, <4>1 DEF Accounted
    <3> QED BY <3>2, <3>3, <3>4, <3>5, <3>6 DEF TakerStep
  <2> QED BY <2>1, <2>2, <2>3
<1> QED BY <1>1, <1>2 DEF BusyInv, On

LEMMA BusyStep ==
    ASSUME IInv, BusyInv, [Next]_vars
    PROVE  BusyInv'
<1>1. CASE UNCHANGED vars
  BY <1>1 DEF vars, disk, flags, coroutines, server, BusyInv, Accounted, Exists, On, Inflight
<1>2. CASE Reboots
  <2>2. /\ paused' = marker /\ driving' = {} /\ UNCHANGED <<journal, marker, busy, place>>
        /\ ~marker => taker'.pc = "recover" /\ taker'.runs = Snapshot(journal)
    BY <1>2 DEF Reboots, FreshProcess, disk, IdleTaker
  <2> QED BY <2>2, SnapshotComplete DEF BusyInv, Accounted, Exists, Inflight
<1>3. CASE Next /\ ~Reboots /\ \A t \in Tasks : ~HandlerStep(t)
  <2>s. \A s \in Tasks : ~At(s, "idle") => task'[s] = task[s]
    BY <1>3, OthersStay
  <2>m. \A s \in Tasks : task[s].pc \in HolderPcs \cup {"lockwait", "noted", "new"} => task'[s] = task[s]
    BY <2>s DEF At, HolderPcs, RunPcs, WorkerPcs
  <2>d. UNCHANGED driving =>
            \A c \in driving' : \E t \in Tasks : task'[t].target = c /\ task'[t].pc \in RunPcs \cup {"starting"}
    BY <2>m DEF BusyInv, On, HolderPcs
  <2>k. ASSUME busy' \subseteq busy, Inflight' = Inflight, UNCHANGED <<driving, taker>>, marker' = paused',
               ~paused' => ~paused, \A c \in busy' : Exists(c)'
        PROVE  BusyInv'
    <3>1. ASSUME ~paused', taker'.pc # "asked", NEW c \in busy' PROVE Accounted(c)'
      <4>1. Accounted(c)
        BY <2>k, <3>1 DEF BusyInv
      <4> QED BY <2>m, <2>k, <4>1 DEF Accounted, On
    <3> QED BY <2>d, <2>k, <3>1 DEF BusyInv, On
  <2>e. UNCHANGED place => \A c \in busy : Exists(c)'
    BY DEF BusyInv, Exists
  <2>1. ASSUME NEW t \in Tasks, AgentStep(t) PROVE BusyInv'
    BY <2>1, <2>k, <2>e DEF AgentStep, DelegateRefused, DelegateAccepted, disk, flags, server, BusyInv, Inflight
  <2>2. CASE TakerStep
    BY <2>2, <2>s, BusyTaker
  <2>p. ASSUME NEW m \in BOOLEAN, NEW r \in BOOLEAN, PauseDone(m, r),
               UNCHANGED <<journal, busy, place, driving, taker>>
        PROVE  BusyInv'
    BY <2>p, <2>k, <2>e DEF PauseDone, BusyInv, Inflight, IInv, TypeOK, DiskTypeOK, ManagerTypeOK
  <2>3. CASE PauserStep \/ RestartCommits \/ RestartLooksAgain
    BY <2>3, <2>k, <2>e, <2>p DEF PauserStep, PauseEnds, PauseStops, RestartCommits, RestartLooksAgain,
       disk, flags, BusyInv, Inflight, IInv, TypeOK, ServerTypeOK
  <2>4. ASSUME NEW m \in BOOLEAN, NEW r \in BOOLEAN, PauseBegins(m, r) PROVE BusyInv'
    BY <2>4, <2>k, <2>e, <2>p DEF PauseBegins, BusyInv, Inflight
  <2>5. CASE Resumes
    <3>1. /\ UNCHANGED <<journal, busy, place, driving>> /\ marker' = FALSE /\ paused' = FALSE /\ taker'.pc = "asked"
      BY <2>5 DEF Resumes, IInv, TypeOK, ServerTypeOK
    <3> QED BY <2>d, <2>e, <3>1 DEF BusyInv, On, IInv, TypeOK, DiskTypeOK
  <2>6. ASSUME NEW c \in Targets, Trash(c) \/ Restore(c) \/ Purge(c) PROVE BusyInv'
    BY <2>6, <2>k DEF Trash, Restore, Purge, flags, server, BusyInv, Exists, Inflight, IInv, TypeOK, DiskTypeOK
  <2>7. CASE HumanStep
    BY <2>k, <2>e, <2>4, <2>5, <2>6, <2>7 DEF HumanStep, HumanSends, CardCreated, ShutdownAsked,
       disk, flags, server, BusyInv, Inflight
  <2> QED BY <1>3, <2>1, <2>2, <2>3, <2>7 DEF Next, RestarterStep, Leaves, Dies
<1> QED BY <1>1, <1>2, <1>3, BusyHandler

\* Whatever a death, an error, a deleted target or a retired entry leaves behind, a board at
\* rest shows nothing as busy: recovery clears what no run is going to.
THEOREM NothingSpins == Spec => []NoStuckBusy
<1>1. Init => BusyInv
  BY DEF Init, BusyInv, Accounted
<1>2. IInv /\ BusyInv /\ [Next]_vars => BusyInv'
  BY BusyStep
<1>3. BusyInv => NoStuckBusy
  BY DEF BusyInv, NoStuckBusy, Quiet, Accounted, At, HolderPcs, RunPcs, WorkerPcs
<1> QED BY <1>1, <1>2, <1>3, InvHolds, PTL DEF Spec

-----------------------------------------------------------------------------
(* No run is a crash loop.                                                 *)

\* What a handler does to the entries and to the count of their resumes.
LEMMA HandlerResumes ==
    ASSUME IInv, NEW t \in Tasks, HandlerStep(t)
    PROVE  /\ UNCHANGED taker
           /\ JournalStarts(t) \/ EndsRun(t) \/ UNCHANGED <<journal, resumed>>
BY DEF disk, server, history,
   HandlerStep, TurnEnds, HandlerDrops, HandlerQueues, HandlerPosts, BecomesChat, HandlerNotes, QueuesOnLock, TakesLock,
   Releases, FailsHere, ThreadEnds, TurnBegins, ChatBegins, ChatEnds, ChatFails,
   TurnDelegates, TurnDelegatesNowhere, TurnWindsDown, TurnCompletes, TurnFails, JournalStarts,
   WorkerConnects, WorkerReports, WorkerSaves, WorkerBreaks, WorkerParts, WorkerFailed,
   ReportJudged, ReportWindsDown, CarryOnQueued, WoundDownStruck

\* A handler that takes a step is there.
LEMMA HandlerBegun ==
    ASSUME NEW t \in Tasks, HandlerStep(t)
    PROVE  task[t].pc # "idle"
BY DEF At, Starts, Posted,
   HandlerStep, TurnEnds, HandlerDrops, HandlerQueues, HandlerPosts, BecomesChat, HandlerNotes, QueuesOnLock, TakesLock,
   Releases, FailsHere, ThreadEnds, TurnBegins, ChatBegins, ChatEnds, ChatFails,
   TurnDelegates, TurnDelegatesNowhere, TurnWindsDown, TurnCompletes, TurnFails, JournalStarts,
   WorkerConnects, WorkerReports, WorkerSaves, WorkerBreaks, WorkerParts, WorkerFailed,
   ReportJudged, ReportWindsDown, CarryOnQueued, WoundDownStruck

LEMMA ResumeStep ==
    ASSUME IInv, ResumeInv, [Next]_vars
    PROVE  ResumeInv'
<1>t. /\ resumed \in [Targets -> Nat] /\ DOMAIN journal \subseteq Targets
      /\ \A d \in DOMAIN journal : journal[d].attempts \in Nat
      /\ \A r \in taker.runs : r.target \in Targets /\ r.attempts \in Nat
  BY ConstantsOK DEF IInv, TypeOK, DiskTypeOK, HistoryTypeOK, ServerTypeOK, Entry
\* The count of one target is nought from now on, and its entry is struck or begun.
<1>r. ASSUME NEW c \in Targets, resumed' = [resumed EXCEPT ![c] = 0], taker'.runs \subseteq taker.runs,
             \A d \in Targets \ {c} : /\ d \in Inflight' <=> d \in Inflight
                                      /\ d \in Inflight => journal'[d] = journal[d],
             Inflight' \subseteq Targets, c \in Inflight' => journal'[c].attempts \in Nat
      PROVE  ResumeInv'
  BY <1>t, <1>r DEF ResumeInv
<1>n. ASSUME UNCHANGED <<journal, resumed>>, taker'.runs \subseteq taker.runs PROVE ResumeInv'
  BY <1>t, <1>n DEF ResumeInv, Inflight
<1>1. CASE UNCHANGED vars
  BY <1>1, <1>n DEF vars, disk, server, history
<1>2. CASE Reboots
  <2>1. /\ UNCHANGED <<journal, resumed>>
        /\ taker'.runs = {} \/ taker'.runs = Snapshot(journal)
    BY <1>2 DEF Reboots, FreshProcess, disk, IdleTaker
  <2>2. /\ \A r \in Snapshot(journal) : resumed[r.target] <= r.attempts
        /\ \A r, s \in Snapshot(journal) : r.target = s.target => r = s
    BY DEF Snapshot, ResumeInv, Inflight
  <2> QED BY <2>1, <2>2 DEF ResumeInv, Inflight
<1>3. ASSUME NEW t \in Tasks, HandlerStep(t) PROVE ResumeInv'
  <2>1. CASE EndsRun(t)
    <3>1. On(t) \in Targets
      <4>1. task[t].pc # "idle"
        BY <1>3, HandlerBegun
      <4> QED BY <4>1 DEF IInv, Placed
    <3>2. /\ resumed' = [resumed EXCEPT ![On(t)] = 0] /\ journal' = Strike(journal, On(t))
          /\ taker' = taker
      BY <1>3, <2>1, HandlerResumes DEF EndsRun
    <3> QED BY <1>t, <1>r, <3>1, <3>2 DEF Strike, Inflight
  <2>2. CASE JournalStarts(t)
    <3>1. /\ On(t) \in Targets /\ taker' = taker
          /\ journal' = Put(journal, On(t), [text |-> task[t].text, attempts |-> AttemptsSoFar(On(t))])
          /\ resumed' = resumed \/ resumed' = [resumed EXCEPT ![On(t)] = 0]
      BY <1>3, <2>2, HandlerResumes DEF JournalStarts, Started, IInv, Placed, At
    <3>2. /\ Inflight' = Inflight \cup {On(t)}
          /\ journal'[On(t)].attempts = AttemptsSoFar(On(t))
          /\ \A d \in Inflight \ {On(t)} : journal'[d] = journal[d]
      BY <3>1 DEF Put, Inflight
    <3>3. AttemptsSoFar(On(t)) \in Nat /\ resumed[On(t)] <= AttemptsSoFar(On(t))
      BY <1>t, <3>1 DEF AttemptsSoFar, ResumeInv, Inflight
    <3>4. CASE resumed' = resumed
      BY <1>t, <3>1, <3>2, <3>3, <3>4 DEF ResumeInv
    <3>5. CASE resumed' = [resumed EXCEPT ![On(t)] = 0]
      BY <1>t, <1>r, <3>1, <3>2, <3>3, <3>5 DEF Inflight
    <3> QED BY <3>1, <3>4, <3>5
  <2> QED BY <1>3, <1>n, <2>1, <2>2, HandlerResumes
<1>4. CASE TakerStep
  <2>1. CASE RecoveryBegins
    <3>1. UNCHANGED <<journal, resumed>> /\ taker'.runs = Snapshot(journal)
      BY <2>1 DEF RecoveryBegins, disk, history, IInv, TypeOK, ServerTypeOK
    <3>2. /\ \A r \in Snapshot(journal) : resumed[r.target] <= r.attempts
          /\ \A r, s \in Snapshot(journal) : r.target = s.target => r = s
      BY DEF Snapshot, ResumeInv, Inflight
    <3> QED BY <3>1, <3>2 DEF ResumeInv, Inflight
  <2>2. ASSUME NEW r \in taker.runs, RecoveryDrops(r) \/ RecoveryGivesUp(r) PROVE ResumeInv'
    <3>1. /\ resumed' = [resumed EXCEPT ![r.target] = 0] /\ journal' = Strike(journal, r.target)
          /\ taker'.runs \subseteq taker.runs
      BY <2>2 DEF RecoveryDrops, RecoveryGivesUp, Recovering, IInv, TypeOK, ServerTypeOK
    <3> QED BY <1>t, <1>r, <3>1 DEF Strike, Inflight
  <2>3. ASSUME NEW r \in taker.runs, RecoveryCounts(r) PROVE ResumeInv'
    <3>1. /\ resumed' = [resumed EXCEPT ![r.target] = resumed[r.target] + 1]
          /\ journal' = Put(journal, r.target, [text |-> r.text, attempts |-> r.attempts + 1])
          /\ taker'.runs = taker.runs \ {r}
      BY <2>3 DEF RecoveryCounts, IInv, TypeOK, ServerTypeOK
    <3>2. /\ Inflight' = Inflight \cup {r.target}
          /\ journal'[r.target].attempts = r.attempts + 1
          /\ \A d \in Inflight \ {r.target} : journal'[d] = journal[d]
      BY <3>1 DEF Put, Inflight
    <3>3. \A s \in taker'.runs : s \in taker.runs /\ s.target # r.target
      BY <3>1 DEF ResumeInv
    <3>4. resumed[r.target] <= r.attempts
      BY DEF ResumeInv
    <3> QED BY <1>t, <3>1, <3>2, <3>3, <3>4 DEF ResumeInv
  <2>4. CASE \/ OrphansCleared \/ DispatchBegins \/ DispatchSkips
             \/ \E t \in Tasks : RecoveryResumes(t) \/ DispatchSpawns(t)
    <3>1. UNCHANGED <<journal, resumed>>
      BY <2>4 DEF OrphansCleared, DispatchBegins, DispatchSkips, RecoveryResumes, DispatchSpawns, disk, history
    <3>2. taker' = IdleTaker \/ taker'.runs = taker.runs
      BY <2>4 DEF OrphansCleared, DispatchBegins, DispatchSkips, RecoveryResumes, DispatchSpawns, DispatchedOne,
         IInv, TypeOK, ServerTypeOK
    <3> QED BY <1>n, <3>1, <3>2 DEF IdleTaker
  <2> QED BY <1>4, <2>1, <2>2, <2>3, <2>4 DEF TakerStep
<1>5. CASE Next /\ ~Reboots /\ ~TakerStep /\ \A t \in Tasks : ~HandlerStep(t)
  <2>1. UNCHANGED <<journal, resumed>>
    BY <1>5 DEF Next, AgentStep, DelegateRefused, DelegateAccepted, PauserStep, PauseEnds, PauseStops,
       RestarterStep, RestartCommits, RestartLooksAgain, Leaves, Dies, HumanStep, HumanSends, CardCreated,
       PauseBegins, Resumes, ShutdownAsked, Trash, Restore, Purge, disk, history
  <2>2. taker'.runs = taker.runs
    BY <1>5 DEF Next, AgentStep, DelegateRefused, DelegateAccepted, PauserStep, PauseEnds, PauseStops,
       RestarterStep, RestartCommits, RestartLooksAgain, Leaves, Dies, HumanStep, HumanSends, CardCreated,
       PauseBegins, Resumes, ShutdownAsked, Trash, Restore, Purge, server, IInv, TypeOK, ServerTypeOK
  <2> QED BY <1>n, <2>1, <2>2
<1> QED BY <1>1, <1>2, <1>3, <1>4, <1>5

\* However often it dies, and whatever is paused, resumed, deleted, sent or asked for in
\* between, a run is sent in again at most MaxAttempts times.
THEOREM NoCrashLoop == Spec => []ResumesBounded
<1>1. Init => ResumeInv
  BY DEF Init, ResumeInv, Inflight, IdleTaker
<1>2. IInv /\ ResumeInv /\ [Next]_vars => ResumeInv'
  BY ResumeStep
<1>3. IInv /\ ResumeInv => ResumesBounded
  <2> SUFFICES ASSUME IInv, ResumeInv, NEW c \in Targets PROVE resumed[c] <= MaxAttempts
    BY DEF ResumesBounded
  <2>1. CASE c \in Inflight
    <3>1. journal[c].attempts \in 0 .. MaxAttempts /\ resumed[c] \in Nat
      BY <2>1 DEF IInv, TypeOK, DiskTypeOK, HistoryTypeOK, Entry, Inflight
    <3> QED BY <2>1, <3>1, ConstantsOK DEF ResumeInv
  <2>2. CASE c \notin Inflight
    BY <2>2, ConstantsOK DEF ResumeInv
  <2> QED BY <2>1, <2>2
<1> QED BY <1>1, <1>2, <1>3, InvHolds, PTL DEF Spec

-----------------------------------------------------------------------------
(* A board that drains winds down.                                         *)

\* Work is handed over, and forgotten, inside a turn, by who has the session.
LEMMA HandlerDelegates ==
    ASSUME IInv, NEW t \in Tasks, HandlerStep(t)
    PROVE  \/ UNCHANGED delegated
           \/ delegated' = delegated \ {On(t)} /\ Holds(session, On(t), t)
<1>1. CASE TurnDelegates(t) \/ TurnDelegatesNowhere(t) \/ ChatEnds(t)
  <2>1. task[t].pc \in TurnPcs /\ delegated' = delegated \ {On(t)}
    BY <1>1 DEF TurnDelegates, TurnDelegatesNowhere, ChatEnds, At, TurnPcs
  <2> QED BY <2>1 DEF IInv, SessionHeld
<1>2. CASE TurnBegins(t) \/ ChatBegins(t)
  BY <1>2 DEF TurnBegins, ChatBegins, HasSession
<1>3. CASE ~TurnDelegates(t) /\ ~TurnDelegatesNowhere(t) /\ ~ChatEnds(t) /\ ~TurnBegins(t) /\ ~ChatBegins(t)
  BY <1>3 DEF turnState, EndsRun,
     HandlerStep, TurnEnds, HandlerDrops, HandlerQueues, HandlerPosts, BecomesChat, HandlerNotes, QueuesOnLock, TakesLock,
     JournalStarts, Releases, FailsHere, ThreadEnds, ChatFails, TurnWindsDown, TurnCompletes, TurnFails,
     WorkerConnects, WorkerReports, WorkerSaves, WorkerBreaks, WorkerParts, WorkerFailed,
     ReportJudged, ReportWindsDown, CarryOnQueued, WoundDownStruck
<1> QED BY <1>1, <1>2, <1>3

\* A turn begins with nothing handed over, and another round, or a worker, takes a turn
\* that handed work over.
LEMMA TurnHandsOver ==
    ASSUME IInv, NEW t \in Tasks, HandlerStep(t)
    PROVE  /\ task[t].pc = "turnwait" => delegated' = delegated \ {On(t)}
           /\ task[t].pc = "turn" =>
                 On(t) \in delegated \/ task'[t].pc \in {"winddown", "releasing", "failing"}
<1>1. ASSUME task[t].pc = "turnwait" PROVE delegated' = delegated \ {On(t)}
  <2>1. TurnBegins(t)
    BY <1>1 DEF At, Starts, Posted, RunPcs,
       HandlerStep, TurnEnds, HandlerDrops, HandlerQueues, HandlerPosts, BecomesChat, HandlerNotes, QueuesOnLock,
       TakesLock, JournalStarts, Releases, FailsHere, ThreadEnds, ChatBegins, ChatEnds, ChatFails,
       TurnDelegates, TurnDelegatesNowhere, TurnWindsDown, TurnCompletes, TurnFails,
       WorkerConnects, WorkerReports, WorkerSaves, WorkerBreaks, WorkerParts, WorkerFailed,
       ReportJudged, ReportWindsDown, CarryOnQueued, WoundDownStruck
  <2> QED BY <2>1 DEF TurnBegins
<1>2. ASSUME task[t].pc = "turn", On(t) \notin delegated
      PROVE  task'[t].pc \in {"winddown", "releasing", "failing"}
  <2>1. \E p \in {"winddown", "releasing", "failing"} : Go(t, p)
    BY <1>2 DEF At, Starts, Posted, EndsRun,
       HandlerStep, TurnEnds, HandlerDrops, HandlerQueues, HandlerPosts, BecomesChat, HandlerNotes, QueuesOnLock,
       TakesLock, JournalStarts, Releases, FailsHere, ThreadEnds, TurnBegins, ChatBegins, ChatEnds, ChatFails,
       TurnDelegates, TurnDelegatesNowhere, TurnWindsDown, TurnCompletes, TurnFails,
       WorkerConnects, WorkerReports, WorkerSaves, WorkerBreaks, WorkerParts, WorkerFailed,
       ReportJudged, ReportWindsDown, CarryOnQueued, WoundDownStruck
  <2> QED BY <2>1, GoFacts DEF Pcs, HolderPcs, RunPcs, WorkerPcs, IInv, TypeOK
<1> QED BY <1>1, <1>2

\* A handler's step takes its own run nearer to its end.
LEMMA HandlerNearer ==
    ASSUME IInv, NEW t \in Tasks, HandlerStep(t)
    PROVE  DrainLeft(t)' < DrainLeft(t)
<1>1. task[t].pc \in Pcs /\ task[t].pc # "idle"
  BY HandlerBegun DEF IInv, TypeOK, TasksTypeOK, Task
<1>2. (Flow(task[t].pc, task'[t].pc) /\ task'[t].target = On(t)) \/ task'[t].pc = "idle"
  BY HandlerFlow DEF Moves, IdleTask
<1> DEFINE p == task[t].pc
           q == task'[t].pc
<1>3. DrainLeft(t) = IF p = "turn" /\ On(t) \in delegated THEN 11 ELSE DrainStage[p]
  BY DEF DrainLeft, At
<1>4. DrainLeft(t)' = IF q = "turn" /\ task'[t].target \in delegated' THEN 11 ELSE DrainStage[q]
  BY DEF DrainLeft, At, On, DrainStage
<1>5. CASE q = "idle"
  BY <1>1, <1>3, <1>4, <1>5 DEF DrainStage, Pcs, HolderPcs, RunPcs, WorkerPcs
<1>6. CASE q = "turn"
  <2>1. p = "turnwait" /\ task'[t].target = On(t)
    BY <1>2, <1>6 DEF Flow
  <2>2. On(t) \notin delegated'
    BY <2>1, TurnHandsOver
  <2> QED BY <1>3, <1>4, <1>6, <2>1, <2>2 DEF DrainStage
<1>7. CASE p = "turn" /\ q # "turn" /\ q # "idle"
  <2>1. q \in {"turnwait", "connecting", "winddown", "failing", "releasing"}
    BY <1>2, <1>7 DEF Flow
  <2>2. On(t) \in delegated \/ q \in {"winddown", "releasing", "failing"}
    BY <1>7, TurnHandsOver
  <2> QED BY <1>3, <1>4, <1>7, <2>1, <2>2 DEF DrainStage
<1>8. CASE p # "turn" /\ q # "turn" /\ q # "idle"
  <2>1. DrainStage[q] < DrainStage[p]
    BY <1>2, <1>8 DEF Flow, DrainStage
  <2> QED BY <1>3, <1>4, <1>8, <2>1
<1> QED BY <1>5, <1>6, <1>7, <1>8

\* A board that drains empties, for every set of cards, tasks and messages and however many
\* rounds the delegate loop has: no step of anybody winds a run up again.
THEOREM DrainsDown == Spec => DrainWindsDown
<1> DEFINE Nearer == draining =>
                       \A t \in Tasks :
                         ~At(t, "idle") => \/ DrainLeft(t)' < DrainLeft(t)
                                           \/ task'[t] = task[t] /\ DrainLeft(t)' = DrainLeft(t)
<1>1. ASSUME IInv, Next, draining, NEW s \in Tasks, ~At(s, "idle")
      PROVE  \/ DrainLeft(s)' < DrainLeft(s)
             \/ task'[s] = task[s] /\ DrainLeft(s)' = DrainLeft(s)
  <2>1. CASE Reboots
    <3>1. task'[s].pc = "idle"
      BY <2>1 DEF Reboots, FreshProcess, IdleTask
    <3>2. DrainLeft(s)' = 0
      BY <3>1 DEF DrainLeft, At, DrainStage
    <3>3. task[s].pc \in Pcs \ {"idle"}
      BY <1>1 DEF At, IInv, TypeOK, TasksTypeOK, Task
    <3>4. 0 < DrainLeft(s)
      BY <3>3 DEF DrainLeft, DrainStage, Pcs, HolderPcs, RunPcs, WorkerPcs
    <3> QED BY <3>2, <3>4
  <2>2. ASSUME NEW t \in Tasks, HandlerStep(t), s # t
        PROVE  task'[s] = task[s] /\ DrainLeft(s)' = DrainLeft(s)
    <3>1. task'[s] = task[s]
      BY <1>1, <2>2, HandlerFlow DEF Others
    <3>2. At(s, "turn") => (On(s) \in delegated' <=> On(s) \in delegated)
      <4> SUFFICES ASSUME At(s, "turn"), delegated' = delegated \ {On(t)}, Holds(session, On(t), t)
                   PROVE  On(s) # On(t)
        BY <1>1, <2>2, HandlerDelegates
      <4>1. Holds(session, On(s), s)
        BY <1>1 DEF IInv, SessionHeld, TurnPcs, At
      <4> QED BY <2>2, <4>1 DEF Holds
    <3> QED BY <3>1, <3>2 DEF DrainLeft, At, On, DrainStage
  <2>3. ASSUME NEW t \in Tasks, HandlerStep(t)
        PROVE  DrainLeft(t)' < DrainLeft(t)
    BY <1>1, <2>3, HandlerNearer
  <2>4. CASE ~Reboots /\ \A t \in Tasks : ~HandlerStep(t)
    <3>1. task'[s] = task[s]
      BY <1>1, <2>4, OthersStay
    <3>2. UNCHANGED delegated
      BY <1>1, <2>4 DEF Next, AgentStep, DelegateRefused, DelegateAccepted, turnState,
         TakerStep, RecoveryBegins, RecoveryDrops, RecoveryGivesUp, RecoveryCounts, RecoveryResumes, OrphansCleared,
         DispatchBegins, DispatchSkips, DispatchSpawns, PauserStep, PauseEnds, PauseStops,
         RestarterStep, RestartCommits, RestartLooksAgain, Leaves, Dies, HumanStep, HumanSends, CardCreated,
         PauseBegins, Resumes, ShutdownAsked, Trash, Restore, Purge
    <3> QED BY <3>1, <3>2 DEF DrainLeft, At, On, DrainStage
  <2> QED BY <1>1, <2>1, <2>2, <2>3, <2>4
<1>2. IInv /\ [Next]_vars => [Nearer]_vars
  BY <1>1
<1> HIDE DEF Nearer
<1>3. Spec => [][Nearer]_vars
  BY <1>2, InvHolds, PTL DEF Spec
<1> QED BY <1>3 DEF DrainWindsDown, Nearer

-----------------------------------------------------------------------------
(* A restart leaves no run behind.                                         *)

In(q, t) == \E i \in DOMAIN q : q[i] = t
OnceEach(q) == \A i, j \in DOMAIN q : q[i] = q[j] => i = j

LEMMA AppendOnce ==
    ASSUME NEW q \in Seq(Tasks), NEW t \in Tasks, OnceEach(q), ~In(q, t)
    PROVE  /\ OnceEach(Append(q, t))
           /\ \A u \in Tasks : In(Append(q, t), u) <=> In(q, u) \/ u = t
<1> DEFINE p == Append(q, t)
<1>1. /\ Len(p) = Len(q) + 1 /\ p[Len(p)] = t /\ Len(q) \in Nat
      /\ \A i \in 1 .. Len(q) : p[i] = q[i]
      /\ DOMAIN p = 1 .. Len(p) /\ DOMAIN q = 1 .. Len(q)
  OBVIOUS
<1> HIDE DEF p
<1>2. \A i \in DOMAIN p : i \in DOMAIN q \/ i = Len(p)
  BY <1>1
<1>3. OnceEach(p)
  BY <1>1, <1>2 DEF OnceEach, In
<1>4. \A u \in Tasks : In(p, u) <=> In(q, u) \/ u = t
  <2> SUFFICES ASSUME NEW u \in Tasks PROVE In(p, u) <=> In(q, u) \/ u = t
    OBVIOUS
  <2>1. In(p, u) => In(q, u) \/ u = t
    BY <1>1, <1>2 DEF In
  <2>2. In(q, u) => In(p, u)
    BY <1>1 DEF In
  <2>3. In(p, t)
    BY <1>1 DEF In
  <2> QED BY <2>1, <2>2, <2>3
<1> QED BY <1>3, <1>4 DEF p

LEMMA TailOnce ==
    ASSUME NEW q \in Seq(Tasks), q # <<>>, OnceEach(q)
    PROVE  /\ OnceEach(Tail(q))
           /\ \A u \in Tasks : In(Tail(q), u) <=> In(q, u) /\ u # Head(q)
<1> DEFINE p == Tail(q)
<1>1. /\ Len(p) = Len(q) - 1 /\ Len(q) \in Nat \ {0} /\ Head(q) = q[1]
      /\ \A i \in 1 .. Len(q) - 1 : p[i] = q[i + 1]
      /\ DOMAIN p = 1 .. Len(q) - 1 /\ DOMAIN q = 1 .. Len(q)
  OBVIOUS
<1> HIDE DEF p
<1>2. OnceEach(p)
  BY <1>1 DEF OnceEach
<1>3. \A u \in Tasks : In(p, u) <=> In(q, u) /\ u # Head(q)
  <2> SUFFICES ASSUME NEW u \in Tasks PROVE In(p, u) <=> In(q, u) /\ u # Head(q)
    OBVIOUS
  <2>1. ASSUME NEW i \in DOMAIN p, p[i] = u PROVE In(q, u) /\ u # Head(q)
    <3>1. i + 1 \in DOMAIN q /\ q[i + 1] = u /\ 1 \in DOMAIN q /\ i + 1 # 1
      BY <1>1, <2>1
    <3> QED BY <1>1, <3>1 DEF In, OnceEach
  <2>2. ASSUME NEW i \in DOMAIN q, q[i] = u, u # Head(q) PROVE In(p, u)
    <3>1. i - 1 \in DOMAIN p /\ p[i - 1] = u
      BY <1>1, <2>2
    <3> QED BY <3>1 DEF In
  <2> QED BY <2>1, <2>2 DEF In
<1> QED BY <1>2, <1>3 DEF p

\* Who waits for the lock of a target or has it is in its queue, once, and nobody else.
Waits == {"lockwait"} \cup HolderPcs

QueueInv ==
    /\ \A c \in Targets : OnceEach(lock[c])
    /\ \A c \in Targets, t \in Tasks : In(lock[c], t) <=> task[t].pc \in Waits /\ On(t) = c

LEMMA QueueStep ==
    ASSUME IInv, QueueInv, [Next]_vars
    PROVE  QueueInv'
<1>1. CASE UNCHANGED vars
  BY <1>1 DEF vars, locks, coroutines, QueueInv, On
<1>2. CASE Reboots
  BY <1>2 DEF Reboots, FreshProcess, QueueInv, OnceEach, In, IdleTask, Waits, HolderPcs, RunPcs, WorkerPcs
<1>3. CASE Next /\ ~Reboots /\ \A t \in Tasks : ~HandlerStep(t)
  <2>1. UNCHANGED locks
    BY <1>3, OtherFlow
  <2>2. \A s \in Tasks : task'[s] = task[s] \/ (task[s].pc \notin Waits /\ task'[s].pc \notin Waits)
    <3>1. CASE UNCHANGED coroutines
      BY <3>1 DEF coroutines
    <3>2. ASSUME NEW u \in Tasks, NEW c \in Targets, NEW x \in Texts, NEW h \in BOOLEAN,
                 NEW r \in BOOLEAN, Spawn(u, c, x, h, r)
          PROVE  \A s \in Tasks : task'[s] = task[s] \/ (task[s].pc \notin Waits /\ task'[s].pc \notin Waits)
      <4>1. Others(u) /\ task'[u].pc = "new" /\ task[u].pc = "idle"
        BY <3>2 DEF Spawn, NewTask, Others, IInv, TypeOK, TasksTypeOK, At
      <4> QED BY <4>1 DEF Others, Waits, HolderPcs, RunPcs, WorkerPcs
    <3> QED BY <1>3, <3>1, <3>2, OtherFlow
  <2> QED BY <2>1, <2>2 DEF locks, QueueInv, On
<1>4. ASSUME NEW t \in Tasks, HandlerStep(t) PROVE QueueInv'
  <2>1. Others(t) /\ (Moves(t) \/ task'[t] = IdleTask)
    BY <1>4, HandlerFlow
  <2>2. lock \in [Targets -> Seq(Tasks)] /\ (task[t].pc # "idle" => On(t) \in Targets)
    BY DEF IInv, TypeOK, LocksTypeOK, Placed
  <2>3. \A s \in Tasks \ {t} : task'[s] = task[s]
    BY <2>1 DEF Others
  <2>4. CASE QueuesOnLock(t)
    <3>1. /\ lock' = [lock EXCEPT ![On(t)] = Append(lock[On(t)], t)] /\ On(t) \in Targets
          /\ task[t].pc \notin Waits
      BY <2>2, <2>4 DEF QueuesOnLock, Enqueue, Posted, Starts, At, Waits, HolderPcs, RunPcs, WorkerPcs
    <3>2. task'[t].pc \in Waits /\ task'[t].target = On(t)
      BY <2>4, GoFacts DEF QueuesOnLock, Waits, Pcs, IInv, TypeOK
    <3>3. ~In(lock[On(t)], t) /\ OnceEach(lock[On(t)]) /\ lock[On(t)] \in Seq(Tasks)
      BY <2>2, <3>1 DEF QueueInv
    <3>4. /\ OnceEach(lock'[On(t)])
          /\ \A u \in Tasks : In(lock'[On(t)], u) <=> In(lock[On(t)], u) \/ u = t
      BY <2>2, <3>1, <3>3, AppendOnce
    <3>5. \A c \in Targets \ {On(t)} : lock'[c] = lock[c]
      BY <2>2, <3>1
    <3> QED BY <2>3, <3>1, <3>2, <3>4, <3>5 DEF QueueInv, On
  <2>5. CASE Releases(t)
    <3>1. /\ lock' = [lock EXCEPT ![On(t)] = Tail(lock[On(t)])] /\ task[t].pc \in HolderPcs
          /\ task'[t] = IdleTask
      BY <2>5, StopFacts DEF Releases, Dequeue, At, HolderPcs, IInv, TypeOK
    <3>2. On(t) \in Targets /\ lock[On(t)] # <<>> /\ Head(lock[On(t)]) = t
      BY <2>2, <3>1 DEF IInv, LockHeld, Holds, HolderPcs, RunPcs, WorkerPcs
    <3>3. OnceEach(lock[On(t)]) /\ lock[On(t)] \in Seq(Tasks)
      BY <2>2, <3>2 DEF QueueInv
    <3>4. /\ OnceEach(lock'[On(t)])
          /\ \A u \in Tasks : In(lock'[On(t)], u) <=> In(lock[On(t)], u) /\ u # t
      BY <2>2, <3>1, <3>2, <3>3, TailOnce
    <3>5. \A c \in Targets \ {On(t)} : lock'[c] = lock[c]
      BY <2>2, <3>1
    <3>6. task'[t].pc \notin Waits
      BY <3>1 DEF IdleTask, Waits, HolderPcs, RunPcs, WorkerPcs
    <3> QED BY <2>3, <3>1, <3>4, <3>5, <3>6 DEF QueueInv, On
  <2>6. CASE ~QueuesOnLock(t) /\ ~Releases(t)
    <3>1. UNCHANGED lock
      BY <1>4, <2>6 DEF HandlerStep, TurnEnds, locks, HandlerDrops, HandlerQueues, HandlerPosts, BecomesChat,
         HandlerNotes, TakesLock, JournalStarts, FailsHere, ThreadEnds, TurnBegins, ChatBegins, ChatEnds, ChatFails,
         TurnDelegates, TurnDelegatesNowhere, TurnWindsDown, TurnCompletes, TurnFails,
         WorkerConnects, WorkerReports, WorkerSaves, WorkerBreaks, WorkerParts, WorkerFailed,
         ReportJudged, ReportWindsDown, CarryOnQueued, WoundDownStruck
    <3>2. CASE task[t].pc \in Waits
      <4>1. ~HandlerDrops(t) /\ ~HandlerQueues(t) /\ ~HandlerPosts(t) /\ ~BecomesChat(t)
        BY <3>2 DEF HandlerDrops, HandlerQueues, HandlerPosts, BecomesChat, Posted, Starts, At, Waits,
           HolderPcs, RunPcs, WorkerPcs
      <4>2. task'[t].pc \in Waits /\ task'[t].target = On(t)
        BY <1>4, <2>6, <3>2, <4>1, GoesOn DEF Onward, Waits, HolderPcs, RunPcs, WorkerPcs
      <4> QED BY <2>3, <3>1, <3>2, <4>2 DEF QueueInv, On
    <3>3. CASE task[t].pc \notin Waits
      <4>1. task'[t].pc \notin Waits
        <5>1. CASE task[t].pc \in {"new", "posted", "noted"}
          <6>1. HandlerDrops(t) \/ HandlerQueues(t) \/ HandlerPosts(t) \/ BecomesChat(t) \/ HandlerNotes(t)
            BY <1>4, <2>6, <5>1 DEF HandlerStep, TurnEnds, At,
               QueuesOnLock, TakesLock, JournalStarts, Releases, FailsHere, ThreadEnds, TurnBegins, ChatBegins, ChatEnds,
               ChatFails, TurnDelegates, TurnDelegatesNowhere, TurnWindsDown, TurnCompletes, TurnFails,
               WorkerConnects, WorkerReports, WorkerSaves, WorkerBreaks, WorkerParts, WorkerFailed,
               ReportJudged, ReportWindsDown, CarryOnQueued, WoundDownStruck
          <6>2. task'[t].pc \in {"idle", "posted", "noted", "chatwait"}
            BY <6>1, GoFacts, StopFacts DEF HandlerDrops, HandlerQueues, HandlerPosts, BecomesChat, HandlerNotes, IdleTask,
               Pcs, IInv, TypeOK
          <6> QED BY <6>2 DEF Waits, HolderPcs, RunPcs, WorkerPcs
        <5>2. CASE task[t].pc \notin {"new", "posted", "noted"}
          BY <2>1, <3>3, <5>2 DEF Moves, Flow, IdleTask, Waits, HolderPcs, RunPcs, WorkerPcs
        <5> QED BY <5>1, <5>2
      <4> QED BY <2>3, <3>1, <3>3, <4>1 DEF QueueInv, On
    <3> QED BY <3>2, <3>3
  <2> QED BY <2>4, <2>5, <2>6
<1> QED BY <1>1, <1>2, <1>3, <1>4

\* A message is what it was until its handler is through.
LEMMA KeepsText ==
    ASSUME IInv, NEW t \in Tasks, HandlerStep(t)
    PROVE  task'[t].text = task[t].text \/ task'[t] = IdleTask
<1> DEFINE G == task'[t].text = task[t].text \/ task'[t] = IdleTask
<1> SUFFICES G
  OBVIOUS
<1>0. task \in [Tasks -> Task]
  BY DEF IInv, TypeOK, TasksTypeOK
<1>g. ASSUME NEW p, Go(t, p) PROVE G
  BY <1>0, <1>g DEF Go, Task
<1>h. ASSUME NEW p, NEW h, GoAs(t, p, h) PROVE G
  BY <1>0, <1>h DEF GoAs, Task
<1>a. ASSUME NEW h, AwaitTurn(t, h) PROVE G
  BY <1>0, <1>a DEF AwaitTurn, Task
<1>s. ASSUME Stop(t) PROVE G
  BY <1>0, <1>s DEF Stop
<1> HIDE DEF G
<1>1. CASE HandlerDrops(t) \/ HandlerQueues(t) \/ Releases(t) \/ ChatEnds(t) \/ ChatFails(t)
  BY <1>1, <1>s DEF HandlerDrops, HandlerQueues, Releases, ChatEnds, ChatFails
<1>2. CASE HandlerPosts(t) \/ BecomesChat(t) \/ HandlerNotes(t) \/ QueuesOnLock(t) \/ TakesLock(t)
  BY <1>2, <1>g DEF HandlerPosts, BecomesChat, HandlerNotes, QueuesOnLock, TakesLock
<1>3. CASE TurnBegins(t) \/ ChatBegins(t) \/ TurnCompletes(t) \/ TurnFails(t) \/ TurnWindsDown(t)
  BY <1>3, <1>g DEF TurnBegins, ChatBegins, TurnCompletes, TurnFails, TurnWindsDown, EndsRun
<1>4. CASE FailsHere(t) \/ ThreadEnds(t) \/ WoundDownStruck(t) \/ CarryOnQueued(t) \/ ReportWindsDown(t)
  BY <1>4, <1>g DEF FailsHere, ThreadEnds, WoundDownStruck, CarryOnQueued, EndsRun, ReportWindsDown
<1>5. CASE WorkerConnects(t) \/ WorkerReports(t) \/ WorkerSaves(t) \/ WorkerBreaks(t) \/ WorkerParts(t)
           \/ WorkerFailed(t)
  BY <1>5, <1>g DEF WorkerConnects, WorkerReports, WorkerSaves, WorkerBreaks, WorkerParts, WorkerFailed
<1>6. CASE JournalStarts(t) \/ ReportJudged(t) \/ TurnDelegates(t) \/ TurnDelegatesNowhere(t)
  BY <1>6, <1>g, <1>a, <1>h DEF JournalStarts, ReportJudged, TurnDelegates, TurnDelegatesNowhere
<1> QED BY <1>1, <1>2, <1>3, <1>4, <1>5, <1>6 DEF HandlerStep, TurnEnds

\* Nobody resumes the board and nobody shuts it down.
NotCalledOff == quota["resume"] = 0 /\ quota["shutdown"] = 0

\* Recovery is over when the board is served, and until then nobody asks for a restart; it
\* sends in each run once, and a run it has yet to look at is nobody's.
BootInv ==
    /\ taker.pc # "asked" /\ (~taker.boot => taker.pc = "off")
    /\ taker.pc \notin {"recover", "resume"} => taker.runs = {}
    /\ taker.pc = "resume" => \A r \in taker.runs : r.target # taker.now.target
    /\ taker.boot => restarter = "off" /\ ~pauser.on
    /\ \A r, s \in taker.runs : r.target = s.target => r = s
    /\ \A r \in taker.runs, t \in Tasks : ~At(t, "idle") => On(t) # r.target

RunsListed == \A t \in Tasks : task[t].pc \in RunPcs => On(t) \in Inflight

\* What is there when the process goes: chats, messages that will wait, and triage.
Parked ==
    \A t \in Tasks :
        \/ task[t].pc \in {"idle", "chatwait", "chat"}
        \/ task[t].pc = "new" /\ ~task[t].resuming
        \/ task[t].text = Triage

LeaveInv ==
    /\ restarter \in {"committed", "leaving"} => stopping
    /\ restarter = "leaving" => Parked

CutInv == NotCalledOff /\ BootInv /\ RunsListed /\ LeaveInv

\* Nothing but an error is spent by a handler, and it leaves the server alone.
LEMMA HandlerAround ==
    ASSUME NEW t \in Tasks, HandlerStep(t)
    PROVE  UNCHANGED <<stopping, taker, pauser, restarter>> /\ (UNCHANGED quota \/ Spend("error"))
BY DEF flags, server,
   HandlerStep, TurnEnds, HandlerDrops, HandlerQueues, HandlerPosts, BecomesChat, HandlerNotes, QueuesOnLock, TakesLock,
   JournalStarts, Releases, FailsHere, ThreadEnds, TurnBegins, ChatBegins, ChatEnds, ChatFails,
   TurnDelegates, TurnDelegatesNowhere, TurnWindsDown, TurnCompletes, TurnFails,
   WorkerConnects, WorkerReports, WorkerSaves, WorkerBreaks, WorkerParts, WorkerFailed,
   ReportJudged, ReportWindsDown, CarryOnQueued, WoundDownStruck

LEMMA ListedHandler ==
    ASSUME IInv, RunsListed, NEW s \in Tasks, HandlerStep(s)
    PROVE  RunsListed'
<1> SUFFICES ASSUME NEW t \in Tasks, task'[t].pc \in RunPcs
             PROVE  task'[t].target \in DOMAIN journal'
  BY DEF RunsListed, On, Inflight
<1>1. CASE t = s /\ JournalStarts(s)
  <2>1. On(s) \in DOMAIN journal'
    BY <1>1 DEF JournalStarts, Started, Put
  <2>2. task'[s].target = On(s)
    <3>1. task'[s].target = On(s) \/ task'[s] = IdleTask
      BY HandlerFlow DEF Moves
    <3> QED BY <3>1, <1>1 DEF IdleTask, RunPcs, WorkerPcs
  <2> QED BY <1>1, <2>1, <2>2
<1>2. CASE ~(t = s /\ JournalStarts(s))
  <2>1. task[t].pc \in RunPcs /\ task'[t].target = On(t)
    BY <1>2, RunsBefore
  <2>2. On(t) \in DOMAIN journal
    BY <2>1 DEF RunsListed, Inflight
  <2>3. CASE EndsRun(s) /\ task[s].pc \in RunPcs
    <3>1. task'[s].pc = "releasing"
      BY <2>3, GoFacts DEF EndsRun, Pcs, HolderPcs, IInv, TypeOK
    <3>2. t # s
      BY <3>1 DEF RunPcs, WorkerPcs
    <3>3. On(t) # On(s)
      BY <2>1, <2>3, <3>2, RunsDiffer DEF HolderPcs
    <3> QED BY <2>1, <2>2, <2>3, <3>3 DEF EndsRun, Strike
  <2>4. CASE JournalStarts(s)
    BY <2>1, <2>2, <2>4 DEF JournalStarts, Started, Put
  <2>5. CASE UNCHANGED journal
    BY <2>1, <2>2, <2>5
  <2> QED BY <2>3, <2>4, <2>5, HandlerJournal
<1> QED BY <1>1, <1>2

LEMMA CutHandler ==
    ASSUME IInv, CutInv, NEW s \in Tasks, HandlerStep(s)
    PROVE  CutInv'
<1>0. UNCHANGED <<stopping, taker, pauser, restarter>> /\ (UNCHANGED quota \/ Spend("error"))
  BY HandlerAround
<1>1. Others(s) /\ (Moves(s) \/ task'[s] = IdleTask)
  BY HandlerFlow
<1>2. NotCalledOff'
  <2>1. quota \in [Ops -> Nat] /\ {"resume", "shutdown"} \subseteq Ops /\ "error" \notin {"resume", "shutdown"}
    BY DEF IInv, TypeOK, HistoryTypeOK, Ops
  <2> QED BY <1>0, <2>1 DEF CutInv, NotCalledOff, Spend
<1>3. BootInv'
  <2>1. \A t \in Tasks : task'[t].pc # "idle" => task[t].pc # "idle" /\ task'[t].target = On(t)
    BY <1>1 DEF Others, Moves, Flow, IdleTask, On
  <2> QED BY <1>0, <2>1 DEF CutInv, BootInv, At, On
<1>4. RunsListed'
  BY ListedHandler DEF CutInv
<1>5. LeaveInv'
  <2> SUFFICES ASSUME restarter = "leaving", stopping, Parked PROVE Parked'
    BY <1>0 DEF CutInv, LeaveInv
  <2>1. CASE task[s].pc \in {"idle", "chatwait", "chat"}
    <3>1. task'[s].pc \in {"idle", "chatwait", "chat"}
      BY <1>1, <2>1 DEF Moves, Flow, IdleTask
    <3> QED BY <1>1, <3>1 DEF Parked, Others
  <2>2. CASE task[s].pc = "new" /\ ~task[s].resuming
    <3>1. HandlerDrops(s) \/ HandlerQueues(s)
      BY <2>2 DEF HandlerStep, TurnEnds, At, HandlerPosts, BecomesChat, HandlerNotes, QueuesOnLock, Posted, Closed,
         TakesLock, JournalStarts, Releases, FailsHere, ThreadEnds, TurnBegins, ChatBegins, ChatEnds,
         ChatFails, TurnDelegates, TurnDelegatesNowhere, TurnWindsDown, TurnCompletes, TurnFails,
         WorkerConnects, WorkerReports, WorkerSaves, WorkerBreaks, WorkerParts, WorkerFailed,
         ReportJudged, ReportWindsDown, CarryOnQueued, WoundDownStruck
    <3>2. task'[s].pc = "idle"
      BY <3>1, StopFacts DEF HandlerDrops, HandlerQueues, IInv, TypeOK, IdleTask
    <3> QED BY <1>1, <3>2 DEF Parked, Others
  <2>3. CASE task[s].text = Triage
    <3>1. task'[s].text = Triage \/ task'[s].pc = "idle"
      BY <2>3, KeepsText DEF IdleTask
    <3> QED BY <1>1, <3>1 DEF Parked, Others
  <2> QED BY <2>1, <2>2, <2>3 DEF Parked
<1> QED BY <1>2, <1>3, <1>4, <1>5 DEF CutInv

LEMMA Uncalled ==
    ASSUME IInv, NotCalledOff, [Next]_vars
    PROVE  /\ ~Resumes /\ \A force \in BOOLEAN : ~ShutdownAsked(force)
           /\ NotCalledOff'
<1>0. quota \in [Ops -> Nat] /\ {"resume", "shutdown"} \subseteq Ops
  BY DEF IInv, TypeOK, HistoryTypeOK, Ops
<1>1. ~Resumes /\ \A force \in BOOLEAN : ~ShutdownAsked(force)
  BY DEF NotCalledOff, Resumes, ShutdownAsked, Spend
<1>2. ASSUME NEW op \in Ops \ {"resume", "shutdown"}, Spend(op) PROVE NotCalledOff'
  BY <1>0, <1>2 DEF NotCalledOff, Spend
<1>3. ASSUME UNCHANGED quota PROVE NotCalledOff'
  BY <1>3 DEF NotCalledOff
<1>4. ASSUME NEW t \in Tasks, HandlerStep(t) \/ AgentStep(t) PROVE NotCalledOff'
  <2>1. UNCHANGED quota \/ Spend("error")
    BY <1>4, HandlerAround DEF AgentStep, DelegateRefused, DelegateAccepted
  <2>2. "error" \in Ops \ {"resume", "shutdown"}
    BY DEF Ops
  <2> QED BY <1>1, <1>2, <1>3, <2>1, <2>2
<1>5. CASE TakerStep \/ PauserStep \/ RestarterStep
  <2>1. UNCHANGED quota
    BY <1>5 DEF TakerStep, RecoveryBegins, RecoveryDrops, RecoveryGivesUp, RecoveryCounts, RecoveryResumes,
       OrphansCleared, DispatchBegins, DispatchSkips, DispatchSpawns,
       PauserStep, PauseEnds, PauseStops, RestarterStep, RestartCommits, RestartLooksAgain, Leaves
  <2> QED BY <1>1, <1>3, <2>1
<1>6. CASE HumanStep \/ Dies
  <2>1. \/ UNCHANGED quota
        \/ \E op \in {"create", "pause", "restart", "removal", "death"} : Spend(op)
    BY <1>1, <1>6 DEF HumanStep, HumanSends, CardCreated, PauseBegins, Trash, Restore, Purge, Dies
  <2>2. {"create", "pause", "restart", "removal", "death"} \subseteq Ops \ {"resume", "shutdown"}
    BY DEF Ops
  <2> QED BY <1>1, <1>2, <1>3, <2>1, <2>2
<1>7. CASE UNCHANGED vars
  BY <1>1, <1>3, <1>7 DEF vars
<1> QED BY <1>1, <1>4, <1>5, <1>6, <1>7 DEF Next

\* Recovery strikes off only what is nobody's run, and sends each run in once.
LEMMA CutTaker ==
    ASSUME IInv, CutInv, TakerStep
    PROVE  BootInv' /\ RunsListed' /\ LeaveInv'
<1> DEFINE G == BootInv' /\ RunsListed' /\ LeaveInv'
<1> SUFFICES G
  OBVIOUS
<1>0. /\ taker.boot /\ restarter = "off" /\ ~pauser.on /\ UNCHANGED <<pauser, restarter>>
      /\ taker.pc \in {"recover", "resume", "orphans", "dispatch"}
  <2>1. taker.pc # "off" /\ UNCHANGED <<pauser, restarter>>
    BY DEF TakerStep, RecoveryBegins, RecoveryDrops, RecoveryGivesUp, RecoveryCounts, RecoveryResumes, Recovering,
       OrphansCleared, DispatchBegins, DispatchSkips, DispatchSpawns
  <2>2. taker.pc \in {"off", "asked", "recover", "resume", "orphans", "dispatch"}
    BY DEF IInv, TypeOK, ServerTypeOK
  <2> QED BY <2>1, <2>2 DEF CutInv, BootInv
<1>1. LeaveInv'
  BY <1>0 DEF LeaveInv
<1>t. /\ taker \in [pc : {"off", "asked", "recover", "resume", "orphans", "dispatch"},
                    runs : SUBSET [target : Targets, text : Texts, attempts : 0 .. MaxAttempts],
                    now : [target : Targets, text : Texts, attempts : 0 .. MaxAttempts] \cup {NoRun},
                    msgs : Seq(Message), boot : BOOLEAN]
      /\ task \in [Tasks -> Task]
  BY DEF IInv, TypeOK, ServerTypeOK, TasksTypeOK
\* The taker goes on with no run to look at.
<1>p. ASSUME taker.runs = {}, taker'.runs = {}, taker'.pc \in {"off", "orphans", "dispatch"},
             taker'.pc = "off" \/ taker'.boot,
             UNCHANGED journal, \A t \in Tasks : task'[t].pc \in RunPcs => task'[t] = task[t]
      PROVE  G
  <2>1. BootInv'
    BY <1>0, <1>p DEF CutInv, BootInv
  <2>2. RunsListed'
    BY <1>p DEF CutInv, RunsListed, On, Inflight
  <2> QED BY <1>1, <2>1, <2>2
<1>b. ASSUME taker' = IdleTaker PROVE taker'.runs = {} /\ taker'.pc = "off"
  BY <1>b DEF IdleTaker
<1>2. CASE RecoveryBegins
  BY <1>0, <1>2 DEF RecoveryBegins
<1>3. CASE OrphansCleared
  <2>1. /\ taker.runs = {} /\ taker'.runs = {} /\ taker'.pc = "orphans" /\ taker'.boot
        /\ UNCHANGED <<journal, task>>
    BY <1>0, <1>t, <1>3 DEF OrphansCleared, coroutines
  <2> HIDE DEF G
  <2> QED BY <1>p, <2>1
<1>4. CASE DispatchBegins
  <2>1. taker.runs = {} /\ UNCHANGED <<journal, task>> /\ taker.pc = "orphans"
    BY <1>4 DEF DispatchBegins, coroutines, CutInv, BootInv
  <2>2. taker'.runs = {} /\ taker'.pc \in {"off", "dispatch"} /\ (taker'.pc = "off" \/ taker'.boot)
    BY <1>0, <1>t, <1>b, <1>4, <2>1 DEF DispatchBegins
  <2> HIDE DEF G
  <2> QED BY <1>p, <2>1, <2>2
<1>5. CASE DispatchSkips \/ \E t \in Tasks : DispatchSpawns(t)
  <2>1. taker.runs = {} /\ taker.pc = "dispatch" /\ UNCHANGED journal /\ DispatchedOne
    BY <1>5 DEF DispatchSkips, DispatchSpawns, disk, CutInv, BootInv
  <2>2. taker'.runs = {} /\ taker'.pc \in {"off", "dispatch"} /\ (taker'.pc = "off" \/ taker'.boot)
    BY <1>0, <1>t, <1>b, <2>1 DEF DispatchedOne
  <2>3. \A t \in Tasks : task'[t].pc \in RunPcs => task'[t] = task[t]
    <3>1. CASE DispatchSkips
      BY <3>1 DEF DispatchSkips, coroutines
    <3>2. ASSUME NEW u \in Tasks, DispatchSpawns(u)
          PROVE  \A t \in Tasks : task'[t].pc \in RunPcs => task'[t] = task[t]
      BY <1>t, <3>2 DEF DispatchSpawns, Spawn, NewTask, RunPcs, WorkerPcs
    <3> QED BY <1>5, <3>1, <3>2
  <2> HIDE DEF G
  <2> QED BY <1>p, <2>1, <2>2, <2>3
<1>6. ASSUME NEW r \in taker.runs, RecoveryDrops(r) \/ RecoveryGivesUp(r) PROVE G
  <2>1. /\ taker' = [taker EXCEPT !.runs = taker.runs \ {r}] /\ UNCHANGED task /\ taker.pc = "recover"
        /\ journal' = Strike(journal, r.target)
    BY <1>6 DEF RecoveryDrops, RecoveryGivesUp, Recovering, coroutines
  <2>2. taker'.runs = taker.runs \ {r} /\ taker'.pc = taker.pc /\ taker'.boot = taker.boot
    BY <1>t, <2>1
  <2>3. BootInv'
    BY <1>0, <2>1, <2>2 DEF CutInv, BootInv, At, On
  <2>4. \A t \in Tasks : task[t].pc \in RunPcs => On(t) # r.target
    BY DEF CutInv, BootInv, At, RunPcs, WorkerPcs
  <2>5. RunsListed'
    BY <2>1, <2>4 DEF CutInv, RunsListed, On, Inflight, Strike
  <2> QED BY <1>1, <2>3, <2>5
<1>7. ASSUME NEW r \in taker.runs, RecoveryCounts(r) PROVE G
  <2>1. /\ taker' = [taker EXCEPT !.pc = "resume", !.runs = taker.runs \ {r}, !.now = r]
        /\ journal' = Put(journal, r.target, [text |-> r.text, attempts |-> r.attempts + 1])
        /\ UNCHANGED task
    BY <1>7 DEF RecoveryCounts, coroutines
  <2>2. /\ taker'.runs = taker.runs \ {r} /\ taker'.pc = "resume" /\ taker'.boot = taker.boot
        /\ taker'.now = r
    BY <1>t, <2>1
  <2>3. \A q \in taker'.runs : q \in taker.runs /\ q.target # r.target
    BY <2>2 DEF CutInv, BootInv
  <2>4. BootInv'
    BY <1>0, <2>1, <2>2, <2>3 DEF CutInv, BootInv, At, On
  <2>5. DOMAIN journal \subseteq DOMAIN journal'
    BY <2>1 DEF Put
  <2>6. RunsListed'
    BY <2>1, <2>5 DEF CutInv, RunsListed, On, Inflight
  <2> QED BY <1>1, <2>4, <2>6
<1>8. ASSUME NEW u \in Tasks, RecoveryResumes(u) PROVE G
  <2>1. /\ taker' = [taker EXCEPT !.pc = "recover", !.now = NoRun] /\ taker.pc = "resume"
        /\ task' = [task EXCEPT ![u] = NewTask(taker.now.target, taker.now.text, FALSE, TRUE)]
        /\ UNCHANGED journal
    BY <1>8 DEF RecoveryResumes, Spawn, disk
  <2>2. taker'.runs = taker.runs /\ taker'.pc = "recover" /\ taker'.boot = taker.boot
    BY <1>t, <2>1
  <2>3. /\ task'[u].pc = "new" /\ task'[u].target = taker.now.target
        /\ \A t \in Tasks \ {u} : task'[t] = task[t]
    BY <1>t, <2>1 DEF NewTask
  <2>4. \A r \in taker.runs : r.target # taker.now.target
    BY <2>1 DEF CutInv, BootInv
  <2>5. BootInv'
    BY <1>0, <2>2, <2>3, <2>4 DEF CutInv, BootInv, At, On
  <2>6. RunsListed'
    <3>1. \A t \in Tasks : task'[t].pc \in RunPcs => task'[t] = task[t]
      BY <2>3 DEF RunPcs, WorkerPcs
    <3> QED BY <2>1, <3>1 DEF CutInv, RunsListed, On, Inflight
  <2> QED BY <1>1, <2>5, <2>6
<1> QED BY <1>2, <1>3, <1>4, <1>5, <1>6, <1>7, <1>8 DEF TakerStep

\* With nothing in flight and everybody settled, whoever waits for a lock waits behind one
\* who has it, and there is none: nothing is left but chats.
LEMMA NobodyLeft ==
    ASSUME IInv, QueueInv, CutInv, Settled, Inflight = {}
    PROVE  Parked
<1>0. task \in [Tasks -> Task] /\ lock \in [Targets -> Seq(Tasks)]
  BY DEF IInv, TypeOK, TasksTypeOK, LocksTypeOK
<1>1. \A t \in Tasks : task[t].pc \notin HolderPcs
  BY DEF CutInv, RunsListed, Settled, HolderPcs
<1>2. ASSUME NEW t \in Tasks, At(t, "lockwait") PROVE FALSE
  <2>1. On(t) \in Targets
    BY <1>2 DEF IInv, Placed, At
  <2>2. In(lock[On(t)], t)
    BY <1>2, <2>1 DEF QueueInv, Waits, At
  <2>3. lock[On(t)] \in Seq(Tasks) /\ lock[On(t)] # <<>>
    BY <1>0, <2>1, <2>2 DEF In
  <2> DEFINE u == Head(lock[On(t)])
  <2>4. u \in Tasks /\ In(lock[On(t)], u)
    BY <2>3 DEF In
  <2>5. task[u].pc \in Waits /\ On(u) = On(t)
    BY <2>1, <2>4 DEF QueueInv
  <2>6. At(u, "lockwait") /\ HasLock(u)
    BY <1>1, <2>3, <2>4, <2>5 DEF Waits, At, HasLock, Holds
  <2> QED BY <2>4, <2>6 DEF Settled
<1>3. \A t \in Tasks : task[t].pc \in {"idle", "chatwait", "chat"}
  <2> SUFFICES ASSUME NEW t \in Tasks PROVE task[t].pc \in {"idle", "chatwait", "chat"}
    OBVIOUS
  <2>1. task[t].pc \in Pcs
    BY <1>0 DEF Task
  <2>2. task[t].pc \notin {"new", "posted", "noted", "lockwait"}
    BY <1>2 DEF Settled, At
  <2> QED BY <1>1, <2>1, <2>2 DEF Pcs
<1> QED BY <1>3 DEF Parked

LEMMA CutReboots ==
    ASSUME IInv, CutInv, Reboots
    PROVE  BootInv' /\ RunsListed' /\ LeaveInv'
<1>1. /\ restarter' = "off" /\ ~pauser'.on
      /\ \A t \in Tasks : task'[t].pc = "idle"
      /\ \/ taker' = IdleTaker
         \/ taker' = [IdleTaker EXCEPT !.pc = "recover", !.runs = Snapshot(journal), !.boot = TRUE]
  BY DEF Reboots, FreshProcess, NoPause, IdleTask
<1>2. \A r, s \in Snapshot(journal) : r.target = s.target => r = s
  BY DEF Snapshot
<1>9. IdleTaker = [pc |-> "off", runs |-> {}, now |-> NoRun, msgs |-> <<>>, boot |-> FALSE]
  BY DEF IdleTaker
<1> DEFINE R == Snapshot(journal)
<1> HIDE DEF R
<1>3. \/ taker'.pc = "off" /\ taker'.runs = {} /\ taker'.boot = FALSE
      \/ taker'.pc = "recover" /\ taker'.runs = R /\ taker'.boot = TRUE
  <2>1. CASE taker' = IdleTaker
    BY <2>1 DEF IdleTaker
  <2>2. CASE taker' = [pc |-> "recover", runs |-> R, now |-> NoRun, msgs |-> <<>>, boot |-> TRUE]
    BY <2>2
  <2>3. \/ taker' = IdleTaker
        \/ taker' = [pc |-> "recover", runs |-> R, now |-> NoRun, msgs |-> <<>>, boot |-> TRUE]
    BY <1>1 DEF IdleTaker, R
  <2> QED BY <2>1, <2>2, <2>3
<1>4. BootInv'
  BY <1>1, <1>2, <1>3 DEF BootInv, At, R
<1>5. RunsListed' /\ LeaveInv'
  BY <1>1 DEF RunsListed, LeaveInv, RunPcs, WorkerPcs
<1> QED BY <1>4, <1>5

LEMMA CutStep ==
    ASSUME IInv, QueueInv, CutInv, [Next]_vars
    PROVE  CutInv'
<1>0. ~Resumes /\ (\A force \in BOOLEAN : ~ShutdownAsked(force)) /\ NotCalledOff'
  BY Uncalled DEF CutInv
<1>t. task \in [Tasks -> Task]
  BY DEF IInv, TypeOK, TasksTypeOK
\* Recovery is over, and who is in a run stays there.
<1>s. ASSUME ~taker.boot, UNCHANGED <<taker, journal>>,
             \A t \in Tasks : task'[t].pc \in RunPcs => task'[t] = task[t]
      PROVE  BootInv' /\ RunsListed'
  <2>1. BootInv'
    BY <1>s DEF CutInv, BootInv
  <2>2. RunsListed'
    BY <1>s DEF CutInv, RunsListed, On, Inflight
  <2> QED BY <2>1, <2>2
\* A step of somebody else moves nothing of this.
<1>o. ASSUME UNCHANGED <<taker, journal, task, pauser, restarter, stopping>>
      PROVE  BootInv' /\ RunsListed' /\ LeaveInv'
  BY <1>o DEF CutInv, BootInv, RunsListed, LeaveInv, Parked, On, At, Inflight
<1>1. CASE UNCHANGED vars
  BY <1>0, <1>1, <1>o DEF vars, disk, coroutines, server, flags, CutInv
<1>2. CASE Reboots
  BY <1>0, <1>2, CutReboots DEF CutInv
<1>3. ASSUME NEW t \in Tasks, HandlerStep(t) PROVE CutInv'
  BY <1>3, CutHandler
<1>4. ASSUME NEW t \in Tasks, AgentStep(t) PROVE CutInv'
  BY <1>0, <1>4, <1>o DEF AgentStep, DelegateRefused, DelegateAccepted, disk, coroutines, server, flags, CutInv
<1>5. CASE TakerStep
  BY <1>0, <1>5, CutTaker DEF CutInv
<1>6. CASE PauserStep
  <2>1. pauser.on \/ pauser.todo # {}
    BY <1>6 DEF PauserStep, PauseEnds, PauseStops
  <2>2. CASE PauseEnds
    <3>1. /\ ~taker.boot /\ UNCHANGED <<taker, journal, task, stopping>>
          /\ restarter' \in {"waiting", restarter}
      BY <2>2 DEF PauseEnds, PauseDone, disk, coroutines, CutInv, BootInv
    <3>2. LeaveInv'
      BY <3>1 DEF CutInv, LeaveInv, Parked
    <3> QED BY <1>0, <1>s, <3>1, <3>2 DEF CutInv
  <2>3. ASSUME NEW c \in pauser.todo, PauseStops(c) PROVE CutInv'
    <3>1. /\ UNCHANGED <<taker, journal, task, stopping, restarter>> /\ pauser'.on = pauser.on
      BY <2>3 DEF PauseStops, disk, coroutines, flags, IInv, TypeOK, ServerTypeOK
    <3>2. BootInv'
      BY <3>1 DEF CutInv, BootInv, At, On
    <3>3. RunsListed' /\ LeaveInv'
      BY <3>1 DEF CutInv, RunsListed, LeaveInv, Parked, On, Inflight
    <3> QED BY <1>0, <3>2, <3>3 DEF CutInv
  <2> QED BY <1>6, <2>2, <2>3 DEF PauserStep
<1>7. CASE RestartCommits
  <2>1. /\ ~taker.boot /\ UNCHANGED <<taker, journal, task>> /\ stopping' /\ restarter' = "committed"
    BY <1>7 DEF RestartCommits, disk, coroutines, CutInv, BootInv
  <2>2. LeaveInv'
    BY <2>1 DEF LeaveInv
  <2> QED BY <1>0, <1>s, <2>1, <2>2 DEF CutInv
<1>8. CASE RestartLooksAgain
  <2>1. ~taker.boot /\ UNCHANGED <<taker, journal, task>> /\ Settled /\ restarter = "committed" /\ stopping
    BY <1>8 DEF RestartLooksAgain, disk, coroutines, CutInv, BootInv, LeaveInv
  <2>2. LeaveInv'
    <3>1. CASE Inflight = {}
      <4>1. Parked
        BY <2>1, <3>1, NobodyLeft
      <4>2. Parked' /\ stopping'
        BY <1>8, <2>1, <3>1, <4>1 DEF Parked, RestartLooksAgain, NothingInFlight
      <4> QED BY <4>2 DEF LeaveInv
    <3>2. CASE Inflight # {}
      BY <1>8, <3>2 DEF RestartLooksAgain, NothingInFlight, LeaveInv
    <3> QED BY <3>1, <3>2
  <2> QED BY <1>0, <1>s, <2>1, <2>2 DEF CutInv
<1>9. ASSUME NEW t \in Tasks, NEW c \in Targets, NEW x \in Texts, NEW h \in BOOLEAN, NEW r \in BOOLEAN,
             Spawn(t, c, x, h, r), ~r \/ x = Triage,
             ~taker.boot, UNCHANGED <<taker, journal, pauser, restarter, stopping>>
      PROVE  CutInv'
  <2>1. /\ task'[t].pc = "new" /\ task'[t].resuming = r /\ task'[t].text = x
        /\ \A s \in Tasks \ {t} : task'[s] = task[s]
    BY <1>t, <1>9 DEF Spawn, NewTask
  <2>2. \A s \in Tasks : task'[s].pc \in RunPcs => task'[s] = task[s]
    BY <2>1 DEF RunPcs, WorkerPcs
  <2>3. LeaveInv'
    BY <1>9, <2>1 DEF CutInv, LeaveInv, Parked
  <2> QED BY <1>0, <1>s, <1>9, <2>2, <2>3 DEF CutInv
<1>10. ASSUME NEW t \in Tasks, NEW m \in Msgs, NEW c \in Targets, HumanSends(t, m, c) PROVE CutInv'
  BY <1>9, <1>10 DEF HumanSends, Serving, disk, flags, server, Texts
<1>11. ASSUME NEW t \in Tasks, NEW c \in Cards, CardCreated(t, c) PROVE CutInv'
  BY <1>9, <1>11 DEF CardCreated, Serving, disk, flags, server, Texts, Targets
<1>12. ASSUME NEW remember \in BOOLEAN, NEW restart \in BOOLEAN, PauseBegins(remember, restart) PROVE CutInv'
  <2>1. /\ ~taker.boot /\ UNCHANGED <<taker, journal, task, stopping>>
        /\ restarter' \in {"waiting", restarter}
    BY <1>12 DEF PauseBegins, PauseDone, Serving, coroutines
  <2>2. LeaveInv'
    BY <2>1 DEF CutInv, LeaveInv, Parked
  <2> QED BY <1>0, <1>s, <2>1, <2>2 DEF CutInv
<1>13. ASSUME NEW c \in Targets, Trash(c) \/ Restore(c) \/ Purge(c) PROVE CutInv'
  BY <1>0, <1>13, <1>o DEF Trash, Restore, Purge, coroutines, server, flags, CutInv
<1>14. CASE HumanStep
  BY <1>0, <1>10, <1>11, <1>12, <1>13, <1>14 DEF HumanStep
<1>15. CASE RestarterStep
  BY <1>2, <1>7, <1>8, <1>15 DEF RestarterStep, Leaves
<1> QED BY <1>1, <1>2, <1>3, <1>4, <1>5, <1>6, <1>14, <1>15 DEF Next, Dies

\* Cutting a run off is the one thing a restart promised never to do: however messages,
\* errors, deaths, removals and pauses fall between its two looks at the journal, when the
\* process goes for a restart no run is in progress but one that types a card.  Nobody
\* forces a shutdown, which is asked to cut, and nobody resumes, which calls a restart off.
THEOREM RestartCutsNothing ==
    ASSUME Quota["resume"] = 0, Quota["shutdown"] = 0
    PROVE  Spec => RestartNeverCuts
<1> DEFINE Uncut == Leaves /\ stopping =>
                      \A t \in Tasks : task[t].pc \in RunPcs => task[t].text = Triage
<1>1. Init => QueueInv /\ CutInv
  <2> SUFFICES ASSUME Init PROVE QueueInv /\ CutInv
    OBVIOUS
  <2>1. QueueInv
    BY DEF Init, QueueInv, OnceEach, In, IdleTask, Waits, HolderPcs, RunPcs, WorkerPcs
  <2>2. NotCalledOff
    BY DEF Init, NotCalledOff
  <2>3. BootInv /\ RunsListed /\ LeaveInv
    BY DEF Init, BootInv, RunsListed, LeaveInv, IdleTask, IdleTaker, NoPause, At, RunPcs, WorkerPcs
  <2> QED BY <2>1, <2>2, <2>3 DEF CutInv
<1>2. IInv /\ QueueInv /\ CutInv /\ [Next]_vars => (QueueInv /\ CutInv)'
  BY QueueStep, CutStep
<1>3. CutInv => Uncut
  BY DEF CutInv, LeaveInv, Parked, Leaves, RunPcs, WorkerPcs
<1>4. CutInv => [Uncut]_vars
  BY <1>3
<1> HIDE DEF Uncut
<1>5. Spec => [][Uncut]_vars
  BY <1>1, <1>2, <1>4, InvHolds, PTL DEF Spec
<1> QED BY <1>5 DEF RestartNeverCuts, Uncut

=============================================================================
