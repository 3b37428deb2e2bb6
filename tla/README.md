# A verification project for the personal WhatsApp AI

TLA+ models of this repository, the TLC runs that check them on small instances, and
theorems about them that the TLA+ proof system proves for every value of the constants.
The modules are translated from the source; where a comment or a doc and the code
disagree, the module follows the code, and section 12 lists the disagreement.

    tlc -workers 2 -config SupervisorCrash.cfg MCSupervisor.tla     # one run
    tlapm SupervisorProofs.tla                                      # one module's proofs

| file | what it is |
|---|---|
| `Supervisor.tla` | the kanban manager's supervision of its runs: handlers, journal, queue, workers, pause, restart, recovery |
| `Board.tla`, `CardLife.tla` | the board with its columns, gates, folders and trash; the life of one card, which the board implements |
| `Upgrade.tla` | migrations, adoption, prompt merges and shipping by several processes over one working folder |
| `Dispatcher.tla` | the webhook in front of the flows: the owner of a chat, and the windows of the flows behind it |
| `Conversation.tla` | one chat with the Lisa flow in it: webhooks, turns of the message graph, the write on hold |
| `Events.tla` | the calendar skill: what a card says and what its handler writes |
| `Directory.tla` | the address book: Google, its mirror, the outbox, the snapshot the reply path reads |
| `Roster.tla`, `Voice.tla` | who is transcribed, as he edits it; the voice notes, their cache and cap (`Voice` composes with `Roster`) |
| `Review.tla` | the log of a flow and the grading of its turns |
| `MC*.tla`, `*.cfg` | their instances for TLC, one `.cfg` per run |
| `*Proofs.tla` | inductive invariants and theorems |
| `PROJECT.json` | components, runs, mutants, the map from definitions to source lines, hazards, findings, theorems |

## 1. Inventory

The repository holds four programs. They talk over HTTP, share no memory, and each keeps
its state on its own.

### 1.1 The kanban manager (`src/AI Coding-kanban/manager/`)

One process per board. A "manager" agent drives each card of the board by *turns* of a
conversation, hands coding work to a "worker" agent in a conversation of its own, and
judges its report in the next turn. Everything runs on one asyncio loop, so a step is
atomic between two awaits, and nearly everything difficult here is about what happens
*at* an await, or about a process that is not there any more after one.

| component | state | operations | talks to | module |
|---|---|---|---|---|
| journal (`journal.py`) | `inflight.json`: the runs in flight, each with its text and attempts | start, finish, bump, all | the manager writes it around each run; recovery reads it | `Supervisor` |
| pending queue (`pending.py`) | `pending.json`: messages held back | add, clear, all | filled by a run that winds down and by a handler in a leaving process; emptied by `dispatch_pending` | `Supervisor` |
| recovery (`recovery.py`) | none of its own | run, over each entry: drop, give up, resume; `_clear_orphans` | journal, board, and the handlers it spawns | `Supervisor` |
| manager (`manager.py`) | flags, turn kinds, delegated work, wound-down and interrupted cards, worker handles, locks | handlers of messages; triage; the delegate loop; chat turns; workers; drain, pause, dispatch_pending; the agent's tools | all of the above, the board | `Supervisor`; the tools in `Board` |
| server (`server.py`, `__main__.py`) | the background tasks | lifespan, websocket frames, restart, pause, resume, shutdown, inflight | the manager | `Supervisor`, `Upgrade` |
| board (`board.py`, `models.py`) | `board.json`, the folder tree, the worker files | add, move, route, promote, approve, trash, restore, purge, columns, chats, managers | tools and websocket frames | `Board` |
| pipelines (`pipelines.py`) | `pipelines.json`: columns, slugs, gates | kinds, the next column, gates | board, card tools | `Board` |
| shipping (`shipping.py`) | a client process | drain a board over HTTP, give up or force, migrate, start again | the server's endpoints | `Upgrade` |
| migrations, updates, workspace (`migrations/`, `update.py`, `workspace.py`) | schema version, backups, baselines | upgrade step by step, adopt an old board, merge prompts | `__main__` | `Upgrade` |
| prompts, workers, policy (`prompts.py`, `workers.py`, `policy.py`) | text files | lookup, assembly, merge of defaults | manager | `Upgrade` (the merge) |

What is hard: three kinds of machine-made message (recovery, carry-on, triage) and the
human's reach the same card in any order; a pause is an `await` long and everything else
goes on during it; a worker can be connecting, streaming, saving or disconnecting when it
is told to stop; the process may be killed at any await, and between two file writes; a
restart has to catch a quiet moment that it cannot hold; a card's folder, its column and
its record are three things that every drag, rename and deletion has to keep together; and
two processes of two releases may meet over one folder. What makes it correct:

* one run per target, one turn at a time in a conversation;
* a run that may be killed is on disk, and so is what a stopped run still owes;
* every worker is told to stop by a pause, including one that was not there yet;
* a run that keeps taking the process down is retired after a bounded number of times;
* nothing looks busy when nothing runs;
* a drain ends, a restart cuts no run off, and what the human said is answered;
* the folder tree mirrors the board, no file of a card is lost, and routing, approval and
  promotion take no untyped or unplanned card where only typed or planned ones go;
* a folder has what its schema version says, whoever serves serves all cards, and what the
  human wrote is not written over.

### 1.2 The dispatcher (`src/dispatcher/app.py`)

The one webhook of the number. It sends every message of a chat on to the flow that owns
the chat: the owner's tag claims it, any later message goes to the flow that was claimed
last and keeps the claim alive, a voice note also goes to the transcribing flow, and a
flow's own reply, which comes back as the owner's, goes to the flow and claims nothing.
State: one owner per chat, with an expiry, in redis or in a dict. Hard: the owner is read,
awaited, and written back, while a tag claims the chat; forwards travel in background tasks
and arrive in any order, or not; the key's time and the flow's window are counted from
different events. Correct when: nobody but the owner brings a flow into a chat, he always
does, and no message is dropped while a flow is listening for it.

### 1.3 The Lisa flow (`src/Lisa flow/app/`), and Mary, its reduced copy (`src/Mary flow/app/`)

A webhook server and a message graph: parse, gate, context, resolve, route, reason, confirm,
execute, respond, act; transcription beside it. The turns of a chat are one after the other,
and the messages of the chat go on arriving during each.

| component | state | hard part, and what makes it correct | module |
|---|---|---|---|
| webhook (`main.py`) | ids seen lately, a lock per chat | a redelivered event is handled once; a turn that raises lets the next one in | `Conversation` |
| sessions, gate, act | the window of a chat | the window closes while a message is on its way, or while she waits for an answer | `Conversation` |
| context (`context.py`, `clients/evolution.py`) | the cursor, the owner's messages read so far | a turn reads messages whose own turn comes later; the store is late, a query fails and looks empty | `Conversation` |
| resolve, confirm, carry, execute, respond | the write on hold, its card, the fingerprint of the last card | a write runs on the owner's own yes to it, once, and is forgotten when he declines | `Conversation` |
| calendar tool and skill (`tools/calendar.py`, `skills/calendar*.py`) | the calendar outside, the view a card was made of | an answer is lost after the write landed; the event is edited between card and write; a card must name all that is written | `Events` |
| directory (`directory.py`, `contactstore.py`, `tools/people.py`) | Google's book, its mirror, links, an outbox, a snapshot | People replaces a whole list of addresses; a create that landed may be asked for again after a death; a sync lists before and applies after others wrote; a lone name must not show a stranger's address | `Directory` |
| roster (`roster.py`, setup skill) | a table, a snapshot, numbers he was shown | a refresh reads the table while a write is under way; a failed write must not be reported as made | `Roster` |
| voice notes (`transcribe.py`, `auto_transcribe.py`, `cache.py`) | the cache in memory and in a table, the cap of the day | a cap is read before and counted after the provider's call; a transcript paid for is lost, or bought by two turns at once | `Voice` |
| log store, review, reaper | a queue, a numbering, two tables, two workers | records arrive in batches, late or not; two workers and a death between grading and marking | `Review` |
| clients, prompts | none | outside services, text | free choices |

### 1.4 Deployment (`src/evolution/`, compose files, documentation, tests, board spools)

No behaviour of the repository's own; read as documentation.

## 2. Plan, and what is built

The order was by how much goes wrong when the component does: `Supervisor`,
`Conversation` and `Dispatcher` first; then `Board` with its abstract specification
`CardLife`, `Upgrade`, `Directory`, `Roster` with `Voice` on top of it, `Events`, and
`Review`. `Voice` EXTENDS `Roster` and runs both at once; `BoardProofs` proves that `Board`
implements `CardLife`. The runs explore all states of one or two of each actor and one or two
of each fault; each passing run's property has a mutant in `PROJECT.json`, a plausible slip
in one definition that makes the same run fail.

| run | instance | asks |
|---|---|---|
| `Crash` | a card and a thread; 2 tasks, 1 message; a pause, a resume, 2 deaths, a removal, an error, a shutdown | whether runs, locks, journal, workers and flags stay together at every await, and how often a run is resumed |
| `Restart` | a card; 2 tasks, 2 messages, 2 rounds of the delegate loop; a restart, a pause, a creation; fair | whether a restart cuts a run and delivers what it queued, a drain ends, and every message is answered |
| `BoardMoves` | a card, 6 columns of 4 pipelines, 2 managers, one change of columns, one mishap | whether the tree mirrors the board, routing respects kinds and gates, and the card lives its life |
| `UpgradeRaces` | 2 processes, releases 2, 3 and 7, one death, one pull, one new card | whether migrations, merges, adoption and a board that is told to go can be in one another's way |
| `TagBeforeCard` | 3 messages, tags that say yes; no fault | a violation: section 12 |
| `Windows` | 2 flows, 3 messages, a window of 2 ticks, a key of 3, one loss | whether the owner of a chat outlives the windows |
| `Chat` | 3 messages, one booking, one change, two faults of 9 kinds | whether a write runs on its own yes, and turns end |
| `EventsCards` | 2 proposals out of 9 drafts and 17 changes, one lost answer, edits of his | whether the handler writes what the card names |
| `DirectoryBook` | a book of two, 2 acts, one failing call, one death; fair | whether his addresses survive, and the three books come to agree |
| `RosterVoices` | 2 chats of 3 JIDs, 3 notes, 3 messages of his, one mishap; fair | whether he is told what is stored, and how often a note is bought and let out |
| `ReviewLoops` | 2 loops, 2 turns, one restart, one fault; fair | whether a turn is judged in context, graded and marked |
| `EventsApproved` | as `EventsCards`, with a trip of whole days | a violation: section 12 |

No run looks for deadlock: in each of these systems nothing may be left to do, and a board
without work or a chat without messages stands still. That nothing is stuck is what the
liveness properties say.

Every safety invariant and action property of a passing run is also a theorem, listed in
`PROJECT.json`, with hypotheses of its own only in `RestartCutsNothing`. What TLC alone has checked are the liveness properties under fairness, `QueuedIsDelivered`,
`DrainEmpties`, `EveryMessageAnswered`, `SummonArrives`, `BookSettles`, `RosterSettles` and
`QuietLoopsEndUp`, which the prover cannot do.

What could come next: `Mary` as an instance of `Conversation`; a `RunLedger`, a set of owed
texts, as the abstract specification of `Supervisor`, which holds only where the gap of
`dispatch_pending` (section 12) is closed.

## 3. `Supervisor`

### 3.1 State

| variables | in the code |
|---|---|
| `journal`, `pending`, `marker` | `inflight.json`, `pending.json`, `.paused` |
| `busy`, `place`, `saved` | the parts of `board.json` a run touches: busy flags, where a target is, the session of a stopped worker |
| `draining`, `stopping`, `paused` | the flags of the `Manager` |
| `driving`, `turnKind`, `delegated`, `woundDown`, `interrupted`, `clients`, `workersRunning` | its dictionaries and sets, keyed by card |
| `lock`, `session` | the asyncio locks of `_lock_for` and of the session: the holder, then the waiters in order |
| `task`, `ready` | the coroutines of `handle_*_message`, and the order in which the loop gives the new ones their first step |
| `taker`, `pauser`, `restarter` | `_take_work_again`, `pause()` in its round, `_wait_then_restart` and `_bye` |
| `unsent`, `answered`, `resumed`, `gaveUp`, `quota` | history and bounds; no action of the code reads them |

A task's `pc` is the await it is suspended at. `Targets` are `Cards` (driven by a manager,
with workers) and `Threads` (board and prompt chats: one turn, no worker).

### 3.2 Actions

* A message: `HumanSends` and `CardCreated` spawn a handler, which drops it
  (`HandlerDrops`), queues it (`HandlerQueues`) or posts it (`HandlerPosts`), then becomes
  a chat turn (`BecomesChat`) or waits for its run (`QueuesOnLock`, `TakesLock`,
  `JournalStarts`). Behind a locked lock it says so in the thread first, an await during
  which the lock may be released (`HandlerNotes`, `manager.py:409-412`).
* A turn: `TurnBegins`, the agent's `DelegateAccepted` and `DelegateRefused` in any number,
  then one of `TurnDelegates`, `TurnDelegatesNowhere`, `TurnWindsDown`, `TurnCompletes`,
  `TurnFails`; and `ChatBegins`, `ChatEnds`, `ChatFails` beside a run.
* A worker: `WorkerConnects`, `WorkerReports`, `WorkerSaves`, `WorkerBreaks`,
  `WorkerParts`, `WorkerFailed`; its report wakes another turn (`ReportJudged`) or winds
  the card down (`ReportWindsDown`, `CarryOnQueued`, `WoundDownStruck`).
* The end of a run: `EndsRun` in whichever action strikes it off, then `Releases`.
* The server: `PauseBegins`, `PauseStops`, `PauseEnds`; `RestartCommits`,
  `RestartLooksAgain`, `ShutdownAsked`, `Leaves`; `Resumes`, `RecoveryBegins`,
  `RecoveryDrops`, `RecoveryGivesUp`, `RecoveryCounts` and, after the note in the thread
  (`recovery.py:117`), `RecoveryResumes`, `OrphansCleared`,
  `DispatchBegins`, `DispatchSpawns`, `DispatchSkips`.
* The board: `Trash`, `Restore`, `Purge`. The process: `Dies`, at any step, and back up
  with what the disk says (`FreshProcess`).

Two files written with no await between them are two steps, so that a death fits between
them; `LoopFree` keeps every other coroutine out of that gap, as the loop does.

### 3.3 Abstractions and bounds

* What an agent does in a turn is a free choice among the tools that matter here; what it
  writes is left out. Texts are the human's messages, the carry-on and the triage prompt;
  the wrapping of a resumed text is left out, so a resumed run keeps its text.
* One pause, one resume or recovery, and one restart at a time. A second call of each is
  possible in the code; the model has them one after another.
* `Tasks` bounds the coroutines alive at once. `DispatchBegins` waits for enough idle
  ones, `RecoveryResumes` for one: that is a bound of the model, the code has none.
* `Quota` bounds what the environment does: deaths, pauses, resumes, restarts, shutdowns,
  errors, removals, creations. `MaxRounds` is the delegate loop's bound, 40 in the code.
* A free lock is taken in a step of its own (`TurnBegins`, `ChatBegins`), and a pause's
  round is one step per worker: more interleavings than the code has, never fewer.
* The note of a resume is awaited between the attempt counted on disk (`RecoveryCounts`) and
  the spawn (`RecoveryResumes`): anybody may come in between, and a death there costs an
  attempt and nothing else.
* `RestartLooksAgain` waits for `Settled`: after half a second each coroutine that waits
  for nothing but the loop has moved. A machine too slow for that is not modelled.
* `DispatchSkips` also covers a held worker message that its handler would drop.
* A deleted thread is removed at one step, like a purged card. A card that is created has
  no entry yet. A human message begins a new run, as far as counting its resumes goes.
* A termination signal is `Dies`: it cancels what a death would lose. A file that does not
  parse is not modelled, since every write replaces the file atomically.
* Not modelled here: the mock manager and the board tools (they are in `Board`); the policy
  chat's own text; the broadcast hub.

### 3.4 Properties

* `RunOnDisk`: whenever a run may be killed its entry is on disk, unless its target was
  deleted or a resume retired it. The two writes of a wound-down run, the carry-on queued and
  the entry struck off, are two steps.
* `OneAtATime`: a target has one run and a session one turn, although chat turns take one
  of the two locks and runs both.
* `StopMeetsEveryWorker`: in a draining process a worker was told to stop or is still on
  the list of the round, also the one that was connecting during it, and no mark stays on a
  card without a run.
* `NoStuckBusy`: when nothing runs and nothing is held, nothing is busy. It needs the
  clearing of orphans, and `RecoveryGivesUp`'s own.
* `ResumesBounded`: a run that dies is sent in again at most `MaxAttempts` times, whatever
  overtakes it. Two comments promise less, namely a bound on the deaths: section 12.
* `RestartNeverCuts`: the second look at the journal finds what started after the first. A
  triage run is the exception: it is not held back by a process that leaves.
* `DrainWindsDown`: while the board drains every step of a handler takes it nearer to its
  end (`DrainLeft` counts what is left), and nothing anybody else does winds it up again, the
  agent's calls of the delegate tool least of all. In `Restart` the delegate loop has a second
  round to go to (`MaxRounds` is 2), which a draining board must refuse.
* `QueuedIsDelivered`, `DrainEmpties`, `EveryMessageAnswered`: liveness. The last one makes an
  exception of a restart, which waits for runs and not for a chat turn beside one.

Why the bounds are enough: a race here needs a run, a chat turn or second message, and one
operation of the server, hence two tasks and one card (cards meet only in the queue and in
the flags, which one card and one thread exercise); with `MaxAttempts` 1, two deaths reach
the bound and a retired entry. `Crash` has one removal, so a card that is trashed and then
purged is outside it. It uses symmetry over tasks; a liveness run never does.
`DispatchBegins` waits for a task per queued message, a bound of the model, so in `Restart` no
more messages and creations come where there is a restart than there are tasks (`QueueFits`,
which forbids only steps of the human's); three come where there is none.

### 3.5 Fairness

`FairSpec` has weak fairness per task (`HandlerStep`), and for the taker, the pauser and
the restarter: asyncio runs a ready coroutine, a query's and a worker's stream end, and
asyncio's locks are first come, first served, which `lock` and `session` are by
construction. There is none for the agent's tools, for the human, or for a death. That a
turn ends although an agent may call tools for ever is the SDK's bound on a query; the
rounds of a run are bounded by `MaxRounds`.

### 3.6 Proofs

`SupervisorProofs` proves, for any sets of cards, threads, tasks and
messages and any quotas (assumption: `ConstantsOK`):

| theorem | property |
|---|---|
| `TypeCorrect`, `OneRun`, `OneTurn`, `OneOfEach` | `TypeOK`; `OneAtATime` and its two parts |
| `RunsSurvive` | `RunOnDisk` |
| `PauseMeetsAll` | `StopMeetsEveryWorker` |
| `NothingSpins` | `NoStuckBusy` |
| `NoCrashLoop` | `ResumesBounded` |
| `DrainsDown` | `DrainWindsDown` |
| `RestartCutsNothing` | `RestartNeverCuts`, where the quotas of resumes and shutdowns are zero |

None of these is inductive by itself: two tasks may be in a run of one card unless each of
them heads the queue of its lock, and an entry may be struck off by another task. The
invariant proved first is `IInv`, of four parts: `TypeOK`; `Placed` (a task that is not idle
has a target, one that runs or chats has a card, and one that has not begun has all its
rounds left); `LockHeld` (a task between taking and releasing a lock heads its target's
queue); `SessionHeld` (the same of turns and sessions). Each action has a step in the
lemma of each part it can disturb; `Dies` and `Leaves` start over from `RebootInv`.
`OneRun` and `OneTurn` follow from `IInv`: two heads of one queue are one task. `RunOnDisk`
is inductive on top of it (`RunOnDiskStep`): an entry is struck off by the task that heads the
lock of its target, and by no other.

Three more invariants are added to `IInv`. `WorkInv`: a handle and a stop mark
belong to a run that has got that far, and while draining a worker was told or is on the
list. `BusyInv`: each busy flag is `Accounted` for, by the run that will clear it, by a run
recovery has sent in or is about to, or by the recovery still to come. `ResumeInv`: a resume
is counted in the entry of the run it resumes, or that run is over, or the entry is another's
by now; and recovery's list is no older than the count.

`DrainsDown` needs no more than `IInv`: a handler's own steps always go down
(`HandlerNearer`), since a turn begins with nothing handed over and only a turn whose
delegation was accepted goes to a worker (`TurnHandsOver`); what could wind it up is the
acceptance itself, which is the agent's step and is refused while draining.

`RestartCutsNothing` is about what half a second settles. `QueueInv` says that the tasks in
the queue of a lock are those that wait for it or have it, each once. `CutInv` says that
recovery is over before anybody can ask for a restart and sends each run in once
(`BootInv`), that every run is in the journal (`RunsListed`, stronger than `RunOnDisk`
since no resume retires the entry of a living run here), and that a process that leaves has
nothing left but chats, messages that will wait and triage (`Parked`). When the second look
finds the journal empty and everybody has `Settled`, whoever waited for a lock would wait
behind a task that has it, which is none of the settled and none of the listed
(`NobodyLeft`); from then on a message goes to the queue. Its two hypotheses are
what the property is about: a forced shutdown is asked to cut a run, and a resume calls the
restart off and starts runs of its own. Deaths, errors, removals, pauses and creations are
not restricted, while the run `Restart` has no death and no error.

Only model-checked: the liveness properties, which are outside what the prover does.

## 4. `Board` and `CardLife`

### 4.1 State and actions

| variables | in the code |
|---|---|
| `cols`, `slug`, `gates` | `pipelines.json`: the columns of each pipeline in order, their on-disk names, which are gates |
| `cards`, `chats`, `managers` | `board.json`: each card's pipeline, column, kind, owner, folder, trash mark; the chats of columns; the managers |
| `disk`, `workers` | each card's folders with the files in them; the worker file of each column |
| `up`, `mock` | the process, and which manager drives cards |
| `turn`, `at` | the manager's turn on each card; the folder a running worker was told to write to |
| `gone`, `adrift`, `edits`, `kills`, `strays` | history: cards purged, cards some file of which is where the board may not look; bounds |

The websocket's frames and the agent's tools are actions of their own: create, drag, type,
route, promote, approve, send back, trash, restore, purge, and for columns add, rename,
reorder, delete, gate. A call that names the column asks nothing (`PutIn`): a person's drag,
and `move_card` of the board chat's agent. Each operation ends in `Written` or `Recorded`: it
does not await between its first write and its last, so it is one step, but `board.json` is
written last and a death may come before it, with the folders moved and the board as it was.
What the next start makes of that depends on who else knows. A renamed column is in
`pipelines.json` already, so the folder is found at its old place or at its new one
(`Follow`, in `Boot`). Where a card went is in `board.json` alone: after a drag, a routing, a
trip to the trash or a deleted column the next start looks at the recorded place, finds
nothing, makes an empty folder there (`board.py:218-222`), and the files stay in the folder
they were moved to, which no record names. `DiesAdrift` is that death, and `adrift` the cards
it, or a worker's file for a folder the card has left, has happened to. Moving a folder onto
one that is there merges them, file by file, and what is in both stays where it was
(`MoveDir`).

### 4.2 Properties

* `TreeMirrorsBoard`: whenever the board is up, also after a death in the middle of an
  operation, a card is in a column there is, its folder is at that place and on the disk, its
  manager exists, and no two columns share a folder; and all files of a card, in the trash
  too, are in that one folder, unless the card is adrift. The last part is about the moves,
  merges, renames, deletions and restarts that have to keep the files with the card; what it
  excepts is where the code does not (section 12).
* `RoutedRight`: no sequence of routing, approval and promotion takes an untyped card out of
  the backlog or an unplanned one to build. It is said of cards that none of the three calls
  that ask nothing has put anywhere: a person's drag, the board chat's `move_card` and the
  creation of a card without a kind in the fast lane. So the "one invariant this layer exists
  to hold" is `route_card`'s, not the board's (section 12).
* `LivesItsLife`: `Board` implements `CardLife` under the mapping `StageOf` (unborn, board,
  trash, gone) and the union of a card's folders for `kept`: born once, purged from the trash
  only, and no file lost before, whatever is renamed, deleted or merged.

One card is enough, since no operation reads another card's record; six columns give one
pipeline with two columns (a gate among them) and a title used twice, so that slugs collide;
one change of columns (a new one is a gate) and one mishap come at any moment. A folder is a set of file names.
While the board is up its memory and the file agree, so one variable stands for both.
Titles, texts and the order of cards in a column are left out, since no operation reads them.

### 4.3 Proofs

`BoardProofs` proves the three properties for any cards, columns, managers, files and bounds.
The assumption `ConstantsOK` says that the columns are finitely many and that those a fresh
board has are all different, with different titles in each pipeline.

`BoardImplementsLife` proves `Spec => LivesItsLife`. The refinement needs `LifeInv`: no card
is both on the board and purged, a worker or a turn belongs to a card that was born, and each
record has its fields. The lemmas `MoveDirHolds`, `FollowHolds`, `CarriedHolds` and
`PutHolds` say that whatever is done to folders leaves the union of what is in them; then
each operation is a step of one card's life or a stutter, once with its last write and once
without.

`TreeAlwaysMirrors` (`TreeMirrorsBoard`) and `AlwaysRoutedRight` (`RoutedRight`) need
`PlaceInv`, which holds when the board is down too:

* `ColumnsOk`, `ManagersOk`: a column is once in one pipeline, no pipeline is empty, no two
  of its columns have one slug. That a new slug is free is the pigeonhole principle (there are
  more numbers to try than columns) and a least element (`SlugIsFree`).
* `Known`: a column a card names, or remembers from before the trash, either is gone or is
  one of the card's own pipeline: restoring a card can never bring it into another one.
* `Somewhere`: a card is in the backlog or in a column there is; only while the board is down
  may its column be gone (`delete_column` saves `pipelines.json` before the cards), and `Boot`
  puts it into the backlog.
* `Rights`: a card is where it was typed and planned to be, or was put somewhere unasked; `Entitled`:
  and so it is where the mock manager is about to put it, whatever is done to the card while
  the manager works, since nothing takes a kind or a plan back (`Grants`).
* `Housed`: there is a folder where the card says; needed only while the board is up, because
  a death between the folders and `board.json` breaks it and `Boot` makes one.

`CardPlaced`, `AgentPlaced`, `MockPlaced`, `ColumnPlaced` and `BootPlaced` keep it, one lemma
per operation under them. Where the files are needs `FilesInv` on top of it: the files of a
card that is not adrift are where `board.json` says its folder is or, while the board is down,
where the next start will take it. `FollowAt` says that a folder comes to its place with all
its files from either; `CarriedAt`, that a renamed column takes along the folders of its own
cards and no others, since by `PlaceInv` no other card's folder has its name.

## 5. `Upgrade`

`ws` is the working folder: which files are there, the marks each migration leaves, the
stamp of the schema, the prompt of one worker with its baseline, the standing orders; `old`
the board an earlier install kept beside the code; `proc` the processes (`serve`, `migrate`,
`ship`), each with the release it was started from, its step, and what it has in memory. A
start goes `Probe`, `Ensure`, `Adopt` (or `AdoptNothing`), `MoveAside`, `SettlePolicy`,
`BornCurrent`, `Backup`, `Apply`, `Stamp`, `Reconcile`, `Sync`, `Rebase`, `Bind`; a board that
serves writes its whole file at each save (`SavesBoard`, `SavesPipelines`, `AddsCard`); the
client goes `Ask`, `Wait`, `Stop`, `Gone`. `Pull`, `Edits` and `Dies` come in between.

A board that accepted a shutdown (`Stop`) or a restart (`Restarts`) goes on serving and writing
for the 0.25 or 0.3 seconds until it dies (`next`, `Leaves`), and the client asks until nobody
answers (`Gone`). Whether its runs hold the shutdown up is left to `Supervisor` (section 3):
here it is accepted or refused, at any moment. The code looks at the runs only before that
moment, so a run that starts within it is cut, and is picked up like one a crash cut; that is
why nothing is claimed here about runs, and section 12 names the promise.

* `NeverHalfMigrated`: a folder has what its stamp says at any moment, and a board that
  serves has what its release needs: no migration is undone by a board that was up, by
  another migration or by a death between two writes.
* `AllCardsServed`: whoever serves, serves every card there ever was.
* `YoursKept`: no migration, merge or start writes over what the human wrote.

Initial states are every folder a release could have left, with or without an old board;
two processes, since a third finds nothing a second does not; one death, one pull.

Assumed: the port is bound in the step that ends a start, so one board serves at a time; a
release is pulled when nothing is starting or migrating (`update.sh` does it first); a
process that answers no more writes no more; no downgrade; a read-modify-write of one file is one step; the probe for a serving board never
misses one; an earlier release is this one with fewer migrations. Left out: the explicit
adopt path, the pruning of backups, `--force`, the restart sentinel.

`UpgradeProofs` proves the three properties for any set of processes, any releases and any
number of pulls and deaths (assumption: `UpgradeConstants`): `NeverHalfMigratedAlways`,
`AllCardsServedAlways`, `YoursAreKept`. None is inductive: the stamp may
go *down* while two processes migrate at once, and what the folder has depends on how far each
of them is. `UpgradeInv` therefore gives each process what it counts on (`Needs`: the marks of
the migrations it has seen stamped or has written itself) and says that the folder holds it;
that whoever is past the probe shares the disk with no board of an earlier release; that a
folder which one process takes to be new is migrated by none meanwhile (`Newborn`,
`Migrating`); and that until an old board is adopted nobody else has written anything
(`Untold`). The lemma every
migrating step uses is `Tame`: a write keeps the marks of every set that has the colours only
with the maintenance columns, which is what makes the colours that migration 3 drops harmless.

## 6. `Dispatcher`

`owner` is the key of the store with the ticks it has left, `requests` the webhooks at their
first or second call of the store, `mail` what was forwarded (under way, or the flow's
turn), `window` each flow's session marker, and `reached` history. `Post` is Evolution's;
`Summon`, `Look` and `Refresh` are the three rules of `webhook`, a step per call of the
store; `Receive` and `Reply` are the gate and the end of a turn of any flow, which may set
its window to any length up to its longest. `StoreFails`, `ForwardFails` and `Crash` lose a
message, a forward or everything that is not in redis. The fallback in memory, which a
restart empties, is not modelled.

One chat and ticks for time. `docker-compose.yml:77-82` sets `WINDOW_TTL` to Lisa's longest
window plus two minutes for her to reason and send: that is `Latency`, the longest a message
takes from the store's answer to the flow's reply. A `Tick` does not happen past it, and
`DispatcherAssumption` says what the compose file says, `WindowTtl >= FlowTtl + Latency`.
The instance has equality, so a key can expire during a turn, on the tick of the window's
end, and with a message on its way.

`Windows` checks that an open window has an owner (`NoContinuationDropped`), that only the
owner's tag lets a flow in (`OnlyHeSummons`), and that it does (`SummonArrives`, unless
something failed). Fairness: weak for the handlers of a message, since asyncio goes on with
a ready coroutine; strong for the flow's side, since a flow takes one turn of a chat at a
time and hands its lock on in order, so whoever waits is served although others come and go.

`FlowProofs` proves `TypeCorrect`, `Continuations` (`NoContinuationDropped`) and
`HeSummons` (`OnlyHeSummons`) for any flows, messages and times that the assumption allows.
The second is not inductive: a turn under way may open its window at any moment. `CInv` adds
that no window is longer than the key (`WindowsCovered`) and that every message on its way
is `Covered`: a turn, and a tag, are forwarded when the key was just set, so the key has lost
no more ticks since than the message has aged; with the assumption on the three times that
leaves a full window. The third needs `HInv`: a continuation about to write an owner back,
and a flow in a turn, were summoned too, and no message leaves the chat. `SummonArrives` is
liveness and stays with TLC.

## 7. `Conversation`

### 7.1 State

| variables | in the code |
|---|---|
| `chat` | the messages of one chat, as Evolution stores them; a message is its position |
| `inbox`, `handled`, `waiting` | webhooks under way; `_seen`; the turns behind the lock of the chat, which is first come, first served |
| `turn` | the per-turn half of `MessageState`, and the node that runs next |
| `mem` | the checkpointed half: the cursor, `seen_owner_ids`, `pending_action`, `pending_card`, `last_confirm_sig`, and whether a search has surfaced the event |
| `left` | the session marker: shut, seconds (`loop_ttl`), minutes (`await_window`) |
| `approvals`, `refused` | history: which messages approved what, what was called off; no action of the code reads them |
| `used` | history: the faults so far, which a bound limits and `Forgot` reads |

### 7.2 Actions

`Post`, `Deliver` and `Redeliver` bring a message and its webhook; `Gate` starts a turn or
stops one; `Context` reads the chat, moves the cursor and resets a new loop; `Resolve` reads
the owner's answer; `Answer` and `Propose` are the model, free to say or propose anything;
`Search`, `Hold` and `Uncomposed` are `confirm_node`'s three ways; `Find`, `Run` and `Call`
run a search or the approved write, a try at a time; `Resolved`, `Tell`, `Report` and
`ReadBack` are `respond_node`'s; `Act` sends, remembers the card, sets the window and gives
up the lock. `Crash`, `Abort` and `Tick` may come between any two.

### 7.3 Abstractions and bounds

* What a message says is its verdict: a clean yes, a clean no, or anything else. The tag is
  a word that makes a message no clean answer; what follows it is a yes, nothing (or the
  card's command word: both are a nudge), or anything else.
* The model proposes at most one write at a time, and one search beside it. Side effects
  that ride with a proposal, contact cards, media and languages are left out. In a language
  the code has no words for, the model reads back what is otherwise told in code; `ReadBack`
  allows that always.
* A reply always gets its id from Evolution when it is known to be sent. Echoes of her own
  replies stop at the gate with nothing changed, and are left out.
* A node's update is saved before the next node runs, as LangGraph's checkpointer does
  between two steps; a death after the reply went out and before it was saved is the
  `unsent` fault with the message in the chat. The 2000 ids of `_seen` and the 200 of
  `seen_owner_ids` are never full.
* The chat has one JID, so one lock and one list of messages. `main.py:245` locks by the JID a
  webhook names, and a chat that arrives under two is, to this code, two chats here
  (`Voice` has the two, where a rule matches both).
* Time is only how far the window is from its end, in three levels. A card too old to be
  carried, or whose event has begun, is a free choice of `Carries`.
* `Faults` names what may go wrong and `MaxFaults` how often; `MaxHuman` and `Speech` bound
  what is written. `Window`, `MaxHops` and `MaxAttempts` are the code's 30, 4 and 3, small.
* The run leaves out orders that nothing can tell apart. `Noticed`: the window runs
  down only between two turns, since `Gate` looks at it there and `Act` either sets it or
  takes the larger of two, and messages come only before a turn or before its `Act`, since
  nothing between `Context` and `Act` looks at the chat. `Opened`: before the first tag every
  message is dropped. `EndsOnHisYes`: the last of the bounded messages is a yes of his, since
  what comes after an approval is what the properties are about. `AnotherTurn`: when the
  last message has been read and answered, nothing more can be. `Paired`: two faults are both
  of the kinds that decide what a turn reads and when (a death, a late or repeated webhook,
  half a chat, a late store), and the model does not search after the second.

`Chat` explores three messages among his tag with a yes, his yes, his no and a contact's
yes, with one fault of any kind or two of `Paired`'s. Three messages are a request, an answer
and one that overlaps with the card; two turns can be in one another's way and a third
queues. The theorems bound neither the messages nor the faults.

### 7.4 Properties and proofs

* `OneYesOneWrite`: one message, one approval, over turns that read ahead, late and repeated
  webhooks, a cursor that moves back, failed queries and a tag that looks for a yes above;
  and nobody's message but the owner's approves. It excepts the histories in which the code
  really forgets, which `Forgot` names: a fresh tag whose query for his messages failed, and a
  webhook repeated in a history with a crash. There a yes does count twice, against what the
  code says of itself (section 12), so the property without the exception,
  `YesApprovesOnce`, is stated and is not checked.
* `CarriedWasSeen`: a yes that a tag finds above answers the card of that very write, with
  nothing of hers and nothing else of his in between but another yes or a bare tag.
* `RefusedStaysRefused`: what was declined, abandoned by a fresh tag or dropped after a
  failure does not run unless it is proposed again.
* `OwnerIsHeard`: a message of his that passes the gate is read, with a store that lags or
  fails.
* `TurnsWindDown`: every step of a turn lowers a rank that is a natural number, so a turn
  whose steps are taken always gives up the lock.

`ConversationProofs` proves all five (`YesIsSpent`, `CarriedIsAnswer`, `NeverRevived`,
`AlwaysHeard`, `TurnsEnd`) for any writes, bounds and faults. `TurnsEnd` needs `TurnInv`, which ties the hops and the tries
to the node: the hops are counted before the model is asked again, so a search or a write
begins with one to spare, and a hop outweighs all that a turn does between two of them
(`HopOutweighs`). `NeverRevived` needs `OffInv`: the write on
hold is never one that was called off. `AlwaysHeard` needs `HeardInv`: the message of a turn,
and of one that waits, is in the chat, so that the step that reads can put it among the
read.

`CarriedIsAnswer` holds in every history; `YesIsSpent` has no hypothesis either, the
exception is in the property it states. Its proof is what found the exception. The
invariant has three parts, the last two kept for as long as nothing is forgotten. `CarryInv`: the card she remembers is in the chat and asks about
what she remembers it for, what a turn takes for an answer is the owner's, and a yes it
carries is under that card or is its own tag (`CarriedIs`). `QueueInv`: a message has one
turn, because it is in the queue at most once and its webhook does not count again, so a tag
that was a yes is over. `OnceInv`: what has sent a write is among what was read, so no later
turn reads it as new, and it is older than the card on hold, so no later tag finds it under
that card. `CarriedUnderCard`, which the code does not keep, is not implied: a tag that is
itself the yes may be older than the card.

## 8. `Events`

`events` is what Google holds of two ids, `seen` the view last surfaced of each, `pending`
the proposal awaiting his yes with the card that went out, `call` the run of the handler
(`find` again, build a body, send, read back), `told` how the last run ended. `Finds`,
`Proposes`, `SaysYes` and the handler's steps are `skills/calendar.py` and
`tools/calendar.py`; `HeEdits` is his own hand in Google Calendar, at any moment. The card is composed as
`calendar_format.py` does it: `when`, `named`, `place`, `guests`, `video`. Days and instants
keep their difference, and the end of an all-day event is the day after its last on the wire.

* `CardNamesEveryChange`: a write to an event that is as its card shows it changes nothing
  the card does not name, and mails nobody unless the card says so. It leaves out two cases
  in which the code does otherwise (§12): an event of no length, and a video call asked for
  again.
* `CreateIsTheCard`: what is created is what the card shows, and where it is not, by how
  much: a date with `all_day: false`, which the schema admits (`tools/schemas.py:40`, 46),
  stands on the card as midnight and is created at the default hour (§12).
* `OkMeansDone`: a change reported done is there, though a 200 does not say it was applied.
* `KeepsLength`: an event moved by its start keeps its length, also when he moved it himself
  after the card went out.
* `MailedOnce`: one approval mails the guests once, whatever is lost and replayed.

Two proposals (the second one meets what the first left), one answer lost before or after
the write, days of four hours so that an event can cross midnight, every field alone and the
pairs that interact, and among the drafts a date that is said not to be of whole days. One slot for creations, which he does not edit; a
search surfaces one event; a proposal is for an id that was seen; a delete's partial view is
left out, and so is the refetch of an insert that Google says is there already.

All five are proved in `EventsProofs`, for any drafts, changes, edits, days, defaults and
faults. `EventsAssumption` says what the tool's schema does: dates are dates or instants,
flags are flags, a draft has a title and a start, and both ends of an event are of one kind.

* `GuestsMailedOnce` proves `MailedOnce`. `IInv` says that a call is `Shielded`: an insert
  that mailed has landed and is not sent again, a change that may mail has one attempt, and a
  quiet one never mails.
* `DoneIsDone`, `MovedKeepsLength`, `CreatedAsShown` and `CardNamesIt` prove the action
  properties from `CardInv`: what the calendar holds are events, what was surfaced are views,
  and a proposal and its run carry the card composed of it. `BodyOf`, `WhenOf` and `MergedOf`
  say what a write holds of each field; `UnnamedIsSo` says that what a change asks for and its
  card does not name is in the view already; `SameTimes`, that dates asked for that are the
  view's leave the event's alone, which takes a length above nought.

`ApprovedWhen` is the one the code breaks, and is `EventsApproved`'s. What is left of it is
proved as `PlainDatesAreWritten`, which no run states: a change that leaves an event of its
kind, and gives whole days by both ends, writes the days or the hour on its card. Besides the
whole days moved by their first alone, that leaves out changes that turn whole days into
hours or back, and a start spelled as the other kind.

## 9. `Directory`

`book`, `stamp` and `ver` are Google's cards and their etags; `rows`, `mlinks`, `cursor` and
`outbox` the tables; `contacts`, `links`, `token`, `ready`, `stale` the snapshot; `sync`,
`drain` and `noting` the tasks, each at its await. `OwnerEdits` is he in Google; `Remember`
and `NoteUsed` the reply path; `SyncList`, `SyncApply`, `SyncMirror` a sync;
`DrainTake`, `AddRead`, `AddWrite`, `Create`, `DrainFails`, `DrainSettles` the outbox;
`Boot`, `Dies` and `TimePasses` the process. Names are sequences of tokens, addresses and
numbers are in canonical form, so that `Mentions` is the lookup itself: by address, by
number, by full name, by a lone name, in that order.

* `OwnersAddressesSurvive`: an address he put on a card is never lost to a write of hers.
* `GivenItsTries`: an address the outbox took is on the card, or still owed, or was given
  every attempt the settings allow. It bounds the tries from below only: that a create is
  run again after a death, and makes a second person, is in the model and not excluded by it.
* `RoomAnswersFirst`: a lone name that one person in the room answers to shows no address
  of anyone else.
* `BookSettles`: with nobody writing any more, the outbox empties and the book, the
  snapshot and the mirror come to agree for good.

Two people, one of them in the chat, whose lone names are a prefix of one another; two acts
of his, one failed call and one death at any point, which is what a sync, a drain and an edit
need to overtake one another. Fairness: weak for the two loops, which run for ever, for
`Boot` (the container starts the flow again), for `NoteFiled` and for the clock.

Assumed: a transaction of Postgres is one step; a plan and its enqueueing, and a learned
contact and its upsert, are one step each; the mirror loads at boot if the store opens; the
caches of a turn are exact; the last cut of the list and the twelve pairs of a text are not
reached.

`DirectoryProofs` proves three of them for any book, any pairs and any bounds.
`OwnersKeepTheirs` is `OwnersAddressesSurvive`: `BookInv` adds that each stamp is at most the
last one, and `ReadInv` that the card the drain has read is the card in the book as long as
its stamp is. `OutboxGivesTries` is `GivenItsTries`: `OutboxInv` adds that a key is owed at
most once and that a row never has more failures against it than calls were made; `PassInv`
that what a pass has in hand, and all it has before it, is owed still (so that no second
`Remember` starts the count of it again), that the call just made is one more than the row
says, and that an answer in hand means a write that landed. The one assumption it needs is that
`Attempts` is positive. `TheRoomIsAskedFirst` is `RoomAnswersFirst`, which is about what a
lone name is shown as in any state: the cascade of `Mentions` is unfolded for a turn of one
word (`FoldsOne`), and that a set of one person is the one the room means is
`NamesTheOneHere`. `BookSettles` is liveness and is only model-checked.

## 10. `Roster` and `Voice`

`store` is the table of rules, `rules` and `index` the snapshot the gate asks, `reload` what
the refresh task has read and not yet put in place, `op` the setup handler under way, and
`listed`, `seen`, `pending`, `card` the setup conversation; `told` is what he was last told
of each chat. `Voice` adds for each JID the turn that holds its lock, the cache in memory and
in the table, and the day's counts. A group has one JID and a chat with a contact two, one for
what comes and one for what he sends; `main.py:245` locks by JID, so the two turns of one
contact run beside each other under one rule. The lanes are the ambient one (`Records`, the
gate's decision) and the one he asks for (`AsksFor`); a note's way is lookup (`Hits`,
`Misses`), provider (`Transcribes`, `GivesUp`), and store, delivery and count (`Delivers`).

* `HisWordIsStored`: what he was told of a chat is what the table says, unless a write of it
  is under way: a failed write is never reported as made, and neither a death nor a late
  read takes back what was.
* `RosterSettles`: once he says no more and the table answers, the gate finds what the table
  has, for good.
* `RuleBounded`: a rule lets out no more than the limit a day and one note for each other
  JID it covers, whose turn passed the same check. It is not a bound for a chat: section 12.
* `PaidByJid`: a note is transcribed once for each JID of its chat, and as often again for
  each failure or death.

A contact and a group, three notes (`InTurn` takes them in order; `Spread` leaves out his
messages when there are three and the third of them when there are two), three messages in
the self-chat, one mishap (any failure or a death), a limit of one and a cache of one, so
that the cap and the cache are both full: the contact's own rule covers two JIDs and may let
out two notes, the blanket rule of the groups one, and three notes try. A boot that finds
the table closed costs two mishaps (the fault that closed it and the death before) and is
not in the run; the theorems have any number of them. Fairness: weak for the refresh loop and
the handler under way.

Assumed: a chat's key is canonical and its label distinct; both tables are in one database;
the refresh at boot is one step; the write of the table and the delivery are one step; the
model may name any number.

`VoiceProofs` proves `ToldIsStored` (`HisWordIsStored`), `PaidOncePerJid` (`PaidByJid`) and
`NoRunaway` (`RuleBounded`) of `VoiceSpec`. `ToldInv` says that until a write lands the table
says what he was told last, and from then on what he is about to be told. `Neat` types the
turns: one holds the lock of a JID of its note's chat, and its rule covers the JID. `PaidInv`
says that beyond what the mishaps explain there is one purchase for each turn that has a
transcript and has not put it away, as long as the table has no row; and once it has, one for
each JID, less the turns that are still between their lookup and the provider. `CapInv` counts
with what went out what is on its way past the gate: each such turn saw the count under the
limit, and there are no more of them than JIDs the rule covers (`ComingFew`). It needs that
the alphabet lists the chats, that `None` is none of them and that no chat is named as the two
blanket rules are. `RosterSettles`, which is liveness, is only
model-checked.

## 11. `Review`

`phase`, `busy`, `latest` and `turns` are the loops of a chat and their turns; `queue`,
`seqs`, `events` and `rows` the log on its way to the tables; `hookq`, `failures` and
`worker` the reaper; `reviews` and `done` the verdicts and the marks. A turn logs its lines
and a closing record (`Acts`), which may be dropped by a full queue, fail, or be split over
two batches (`Flushes`); the sweep and the hook pick loops, load them, grade them turn by turn
and mark them; `Restarts` empties the memory, may raise the rubric and trim old events.

* `JudgedInContext`: a turn is judged against the lines that this or an earlier turn logged,
  never a later one and never the reply itself.
* `DoneIsGraded`: a loop that carries the mark has each turn graded on its own row, but for
  records that landed after a pass began and reads and writes that failed.
* `QuietLoopsEndUp`: each loop with a row is marked in the end, once its window is gone; one
  with nothing left to review does not hold up the others.

Two loops with one batch slot, so that one can hold up the other; two turns, in one loop or
in two; one restart and one fault. Fairness: weak for the sweep's two steps alone, since
`reaper.py` calls the sweeper the guarantee and the hook an optimisation.

Assumed: the settling time is at least the longest window, though a slow turn may outlast
it; each loop has its own lock; a clean shutdown is a flush and then a restart. Left out: the
cap on counters, `scope_version`, redaction, audio, control events that are no record, the
rows of findings; rows are purged only with their events.
`JudgedInContext` leaves loops out whose counter a restart took (`split`), see below.

`FlowProofs` proves the two safety properties of `ReviewSpec`, `JudgedAsItStood` and
`MarkedMeansGraded`, for any loops, turns, restarts and faults and any size of the queue, the
batch and the hook (`ReviewAssumption`). Neither is inductive. `ReviewInv` says of the log:

* `QueueInv`: the queued lines of a loop are in the order of their turns, a turn's record
  the last of them, and the record that closes a loop the last of all;
* `TableInv`: what is stored came before what is queued, and so before the turn that runs
  (`TurnsInv`);
* `NumbersInv`: the counter is above every number given while there is more to number
  (`Below`: a loop that is closed starts over, which is harmless only because nothing
  follows), and a record's number parts the lines of its loop, those its turn or an earlier
  one logged below it and the rest above (`Parted`);
* `GradesInv`: a verdict is the one of the record that has its number (`Graded`), which is
  what makes writing it again harmless, and keeps the counter above it also when the record
  has been purged.

And of the reaper: a turn in hand is one of the loop's records (`TurnsInHand`), and a pass
that missed nothing has graded what it does not hold (`PassesInv`), so that the mark, which is
written when it holds none, is true. What the writer's fold over a batch does is proved by
the least counterexample rather than by the library's induction theorems: the states
of the fold are the values of a function on the naturals (`Steps`, `FoldsByRecord`), and if
one of them broke the invariant there would be a least one (`LeastNumber`), whose predecessor
`NextIsNumbered` carries over. `QuietLoopsEndUp` is liveness and is only model-checked.

## 12. Where the code and its words part

Two runs check a sentence of the code each, and TLC finds it violated; `PROJECT.json`
quotes them.

`EventsApproved`:
`calendar_format.py:236` says the card lists what is changing so that the owner can tell
exactly what he is approving. A trip of whole days moved by its first day alone is shown
ending on the day it ends now, and the handler moves the whole span along.

`TagBeforeCard`, without any fault: `carry.py:1` says a fresh tag finds his yes *under* the
card, and line 23 that no write runs that he did not approve. But the message that woke the
turn is skipped wherever it stands, and counts as a yes by its own words: "@lisa pode
agendar", written while an earlier turn is still composing, waits for the lock, and its turn
finds a card that came after it and approves it.

A third has no run of its own; the proof of `YesIsSpent` found it, and TLC finds
`YesApprovesOnce` violated in both of its forms. `context.py:407` and `state.py:54` say that a
message of his is not read, or allowed to approve anything, twice.

* One failed query is enough. At a tag the list of what he has said is made of what was
  fetched (413), so when the query for his messages failed (`evolution.py:214` makes that an
  empty page) it holds the tag alone, and the cursor stands on it. A tag, a contact's word and
  a second tag are read by the first tag's turn; his yes comes while it composes a card; the
  contact's turn reads the yes and runs the write; the second tag's turn, its query failed,
  holds another write; and the turn of the yes reads it as new, and it approves that one too.
* `_seen` (`main.py:240`) is the process's own. A tag that was itself the yes (section
  12, `TagBeforeCard`), sent again after the process has died, starts a new turn, and is the
  yes to whatever card is then on hold.

`OneYesOneWrite` excepts just these two, so the run and the theorem say that nothing else
makes a yes count twice.

Others were met in traces or while reading, and have no run either.

Manager:
* a message to a card of a board that came up paused overwrites, and then strikes off, the
  run that was being kept (`server.py:160`); on such a board a restart waits for runs that no
  process runs (`server.py:252`); a resume handled while `pause()` is in its round leaves the
  board marked paused while it takes work;
* the queue is emptied on disk before its messages are runs again (`pending.py:17`); a run
  that winds down after a resume emptied it leaves its carry-on there;
* a chat turn has no journal entry, so a restart swallows it; one had after its run failed
  finds no turn kind, so its call of the delegate tool is accepted and dropped; one on a
  draining board leaves the wound-down mark for the card's next run;
* cutting a run off is "the one thing we promised never to do" (`server.py:278-279`) and a shutdown
  "cannot be the thing that destroys work" (line 330), but both look at the runs, broadcast, and
  go 0.3 or 0.25 seconds later without a second look (284-290, 331-343): a run that starts in
  between, a triage run or the carry-on of another, is cut off and left to the journal;
* `attempts` counts resumes and not deaths: `recovery.py:21` gives up "this run has already
  taken the process down MAX_ATTEMPTS times", and `journal.py:35` says twice of the same bound.
  A run may do so `MAX_ATTEMPTS + 1` times before it is given up, and is given up after fewer
  when a death falls between the count and the run (`ResumesBounded` is what holds);
* "the folder tree mirrors the board exactly" (`board.py:7`), but a death after a card's
  folder was moved and before `board.json` was written leaves its files where no record points
  (`adrift`, section 4);
* "No card leaves the backlog untyped" (`board.py:662`) and "nothing reaches the build pipeline
  that has not been planned first" (`models.py:56`) are kept by `route_card` alone: the
  `move_card` tool of the board chat's agent (`manager.py:890-910`) and a person's drag pass it
  by, and a card without a kind may be created in the fast lane;
* a second `./run.sh` runs the lifespan's recovery before its bind fails, and a process that
  starts clears the sentinel of a board that restarts (`__main__.py:244`); a `board.json` that
  cannot be read is saved over as empty (`board.py:97`);
* an improved default of a prompt does not reach one that only the path rewrite of migration 2
  has changed (`update.py:14`, `m0002_manager_policy.py:63-81`).

Dispatcher: a continuation that has read the owner writes it back over a tag handled in
between.

Conversation: his untagged yes, written while the card is being composed, approves it too
(`resolve.py:67`); a tag that says yes and is delivered again after a death approves
whatever card is out by then (`main.py:240`, `carry.py:116`); a card that failed to go out is suppressed the next time
(`confirm.py:187`).

Events: the card's note on guests (`calendar_format.py:356-357`) and the handler differ when
only a quiet field changes; `virtual: true` for an event that has a video call clears the
location, or renews the call, unnamed (524-530); a start sent again with the value it has gives
an event of no length the default one, unnamed (514); a draft of a date with `all_day: false`
shows midnight on its card (`calendar_format.py:174-175`) and is created at the default hour
(509-510), while the composer says of another default, the video call, "Same resolver the handler
builds the body from" (220): `CreateIsTheCard` has the difference as it is; a quiet replay of
`all_day` alone reports no change; a create's list of what was requested but not created
never reaches him; an end that is a date is ignored on an event with an hour; guests added
between the find and the write are not invited; the replay of a quiet delete reports a
failure; an end before the first day is moved to it.

Directory: the write side and the read side pick different contacts of one name
(`directory.py:499-516`, 502); a second address of a learned contact replaces the first
(441-443); a create may be asked for twice by two chats, and again after a death between
Google's commit and the deletion of the row, although `directory.py:764` says "ONE attempt, ever"
and `tools/people.py:224` "Runs once" (only a failure is counted); a learned contact goes with an
emptied book (682); the cursor is saved by an empty delta although the mirror's write of the
one before failed; two cards of the same full name are both shown.

Roster and voice: the target of an approved write is resolved again, and numbers that were
listed anew in between may mean another chat (`setup_format.py`, `resolve_target`); the
receipt of a removal lists with new numbers; the cap is called one per chat
(`roster.py:222` "Per-chat transcripts per calendar day", `config.py:103`,
`auto_transcribe.py:12`) and counts by rule (`auto_transcribe.py:33`, 46, 65), so that a chat
with a rule of its own and a blanket one has two limits, the chats of a blanket rule share one,
and the check before the provider's call lets a second turn pass: in the instance of
`RosterVoices` TLC finds two notes of one chat out in a day whose limit is one; a clip is to be
"transcribed at most once" (`cache.py:13`), which the two locks of a contact's two JIDs do not
keep, and TLC finds a note bought twice with no fault; with the
store unopened at boot enrolments live in memory only (`main.py:81-93`); "not on the list" is
said when the read failed; a failed send is recorded as delivered
(`auto_transcribe.py:61-67`); `main.py:164` reuses `rstore`.

Review: `store.py:236-243` says that dropping the assistant's line of the same trace is
exact, but on a fresh tag her earlier replies carry the tag's trace and are hidden too; a
loop marked done before its last record landed is never graded, though `reaper.py:76-78` calls
the sweeper the guarantee; counters start over at nought in a loop under way, against
`store.py:6-9`, and verdicts of equal numbers collide; a loop all of whose turns failed, or
that could not be loaded three times, is marked with nothing graded; `ReviewStore.purge` is
never called.

## 13. Not modelled

* The board's web client: presentation; it keeps no state the server relies on.
* Prompts, the judge's prompt and taxonomy, reports, rendering and languages: text.
* The wrappers of outside services beyond the ways they fail.
* Mary: a reduced copy of Lisa's graph, whose model would repeat `Conversation` and `Voice`.
* Container files, except the times that `Dispatcher` assumes.
* The mock paths of tests, media and contact cards that ride with a turn.

`PROJECT.json` lists each with its reason, and the hazards that no property covers (two:
`manager.py:334`, `server.py:161`) with theirs: for each of them the code does what the
property would forbid, see section 12.
