------------------------------- MODULE Review -------------------------------
(***************************************************************************)
(* The log of a flow and the review of its turns (app/logstore.py,         *)
(* app/review/store.py, app/review/__init__.py, app/review/reaper.py).     *)
(*                                                                         *)
(* A loop is one listening window.  Its turns hand their lines and a       *)
(* closing record to a writer through a bounded queue; the writer numbers  *)
(* them per loop and stores them.  Two workers, a sweep for quiet loops    *)
(* and a hook for loops she closed, load a loop's turns, have each graded  *)
(* against the chat as it stood, and mark the loop done.  The queue, the   *)
(* numbering and the workers live in memory, the tables and the window     *)
(* outlive the process.                                                    *)
(***************************************************************************)
EXTENDS Integers, Sequences, FiniteSets, TLC, SequencesExt

CONSTANTS
    Loops,
    QueueMax, FlushMax,     \* queue_max and batch_max of the log
    HookMax, SweepMax,      \* the reaper's queue and review_batch
    None,
    MaxTurns, MaxRestarts, MaxFaults    \* bounds

ASSUME ReviewAssumption ==
    /\ {QueueMax, FlushMax, HookMax, SweepMax} \subseteq Nat \ {0}
    /\ {MaxTurns, MaxRestarts, MaxFaults} \subseteq Nat
    /\ None \notin Loops

Workers == {"sweep", "hook"}

VARIABLES
    phase,      \* per loop: "new", its window "open", or "gone"
    busy,       \* per loop: the turn that is running in it, or 0
    latest,     \* per loop: the last turn that ended in it
    turns,      \* turns so far; a turn's number is its trace id
    queue,      \* what the writer has not taken yet
    seqs,       \* per loop: the next number, 0 when there is no counter
    events,     \* the events table
    rows,       \* the loops table, least recently updated first
    hookq,      \* loops she closed, for the hook worker
    failures,   \* per loop: empty tries in a row
    worker,     \* where each worker is
    reviews,    \* the reviews table, at the present rubric
    done,       \* the loops of loop_reviews, at the present rubric
    split,      \* loops whose counter a restart took
    missed,     \* loops a fault or a late record kept a pass from seeing whole
    restarts, faults

chats == <<phase, busy, latest, turns>>
log == <<queue, seqs, events, rows>>
grades == <<reviews, done>>
reviewVars == <<chats, log, hookq, failures, worker, grades, split, missed, restarts, faults>>

Idle == [pc |-> "idle", todo |-> <<>>, loop |-> None, turns |-> {}, graded |-> FALSE]

------------------------------------------------------------------------
(* The log.                                                                *)

\* A line is one message: whose it is, and which turn it belongs to (0 for one
\* said before the tag).  The turn that logs it is its trace.
Line(l, trace, whose, of) ==
    [loop |-> l, trace |-> trace, kind |-> whose, of |-> of, closes |-> FALSE]
Record(l, trace, close) ==
    [loop |-> l, trace |-> trace, kind |-> "record", of |-> trace, closes |-> close]

First(s, n) == SubSeq(s, 1, IF Len(s) < n THEN Len(s) ELSE n)

\* enqueue: a full queue drops what comes.
Enqueues(records) == queue' = First(queue \o records, QueueMax)

\* The row of the events table: what was logged, under its number.
Row(r, n) ==
    [loop |-> r.loop, trace |-> r.trace, kind |-> r.kind, of |-> r.of, closes |-> r.closes, seq |-> n]

\* The index on the transcript keeps one line per message of a loop.
Conflicts(table, r) ==
    r.kind # "record" /\ \E e \in table : [e EXCEPT !.trace = r.trace, !.seq = 0] = Row(r, 0)

Numbered(acc, r) ==
    LET n == acc.seqs[r.loop] IN
    [ seqs   |-> [acc.seqs EXCEPT ![r.loop] = IF r.closes THEN 0 ELSE n + 1],
      events |-> IF Conflicts(acc.events, r) THEN acc.events ELSE acc.events \cup {Row(r, n)},
      rows   |-> IF r.kind = "record"
                 THEN Append(SelectSeq(acc.rows, LAMBDA l : l # r.loop), r.loop)
                 ELSE acc.rows ]

\* The loops a pass is loading or grading, or has marked.
Begun == done \cup {worker[w].loop : w \in {v \in Workers : worker[v].pc \in {"grade", "empty"}}}

\* _writer_loop and _flush: a batch is numbered, then written in one transaction;
\* when that fails the batch is gone and its numbers with it.
Flushes ==
    /\ queue # <<>>
    /\ LET batch == First(queue, FlushMax)
           after == FoldLeft(Numbered, [seqs |-> seqs, events |-> events, rows |-> rows], batch)
       IN /\ queue' = SubSeq(queue, Len(batch) + 1, Len(queue))
          /\ seqs' = after.seqs
          /\ \/ /\ events' = after.events
                /\ rows' = after.rows
                /\ missed' = missed \cup {l \in Begun : \E e \in after.events \ events :
                                                            e.loop = l /\ e.kind = "record"}
                /\ UNCHANGED faults
             \/ /\ faults < MaxFaults
                /\ faults' = faults + 1
                /\ UNCHANGED <<events, rows, missed>>
    /\ UNCHANGED <<chats, hookq, failures, worker, grades, split, restarts>>

------------------------------------------------------------------------
(* The turns.                                                              *)

\* A tag opens a loop: the chat above it is logged under the tag's turn, her
\* earlier replies with it.
Opens(l) ==
    /\ phase[l] = "new" /\ turns < MaxTurns
    /\ turns' = turns + 1
    /\ phase' = [phase EXCEPT ![l] = "open"]
    /\ busy' = [busy EXCEPT ![l] = turns']
    /\ Enqueues(<<Line(l, turns', "hers", 0), Line(l, turns', "his", turns')>>)
    /\ UNCHANGED <<latest, seqs, events, rows, hookq, failures, worker, grades, split, missed, restarts, faults>>

\* A message in an open window: what came since the last turn's message is
\* logged, and that turn's own reply is part of it.
Continues(l) ==
    /\ phase[l] = "open" /\ busy[l] = 0 /\ turns < MaxTurns
    /\ turns' = turns + 1
    /\ busy' = [busy EXCEPT ![l] = turns']
    /\ \E again \in {<<>>, <<Line(l, turns', "hers", latest[l])>>} :
          /\ again # <<>> => latest[l] # 0
          /\ Enqueues(again \o <<Line(l, turns', "his", turns')>>)
    /\ UNCHANGED <<phase, latest, seqs, events, rows, hookq, failures, worker, grades, split, missed, restarts, faults>>

\* act_node: the reply's line, the offer to the hook, then the record.
Acts(l, replies, close) ==
    /\ busy[l] # 0
    /\ busy' = [busy EXCEPT ![l] = 0]
    /\ latest' = [latest EXCEPT ![l] = busy[l]]
    /\ phase' = [phase EXCEPT ![l] = IF close THEN "gone" ELSE "open"]
    /\ Enqueues((IF replies THEN <<Line(l, busy[l], "hers", busy[l])>> ELSE <<>>)
                \o <<Record(l, busy[l], close)>>)
    /\ hookq' = IF close THEN First(Append(hookq, l), HookMax) ELSE hookq
    /\ UNCHANGED <<turns, seqs, events, rows, failures, worker, grades, split, missed, restarts, faults>>

\* A turn that raises is logged and forgotten: its lines stay, it has no record.
Raises(l) ==
    /\ busy[l] # 0
    /\ busy' = [busy EXCEPT ![l] = 0]
    /\ UNCHANGED <<phase, latest, turns, log, hookq, failures, worker, grades, split, missed, restarts, faults>>

\* A window runs out, over a slow turn too.
Expires(l) ==
    /\ phase[l] = "open"
    /\ phase' = [phase EXCEPT ![l] = "gone"]
    /\ UNCHANGED <<busy, latest, turns, log, hookq, failures, worker, grades, split, missed, restarts, faults>>

------------------------------------------------------------------------
(* The review.                                                             *)

LinesOf(l) == {e \in events : e.loop = l /\ e.kind # "record"}
RecordsOf(l) == {e \in events : e.loop = l /\ e.kind = "record"}

\* Mutant: every line below the record's number.
context_for_all(lines, trace) == lines

\* _context_for: without the assistant's lines this same activation logged.
context_for(lines, trace) == {e \in lines : ~ (e.trace = trace /\ e.kind = "hers")}

load_turns(l) ==
    { [seq |-> r.seq, trace |-> r.trace,
       lines |-> context_for({e \in LinesOf(l) : e.seq < r.seq}, r.trace)] : r \in RecordsOf(l) }

\* A row counts as quiet once nothing has updated it for the longest window and
\* a margin: its window is gone, or its last record never reached it.
QuietLoop(l) ==
    \/ phase[l] # "open"
    \/ \A r \in RecordsOf(l) : r.trace # latest[l]

pending_loops == First(SelectSeq(rows, LAMBDA l : l \notin done /\ QuietLoop(l)), SweepMax)

\* The worker goes on to the next loop it took.
Taking(todo) ==
    IF todo = <<>> THEN Idle
    ELSE [Idle EXCEPT !.pc = "load", !.todo = Tail(todo), !.loop = Head(todo)]

Goes(w, todo) == worker' = [worker EXCEPT ![w] = Taking(todo)]

sweep_once ==
    /\ worker["sweep"] = Idle
    /\ pending_loops # <<>>
    /\ Goes("sweep", pending_loops)
    /\ UNCHANGED <<chats, log, hookq, failures, grades, split, missed, restarts, faults>>

HookTakes ==
    /\ worker["hook"] = Idle
    /\ hookq # <<>>
    /\ Goes("hook", <<Head(hookq)>>)
    /\ hookq' = Tail(hookq)
    /\ UNCHANGED <<chats, log, failures, grades, split, missed, restarts, faults>>

\* Mutant: the loop is marked before its turns are graded.
MarksEarly(w) ==
    LET l == worker[w].loop IN
    /\ worker[w].pc = "load"
    /\ load_turns(l) # {}
    /\ done' = done \cup {l}
    /\ worker' = [worker EXCEPT ![w].turns = load_turns(l), ![w].pc = "grade"]
    /\ UNCHANGED <<chats, log, hookq, failures, reviews, split, missed, restarts, faults>>

\* review_loop reads the turns; a read that fails counts as none.
Loads(w) ==
    LET l == worker[w].loop IN
    /\ worker[w].pc = "load"
    /\ \/ /\ worker' = [worker EXCEPT ![w].turns = load_turns(l),
                                      ![w].pc = IF load_turns(l) = {} THEN "empty" ELSE "grade"]
          /\ UNCHANGED <<missed, faults>>
       \/ /\ faults < MaxFaults
          /\ faults' = faults + 1
          /\ worker' = [worker EXCEPT ![w].pc = "empty"]
          /\ missed' = missed \cup {l}
    /\ UNCHANGED <<chats, log, hookq, failures, grades, split, restarts>>

\* write_review: a row that is there keeps the reply it was written with and
\* takes the new verdict.
Upserted(l, t) ==
    LET old == {r \in reviews : r.loop = l /\ r.seq = t.seq} IN
    (reviews \ old) \cup
        { [loop |-> l, seq |-> t.seq, verdict |-> t.trace,
           reply |-> IF old = {} THEN t.trace ELSE (CHOOSE r \in old : TRUE).reply] }

\* _review_turn, for the turns of a loop in any order.
Grades(w) ==
    LET l == worker[w].loop IN
    /\ worker[w].pc = "grade"
    /\ \E t \in worker[w].turns :
          \/ /\ reviews' = Upserted(l, t)
             /\ worker' = [worker EXCEPT ![w].turns = @ \ {t}, ![w].graded = TRUE]
             /\ UNCHANGED <<missed, faults>>
          \/ /\ faults < MaxFaults
             /\ faults' = faults + 1
             /\ missed' = missed \cup {l}
             /\ worker' = [worker EXCEPT ![w].turns = @ \ {t}]
             /\ UNCHANGED reviews
    /\ UNCHANGED <<chats, log, hookq, failures, done, split, restarts>>

\* The end of review_loop: marked done, and a failure to mark is let pass.  A
\* loop none of whose turns was graded counts as an empty try all the same.
Marks(w) ==
    LET l == worker[w].loop IN
    /\ worker[w].pc = "grade" /\ worker[w].turns = {}
    /\ \/ done' = done \cup {l} /\ UNCHANGED faults
       \/ faults < MaxFaults /\ faults' = faults + 1 /\ UNCHANGED done
    /\ IF worker[w].graded
       THEN failures' = [failures EXCEPT ![l] = 0] /\ Goes(w, worker[w].todo)
       ELSE worker' = [worker EXCEPT ![w].pc = "empty"] /\ UNCHANGED failures
    /\ UNCHANGED <<chats, log, hookq, reviews, split, missed, restarts>>

\* _review, an empty try.  The third in a row marks the loop done; when that
\* write fails the error takes the rest of the batch with it.
Tries == 3

\* Mutant: the tries are not counted.
CountedNot(l) == failures
Counted(l) == [failures EXCEPT ![l] = @ + 1]
Shrugs(w) ==
    LET l == worker[w].loop IN
    /\ worker[w].pc = "empty"
    /\ Counted(l)[l] < Tries
    /\ failures' = Counted(l)
    /\ Goes(w, worker[w].todo)
    /\ UNCHANGED <<chats, log, hookq, grades, split, missed, restarts, faults>>
GivesUp(w) ==
    LET l == worker[w].loop IN
    /\ worker[w].pc = "empty"
    /\ Counted(l)[l] >= Tries
    /\ failures' = [failures EXCEPT ![l] = 0]
    /\ \/ done' = done \cup {l} /\ Goes(w, worker[w].todo) /\ UNCHANGED faults
       \/ faults < MaxFaults /\ faults' = faults + 1 /\ Goes(w, <<>>) /\ UNCHANGED done
    /\ UNCHANGED <<chats, log, hookq, reviews, split, missed, restarts>>

------------------------------------------------------------------------
\* The process goes and comes back, at the same rubric or a newer one.  What is
\* in memory is lost, and _purge trims what is old: the events of a loop go
\* long before its row, which may be as old.
Restarts(newer, old, older) ==
    /\ restarts < MaxRestarts
    /\ old \subseteq {l \in Loops : phase[l] = "gone"} /\ older \subseteq old
    /\ restarts' = restarts + 1
    /\ busy' = [l \in Loops |-> 0]
    /\ queue' = <<>>
    /\ seqs' = [l \in Loops |-> 0]
    /\ events' = {e \in events : e.loop \notin old}
    /\ rows' = SelectSeq(rows, LAMBDA l : l \notin older)
    /\ hookq' = <<>>
    /\ failures' = [l \in Loops |-> 0]
    /\ worker' = [w \in Workers |-> Idle]
    /\ reviews' = IF newer THEN {} ELSE reviews
    /\ done' = IF newer THEN {} ELSE done
    /\ split' = split \cup {l \in Loops : seqs[l] > 0}
    /\ UNCHANGED <<phase, latest, turns, missed, faults>>

ReviewInit ==
    /\ phase = [l \in Loops |-> "new"]
    /\ busy = [l \in Loops |-> 0] /\ latest = [l \in Loops |-> 0]
    /\ turns = 0
    /\ queue = <<>> /\ seqs = [l \in Loops |-> 0]
    /\ events = {} /\ rows = <<>>
    /\ hookq = <<>> /\ failures = [l \in Loops |-> 0]
    /\ worker = [w \in Workers |-> Idle]
    /\ reviews = {} /\ done = {}
    /\ split = {} /\ missed = {}
    /\ restarts = 0 /\ faults = 0

Turn(l) ==
    \/ Opens(l) \/ Continues(l) \/ Raises(l) \/ Expires(l)
    \/ \E replies, close \in BOOLEAN : Acts(l, replies, close)
Reviews(w) == Loads(w) \/ Grades(w) \/ Marks(w) \/ Shrugs(w) \/ GivesUp(w)

ReviewNext ==
    \/ \E l \in Loops : Turn(l)
    \/ Flushes
    \/ sweep_once \/ HookTakes
    \/ \E w \in Workers : Reviews(w)
    \/ \E newer \in BOOLEAN, old \in SUBSET Loops : \E older \in {{}, old} : Restarts(newer, old, older)

\* The sweep alone is the guarantee: nothing is assumed of the hook, the writer
\* or the chats.
Fairness == WF_reviewVars(sweep_once) /\ WF_reviewVars(Reviews("sweep"))

ReviewSpec == ReviewInit /\ [][ReviewNext]_reviewVars /\ Fairness

------------------------------------------------------------------------
(* Properties.                                                             *)

\* The judge is shown a turn against the chat as it stood: of the lines that
\* reached the log, those this turn or an earlier one logged, never a later
\* line and never the reply it is judging - whatever batches they were written
\* in, and whatever was dropped.  (app/review/store.py, load_turns)
JudgedInContext ==
    \A w \in Workers : LET l == worker[w].loop IN
        l \notin split =>
        \A t \in worker[w].turns :
            t.lines = {e \in LinesOf(l) : e.trace < t.trace \/ (e.trace = t.trace /\ e.kind = "his")}

\* A loop that carries the mark has every turn of it graded, each verdict on
\* the row of its own turn - whichever worker marked it, and whatever crash came
\* in between; but for turns whose record landed after a pass had begun, and for
\* reads and writes that failed.  (app/review/__init__.py, review_loop)
DoneIsGraded ==
    \A l \in done \ (split \cup missed) : \A r \in RecordsOf(l) :
        [loop |-> l, seq |-> r.seq, verdict |-> r.trace, reply |-> r.trace] \in reviews

\* Every loop with a row is reviewed in the end, once its window is gone: one
\* with nothing left to review does not hold up the others.
\* (app/review/reaper.py, sweep_once and _review)
QuietLoopsEndUp ==
    \A l \in Loops :
        l \in ToSet(rows) /\ phase[l] = "gone" /\ busy[l] = 0  ~>  l \in done \/ l \notin ToSet(rows)
=============================================================================
