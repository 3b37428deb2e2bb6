------------------------------ MODULE Upgrade -------------------------------
(***************************************************************************)
(* Bringing a working folder along with the system: the processes of       *)
(* `python -m manager` (serve, migrate, ship) over one folder, the         *)
(* migrations between the folder's schema and the code's, the adoption of  *)
(* an old board, the three-way merge of one worker prompt, and the client  *)
(* that drains a running board to ship over it.                            *)
(*                                                                         *)
(* A process runs the code that was on the disk when it started.  An       *)
(* earlier release is taken to work as this one does, with the migrations  *)
(* it shipped.  One write of a file, with the read it depends on, is one   *)
(* step; a process may die between any two.  Whether a board's runs hold   *)
(* up its end is Supervisor's business: here it may, or may not.           *)
(***************************************************************************)
EXTENDS Naturals, Sequences, FiniteSets, SequencesExt

CONSTANTS
    Procs,
    Pulled,      \* the releases this install ever has
    Improved,    \* the releases that improved the default prompt
    MaxPulls,    \* bound: releases pulled
    MaxKills     \* bound: processes that die

\* What each migration writes, in order.
Steps == << <<"layout", "baseline">>, <<"policy", "repoint">>, <<"maint", "kinds">>,
            <<"colors">>, <<"chats">>, <<"exped">>, <<"stopped">> >>
LATEST == Len(Steps)
BoardMarks == {"kinds", "chats", "stopped"}
PipeMarks == {"maint", "colors", "exped"}

ASSUME UpgradeConstants ==
    /\ Pulled \subseteq 1..LATEST /\ Improved \subseteq 1..LATEST
    /\ MaxPulls \in Nat /\ MaxKills \in Nat

VARIABLES
    code,      \* the release on the disk
    ws,        \* the working folder
    old,       \* the board an old install kept inside the system folder
    proc,      \* the processes
    born,      \* history: the cards somebody made
    edited,    \* history: the human changed the prompt
    pulls, kills

vars == <<code, ws, old, proc, born, edited, pulls, kills>>

-----------------------------------------------------------------------------
(* Releases, prompts and folders *)

MarksOf(m) == Range(Steps[m]) \cap (BoardMarks \cup PipeMarks)
Known(v) == UNION {MarksOf(m) : m \in 1..v}

\* The default prompt of a release.  Until 0002 it named a dead path.
Default(v) ==
    LET bodies == {n \in Improved : n <= v}
    IN  [body |-> IF bodies = {} THEN 0 ELSE CHOOSE n \in bodies : \A b \in bodies : b <= n,
         path |-> IF v >= 2 THEN "token" ELSE "stale"]
MINE == LATEST + 1
NoFile == [body |-> LATEST + 2, path |-> "none"]
Mine(path) == [body |-> MINE, path |-> path]
Texts == {Default(v) : v \in 0..LATEST} \cup
         {[Default(v) EXCEPT !.path = "token"] : v \in 0..LATEST} \cup
         {Mine("stale"), Mine("token"), NoFile}

Nothing == [board |-> FALSE, pipes |-> FALSE, marks |-> {}, cards |-> {}, stamp |-> 0,
            versioned |-> FALSE, schema |-> 0, policy |-> "none",
            prompt |-> NoFile, base |-> NoFile]

\* A folder that release v made, or brought up to itself, with a card in it.
Built(v, text) ==
    [board |-> TRUE, pipes |-> TRUE, marks |-> Known(v), cards |-> {"his"}, stamp |-> v,
     versioned |-> v > 0, schema |-> v, policy |-> IF v >= 2 THEN "default" ELSE "none",
     prompt |-> text, base |-> IF v > 0 THEN Default(v) ELSE NoFile]

Exists == ws.versioned \/ ws.board
Pending(v) == ws.stamp < v

-----------------------------------------------------------------------------
(* Processes *)

\* `next` says how a board that serves is about to end, if it is.
Off == [pc |-> "off", cmd |-> "none", v |-> 0, at |-> 0, part |-> 0, left |-> {}, mem |-> {},
        next |-> "stay"]
PCs == {"off", "probe", "ensure", "adopt", "aside", "settle", "fresh", "born", "backup", "apply",
        "reconcile", "sync", "rebase", "stamp", "bind", "serving", "ask", "wait", "stop", "gone"}

Init ==
    /\ code \in Pulled
    /\ old \in {"none", "data"}
    /\ ws \in {Nothing, Built(code, Default(code)), Built(code, Mine(Default(code).path)),
               [Built(0, Default(0)) EXCEPT !.marks = {}], [Built(0, Mine("stale")) EXCEPT !.marks = {}]}
    /\ proc = [p \in Procs |-> Off]
    /\ born = ws.cards \cup (IF old = "data" THEN {"old"} ELSE {})
    /\ edited = (ws.prompt.body = MINE)
    /\ pulls = 0 /\ kills = 0

Serving == {p \in Procs : proc[p].pc = "serving"}
Goes(p, pc) == proc' = [proc EXCEPT ![p].pc = pc]
Ends(p) == proc' = [proc EXCEPT ![p] = Off]

\* Everything but the folder and the processes, everything but the processes.
world == <<code, born, edited, pulls, kills>>
rest == <<world, ws, old>>

\* serve migrates first if it must.
Started(cmd) ==
    [Off EXCEPT !.cmd = cmd, !.v = code,
                !.pc = CASE cmd = "serve" /\ Exists /\ ~Pending(code) -> "bind"
                         [] cmd = "ship" -> "ask"
                         [] OTHER -> "probe"]

\* The command line.
Start(p, cmd) ==
    /\ proc[p] = Off
    /\ proc' = [proc EXCEPT ![p] = Started(cmd)]
    /\ UNCHANGED rest

\* Mutant: nobody asks whether a board is serving.
ProbeNot(p) == proc[p].pc = "probe" /\ Goes(p, "ensure") /\ UNCHANGED rest

\* _migrate: never under a board that is serving.
Probe(p) ==
    /\ proc[p].pc = "probe"
    /\ IF Serving # {} THEN Ends(p) ELSE Goes(p, "ensure")
    /\ UNCHANGED rest

-----------------------------------------------------------------------------
(* Workspace.ensure *)

\* The manager's standing orders are scaffolded once.
GiveOrders(f) == [f EXCEPT !.policy = IF @ = "none" THEN "default" ELSE @]
Settled(f, v) == IF v >= 2 THEN GiveOrders(f) ELSE f

\* A fresh folder adopts the old board, or will be born current; a folder that
\* has a board refuses to strand an old one.
Ensure(p) ==
    /\ proc[p].pc = "ensure"
    /\ \/ /\ ~Exists /\ old = "data"
          /\ proc' = [proc EXCEPT ![p].pc = "adopt", ![p].left = {"board", "pipes", "prompt"}]
       \/ /\ Exists /\ old = "data"
          /\ Ends(p)
       \/ /\ old # "data"
          /\ Goes(p, IF Exists THEN "settle" ELSE "fresh")
    /\ UNCHANGED rest

\* _copy_into: the data folder in the order of its listing, then the prompts.
Adopt(p, item) ==
    /\ proc[p].pc = "adopt" /\ old = "data" /\ item \in proc[p].left
    /\ item = "prompt" => proc[p].left = {"prompt"}
    /\ ws' = CASE item = "board" -> [ws EXCEPT !.board = TRUE, !.cards = @ \cup {"old"},
                                               !.marks = @ \ BoardMarks, !.schema = 0]
               [] item = "pipes" -> [ws EXCEPT !.pipes = TRUE, !.marks = @ \ PipeMarks]
               [] OTHER -> [ws EXCEPT !.prompt = Default(0)]
    /\ proc' = [proc EXCEPT ![p].left = @ \ {item},
                            ![p].pc = IF item = "prompt" THEN "aside" ELSE @]
    /\ UNCHANGED <<world, old>>

\* Another process has moved the old board aside.  A folder that is not there is
\* not copied; one that goes in the middle of its copy is an exception.
AdoptNothing(p) ==
    /\ proc[p].pc = "adopt" /\ old # "data"
    /\ \/ /\ proc[p].left = {"board", "pipes", "prompt"}
          /\ proc' = [proc EXCEPT ![p].left = {"prompt"}]
       \/ proc[p].left = {"prompt"} /\ Goes(p, "aside")
       \/ proc[p].left \notin {{"prompt"}, {"board", "pipes", "prompt"}} /\ Ends(p)
    /\ UNCHANGED rest

\* The originals are moved aside, those that are still there.
MoveAside(p) ==
    /\ proc[p].pc = "aside"
    /\ old' = IF old = "data" THEN "aside" ELSE old
    /\ Goes(p, IF Exists THEN "settle" ELSE "fresh")
    /\ UNCHANGED <<world, ws>>

SettlePolicy(p) ==
    /\ proc[p].pc \in {"settle", "fresh"}
    /\ ws' = Settled(ws, proc[p].v)
    /\ Goes(p, IF proc[p].pc = "settle" THEN "backup" ELSE "born")
    /\ UNCHANGED <<world, old>>

\* There is nothing older to migrate.
BornCurrent(p) ==
    /\ proc[p].pc = "born"
    /\ ws' = [ws EXCEPT !.stamp = proc[p].v, !.versioned = TRUE]
    /\ Goes(p, "backup")
    /\ UNCHANGED <<world, old>>

-----------------------------------------------------------------------------
(* migrations.apply *)

\* What is pending is read once; the folder is backed up before the first of it.
Backup(p) ==
    /\ proc[p].pc = "backup"
    /\ proc' = IF Pending(proc[p].v)
               THEN [proc EXCEPT ![p].pc = "apply", ![p].at = ws.stamp + 1, ![p].part = 1]
               ELSE [proc EXCEPT ![p].pc = "sync"]
    /\ UNCHANGED rest

\* Nothing is added to a file that is not there: the board seeds its own.
InBoard(f, mark) == IF f.board THEN [f EXCEPT !.marks = @ \cup {mark}] ELSE f
InPipelines(f, mark) == IF f.pipes THEN [f EXCEPT !.marks = @ \cup {mark}] ELSE f

\* 1: board.json is versioned; a baseline only where the prompt is provably the default.
VersionBoard(f) == [f EXCEPT !.schema = IF f.board THEN 1 ELSE @]
BackfillBaseline(f, v) ==
    IF f.base = NoFile /\ f.prompt = Default(v) THEN [f EXCEPT !.base = f.prompt] ELSE f
\* 2: standing orders (GiveOrders), and the dead path in the prompt - not in its baseline.
Repoint(f) == IF f.prompt = NoFile THEN f ELSE [f EXCEPT !.prompt.path = "token"]
\* 3: the maintenance columns, written back without the colours; a kind on every card.
SeedMaint(f) ==
    IF "maint" \in f.marks THEN f ELSE InPipelines([f EXCEPT !.marks = @ \ {"colors"}], "maint")
BackfillKinds(f) == InBoard(f, "kinds")
\* 4-7
PaintPipelines(f) == InPipelines(f, "colors")
GiveWorkersChats(f) == InBoard(f, "chats")
SeedExpedited(f) == InPipelines(f, "exped")
RememberStopped(f) == InBoard(f, "stopped")

Migrated(f, v, part) ==
    CASE part = "layout" -> VersionBoard(f)  [] part = "baseline" -> BackfillBaseline(f, v)
      [] part = "policy" -> GiveOrders(f)    [] part = "repoint" -> Repoint(f)
      [] part = "maint" -> SeedMaint(f)      [] part = "kinds" -> BackfillKinds(f)
      [] part = "colors" -> PaintPipelines(f)
      [] part = "chats" -> GiveWorkersChats(f)
      [] part = "exped" -> SeedExpedited(f)  [] part = "stopped" -> RememberStopped(f)

\* One write of a migration; the last one stamps the folder.
Apply(p) ==
    /\ proc[p].pc = "apply"
    /\ LET m == proc[p].at
           done == proc[p].part = Len(Steps[m])
           f == Migrated(ws, proc[p].v, Steps[m][proc[p].part])
       IN  IF ~done
           THEN /\ ws' = f
                /\ proc' = [proc EXCEPT ![p].part = @ + 1]
           ELSE \/ ws' = f /\ proc' = [proc EXCEPT ![p].part = 0, ![p].pc = "stamp"]
                \/ ws' = f /\ Ends(p)         \* it fails; nothing is stamped
    /\ UNCHANGED <<world, old>>

Stamp(p) ==
    /\ proc[p].pc = "stamp"
    /\ ws' = [ws EXCEPT !.stamp = proc[p].at, !.versioned = TRUE]
    /\ proc' = IF proc[p].at < proc[p].v
               THEN [proc EXCEPT ![p].pc = "apply", ![p].at = @ + 1, ![p].part = 1]
               ELSE [proc EXCEPT ![p].pc = "reconcile"]
    /\ UNCHANGED <<world, old>>

\* board.json is told the schema the version file has.
Reconcile(p) ==
    /\ proc[p].pc = "reconcile"
    /\ ws' = [ws EXCEPT !.schema = IF ws.board THEN proc[p].v ELSE @]
    /\ Goes(p, "sync")
    /\ UNCHANGED <<world, old>>

-----------------------------------------------------------------------------
(* prompts.sync *)

\* `migrate` is over here; `serve` and `ship` go on to serve.
GoesOn(p) == IF proc[p].cmd = "migrate" THEN Ends(p) ELSE Goes(p, "bind")

\* Mutant: a prompt without a baseline counts as never edited.
UntouchedUnproved == ws.base = NoFile \/ ws.prompt = ws.base

\* It was never edited if it still is what it was scaffolded from.
Untouched == ws.base # NoFile /\ ws.prompt = ws.base

Sync(p) ==
    /\ proc[p].pc = "sync"
    /\ LET new == Default(proc[p].v) IN
       \/ /\ ws.prompt # NoFile /\ ws.prompt # new /\ Untouched
          /\ ws' = [ws EXCEPT !.prompt = new]
          /\ Goes(p, "rebase")
       \/ /\ ws.prompt = new
          /\ ws' = [ws EXCEPT !.base = new]
          /\ GoesOn(p)
       \/ /\ ws.prompt = NoFile \/ (ws.prompt # new /\ ~Untouched)
          /\ GoesOn(p) /\ UNCHANGED ws
    /\ UNCHANGED <<world, old>>

Rebase(p) ==
    /\ proc[p].pc = "rebase"
    /\ ws' = [ws EXCEPT !.base = Default(proc[p].v)]
    /\ GoesOn(p)
    /\ UNCHANGED <<world, old>>

-----------------------------------------------------------------------------
(* The board *)

\* PipelineConfig: a file is seeded, or filled where a pipeline has no columns.
LoadPipelines(f, v) ==
    LET known == Known(v) \cap PipeMarks
        whole == f.pipes /\ known \ {"colors"} \subseteq f.marks
    IN  [f EXCEPT !.pipes = TRUE,
                  !.marks = (@ \cap BoardMarks) \cup (IF whole THEN @ \cap PipeMarks ELSE known)]
\* Board: what it finds missing it makes, and writes if there was anything.
LoadBoard(f, v) ==
    LET clean == f.board /\ f.schema = v
    IN  [f EXCEPT !.board = TRUE, !.schema = v,
                  !.marks = (@ \cap PipeMarks)
                            \cup ((IF clean THEN @ ELSE Known(v)) \cap BoardMarks)]
\* WorkerStore: a column without a prompt gets the default, and its baseline.
Scaffold(f, v) == IF f.prompt = NoFile THEN [f EXCEPT !.prompt = Default(v), !.base = Default(v)] ELSE f

Loaded(f, v) == Scaffold(LoadBoard(LoadPipelines(Settled(f, v), v), v), v)

\* Mutant: a folder that is up to date is served whatever lies next to it.
BindStrands(p) ==
    /\ proc[p].pc = "bind"
    /\ IF Pending(proc[p].v) THEN Ends(p) /\ UNCHANGED ws
       ELSE /\ ws' = Loaded(ws, proc[p].v)
            /\ IF Serving # {} THEN Ends(p)
               ELSE proc' = [proc EXCEPT ![p].pc = "serving", ![p].mem = ws.cards]
    /\ UNCHANGED <<world, old>>

\* create_app, then the port: the one that is taken ends the process.
Bind(p) ==
    /\ proc[p].pc = "bind"
    /\ IF Pending(proc[p].v) \/ old = "data"
       THEN Ends(p) /\ UNCHANGED ws
       ELSE /\ ws' = Loaded(ws, proc[p].v)
            /\ IF Serving # {} THEN Ends(p)
               ELSE proc' = [proc EXCEPT ![p].pc = "serving", ![p].mem = ws.cards]
    /\ UNCHANGED <<world, old>>

\* A save writes what this release knows, and nothing else.
SavesBoard(p) ==
    /\ proc[p].pc = "serving"
    /\ ws' = [ws EXCEPT !.cards = proc[p].mem, !.schema = proc[p].v,
                        !.marks = (@ \ BoardMarks) \cup (Known(proc[p].v) \cap BoardMarks)]
    /\ UNCHANGED <<world, old, proc>>

SavesPipelines(p) ==
    /\ proc[p].pc = "serving"
    /\ ws' = [ws EXCEPT !.marks = (@ \ PipeMarks) \cup (Known(proc[p].v) \cap PipeMarks)]
    /\ UNCHANGED <<world, old, proc>>

AddsCard(p) ==
    /\ proc[p].pc = "serving" /\ "new" \notin born
    /\ born' = born \cup {"new"}
    /\ proc' = [proc EXCEPT ![p].mem = @ \cup {"new"}]
    /\ ws' = [ws EXCEPT !.cards = proc[p].mem \cup {"new"}, !.schema = proc[p].v,
                        !.marks = (@ \ BoardMarks) \cup (Known(proc[p].v) \cap BoardMarks)]
    /\ UNCHANGED <<code, old, edited, pulls, kills>>

-----------------------------------------------------------------------------
(* shipping.drain_and_stop *)

Ask(p) ==
    /\ proc[p].pc = "ask"
    /\ Goes(p, IF Serving = {} THEN "probe" ELSE "wait")
    /\ UNCHANGED rest

\* A count of nought ends the wait, or the timeout if it may force; otherwise the
\* timeout gives up.  A board that does not answer any more is an exception.
Wait(p) ==
    /\ proc[p].pc = "wait"
    /\ (Serving # {} /\ Goes(p, "stop")) \/ Ends(p)
    /\ UNCHANGED rest

\* The shutdown is refused while anything runs, which is an exception too; or
\* the board will end in a moment.  One that is about to come back may do either.
Stop(p) ==
    /\ proc[p].pc = "stop"
    /\ \/ \E q \in Serving : \E next \in {"exit", proc[q].next} \ {"stay"} :
             proc' = [proc EXCEPT ![q].next = next, ![p].pc = "gone"]
       \/ Ends(p)
    /\ UNCHANGED rest

\* The client asks until nobody answers, or gives up.
Gone(p) ==
    /\ proc[p].pc = "gone"
    /\ IF Serving = {} THEN Goes(p, "probe") ELSE Ends(p)
    /\ UNCHANGED rest

\* The restart button: nothing runs, and the board will come back in a moment.
Restarts(p) ==
    /\ proc[p].pc = "serving" /\ proc[p].next # "again"
    /\ proc' = [proc EXCEPT ![p].next = "again"]
    /\ UNCHANGED rest

\* The moment is over: until then it served and wrote as before.  The process
\* ends, or becomes the code that is on the disk now.
Leaves(p) ==
    /\ proc[p].pc = "serving" /\ proc[p].next # "stay"
    /\ proc' = [proc EXCEPT ![p] = IF proc[p].next = "exit" THEN Off ELSE Started("serve")]
    /\ UNCHANGED rest

-----------------------------------------------------------------------------
(* The human and the machine *)

\* A release is pulled while nothing is on its way up or being migrated.
Pull(v) ==
    /\ pulls < MaxPulls /\ v > code
    /\ \A p \in Procs : proc[p].pc \in {"off", "serving"}
    /\ code' = v /\ pulls' = pulls + 1
    /\ UNCHANGED <<ws, old, proc, born, edited, kills>>

\* The prompt and the standing orders are rewritten, by hand or through the board.
Edits ==
    /\ ws.prompt # NoFile /\ ws.policy # "none" /\ ~edited
    /\ ws' = [ws EXCEPT !.prompt.body = MINE, !.policy = "mine"]
    /\ edited' = TRUE
    /\ UNCHANGED <<code, old, proc, born, pulls, kills>>

Dies(p) ==
    /\ kills < MaxKills /\ proc[p] # Off
    /\ kills' = kills + 1
    /\ Ends(p)
    /\ UNCHANGED <<code, ws, old, born, edited, pulls>>

Migrates(p) ==
    \/ Probe(p) \/ Ensure(p) \/ AdoptNothing(p) \/ MoveAside(p) \/ SettlePolicy(p)
    \/ BornCurrent(p)
    \/ \E item \in {"board", "pipes", "prompt"} : Adopt(p, item)
    \/ Backup(p) \/ Apply(p) \/ Stamp(p) \/ Reconcile(p) \/ Sync(p) \/ Rebase(p)

Serves(p) == Bind(p) \/ SavesBoard(p) \/ SavesPipelines(p) \/ AddsCard(p)
Ships(p) == Ask(p) \/ Wait(p) \/ Stop(p) \/ Gone(p) \/ Restarts(p) \/ Leaves(p)

Next ==
    \/ \E p \in Procs : \/ \E cmd \in {"serve", "migrate", "ship"} : Start(p, cmd)
                        \/ Migrates(p) \/ Serves(p) \/ Ships(p) \/ Dies(p)
    \/ Edits
    \/ \E v \in Pulled : Pull(v)

Spec == Init /\ [][Next]_vars

-----------------------------------------------------------------------------
(* Properties *)

\* The folder has what its schema version says it has, at any moment, and a
\* board that serves has what its release needs: no migration is undone by a
\* board that was up, by another migration, or by a death between two writes
\* (migrations/__init__.py:8-14, update.py:109, __main__.py:155-158).
Has(v) == (ws.board => Known(v) \cap BoardMarks \subseteq ws.marks)
          /\ (ws.pipes => Known(v) \cap PipeMarks \subseteq ws.marks)

NeverHalfMigrated ==
    /\ Has(ws.stamp)
    /\ \A p \in Serving : Has(proc[p].v) /\ ws.board /\ ws.pipes

\* Whoever serves, serves all the cards there ever were: those of the folder
\* and those of an old board that was found (workspace.py:163-170).
AllCardsServed ==
    \A p \in Serving : born \subseteq proc[p].mem /\ proc[p].mem \subseteq ws.cards

\* What the human wrote into a prompt or into the standing orders is his: no
\* migration, merge or start writes over it (prompts.py:25, policy.py:60).
YoursKept ==
    [][/\ ws.prompt.body = MINE => ws'.prompt.body = MINE
       /\ ws.policy = "mine" => ws'.policy = "mine"]_vars
=============================================================================
