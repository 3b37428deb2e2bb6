------------------------------- MODULE Board --------------------------------
(***************************************************************************)
(* The kanban board of one working folder: its columns (pipelines.json),   *)
(* its cards (board.json), the folder tree that mirrors them, and the file *)
(* and the chat of every column's worker.                                  *)
(*                                                                         *)
(* An operation holds the board's lock and does not await between its      *)
(* first write and its last, so it is one step; board.json is written      *)
(* last, and the process may be killed before that write: see Written.     *)
(* While the board is up board.json and the memory agree, so one variable  *)
(* stands for both.  A manager drives a card in one of two ways: the agent *)
(* with his tools (free to use them in any order) or the mock manager.     *)
(***************************************************************************)
EXTENDS Naturals, Sequences, FiniteSets, TLC, SequencesExt

CONSTANTS
    Cards,       \* card ids, each used at most once
    Columns,     \* column ids
    Titles,      \* what a column may be called
    Managers,
    Files,       \* names of the files workers put into a card's folder
    Seeded,      \* DEFAULT_COLUMNS: [pipeline -> sequence of columns]
    SeedTitle,   \* their titles
    SeedGates,   \* those that are gates
    First,       \* the manager a fresh board has
    NoColumn,    \* the "" of a card in the backlog
    Blank,       \* a scaffolded worker file: nobody's contract
    Edited,      \* bound: the pipelines whose columns are changed
    NewGates,    \* bound: whether a new column may be, or may not be, a gate
    MaxEdits,    \* bound: changes of columns, and managers added
    MaxMishaps   \* bound: deaths, and writes to a folder the card has left

ORIGIN_PIPELINES == {"plan", "maint"}
ROUTABLE == {"plan", "maint", "exped"}
PIPELINES == ROUTABLE \cup {"build"}
KINDS == {"feature", "maintenance"}

ASSUME ConstantsOK ==
    /\ IsFiniteSet(Columns)
    /\ Seeded \in [PIPELINES -> Seq(Columns) \ {<<>>}]
    /\ SeedTitle \in [Columns -> Titles] /\ SeedGates \subseteq Columns
    \* A column is generated for each title of a pipeline, and they differ.
    /\ \A p, q \in PIPELINES : \A i \in DOMAIN Seeded[p], j \in DOMAIN Seeded[q] :
          Seeded[p][i] = Seeded[q][j] \/ (p = q /\ SeedTitle[Seeded[p][i]] = SeedTitle[Seeded[q][j]])
             => p = q /\ i = j
    /\ NoColumn \notin Columns /\ Blank \notin Columns /\ First \in Managers
    /\ Edited \subseteq PIPELINES /\ NewGates \subseteq BOOLEAN /\ MaxEdits \in Nat /\ MaxMishaps \in Nat

VARIABLES
    cols,        \* pipelines.json: the columns of each pipeline, in order
    slug,        \* pipelines.json: the on-disk name of each column
    gates,       \* pipelines.json: the columns that are gates
    cards,       \* board.json: a function whose domain is the cards there are
    chats,       \* board.json: "<pipeline>/<slug>" -> the column it is about
    managers,    \* board.json: in the order they were added
    disk,        \* each card's folders: [place -> files]
    workers,     \* worker files: "<pipeline>/<slug>" -> whose contract it holds
    up,          \* the process runs
    mock,        \* which manager drives the cards
    turn,        \* the manager's turn on each card
    at,          \* the folder a running worker was told to write to
    gone,        \* history: cards whose purge was completed
    adrift,      \* history: cards with files where the board may not look for them
    edits, kills, strays

vars == <<cols, slug, gates, cards, chats, managers, disk, workers, up, mock, turn, at,
          gone, adrift, edits, kills, strays>>
config == <<cols, slug, gates>>
counters == <<edits, strays>>

-----------------------------------------------------------------------------
(* Columns, slugs and places *)

InUse(cl) == UNION {Range(cl[p]) : p \in PIPELINES}
PipelineOf(cl, c) == CHOOSE p \in PIPELINES : c \in Range(cl[p])
Position(s, c) == CHOOSE i \in DOMAIN s : s[i] = c

\* slugify, and -2, -3, ... while another column of the pipeline has the name.
UniqueSlug(cl, sl, p, title, except) ==
    LET taken == {sl[c] : c \in Range(cl[p]) \ {except}}
        free == {n \in 1..(Cardinality(Columns) + 1) : <<title, n>> \notin taken}
    IN  <<title, CHOOSE n \in free : \A m \in free : n <= m>>

NextColumn(c) ==
    IF c \notin InUse(cols) THEN NoColumn
    ELSE LET s == cols[PipelineOf(cols, c)]  i == Position(s, c)
         IN  IF i < Len(s) THEN s[i + 1] ELSE NoColumn

Backlog == <<"backlog">>
Trash == <<"trash">>
Nowhere == <<>>
KeyOf(cl, sl, c) == <<PipelineOf(cl, c)>> \o sl[c]   \* folder, worker file and chat
HomeOf(rec, cl, sl) == IF rec.column \in InUse(cl) THEN KeyOf(cl, sl, rec.column) ELSE Backlog

\* Mutant: a folder that is there already is replaced.
MoveDirOver(d, src, dst) ==
    [x \in (DOMAIN d \ {src}) \cup {dst} |-> IF x = dst THEN d[src] ELSE d[x]]

\* _move_dir: a folder moves whole, or is merged into one that is there already.
MoveDir(d, src, dst) ==
    IF dst \notin DOMAIN d
    THEN [x \in (DOMAIN d \ {src}) \cup {dst} |-> IF x = dst THEN d[src] ELSE d[x]]
    ELSE LET both == d[src] \cap d[dst]
             left == IF both = {} THEN DOMAIN d \ {src} ELSE DOMAIN d
         IN  [x \in left |-> CASE x = dst -> d[src] \cup d[dst]
                               [] x = src -> both
                               [] OTHER -> d[x]]

With(f, x, v) == [y \in DOMAIN f \cup {x} |-> IF y = x THEN v ELSE f[y]]

Made(d, x) == IF x \in DOMAIN d THEN d ELSE With(d, x, {})

\* Mutant: a folder that is not where it should be is made, and none is moved.
FollowMade(d, have, want) == Made(d, want)

\* _ensure_card_dir
Follow(d, have, want) ==
    IF have \in DOMAIN d /\ have # want THEN MoveDir(d, have, want) ELSE Made(d, want)

Put(d, x, f) == [Made(d, x) EXCEPT ![x] = @ \cup {f}]

-----------------------------------------------------------------------------
(* Kinds *)

KindForPipeline(p, kind) ==
    CASE p = "plan" -> "feature" [] p = "maint" -> "maintenance" [] OTHER -> kind

-----------------------------------------------------------------------------
(* Turns *)

Idle == [pc |-> "idle", col |-> NoColumn, say |-> "none"]
Says == {"none", "triage", "go", "expedite", "approve", "other"}
PCs == {"idle", "asked", "route", "top", "work", "judge"}

NoSlug == <<>>
SeedSlug == [c \in Columns |-> IF c \in InUse(Seeded) THEN <<SeedTitle[c], 1>> ELSE NoSlug]

Init ==
    /\ cols = Seeded /\ slug = SeedSlug /\ gates = SeedGates
    /\ cards = <<>> /\ chats = <<>> /\ managers = <<First>>
    /\ disk = [k \in Cards |-> <<>>]
    /\ workers = [x \in {KeyOf(Seeded, SeedSlug, c) : c \in InUse(Seeded)} |->
                    CHOOSE c \in InUse(Seeded) : KeyOf(Seeded, SeedSlug, c) = x]
    /\ up = TRUE /\ mock \in BOOLEAN
    /\ turn = [k \in Cards |-> Idle] /\ at = [k \in Cards |-> Nowhere]
    /\ gone = {} /\ adrift = {} /\ edits = 0 /\ kills = 0 /\ strays = 0

-----------------------------------------------------------------------------
(* The last write of every operation, and the death that may forestall it.  *)

Dies ==
    /\ kills + strays < MaxMishaps
    /\ kills' = kills + 1
    /\ up' = FALSE
    /\ turn' = [k \in Cards |-> Idle]
    /\ at' = [k \in Cards |-> Nowhere]
    /\ UNCHANGED <<cards, chats, managers, gone>>

Saved(cd, ch, mg, gn, tn) ==
    /\ cards' = cd /\ chats' = ch /\ managers' = mg /\ gone' = gn /\ turn' = tn
    /\ UNCHANGED <<up, kills, at, adrift>>

Written(cd, ch, mg, gn, tn) == Saved(cd, ch, mg, gn, tn) \/ (Dies /\ UNCHANGED adrift)

\* Where only board.json says where a card's folder was moved to, a death before
\* that write leaves the files where no start will look for them.
DiesAdrift ==
    /\ Dies
    /\ adrift' = adrift \cup {k \in DOMAIN cards :
                      cards[k].dir \in DOMAIN disk[k] /\ disk'[k] # disk[k]}

Recorded(cd, tn) == Saved(cd, chats, managers, gone, tn) \/ DiesAdrift

\* A card is put where its column says, folder and all.
Settle(k, rec, tn) ==
    LET home == HomeOf(rec, cols, slug) IN
    /\ disk' = [disk EXCEPT ![k] = Follow(@, rec.dir, home)]
    /\ Recorded(With(cards, k, [rec EXCEPT !.dir = home]), tn)
    /\ UNCHANGED <<config, workers, mock, counters>>

\* A change of fields that moves nothing: board.json is all it writes, and a
\* death before that is a death before the operation.
Amend(k, rec, tn) ==
    /\ Saved(With(cards, k, rec), chats, managers, gone, tn)
    /\ UNCHANGED <<config, workers, mock, counters, disk>>

OnlyTurn(tn) ==
    /\ turn' = tn
    /\ UNCHANGED <<config, cards, chats, managers, disk, workers, up, mock, at, gone,
                   adrift, counters, kills>>

Present(k) == up /\ k \in DOMAIN cards

-----------------------------------------------------------------------------
(* Cards: what the server and the manager's tools ask of the board          *)

Fresh(k) == up /\ k \notin DOMAIN cards \cup gone /\ disk[k] = <<>>

Newborn(p, kind, m) ==
    [pipeline |-> p, column |-> IF p = "backlog" THEN NoColumn ELSE Head(cols[p]),
     kind |-> IF kind \in KINDS THEN kind ELSE KindForPipeline(p, "unset"),
     trashed |-> FALSE, from |-> NoColumn, dir |-> Nowhere, owner |-> m,
     planned |-> p \in ORIGIN_PIPELINES,     \* history: it was in an origin pipeline
     free |-> p = "exped" /\ kind \notin KINDS] \* history: put where no rule was asked

\* add_card: born in the backlog unless the pipeline is routable; a manager
\* that is not there is the first one.  An untyped card is triaged at once.
AddCard(k, p, kind, m) ==
    /\ Fresh(k)
    /\ LET rec == Newborn(IF p \in ROUTABLE THEN p ELSE "backlog", kind,
                          IF m \in Range(managers) THEN m ELSE Head(managers))
       IN  Settle(k, rec, IF rec.kind \in KINDS \/ ~mock THEN turn
                          ELSE [turn EXCEPT ![k] = [Idle EXCEPT !.pc = "asked", !.say = "triage"]])

\* create_card of the board chat, an agent's: the two origins only, and no kind.
ChatCreates(k, p, m) == ~mock /\ p \in ORIGIN_PIPELINES /\ AddCard(k, p, "unset", m)

\* Crossing into an origin stamps the kind; a move takes a card out of the
\* trash.  (trashed_from is read in the trash only and forgotten outside.)
Moved(rec, c) ==
    LET p == PipelineOf(cols, c) IN
    [rec EXCEPT !.kind = IF p = rec.pipeline THEN @ ELSE KindForPipeline(p, @),
                !.pipeline = p, !.column = c, !.trashed = FALSE,
                !.from = NoColumn, !.planned = @ \/ p \in ORIGIN_PIPELINES]

MoveCard(k, c, tn) == c \in InUse(cols) /\ Settle(k, Moved(cards[k], c), tn)

\* A call that names the column moves any card there: neither its kind nor
\* where it has been is looked at.
PutIn(k, c) ==
    /\ Present(k) /\ c \in InUse(cols)
    /\ Settle(k, [Moved(cards[k], c) EXCEPT !.free = TRUE], turn)

\* A person drags the card.
Drag(k, c) == PutIn(k, c)

\* move_card of the board chat, the agent's: the card's own pipeline first, then
\* any other.
ChatMoves(k, c) == ~mock /\ PutIn(k, c)

\* Mutant: whoever routes is trusted to have typed the card.
RouteCardUntyped(k, p, tn) == Present(k) /\ p \in ROUTABLE /\ MoveCard(k, Head(cols[p]), tn)

RouteCard(k, p, tn) ==
    /\ Present(k) /\ p \in ROUTABLE /\ cards[k].kind \in KINDS
    /\ MoveCard(k, Head(cols[p]), tn)

PromoteToBuild(k, tn) ==
    /\ Present(k) /\ cards[k].pipeline \in ORIGIN_PIPELINES
    /\ MoveCard(k, Head(cols["build"]), tn)

SendToBacklog(k) ==
    /\ Present(k) /\ cards[k].pipeline # "backlog"
    /\ Settle(k, [cards[k] EXCEPT !.pipeline = "backlog", !.column = NoColumn,
                                  !.trashed = FALSE, !.from = NoColumn], turn)

SetCardKind(k, kind) ==
    /\ Present(k) /\ cards[k].kind # kind /\ kind \in KINDS
    /\ Amend(k, [cards[k] EXCEPT !.kind = kind], turn)

AssignCard(k, m) ==
    /\ Present(k) /\ m \in Range(managers) /\ cards[k].owner # m
    /\ Amend(k, [cards[k] EXCEPT !.owner = m], turn)

TrashCard(k) ==
    /\ Present(k) /\ ~cards[k].trashed
    /\ disk' = [disk EXCEPT ![k] = Follow(@, cards[k].dir, Trash)]
    /\ Recorded(With(cards, k, [cards[k] EXCEPT !.from = cards[k].column, !.trashed = TRUE,
                                                !.dir = Trash]), turn)
    /\ UNCHANGED <<config, workers, mock, counters>>

\* Back to its column, which stamps the kind, or to the backlog if that is gone.
RestoreCard(k) ==
    /\ Present(k) /\ cards[k].trashed
    /\ LET c == cards[k].from IN
       IF c \in InUse(cols)
       THEN Settle(k, [cards[k] EXCEPT !.pipeline = PipelineOf(cols, c), !.column = c,
                                       !.kind = KindForPipeline(PipelineOf(cols, c), @),
                                       !.trashed = FALSE, !.from = NoColumn], turn)
       ELSE Settle(k, [cards[k] EXCEPT !.pipeline = "backlog", !.column = NoColumn,
                                       !.trashed = FALSE, !.from = NoColumn], turn)

PurgeCard(k) ==
    /\ Present(k) /\ cards[k].trashed
    /\ disk' = [disk EXCEPT ![k] = Restrict(@, DOMAIN @ \ {cards[k].dir})]
    /\ Written(Restrict(cards, DOMAIN cards \ {k}), chats, managers, gone \cup {k}, turn)
    /\ UNCHANGED <<config, workers, mock, counters>>

-----------------------------------------------------------------------------
(* Managers *)

AddManager(m) ==
    /\ up /\ edits < MaxEdits /\ m \notin Range(managers)
    /\ edits' = edits + 1
    /\ Saved(cards, chats, Append(managers, m), gone, turn)
    /\ UNCHANGED <<config, workers, mock, disk, strays>>

RemoveManager(m) ==
    /\ up /\ m \in Range(managers) /\ Len(managers) > 1
    /\ LET rest == RemoveAt(managers, Position(managers, m))
       IN  Saved([k \in DOMAIN cards |->
                       IF cards[k].owner = m THEN [cards[k] EXCEPT !.owner = Head(rest)]
                       ELSE cards[k]], chats, rest, gone, turn)
    /\ UNCHANGED <<config, workers, mock, disk, counters>>

-----------------------------------------------------------------------------
(* Columns *)

\* What PipelineConfig does to the order of the columns.
Appended(cl, p, c) == [cl EXCEPT ![p] = Append(@, c)]
Reordered(cl, c, i) == [cl EXCEPT ![PipelineOf(cl, c)] = InsertAt(RemoveAt(@, Position(@, c)), i, c)]
Without(cl, c) == [cl EXCEPT ![PipelineOf(cl, c)] = RemoveAt(@, Position(@, c))]
Retitled(c, title) == [slug EXCEPT ![c] = UniqueSlug(cols, slug, PipelineOf(cols, c), title, c)]

\* WorkerStore.delete: archived, out of reach of the board.
Archived(w, x) == Restrict(w, DOMAIN w \ {x})

\* WorkerStore.ensure: a worker file that is there is kept, whoever's it is.
Ensured(w, x, c) == IF x \in DOMAIN w THEN w ELSE With(w, x, c)

Editing(c) == up /\ edits < MaxEdits /\ \E p \in Edited : c \in Range(cols[p])

\* (The client never sends an index: a new column is the last of its pipeline.)
AddColumn(p, title, gate) ==
    /\ up /\ edits < MaxEdits
    /\ edits' = edits + 1
    /\ \E c \in Columns :
        /\ slug[c] = NoSlug
        /\ cols' = Appended(cols, p, c)
        /\ gates' = IF gate THEN gates \cup {c} ELSE gates
        /\ slug' = [slug EXCEPT ![c] = UniqueSlug(cols, slug, p, title, c)]
        /\ \/ /\ workers' = Ensured(workers, KeyOf(cols', slug', c), c)
              /\ Written(cards, chats, managers, gone, turn)
           \/ Dies /\ UNCHANGED <<adrift, workers>>      \* pipelines.json is written first
    /\ UNCHANGED <<mock, disk, strays>>

\* The folder of the column moves with all that is in it, entry by entry if
\* the new one is there already.
Carried(d, old, new) ==
    IF old \in DOMAIN d /\ new \notin DOMAIN d THEN MoveDir(d, old, new) ELSE d

ReKeyed(f, old, new) ==
    IF old \in DOMAIN f
    THEN [x \in (DOMAIN f \ {old}) \cup {new} |-> IF x = new THEN f[old] ELSE f[x]]
    ELSE f

RenameColumn(c, title) ==
    /\ Editing(c)
    /\ edits' = edits + 1
    /\ slug' = Retitled(c, title)
    /\ slug' # slug
    /\ LET old == KeyOf(cols, slug, c)
           new == KeyOf(cols, slug', c)
           in(k) == k \in DOMAIN cards /\ cards[k].column = c /\ ~cards[k].trashed
           moved == [k \in Cards |-> Carried(disk[k], old, new)]
       IN  \/ /\ disk' = [k \in Cards |-> IF in(k) THEN Follow(moved[k], cards[k].dir, new)
                                                   ELSE moved[k]]
              /\ workers' = Ensured(ReKeyed(workers, old, new), new, Blank)
              /\ Written([k \in DOMAIN cards |->
                             IF in(k) THEN [cards[k] EXCEPT !.dir = new] ELSE cards[k]],
                         ReKeyed(chats, old, new), managers, gone, turn)
           \/ Dies /\ UNCHANGED <<disk, adrift, workers>>     \* pipelines.json is written first
    /\ UNCHANGED <<cols, gates, mock, strays>>

SetColumnGate(c) ==
    /\ Editing(c)
    /\ edits' = edits + 1
    /\ gates' = IF c \in gates THEN gates \ {c} ELSE gates \cup {c}
    /\ UNCHANGED <<cols, slug, cards, chats, managers, disk, workers, up, mock, turn, at,
                   gone, adrift, strays, kills>>

ReorderColumn(c, i) ==
    /\ Editing(c)
    /\ edits' = edits + 1
    /\ i \in 1..Len(cols[PipelineOf(cols, c)])
    /\ cols' = Reordered(cols, c, i)
    /\ UNCHANGED <<slug, gates, cards, chats, managers, disk, workers, up, mock, turn, at,
                   gone, adrift, strays, kills>>

\* Its cards fall back to the column before it; the worker file is archived,
\* the chat stays where it is.
DeleteColumn(c) ==
    /\ Editing(c)
    /\ edits' = edits + 1
    /\ LET p == PipelineOf(cols, c)
           i == Position(cols[p], c)
           fallback == cols[p][IF i > 1 THEN i - 1 ELSE i + 1]
           home == KeyOf(cols, slug, fallback)
           stranded(k) == k \in DOMAIN cards /\ cards[k].column = c /\ ~cards[k].trashed
       IN  /\ Len(cols[p]) > 1
           /\ disk' = [k \in Cards |-> IF stranded(k) THEN Follow(disk[k], cards[k].dir, home)
                                                      ELSE disk[k]]
           /\ \/ /\ cols' = Without(cols, c)
                 /\ workers' = Archived(workers, KeyOf(cols, slug, c))
                 /\ Recorded([k \in DOMAIN cards |->
                                 IF stranded(k) THEN [cards[k] EXCEPT !.column = fallback, !.dir = home]
                                 ELSE cards[k]], turn)
              \/ DiesAdrift /\ UNCHANGED <<cols, workers>>     \* the folders move first
    /\ UNCHANGED <<slug, gates, mock, strays>>

\* A column's worker is talked about: the chat is made when it is first opened.
OpenWorkerChat(c) ==
    /\ Editing(c) /\ KeyOf(cols, slug, c) \notin DOMAIN chats
    /\ edits' = edits + 1
    /\ Saved(cards, With(chats, KeyOf(cols, slug, c), c), managers, gone, turn)
    /\ UNCHANGED <<config, disk, workers, mock, strays>>

-----------------------------------------------------------------------------
(* The manager's agent, free to call his tools while his run is on: and any  *)
(* message starts a run, so he may be at a card whenever it is there.        *)

To(k, t) == [turn EXCEPT ![k] = t]
Busy(k) == Present(k) /\ ~mock

MoveNext(k) == Busy(k) /\ MoveCard(k, NextColumn(cards[k].column), turn)

MoveWithin(k, c) ==
    /\ Busy(k) /\ cards[k].pipeline # "backlog" /\ c \in Range(cols[cards[k].pipeline])
    /\ MoveCard(k, c, turn)

AgentTypes(k, kind) == Busy(k) /\ cards[k].kind \notin KINDS /\ SetCardKind(k, kind)
AgentRoutes(k, p) == Busy(k) /\ RouteCard(k, p, turn)
AgentPromotes(k) == Busy(k) /\ PromoteToBuild(k, turn)

\* The briefing names the folder as it is now; the worker writes there.
Delegate(k) ==
    /\ Busy(k) /\ at[k] = Nowhere /\ cards[k].column \in InUse(cols)
    /\ at' = [at EXCEPT ![k] = cards[k].dir]
    /\ UNCHANGED <<config, cards, chats, managers, disk, workers, up, mock, turn, gone,
                   adrift, counters, kills>>

Lands(k, x, f) ==
    /\ disk' = [disk EXCEPT ![k] = Put(@, x, f)]
    /\ IF k \in DOMAIN cards /\ cards[k].dir = x THEN UNCHANGED <<strays, adrift>>
       ELSE /\ kills + strays < MaxMishaps /\ strays' = strays + 1
            /\ adrift' = adrift \cup {k}

WorkerWrites(k, f) ==
    /\ up /\ at[k] # Nowhere
    /\ Lands(k, at[k], f)
    /\ UNCHANGED <<config, cards, chats, managers, workers, up, mock, turn, at, gone,
                   edits, kills>>

WorkerReports(k) ==
    /\ up /\ at[k] # Nowhere
    /\ at' = [at EXCEPT ![k] = Nowhere]
    /\ UNCHANGED <<config, cards, chats, managers, disk, workers, up, mock, turn, gone,
                   adrift, counters, kills>>

-----------------------------------------------------------------------------
(* The mock manager: gates are his to keep                                  *)

Walks == [Idle EXCEPT !.pc = "top"]

\* _mock_card up to its first await: type a backlog card, or pass the gate
\* the human has just approved, and walk on.
MockHears(k, say) ==
    /\ Present(k) /\ mock
    /\ \/ turn[k] = Idle /\ say \notin {"none", "triage"}
       \/ turn[k].pc = "asked" /\ say = turn[k].say
    /\ LET rec == cards[k]
           nxt == NextColumn(rec.column)
           route == To(k, [Idle EXCEPT !.pc = "route", !.say = say])
           walk == To(k, Walks)
       IN  \/ /\ rec.pipeline = "backlog" /\ rec.kind \in KINDS
              /\ OnlyTurn(route)
           \/ /\ rec.pipeline = "backlog" /\ rec.kind \notin KINDS
              /\ \E kind \in KINDS : Amend(k, [rec EXCEPT !.kind = kind], route)
           \/ /\ rec.pipeline # "backlog" /\ rec.column \notin gates
              /\ OnlyTurn(walk)
           \/ /\ rec.pipeline # "backlog" /\ rec.column \in gates
              /\ IF say = "approve"
                 THEN IF nxt \in Columns THEN MoveCard(k, nxt, walk)
                      ELSE IF rec.pipeline \in ORIGIN_PIPELINES THEN PromoteToBuild(k, walk)
                      ELSE OnlyTurn(To(k, Idle))
                 ELSE OnlyTurn(To(k, Idle))

MockRoutes(k) ==
    /\ up /\ mock /\ turn[k].pc = "route"
    /\ IF k \in DOMAIN cards /\ turn[k].say \in {"go", "expedite"}
       THEN RouteCard(k, IF turn[k].say = "go" /\ cards[k].kind = "maintenance" THEN "maint"
                         ELSE "exped", To(k, Idle))
       ELSE OnlyTurn(To(k, Idle))

\* The top of _mock_advance's loop.  A board that is winding down stops it.
MockWorks(k) ==
    /\ up /\ mock /\ turn[k].pc = "top"
    /\ \/ OnlyTurn(To(k, Idle))
       \/ /\ k \in DOMAIN cards /\ cards[k].column \in InUse(cols)
          /\ OnlyTurn(To(k, [Idle EXCEPT !.pc = "work", !.col = cards[k].column]))

\* The artifact goes to where the card object says it is: a purged card's
\* object still names the trash.
MockWrites(k, f) ==
    /\ up /\ mock /\ turn[k].pc = "work"
    /\ Lands(k, IF k \in DOMAIN cards THEN cards[k].dir ELSE Trash, f)
    /\ turn' = [turn EXCEPT ![k].pc = "judge"]
    /\ UNCHANGED <<config, cards, chats, managers, workers, up, mock, at, gone, edits, kills>>

MockJudges(k) ==
    /\ up /\ mock /\ turn[k].pc = "judge"
    /\ LET nxt == NextColumn(turn[k].col) IN
       IF turn[k].col \in gates \/ nxt = NoColumn \/ k \notin DOMAIN cards
       THEN OnlyTurn(To(k, Idle))
       ELSE MoveCard(k, nxt, To(k, Walks))

-----------------------------------------------------------------------------
(* The process                                                              *)

Killed ==
    /\ up /\ Dies
    /\ UNCHANGED <<config, disk, adrift, workers, mock, counters>>

\* _load and _bootstrap.  A folder that is not at its recorded place is made
\* there, empty.
Boot ==
    /\ ~up
    /\ LET placed == [k \in DOMAIN cards |->
               IF ~cards[k].trashed /\ cards[k].pipeline # "backlog" /\ cards[k].column \notin InUse(cols)
               THEN [cards[k] EXCEPT !.pipeline = "backlog", !.column = NoColumn]
               ELSE cards[k]]
           stays(k) == k \notin DOMAIN cards \/ placed[k].trashed
           home(k) == HomeOf(placed[k], cols, slug)
           keys == {KeyOf(cols, slug, c) : c \in InUse(cols)}
       IN  /\ disk' = [k \in Cards |-> IF stays(k) THEN disk[k]
                                       ELSE Follow(disk[k], placed[k].dir, home(k))]
           /\ workers' = workers @@ [x \in keys |-> Blank]
           /\ \/ /\ cards' = [k \in DOMAIN cards |-> IF stays(k) THEN placed[k]
                                                     ELSE [placed[k] EXCEPT !.dir = home(k)]]
                 /\ up' = TRUE
                 /\ UNCHANGED <<chats, managers, gone, kills, turn, at>>
              \/ Dies
    /\ UNCHANGED <<config, adrift, mock, counters>>

\* The requests of the web client about a card.
CardSteps(k) ==
    \/ \E p \in PIPELINES \cup {"backlog"}, kind \in KINDS \cup {"unset"}, m \in Managers :
          AddCard(k, p, kind, m)
    \/ \E c \in Columns : Drag(k, c)
    \/ \E p \in PIPELINES : RouteCard(k, p, turn)
    \/ SendToBacklog(k) \/ TrashCard(k) \/ RestoreCard(k) \/ PurgeCard(k)
    \/ \E kind \in KINDS : SetCardKind(k, kind)
    \/ \E m \in Managers : AssignCard(k, m)

\* The tools of the card's and of the board's agent.
AgentSteps(k) ==
    \/ MoveNext(k) \/ AgentPromotes(k)
    \/ \E c \in Columns : MoveWithin(k, c) \/ ChatMoves(k, c)
    \/ \E p \in PIPELINES, m \in Managers : ChatCreates(k, p, m)
    \/ \E kind \in KINDS : AgentTypes(k, kind)
    \/ \E p \in PIPELINES : AgentRoutes(k, p)
    \/ Delegate(k) \/ WorkerReports(k) \/ \E f \in Files : WorkerWrites(k, f)

MockSteps(k) ==
    \/ \E say \in Says : MockHears(k, say)
    \/ MockRoutes(k) \/ MockWorks(k) \/ MockJudges(k)
    \/ \E f \in Files : MockWrites(k, f)

\* The requests of the web client about managers, columns and workers.
ColumnSteps ==
    \/ \E m \in Managers : AddManager(m) \/ RemoveManager(m)
    \/ \E p \in Edited, t \in Titles, gate \in NewGates : AddColumn(p, t, gate)
    \/ \E c \in Columns, t \in Titles : RenameColumn(c, t)
    \/ \E c \in Columns, i \in 1..Cardinality(Columns) : ReorderColumn(c, i)
    \/ \E c \in Columns : SetColumnGate(c) \/ DeleteColumn(c) \/ OpenWorkerChat(c)

Next ==
    \/ \E k \in Cards : CardSteps(k) \/ AgentSteps(k) \/ MockSteps(k)
    \/ ColumnSteps \/ Killed \/ Boot

Spec == Init /\ [][Next]_vars

-----------------------------------------------------------------------------
(* Properties *)

\* The folder tree mirrors the board (board.py:7): whenever the board is up,
\* also after a death in the middle of an operation, a card is in the backlog
\* or in a column there is, its folder is at that place and there on the disk,
\* its manager exists, and no two columns of a pipeline share a folder.  And all
\* of its files are in that folder, in the trash too, but for a card adrift: one
\* whose folder was moved when the process died before board.json said so, or
\* that a worker wrote for where it no longer was.
TreeMirrorsBoard ==
    up =>
    /\ \A k \in DOMAIN cards :
        /\ cards[k].owner \in Range(managers)
        /\ IF cards[k].trashed THEN cards[k].dir = Trash
           ELSE /\ \/ cards[k].pipeline = "backlog" /\ cards[k].column = NoColumn
                   \/ cards[k].column \in Range(cols[cards[k].pipeline])
                /\ cards[k].dir = HomeOf(cards[k], cols, slug)
                /\ cards[k].dir \in DOMAIN disk[k]
        /\ k \notin adrift => \A x \in DOMAIN disk[k] \ {cards[k].dir} : disk[k][x] = {}
    /\ \A c, d \in InUse(cols) : KeyOf(cols, slug, c) = KeyOf(cols, slug, d) => c = d

\* Routing, approval and promotion, in any order and by either kind of manager,
\* never take an untyped card out of the backlog, nor a card into build that
\* was in no planning pipeline (board.py:662, models.py:56).  Three calls ask
\* nothing: a person's drag, the board chat's move_card, and the creation of a
\* card without a kind in the fast lane; the rule holds of a card that none of
\* them has put anywhere.
RoutedRight ==
    up => \A k \in DOMAIN cards :
        (~cards[k].trashed /\ ~cards[k].free) =>
            /\ cards[k].pipeline # "backlog" => cards[k].kind \in KINDS
            /\ cards[k].pipeline = "build" => cards[k].planned

\* The board implements the life of a card: born once, archived, brought back,
\* purged from the trash only, and no file of it lost on the way, whatever is
\* renamed, deleted or merged under it and wherever the process dies.
StageOf(k) ==
    CASE k \in gone -> "gone"
      [] k \in DOMAIN cards \ gone -> IF cards[k].trashed THEN "trash" ELSE "board"
      [] OTHER -> "unborn"

Life == INSTANCE CardLife WITH
    stage <- [k \in Cards |-> StageOf(k)],
    kept <- [k \in Cards |-> UNION {disk[k][x] : x \in DOMAIN disk[k]}]

LivesItsLife == Life!Spec

=============================================================================
